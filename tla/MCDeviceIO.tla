----------------------------- MODULE MCDeviceIO -----------------------------
(***************************************************************************)
(* DeviceIO with two processes, one device of the device tree and one with *)
(* a ring of two bytes.                                                    *)
(***************************************************************************)
EXTENDS DeviceIO

CONSTANTS soc, uart

MCLoadOrder == <<soc, uart>>

=============================================================================
