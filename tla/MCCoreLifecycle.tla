--------------------------- MODULE MCCoreLifecycle --------------------------
(***************************************************************************)
(* CoreLifecycle with a device tree of three nodes, two of one name and    *)
(* one that is called as the uart's device is.                             *)
(***************************************************************************)
EXTENDS CoreLifecycle

MCDTNodes == <<"sensor", "uart0", "sensor">>

=============================================================================
