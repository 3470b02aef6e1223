----------------------------- MODULE MCRegistry -----------------------------
(***************************************************************************)
(* Two backends and two drivers, two devices that compete for one name and *)
(* a third whose name is its own: every branch of register and unregister, *)
(* lists of up to two and three entries.                                   *)
(***************************************************************************)
EXTENDS Registry

CONSTANTS b1, b2, d1, d2, v1, v2, v3, qemu, uart, spi, dev0, dev1, CUart, CSpi

MCName ==
  [o \in Objects |->
     CASE o \in {b1, b2} -> qemu
       [] o = d1 -> uart
       [] o = d2 -> spi
       [] o \in {v1, v2} -> dev0
       [] OTHER -> dev1]

\* Both drivers are of one class.
MCClass == [o \in Objects |-> IF o \in Drivers THEN CUart ELSE CSpi]

=============================================================================
