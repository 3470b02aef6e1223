----------------------------- MODULE MCGpuAccel -----------------------------
(***************************************************************************)
(* GpuAccel with two clients, two queues and one buffer, over a log whose  *)
(* array and counter both wrap; the numbers of completions wrap as well.   *)
(* The events of other kinds are one value: no property tells them apart.  *)
(***************************************************************************)
EXTENDS GpuAccel, TLC

CONSTANTS other

MCEvents == Completions \union {other}

MCSymmetry == Permutations(Clients)

=============================================================================
