----------------------------- MODULE MCQemuRing -----------------------------
(***************************************************************************)
(* QemuRing with two threads, a ring of two slots whose counters wrap at   *)
(* four, and transfers of up to two bytes, so that a transfer is cut short *)
(* by a full or an empty ring and spans a wrap of the array and of a       *)
(* counter.                                                                *)
(***************************************************************************)
EXTENDS QemuRing

=============================================================================
