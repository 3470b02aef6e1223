---------------------------- MODULE KdalityNames ----------------------------
(***************************************************************************)
(* Register names in the tables of kdality simulate and kdality lint: an   *)
(* entry has room for NAME_LEN - 1 characters (simulate.c:25, lint.c:31),  *)
(* and strncpy cuts off the rest.  The names of the syntax tree have any   *)
(* length, and an entry is always compared with a whole name.              *)
(***************************************************************************)

CONSTANT Cut   \* the names that do not fit, with what is left of each

\* What is left of a name fits.
ASSUME CutAssumption == \A name \in DOMAIN Cut : Cut[name] \notin DOMAIN Cut

\* strncpy of a name into an entry.
StoredName(name) == IF name \in DOMAIN Cut THEN Cut[name] ELSE name

=============================================================================
