--------------------------- MODULE RegistryLists ----------------------------
(***************************************************************************)
(* What the registry promises: for each kind of object a list in order of  *)
(* registration, in which no two objects share a name.  Registering a name *)
(* that is taken is refused and changes nothing; a look-up returns the     *)
(* object registered first among those that match; an iteration visits     *)
(* every object in order of registration until the callback stops it.      *)
(* Registry implements this specification.                                 *)
(***************************************************************************)
EXTENDS Integers, SequencesExt

CONSTANTS
  Kinds,    \* the kinds of objects
  Objects,  \* the objects
  Names, Classes,
  KindOf, NameOf, ClassOf,  \* functions of the objects
  OK, EEXIST, EINVAL,       \* what register returns
  NULL                      \* nothing matches

VARIABLES
  lists,  \* the registered objects of each kind, oldest first
  ret     \* what the last call returned

vars == <<lists, ret>>

MembersOf(list) == {list[i] : i \in DOMAIN list}

\* The first object of a list in a set.
FirstIndex(list, S) ==
  CHOOSE i \in DOMAIN list : list[i] \in S /\ \A j \in 1 .. i - 1 : list[j] \notin S
FirstIn(list, S) ==
  IF MembersOf(list) \intersect S # {} THEN list[FirstIndex(list, S)] ELSE NULL

Init == lists = [k \in Kinds |-> <<>>] /\ ret = NULL

Taken(o) == \E p \in MembersOf(lists[KindOf[o]]) : NameOf[p] = NameOf[o]

Register(o) ==
  /\ ret' = OK
  /\ ~Taken(o)
  /\ lists' = [lists EXCEPT ![KindOf[o]] = Append(@, o)]

Unregister(o) ==
  /\ UNCHANGED ret
  /\ \/ o \notin MembersOf(lists[KindOf[o]]) /\ UNCHANGED lists
     \/ \E i \in DOMAIN lists[KindOf[o]] :
          /\ lists[KindOf[o]][i] = o
          /\ lists' = [lists EXCEPT ![KindOf[o]] = RemoveAt(@, i)]

\* The calls that leave the lists as they are.
Refuse(o) == ret' = EEXIST /\ Taken(o)

Reject == ret' = EINVAL

Find(k, S) == ret' = FirstIn(lists[k], S)

\* The callback stops the iteration after n objects.
Visit(k, n) ==
  /\ n = 0 => lists[k] = <<>>
  /\ ret' = SubSeq(lists[k], 1, n)

Count == ret' = [k \in Kinds |-> Len(lists[k])]

Query ==
  \/ \E o \in Objects : Refuse(o)
  \/ Reject
  \/ \E k \in Kinds :
       \/ \E name \in Names : Find(k, {o \in Objects : NameOf[o] = name})
       \/ \E class \in Classes : Find(k, {o \in Objects : ClassOf[o] = class})
       \/ \E n \in 0 .. Len(lists[k]) : Visit(k, n)
  \/ Count

Next ==
  \/ \E o \in Objects : Register(o) \/ Unregister(o)
  \/ UNCHANGED lists /\ Query

Spec == Init /\ [][Next]_vars

=============================================================================
