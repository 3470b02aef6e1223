------------------------------ MODULE Registry ------------------------------
(***************************************************************************)
(* The registry of the kernel module (src/core/registry.c) at the level of *)
(* its pointers: three circular doubly linked lists (list_head of          *)
(* linux/list.h), one per kind of object, all guarded by the one mutex     *)
(* kdal_registry_lock.  Each function takes the mutex once and holds it to *)
(* the end, so each call is one action.                                    *)
(*                                                                         *)
(* An object's list node is embedded in it.  The objects are static or     *)
(* come from kzalloc, so a node starts with two NULL pointers, which is    *)
(* neither "on a list" nor "empty" to list_empty().                        *)
(*                                                                         *)
(* The owners of the objects follow the protocol of the callers in the     *)
(* repository: unregister is called only for an object that was passed to  *)
(* register before, and an object's memory is disposed of only when its    *)
(* owner does not take it for registered.                                  *)
(***************************************************************************)
EXTENDS Integers, Sequences, FiniteSets

CONSTANTS
  Backends, Drivers, Devices,  \* the objects of the three kinds
  Incomplete,                  \* those without a name or without ops
  Names,                       \* the names they may carry
  Classes,                     \* enum kdal_device_class
  ObjectName,                  \* [object -> name]
  ObjectClass,                 \* [object -> class]
  BackendHead, DriverHead, DeviceHead,  \* the three list heads
  OK, EEXIST, EINVAL, NULL

Objects == Backends \union Drivers \union Devices
Heads == {BackendHead, DriverHead, DeviceHead}
Nodes == Objects \union Heads

ASSUME ObjectsAssumption ==
  /\ Backends \intersect Drivers = {}
  /\ Backends \intersect Devices = {}
  /\ Drivers \intersect Devices = {}
  /\ Objects \intersect Heads = {}
  /\ Cardinality(Heads) = 3
  /\ NULL \notin Nodes
  /\ ObjectName \in [Objects -> Names]
  /\ ObjectClass \in [Objects -> Classes]
  /\ Incomplete \subseteq Objects
  /\ IsFiniteSet(Objects)

VARIABLES
  next, prev,  \* the pointers of every node
  status,      \* what the owner of each object knows of it
  ret,         \* what the last call returned
  fault        \* a list operation went through a NULL pointer

vars == <<next, prev, status, ret, fault>>

HeadOf(o) ==
  IF o \in Backends THEN BackendHead
  ELSE IF o \in Drivers THEN DriverHead
  ELSE DeviceHead

ObjectsOf(h) == {o \in Objects : HeadOf(o) = h}

Init ==
  /\ next = [n \in Nodes |-> IF n \in Heads THEN n ELSE NULL]
  /\ prev = [n \in Nodes |-> IF n \in Heads THEN n ELSE NULL]
  /\ status = [o \in Objects |-> "new"]
  /\ ret = NULL
  /\ fault = FALSE

-----------------------------------------------------------------------------
(* linux/list.h, as registry.c uses it.                                    *)

\* The nodes a walk from head h comes to, as many as there are objects for it;
\* behind the last object it stays at the head.
Walk(h) ==
  LET node[k \in 1 .. Cardinality(ObjectsOf(h))] ==
        IF k = 1 THEN next[h]
        ELSE IF node[k - 1] \in Objects THEN next[node[k - 1]] ELSE h
  IN  node

\* The objects the walk of list_for_each_entry visits from head h, in order.
ListOf(h) ==
  LET node == Walk(h)
  IN  [k \in {j \in DOMAIN node : \A i \in 1 .. j : node[i] \in Objects} |-> node[k]]

OnList(h) == LET list == ListOf(h) IN {list[k] : k \in DOMAIN list}

InitListHead(n) ==
  /\ next' = [next EXCEPT ![n] = n]
  /\ prev' = [prev EXCEPT ![n] = n]

\* list_add: the new node goes to the front.
ListAddFront(n, h) ==
  /\ next' = [next EXCEPT ![n] = next[h], ![h] = n]
  /\ prev' = [prev EXCEPT ![n] = h, ![next[h]] = n]

ListAddTail(n, h) ==
  /\ next' = [next EXCEPT ![n] = h, ![prev[h]] = n]
  /\ prev' = [prev EXCEPT ![n] = prev[h], ![h] = n]

ListEmpty(n) == next[n] = n

\* list_del, which poisons the node it removes.
ListDelPoison(n) ==
  IF NULL \in {next[n], prev[n]}
    THEN fault' = TRUE /\ UNCHANGED <<next, prev>>
    ELSE /\ next' = [next EXCEPT ![prev[n]] = next[n], ![n] = "poison"]
         /\ prev' = [prev EXCEPT ![next[n]] = prev[n], ![n] = "poison"]
         /\ UNCHANGED fault

ListDelInit(n) ==
  IF NULL \in {next[n], prev[n]}
    THEN fault' = TRUE /\ UNCHANGED <<next, prev>>
    ELSE /\ next' = [next EXCEPT ![prev[n]] = next[n], ![n] = n]
         /\ prev' = [prev EXCEPT ![next[n]] = prev[n], ![n] = n]
         /\ UNCHANGED fault

-----------------------------------------------------------------------------
SameName(o) == {p \in OnList(HeadOf(o)) : ObjectName[p] = ObjectName[o]}

\* RegisterObject whose duplicate branch re-initialises every node.
RegisterObjectReinit(o) ==
  /\ o \notin Incomplete
  /\ IF SameName(o) # {}
       THEN /\ InitListHead(o)
            /\ ret' = EEXIST
            /\ status' = [status EXCEPT ![o] = IF @ = "on" THEN "on" ELSE "tried"]
       ELSE /\ ListAddTail(o, HeadOf(o))
            /\ ret' = OK
            /\ status' = [status EXCEPT ![o] = "on"]
  /\ UNCHANGED fault

\* RegisterObject whose duplicate branch leaves the node as it was.
RegisterObjectNoInit(o) ==
  /\ o \notin Incomplete
  /\ IF SameName(o) # {}
       THEN /\ UNCHANGED <<next, prev>>
            /\ ret' = EEXIST
            /\ status' = [status EXCEPT ![o] = IF @ = "on" THEN "on" ELSE "tried"]
       ELSE /\ ListAddTail(o, HeadOf(o))
            /\ ret' = OK
            /\ status' = [status EXCEPT ![o] = "on"]
  /\ UNCHANGED fault

\* The body the three register functions share.  An owner whose object was
\* already registered keeps taking it for registered when it is told EEXIST.
RegisterObject(o) ==
  /\ o \notin Incomplete
  /\ IF SameName(o) # {}
       THEN /\ IF o \notin SameName(o)
                 THEN InitListHead(o)
                 ELSE UNCHANGED <<next, prev>>
            /\ ret' = EEXIST
            /\ status' = [status EXCEPT ![o] = IF @ = "on" THEN "on" ELSE "tried"]
       ELSE /\ ListAddTail(o, HeadOf(o))
            /\ ret' = OK
            /\ status' = [status EXCEPT ![o] = "on"]
  /\ UNCHANGED fault

RegisterBackend(b) == b \in Backends /\ RegisterObject(b)
RegisterDriver(d)  == d \in Drivers /\ RegisterObject(d)
RegisterDevice(d)  == d \in Devices /\ RegisterObject(d)

\* The argument check of the three: -EINVAL before the mutex is taken.
RegisterIncomplete(o) ==
  /\ o \in Incomplete
  /\ ret' = EINVAL
  /\ UNCHANGED <<next, prev, status, fault>>

\* UnregisterObject with its list_empty test the wrong way round.
UnregisterObjectInverted(o) ==
  /\ status[o] # "new"
  /\ IF ListEmpty(o) THEN ListDelInit(o) ELSE UNCHANGED <<next, prev, fault>>
  /\ status' = [status EXCEPT ![o] = "tried"]
  /\ UNCHANGED ret

\* The body the three unregister functions share, called by an owner that has
\* called register for the object.
UnregisterObject(o) ==
  /\ status[o] # "new"
  /\ IF ListEmpty(o) THEN UNCHANGED <<next, prev, fault>> ELSE ListDelInit(o)
  /\ status' = [status EXCEPT ![o] = "tried"]
  /\ UNCHANGED ret

UnregisterBackend(b) == b \in Backends /\ UnregisterObject(b)
UnregisterDriver(d)  == d \in Drivers /\ UnregisterObject(d)
UnregisterDevice(d)  == d \in Devices /\ UnregisterObject(d)

\* The memory of an object its owner does not take for registered is freed
\* and later allocated zeroed again (kfree and kzalloc of a DT entry).
DisposeDevice(d) ==
  /\ d \in Devices
  /\ status[d] = "tried"
  /\ next' = [next EXCEPT ![d] = NULL]
  /\ prev' = [prev EXCEPT ![d] = NULL]
  /\ status' = [status EXCEPT ![d] = "new"]
  /\ UNCHANGED <<ret, fault>>

\* The first object on the list that is one of those wanted, in list order.
FirstOf(h, wanted) ==
  LET list    == ListOf(h)
      matches == {k \in DOMAIN list : list[k] \in wanted}
  IN  IF matches = {} THEN NULL
      ELSE list[CHOOSE k \in matches : \A j \in matches : k <= j]

FindBackend(name) ==
  /\ ret' = FirstOf(BackendHead, {b \in Backends : ObjectName[b] = name})
  /\ UNCHANGED <<next, prev, status, fault>>

FindDriver(class) ==
  /\ ret' = FirstOf(DriverHead, {d \in Drivers : ObjectClass[d] = class})
  /\ UNCHANGED <<next, prev, status, fault>>

FindDevice(name) ==
  /\ ret' = FirstOf(DeviceHead, {d \in Devices : ObjectName[d] = name})
  /\ UNCHANGED <<next, prev, status, fault>>

\* kdal_for_each_device with a callback that stops at the devices in stop; the
\* callback runs under the mutex and does not change the list.
ForEachDevice(stop) ==
  LET list    == ListOf(DeviceHead)
      stops   == {k \in DOMAIN list : list[k] \in stop}
      visited == {k \in DOMAIN list : \A j \in stops : k <= j}
  IN  /\ ret' = [k \in visited |-> list[k]]
      /\ UNCHANGED <<next, prev, status, fault>>

GetRegistrySnapshot ==
  /\ ret' = [h \in Heads |-> Len(ListOf(h))]
  /\ UNCHANGED <<next, prev, status, fault>>

Next ==
  \/ \E o \in Objects : \/ RegisterBackend(o)
                        \/ RegisterDriver(o)
                        \/ RegisterDevice(o)
                        \/ RegisterIncomplete(o)
                        \/ UnregisterBackend(o)
                        \/ UnregisterDriver(o)
                        \/ UnregisterDevice(o)
                        \/ DisposeDevice(o)
  \/ \E n \in Names : FindBackend(n) \/ FindDevice(n)
  \/ \E c \in Classes : FindDriver(c)
  \/ \E stop \in SUBSET Devices : ForEachDevice(stop)
  \/ GetRegistrySnapshot

Spec == Init /\ [][Next]_vars

-----------------------------------------------------------------------------
TypeOK ==
  /\ next \in [Nodes -> Nodes \union {NULL}]
  /\ prev \in [Nodes -> Nodes \union {NULL}]
  /\ status \in [Objects -> {"new", "on", "tried"}]
  /\ fault \in BOOLEAN

\* The pointers of every node that has any agree with its neighbours', so a
\* walk in either direction from a head comes back to it (registry.c adds with
\* list_add_tail and removes with list_del_init only).
DoublyLinked ==
  \A n \in Nodes :
    \/ next[n] = NULL /\ prev[n] = NULL /\ n \notin Heads
    \/ /\ next[n] \in Nodes /\ prev[next[n]] = n
       /\ prev[n] \in Nodes /\ next[prev[n]] = n

\* An object is on the list exactly when its owner takes it for registered, so
\* the memory of a linked object is never freed: in particular a refused
\* registration leaves neither a list entry behind nor one missing (the
\* "Never reinitialise a node that is on the list" branch).
OwnersAgree == \A o \in Objects : status[o] = "on" <=> o \in OnList(HeadOf(o))

\* unregister after a refused register is harmless: list_del_init never runs
\* on the two NULL pointers of a node that was never on a list, because the
\* duplicate branch of register makes it an empty list head.
NoNullDeref == ~fault

\* The lists as sequences.
Lists == INSTANCE RegistryLists WITH
           Kinds   <- Heads,
           KindOf  <- [o \in Objects |-> HeadOf(o)],
           NameOf  <- ObjectName,
           ClassOf <- ObjectClass,
           lists   <- [h \in Heads |-> ListOf(h)]

\* The pointer structure behaves as three lists in order of registration with
\* unique names, whatever the interleaving of register, unregister, disposal
\* and look-ups (registry.c, "thread-safe registration" of docs/architecture.md).
ImplementsLists == Lists!Spec

=============================================================================
