--------------------------- MODULE RegistryProofs ---------------------------
(***************************************************************************)
(* For any objects, names and classes: the pointer operations of           *)
(* registry.c keep three well-formed rings, and behave as the three lists  *)
(* of RegistryLists.                                                       *)
(*                                                                         *)
(* The invariant says that there are three sequences of objects such that  *)
(* the pointers are those of the rings of the sequences.  A registration   *)
(* appends to one of them, an unregistration removes one element; that     *)
(* the walk of list_for_each_entry yields the sequence is a lemma about    *)
(* rings, proved once, by the first place at which it could go astray.     *)
(***************************************************************************)
EXTENDS Registry, NatFacts, SequenceTheorems, FiniteSetTheorems, NaturalsInduction

-----------------------------------------------------------------------------
(* Rings.                                                                  *)

\* The k-th node from head h of the ring of s: the head is behind the last.
RingAt(h, s, k) == IF k \in 1 .. Len(s) THEN s[k] ELSE h

IsRing(h, s, nx, pv) ==
  /\ s \in Seq(ObjectsOf(h))
  /\ \A i, j \in 1 .. Len(s) : s[i] = s[j] => i = j
  /\ \A k \in 0 .. Len(s) : /\ nx[RingAt(h, s, k)] = RingAt(h, s, k + 1)
                            /\ pv[RingAt(h, s, k + 1)] = RingAt(h, s, k)

Members(s) == {s[i] : i \in 1 .. Len(s)}

PointerType == [Nodes -> Nodes \union {NULL}]

LEMMA HeadsAndObjects ==
  /\ \A o \in Objects : HeadOf(o) \in Heads /\ o \in ObjectsOf(HeadOf(o))
  /\ \A h : ObjectsOf(h) \subseteq Objects
  /\ Objects \intersect Heads = {} /\ Nodes = Objects \union Heads
  /\ NULL \notin Nodes
BY ObjectsAssumption DEF HeadOf, Heads, ObjectsOf, Nodes

LEMMA RingSeq ==
  ASSUME NEW h \in Heads, NEW s \in Seq(ObjectsOf(h))
  PROVE  /\ Len(s) \in Nat
         /\ \A k \in 1 .. Len(s) : s[k] \in ObjectsOf(h) /\ s[k] \in Objects
         /\ \A k \in 1 .. Len(s) : RingAt(h, s, k) = s[k]
         /\ RingAt(h, s, 0) = h
         /\ \A k \in Int : k > Len(s) => RingAt(h, s, k) = h
         /\ \A k \in Int : RingAt(h, s, k) \in Nodes
         /\ h \notin Objects
<1>1. Len(s) \in Nat
  BY LenProperties
<1>2. \A k \in 1 .. Len(s) : s[k] \in ObjectsOf(h) /\ s[k] \in Objects
  BY ElementOfSeq, HeadsAndObjects
<1>3. 0 \notin 1 .. Len(s) /\ \A k \in Int : k > Len(s) => k \notin 1 .. Len(s)
  BY <1>1, SMT
<1>4. h \in Nodes /\ h \notin Objects /\ Objects \subseteq Nodes
  BY HeadsAndObjects
<1> QED BY <1>1, <1>2, <1>3, <1>4 DEF RingAt

\* The nodes of a ring are distinct: the head from the objects, and these from
\* one another.
LEMMA RingDistinct ==
  ASSUME NEW h \in Heads, NEW s, NEW nx, NEW pv, IsRing(h, s, nx, pv)
  PROVE  /\ \A i, j \in 0 .. Len(s) : RingAt(h, s, i) = RingAt(h, s, j) => i = j
         /\ \A i, j \in 1 .. Len(s) + 1 : RingAt(h, s, i) = RingAt(h, s, j) => i = j
<1>1. /\ Len(s) \in Nat
      /\ \A k \in 1 .. Len(s) : RingAt(h, s, k) = s[k] /\ s[k] # h
      /\ RingAt(h, s, 0) = h /\ RingAt(h, s, Len(s) + 1) = h
      /\ \A i, j \in 1 .. Len(s) : s[i] = s[j] => i = j
  <2>1. s \in Seq(ObjectsOf(h))
    BY DEF IsRing
  <2>2. Len(s) + 1 \in Int /\ Len(s) + 1 > Len(s)
    BY <2>1, RingSeq, SMT
  <2> QED BY <2>1, <2>2, RingSeq DEF IsRing
<1>2. \A i \in 0 .. Len(s) : i = 0 \/ i \in 1 .. Len(s)
  BY <1>1, SMT
<1>3. \A i \in 1 .. Len(s) + 1 : i = Len(s) + 1 \/ i \in 1 .. Len(s)
  BY <1>1, SMT
<1> QED BY <1>1, <1>2, <1>3

\* A ring of objects is no longer than there are objects for it.
LEMMA RingBound ==
  ASSUME NEW h \in Heads, NEW s, NEW nx, NEW pv, IsRing(h, s, nx, pv)
  PROVE  /\ Cardinality(ObjectsOf(h)) \in Nat
         /\ Len(s) <= Cardinality(ObjectsOf(h))
<1>1. s \in Seq(ObjectsOf(h)) /\ \A i, j \in 1 .. Len(s) : s[i] = s[j] => i = j
  BY DEF IsRing
<1>2. Len(s) \in Nat /\ s \in [1 .. Len(s) -> ObjectsOf(h)]
  BY <1>1, LenProperties
<1>3. s \in Injection(1 .. Len(s), ObjectsOf(h))
  BY <1>1, <1>2 DEF Injection, IsInjective
<1>4. IsFiniteSet(ObjectsOf(h))
  BY ObjectsAssumption, HeadsAndObjects, FS_Subset
<1>5. Cardinality(1 .. Len(s)) = Len(s)
  <2>1. 1 \in Int /\ Len(s) \in Int
    BY <1>2, SMT
  <2>2. Cardinality(1 .. Len(s)) = IF 1 > Len(s) THEN 0 ELSE Len(s) - 1 + 1
    BY <2>1, FS_Interval
  <2> QED BY <1>2, <2>2, SMT
<1>6. Cardinality(1 .. Len(s)) <= Cardinality(ObjectsOf(h))
  BY <1>3, <1>4, FS_Injection
<1> QED BY <1>4, <1>5, <1>6, FS_CardinalityType

-----------------------------------------------------------------------------
(* The walk.                                                               *)

\* What node k of the walk from h is, given the walk w.
WalkNode(h, w, k) ==
  IF k = 1 THEN next[h]
  ELSE IF w[k - 1] \in Objects THEN next[w[k - 1]] ELSE h

\* A walk that has come to node k - 1 of a ring goes on to node k.
LEMMA WalkOn ==
  ASSUME NEW h \in Heads, NEW s, IsRing(h, s, next, prev),
         NEW w, NEW k \in Nat \ {0}, k # 1 => w[k - 1] = RingAt(h, s, k - 1)
  PROVE  WalkNode(h, w, k) = RingAt(h, s, k)
<1>0. s \in Seq(ObjectsOf(h))
  BY DEF IsRing
<1>1. CASE k = 1
  <2>1. 0 \in 0 .. Len(s) /\ 0 + 1 = 1
    BY <1>0, RingSeq, SMT
  <2>2. next[h] = RingAt(h, s, 1)
    BY <1>0, <2>1, RingSeq DEF IsRing
  <2> QED BY <1>1, <2>2 DEF WalkNode
<1>2. CASE k # 1
  <2>1. k \in Int /\ k - 1 \in Int /\ (k - 1) + 1 = k /\ k - 1 >= 1 /\ Len(s) \in Nat
    BY <1>0, <1>2, RingSeq, SMT
  <2>2. CASE k - 1 <= Len(s)
    <3>1. k - 1 \in 1 .. Len(s) /\ k - 1 \in 0 .. Len(s)
      BY <2>1, <2>2, SMT
    <3>2. RingAt(h, s, k - 1) \in Objects
      BY <1>0, <3>1, RingSeq
    <3>3. next[RingAt(h, s, k - 1)] = RingAt(h, s, k)
      BY <2>1, <3>1 DEF IsRing
    <3> QED BY <1>2, <3>2, <3>3 DEF WalkNode
  <2>3. CASE ~ k - 1 <= Len(s)
    <3>1. k - 1 > Len(s) /\ k > Len(s)
      BY <2>1, <2>3, SMT
    <3>2. RingAt(h, s, k - 1) = h /\ RingAt(h, s, k) = h /\ h \notin Objects
      BY <1>0, <2>1, <3>1, RingSeq
    <3> QED BY <1>2, <3>2 DEF WalkNode
  <2> QED BY <2>2, <2>3
<1> QED BY <1>1, <1>2

\* The recursive definition of the walk has a solution when the pointers form
\* a ring, so the walk is one.
LEMMA WalkEquation ==
  ASSUME NEW h \in Heads, NEW s, IsRing(h, s, next, prev)
  PROVE  Walk(h) = [k \in 1 .. Cardinality(ObjectsOf(h)) |-> WalkNode(h, Walk(h), k)]
<1> DEFINE N == Cardinality(ObjectsOf(h))
           w == [k \in 1 .. N |-> RingAt(h, s, k)]
<1>1. ASSUME NEW k \in 1 .. N PROVE RingAt(h, s, k) = WalkNode(h, w, k)
  <2>1. k \in Nat \ {0} /\ (k # 1 => k - 1 \in 1 .. N)
    BY RingBound, SMT
  <2> QED BY <2>1, WalkOn
<1>2. w = [k \in 1 .. N |-> WalkNode(h, w, k)]
  BY <1>1
<1> HIDE DEF w
<1> QED BY <1>2, Zenon DEF Walk, WalkNode

LEMMA WalkRing ==
  ASSUME NEW h \in Heads, NEW s, IsRing(h, s, next, prev)
  PROVE  /\ DOMAIN Walk(h) = 1 .. Cardinality(ObjectsOf(h))
         /\ \A k \in 1 .. Cardinality(ObjectsOf(h)) : Walk(h)[k] = RingAt(h, s, k)
<1> DEFINE N == Cardinality(ObjectsOf(h))
           bad == {k \in 1 .. N : Walk(h)[k] # RingAt(h, s, k)}
<1>1. \A k \in 1 .. N : Walk(h)[k] = WalkNode(h, Walk(h), k)
  BY WalkEquation
<1>2. ASSUME bad # {} PROVE FALSE
  <2>1. bad \subseteq Nat
    BY SMT
  <2>2. PICK k \in bad : \A m \in bad : k <= m
    BY <1>2, <2>1, LeastNat
  <2>3. k \in Nat \ {0} /\ (k # 1 => k - 1 \in 1 .. N /\ ~ k <= k - 1)
    BY RingBound, SMT
  <2>4. k # 1 => Walk(h)[k - 1] = RingAt(h, s, k - 1)
    BY <2>2, <2>3
  <2> QED BY <1>1, <2>3, <2>4, WalkOn
<1>3. DOMAIN Walk(h) = 1 .. N
  BY WalkEquation
<1> QED BY <1>2, <1>3

\* The walk of list_for_each_entry yields the sequence of the ring.
LEMMA ListOfRing ==
  ASSUME NEW h \in Heads, NEW s, IsRing(h, s, next, prev)
  PROVE  ListOf(h) = s
<1> DEFINE N == Cardinality(ObjectsOf(h))
           D == {j \in DOMAIN Walk(h) : \A i \in 1 .. j : Walk(h)[i] \in Objects}
<1>0. s \in Seq(ObjectsOf(h)) /\ N \in Nat /\ Len(s) <= N /\ Len(s) \in Nat
  BY RingBound, RingSeq DEF IsRing
<1>1. ASSUME NEW j \in 1 .. Len(s)
      PROVE  j \in D /\ Walk(h)[j] = s[j]
  <2>1. j \in 1 .. N /\ \A i \in 1 .. j : i \in 1 .. N /\ i \in 1 .. Len(s)
    BY <1>0, SMT
  <2>2. \A i \in 1 .. j : Walk(h)[i] \in Objects
    BY <1>0, <2>1, WalkRing, RingSeq
  <2>3. Walk(h)[j] = s[j]
    BY <1>0, <2>1, WalkRing, RingSeq
  <2> QED BY <2>1, <2>2, <2>3, WalkRing
<1>2. ASSUME NEW j \in D PROVE j \in 1 .. Len(s)
  <2>1. j \in 1 .. N
    BY WalkRing
  <2>2. CASE j > Len(s)
    <3>1. Len(s) + 1 \in 1 .. j /\ Len(s) + 1 \in 1 .. N /\ Len(s) + 1 \in Int
          /\ Len(s) + 1 > Len(s)
      BY <1>0, <2>1, <2>2, SMT
    <3>2. Walk(h)[Len(s) + 1] = h /\ h \notin Objects
      BY <1>0, <3>1, WalkRing, RingSeq
    <3> QED BY <3>1, <3>2
  <2> QED BY <1>0, <2>1, <2>2, SMT
<1>3. D = 1 .. Len(s)
  BY <1>1, <1>2
<1>4. s = [k \in 1 .. Len(s) |-> s[k]]
  BY <1>0, LenProperties
<1>5. ListOf(h) = [k \in D |-> Walk(h)[k]]
  BY Zenon DEF ListOf
<1> QED BY <1>1, <1>3, <1>4, <1>5

LEMMA ListOfRingNext ==
  \A h \in Heads : \A s : IsRing(h, s, next', prev') => (ListOf(h))' = s
<1> DEFINE P == \A h \in Heads : \A s : IsRing(h, s, next, prev) => ListOf(h) = s
<1>1. P
  BY ListOfRing
<1>2. P'
  BY <1>1, PTL
<1> QED BY <1>2

-----------------------------------------------------------------------------
(* What the list primitives do to a ring.                                  *)

\* Two pointer fields agree on a set of nodes.
Agree(S, f, g) == \A n \in S : g[n] = f[n]

\* Only the pointers of its nodes matter.
LEMMA RingFrame ==
  ASSUME NEW h \in Heads, NEW s, NEW nx, NEW pv, IsRing(h, s, nx, pv),
         NEW nx2, NEW pv2,
         Agree({h} \union Members(s), nx, nx2), Agree({h} \union Members(s), pv, pv2)
  PROVE  IsRing(h, s, nx2, pv2)
<1>1. \A k : RingAt(h, s, k) \in {h} \union Members(s)
  BY DEF RingAt, Members
<1> QED BY <1>1 DEF IsRing, Agree

\* From the pointers nx, pv of the ring of s to nx2, pv2 of the ring of t, whose
\* members are M, only the pointers of its nodes and of o change.
RingEdit(h, s, o, nx, pv, t, M, nx2, pv2) ==
  /\ IsRing(h, t, nx2, pv2) /\ Members(t) = M
  /\ nx2 \in PointerType /\ pv2 \in PointerType
  /\ Agree(Nodes \ ({h, o} \union Members(s)), nx, nx2)
  /\ Agree(Nodes \ ({h, o} \union Members(s)), pv, pv2)

\* An element of a ring points to two other nodes.
LEMMA RingNeighbours ==
  ASSUME NEW h \in Heads, NEW s, NEW nx, NEW pv, IsRing(h, s, nx, pv),
         NEW o \in Members(s)
  PROVE  nx[o] \in Nodes /\ pv[o] \in Nodes /\ nx[o] # o
<1>1. PICK i \in 1 .. Len(s) : s[i] = o
  BY DEF Members
<1>2. s \in Seq(ObjectsOf(h)) /\ Len(s) \in Nat
  BY RingSeq DEF IsRing
<1>3. /\ i \in 0 .. Len(s) /\ i - 1 \in 0 .. Len(s) /\ (i - 1) + 1 = i
      /\ i - 1 \in Int /\ i + 1 \in Int /\ i \in Int
  BY <1>2, SMT
<1>4. RingAt(h, s, i) = o
  BY <1>1, <1>2, RingSeq
<1>5. nx[o] = RingAt(h, s, i + 1) /\ pv[o] = RingAt(h, s, i - 1)
  BY <1>3, <1>4 DEF IsRing
<1>6. RingAt(h, s, i + 1) # o
  <2>1. CASE i = Len(s)
    <3>1. RingAt(h, s, i + 1) = h
      <4>1. i + 1 > Len(s)
        BY <1>2, <1>3, <2>1, SMT
      <4> QED BY <1>2, <1>3, <4>1, RingSeq
    <3> QED BY <1>1, <1>2, <3>1, RingSeq
  <2>2. CASE i # Len(s)
    <3>1. i + 1 \in 1 .. Len(s) /\ i + 1 # i
      BY <1>2, <2>2, SMT
    <3>2. RingAt(h, s, i + 1) = s[i + 1]
      BY <1>2, <3>1, RingSeq
    <3> QED BY <1>1, <3>1, <3>2 DEF IsRing
  <2> QED BY <2>1, <2>2
<1> QED BY <1>2, <1>3, <1>5, <1>6, RingSeq

\* list_add_tail, from the pointers nx, pv to nx2, pv2.
TailAdded(o, h, nx, pv, nx2, pv2) ==
  /\ nx2 = [nx EXCEPT ![o] = h, ![pv[h]] = o]
  /\ pv2 = [pv EXCEPT ![o] = pv[h], ![h] = o]

LEMMA RingAppend ==
  ASSUME NEW h \in Heads, NEW s, NEW nx \in PointerType, NEW pv \in PointerType,
         IsRing(h, s, nx, pv),
         NEW o \in ObjectsOf(h), o \notin Members(s),
         NEW nx2, NEW pv2, TailAdded(o, h, nx, pv, nx2, pv2)
  PROVE  RingEdit(h, s, o, nx, pv, Append(s, o), Members(s) \union {o}, nx2, pv2)
<1> DEFINE t == Append(s, o)
           n == Len(s)
           last == RingAt(h, s, n)
<1>0. /\ s \in Seq(ObjectsOf(h)) /\ n \in Nat /\ n + 1 \in Int
      /\ o \in Objects /\ o # h /\ h \in Nodes /\ o \in Nodes /\ h \notin Objects
      /\ 0 \in 0 .. n /\ n \in 0 .. n
  <2>1. s \in Seq(ObjectsOf(h))
    BY DEF IsRing
  <2>2. n \in Nat /\ o \in Objects /\ h \notin Objects
    BY <2>1, RingSeq, HeadsAndObjects
  <2>3. n + 1 \in Int /\ 0 \in 0 .. n /\ n \in 0 .. n
    BY <2>2, SMT
  <2> QED BY <2>1, <2>2, <2>3, HeadsAndObjects
<1>1. /\ t \in Seq(ObjectsOf(h)) /\ Len(t) = n + 1
      /\ \A i \in 1 .. n : t[i] = s[i]
      /\ t[n + 1] = o
  BY <1>0, AppendProperties
<1>2. /\ \A k \in 1 .. n : RingAt(h, s, k) = s[k]
      /\ RingAt(h, s, 0) = h /\ RingAt(h, s, n + 1) = h
  BY <1>0, RingSeq, SMT
<1>3. /\ \A k \in 0 .. n : RingAt(h, t, k) = RingAt(h, s, k)
      /\ RingAt(h, t, n + 1) = o
      /\ RingAt(h, t, (n + 1) + 1) = h
  BY <1>0, <1>1, <1>2, SMT DEF RingAt
<1>4. pv[h] = last /\ last \in Nodes /\ last # o
  <2>1. pv[RingAt(h, s, n + 1)] = last
    BY <1>0 DEF IsRing
  <2>2. last \in {h} \union Members(s)
    BY DEF RingAt, Members
  <2> QED BY <1>0, <1>2, <2>1, <2>2, RingSeq
<1>5. /\ nx2 \in PointerType /\ pv2 \in PointerType
      /\ nx2[o] = h /\ nx2[last] = o
      /\ \A m \in Nodes \ {o, last} : nx2[m] = nx[m]
      /\ pv2[o] = last /\ pv2[h] = o
      /\ \A m \in Nodes \ {o, h} : pv2[m] = pv[m]
  BY <1>0, <1>4 DEF PointerType, TailAdded
<1>6. \A i, j \in 1 .. Len(t) : t[i] = t[j] => i = j
  <2>1. \A i \in 1 .. Len(t) : (i \in 1 .. n /\ t[i] = s[i] /\ t[i] # o) \/ (i = n + 1 /\ t[i] = o)
    <3>1. \A i \in 1 .. Len(t) : i \in 1 .. n \/ i = n + 1
      BY <1>0, <1>1, SMT
    <3> QED BY <1>1, <3>1 DEF Members
  <2> QED BY <2>1 DEF IsRing
<1>7. ASSUME NEW k \in 0 .. Len(t)
      PROVE  /\ nx2[RingAt(h, t, k)] = RingAt(h, t, k + 1)
             /\ pv2[RingAt(h, t, k + 1)] = RingAt(h, t, k)
  <2>1. CASE k = n + 1
    BY <1>3, <1>5, <2>1
  <2>2. CASE k = n
    BY <1>0, <1>3, <1>5, <2>2
  <2>3. CASE k # n /\ k # n + 1
    <3>1. k \in 0 .. n /\ k + 1 \in 0 .. n /\ k + 1 \in 1 .. n /\ k + 1 \in 1 .. n + 1
      BY <1>0, <1>1, <2>3, SMT
    <3>2. /\ RingAt(h, t, k) = RingAt(h, s, k)
          /\ RingAt(h, t, k + 1) = RingAt(h, s, k + 1)
          /\ nx[RingAt(h, s, k)] = RingAt(h, s, k + 1)
          /\ pv[RingAt(h, s, k + 1)] = RingAt(h, s, k)
      BY <1>3, <3>1 DEF IsRing
    <3>3. RingAt(h, s, k) # last /\ RingAt(h, s, k + 1) # h
      <4>1. n + 1 # k + 1 /\ n + 1 \in 1 .. n + 1
        BY <1>0, <2>3, <3>1, SMT
      <4> QED BY <1>0, <1>2, <2>3, <3>1, <4>1, RingDistinct
    <3>4. RingAt(h, s, k) # o /\ RingAt(h, s, k + 1) # o
      BY <1>0 DEF RingAt, Members
    <3>5. RingAt(h, s, k) \in Nodes /\ RingAt(h, s, k + 1) \in Nodes
      <4>1. k \in Int /\ k + 1 \in Int
        BY <3>1, SMT
      <4> QED BY <1>0, <4>1, RingSeq
    <3> QED BY <1>5, <3>2, <3>3, <3>4, <3>5
  <2> QED BY <2>1, <2>2, <2>3
<1>8. IsRing(h, t, nx2, pv2)
  BY <1>1, <1>6, <1>7 DEF IsRing
<1>9. last \in {h} \union Members(s)
  BY DEF RingAt, Members
<1>10. Members(t) = Members(s) \union {o}
  <2>1. 1 .. Len(t) = (1 .. n) \union {n + 1}
    BY <1>0, <1>1, SMT
  <2> QED BY <1>1, <2>1 DEF Members
<1> HIDE DEF last, t
<1> QED BY <1>5, <1>8, <1>9, <1>10 DEF Agree, RingEdit, t

\* What removing an element leaves of a sequence.
Without(s, i) == SubSeq(s, 1, i - 1) \o SubSeq(s, i + 1, Len(s))

LEMMA WithoutProperties ==
  ASSUME NEW S, NEW s \in Seq(S), NEW i \in 1 .. Len(s)
  PROVE  /\ Without(s, i) \in Seq(S)
         /\ Len(Without(s, i)) = Len(s) - 1
         /\ \A j \in 1 .. Len(s) - 1 :
              Without(s, i)[j] = IF j < i THEN s[j] ELSE s[j + 1]
<1> DEFINE front == SubSeq(s, 1, i - 1)
           back  == SubSeq(s, i + 1, Len(s))
<1>0. Len(s) \in Nat /\ i \in Int /\ i - 1 \in Int /\ i + 1 \in Int
  BY LenProperties, SMT
<1>1. \A j \in 1 .. i - 1 : s[j] \in S
  BY <1>0, ElementOfSeq, SMT
<1>2. \A j \in i + 1 .. Len(s) : s[j] \in S
  BY <1>0, ElementOfSeq, SMT
<1>3. /\ front \in Seq(S)
      /\ Len(front) = IF 1 <= i - 1 THEN (i - 1) - 1 + 1 ELSE 0
      /\ \A j \in 1 .. (i - 1) - 1 + 1 : front[j] = s[1 + j - 1]
  BY <1>0, <1>1, SubSeqProperties
<1>4. /\ back \in Seq(S)
      /\ Len(back) = IF i + 1 <= Len(s) THEN Len(s) - (i + 1) + 1 ELSE 0
      /\ \A j \in 1 .. Len(s) - (i + 1) + 1 : back[j] = s[(i + 1) + j - 1]
  BY <1>0, <1>2, SubSeqProperties
<1> HIDE DEF front, back
<1>5. /\ Len(front) = i - 1
      /\ Len(back) = Len(s) - i
      /\ \A j \in 1 .. i - 1 : front[j] = s[j]
      /\ \A j \in 1 .. Len(s) - i : back[j] = s[i + j]
  BY <1>0, <1>3, <1>4, SMT
<1>6. /\ front \o back \in Seq(S)
      /\ Len(front \o back) = Len(front) + Len(back)
      /\ \A j \in 1 .. Len(front) + Len(back) :
           (front \o back)[j] = IF j <= Len(front) THEN front[j] ELSE back[j - Len(front)]
  BY <1>3, <1>4, ConcatProperties
<1>7. Without(s, i) = front \o back
  BY DEF front, back, Without
<1>8. Len(front) + Len(back) = Len(s) - 1
  BY <1>0, <1>5, SMT
<1>9. ASSUME NEW j \in 1 .. Len(s) - 1
      PROVE  (front \o back)[j] = IF j < i THEN s[j] ELSE s[j + 1]
  <2>1. CASE j < i
    <3>1. j \in 1 .. i - 1 /\ j <= Len(front) /\ j \in 1 .. Len(front) + Len(back)
      BY <1>0, <1>5, <2>1, SMT
    <3> QED BY <1>5, <1>6, <2>1, <3>1
  <2>2. CASE ~ j < i
    <3>1. /\ j - (i - 1) \in 1 .. Len(s) - i /\ ~ j <= Len(front)
          /\ i + (j - (i - 1)) = j + 1 /\ j \in 1 .. Len(front) + Len(back)
      BY <1>0, <1>5, <2>2, SMT
    <3>2. back[j - (i - 1)] = s[j + 1]
      BY <1>5, <3>1
    <3> QED BY <1>5, <1>6, <2>2, <3>1, <3>2
  <2> QED BY <2>1, <2>2
<1> QED BY <1>6, <1>7, <1>8, <1>9

\* The places of a ring of n elements around the i-th, which is removed.
LEMMA PlacesBefore ==
  ASSUME NEW n \in Nat, NEW i \in 1 .. n, NEW k \in 0 .. n - 1, k < i - 1
  PROVE  /\ k < i /\ k + 1 < i /\ k # i /\ k # i - 1 /\ k + 1 # i /\ k + 1 # i + 1
         /\ k + 1 \in 1 .. n + 1 /\ k + 1 \in 0 .. n + 1 /\ k \in 0 .. n + 1
BY SMT

LEMMA PlacesBehind ==
  ASSUME NEW n \in Nat, NEW i \in 1 .. n, NEW k \in 0 .. n - 1, k >= i
  PROVE  /\ ~ k < i /\ ~ k + 1 < i /\ k + 1 # i /\ k + 1 # i - 1
         /\ (k + 1) + 1 # i /\ (k + 1) + 1 # i + 1
         /\ (k + 1) + 1 \in 1 .. n + 1 /\ (k + 1) + 1 \in 0 .. n + 1 /\ k + 1 \in 0 .. n + 1
BY SMT

LEMMA PlaceAfter ==
  ASSUME NEW n \in Nat, NEW i \in 1 .. n, NEW a \in 1 .. n, a # i, ~ a < i
  PROVE  a - 1 \in 1 .. n - 1 /\ ~ a - 1 < i /\ (a - 1) + 1 = a
BY SMT

\* list_del_init.
NodeRemoved(o, nx, pv, nx2, pv2) ==
  /\ nx2 = [nx EXCEPT ![pv[o]] = nx[o], ![o] = o]
  /\ pv2 = [pv EXCEPT ![nx[o]] = pv[o], ![o] = o]

LEMMA RingRemove ==
  ASSUME NEW h \in Heads, NEW s, NEW nx \in PointerType, NEW pv \in PointerType,
         IsRing(h, s, nx, pv), NEW i \in 1 .. Len(s), NEW o, o = s[i],
         NEW nx2, NEW pv2, NodeRemoved(o, nx, pv, nx2, pv2),
         NEW t, t = Without(s, i)
  PROVE  RingEdit(h, s, o, nx, pv, t, Members(s) \ {o}, nx2, pv2)
<1> DEFINE n == Len(s)
           At(k) == RingAt(h, s, k)
<1>0. /\ s \in Seq(ObjectsOf(h)) /\ n \in Nat /\ i \in Int
      /\ i - 1 \in 0 .. n /\ i \in 0 .. n /\ i + 1 \in 1 .. n + 1 /\ (i - 1) + 1 = i
      /\ i \in 1 .. n + 1
  <2>1. s \in Seq(ObjectsOf(h)) /\ n \in Nat
    BY RingSeq DEF IsRing
  <2> QED BY <2>1, SMT
<1>1. \A k \in 0 .. n + 1 : At(k) \in Nodes /\ At(k) \in {h} \union Members(s)
  <2>1. \A k \in 0 .. n + 1 : k \in Int
    BY SMT
  <2> QED BY <1>0, <2>1, RingSeq DEF RingAt, Members
<1>2. \A k \in 0 .. n : nx[At(k)] = At(k + 1) /\ pv[At(k + 1)] = At(k)
  BY DEF IsRing
<1>3. o = At(i) /\ pv[o] = At(i - 1) /\ nx[o] = At(i + 1)
  BY <1>0, <1>2, RingSeq
<1>4. i - 1 \in 0 .. n + 1 /\ i + 1 \in 0 .. n + 1 /\ i \in 0 .. n + 1 /\ i # i - 1 /\ i # i + 1
  BY <1>0, SMT
<1>5. pv[o] \in Nodes /\ nx[o] \in Nodes /\ o \in Nodes /\ pv[o] # o /\ nx[o] # o
  BY <1>0, <1>1, <1>3, <1>4, RingDistinct
<1>6. /\ nx2 \in PointerType /\ pv2 \in PointerType
      /\ nx2[o] = o /\ nx2[pv[o]] = nx[o]
      /\ \A m \in Nodes \ {o, pv[o]} : nx2[m] = nx[m]
      /\ pv2[o] = o /\ pv2[nx[o]] = pv[o]
      /\ \A m \in Nodes \ {o, nx[o]} : pv2[m] = pv[m]
  BY <1>5 DEF PointerType, NodeRemoved
<1>7. /\ t \in Seq(ObjectsOf(h)) /\ Len(t) = n - 1
      /\ \A j \in 1 .. n - 1 : t[j] = IF j < i THEN s[j] ELSE s[j + 1]
  BY <1>0, WithoutProperties
<1>8. ASSUME NEW k \in 0 .. n
      PROVE  RingAt(h, t, k) = IF k < i THEN At(k) ELSE At(k + 1)
  <2>1. CASE k = 0 \/ k = n
    <3>1. k \notin 1 .. Len(t) /\ (k = 0 => k < i) /\ (k = n => ~ k < i \/ k = 0)
          /\ n + 1 > n /\ n + 1 \in Int
      BY <1>0, <1>7, <2>1, SMT
    <3> QED BY <1>0, <2>1, <3>1, RingSeq DEF RingAt
  <2>2. CASE k # 0 /\ k # n
    <3>1. k \in 1 .. n - 1 /\ k \in 1 .. n /\ k + 1 \in 1 .. n
      BY <1>0, <2>2, SMT
    <3> QED BY <1>7, <3>1 DEF RingAt
  <2> QED BY <2>1, <2>2
<1>9. ASSUME NEW k \in 0 .. Len(t)
      PROVE  /\ nx2[RingAt(h, t, k)] = RingAt(h, t, k + 1)
             /\ pv2[RingAt(h, t, k + 1)] = RingAt(h, t, k)
  <2>0. k \in 0 .. n /\ k + 1 \in 0 .. n /\ k \in Int
    BY <1>0, <1>7, SMT
  <2>a. k \in 0 .. n - 1
    BY <1>7
  <2>1. CASE k = i - 1
    <3>1. k < i /\ ~ k + 1 < i /\ (k + 1) + 1 = i + 1
      BY <1>0, <2>1, SMT
    <3>2. RingAt(h, t, k) = At(i - 1) /\ RingAt(h, t, k + 1) = At(i + 1)
      BY <1>8, <2>0, <2>1, <3>1
    <3> QED BY <1>3, <1>6, <3>2
  <2>2. CASE k < i - 1
    <3>1. /\ k < i /\ k + 1 < i /\ k # i /\ k # i - 1 /\ k + 1 # i /\ k + 1 # i + 1
          /\ k + 1 \in 1 .. n + 1 /\ k + 1 \in 0 .. n + 1 /\ k \in 0 .. n + 1
      BY <1>0, <2>a, <2>2, PlacesBefore
    <3>2. RingAt(h, t, k) = At(k) /\ RingAt(h, t, k + 1) = At(k + 1)
      BY <1>8, <2>0, <3>1
    <3>3. At(k) # o /\ At(k) # pv[o] /\ At(k + 1) # o /\ At(k + 1) # nx[o]
      BY <1>0, <1>3, <2>0, <3>1, RingDistinct
    <3>4. nx[At(k)] = At(k + 1) /\ pv[At(k + 1)] = At(k)
      BY <1>2, <2>0
    <3>5. At(k) \in Nodes /\ At(k + 1) \in Nodes
      BY <1>1, <3>1
    <3>6. nx2[At(k)] = nx[At(k)]
      BY <1>6, <3>3, <3>5
    <3>7. pv2[At(k + 1)] = pv[At(k + 1)]
      BY <1>6, <3>3, <3>5
    <3> QED BY <3>2, <3>4, <3>6, <3>7
  <2>3. CASE k >= i
    <3>1. /\ ~ k < i /\ ~ k + 1 < i /\ k + 1 # i /\ k + 1 # i - 1
          /\ (k + 1) + 1 # i /\ (k + 1) + 1 # i + 1
          /\ (k + 1) + 1 \in 1 .. n + 1 /\ (k + 1) + 1 \in 0 .. n + 1 /\ k + 1 \in 0 .. n + 1
      BY <1>0, <2>a, <2>3, PlacesBehind
    <3>2. RingAt(h, t, k) = At(k + 1) /\ RingAt(h, t, k + 1) = At((k + 1) + 1)
      BY <1>8, <2>0, <3>1
    <3>3. At(k + 1) # o /\ At(k + 1) # pv[o] /\ At((k + 1) + 1) # o /\ At((k + 1) + 1) # nx[o]
      BY <1>0, <1>3, <2>0, <3>1, RingDistinct
    <3>4. nx[At(k + 1)] = At((k + 1) + 1) /\ pv[At((k + 1) + 1)] = At(k + 1)
      BY <1>2, <2>0
    <3>5. At(k + 1) \in Nodes /\ At((k + 1) + 1) \in Nodes
      BY <1>1, <3>1
    <3>6. nx2[At(k + 1)] = nx[At(k + 1)]
      BY <1>6, <3>3, <3>5
    <3>7. pv2[At((k + 1) + 1)] = pv[At((k + 1) + 1)]
      BY <1>6, <3>3, <3>5
    <3> QED BY <3>2, <3>4, <3>6, <3>7
  <2>4. k = i - 1 \/ k < i - 1 \/ k >= i
    BY <1>0, <2>0, SMT
  <2> QED BY <2>1, <2>2, <2>3, <2>4
<1>10. /\ \A a \in 1 .. Len(t) : t[a] = IF a < i THEN s[a] ELSE s[a + 1]
       /\ \A a \in 1 .. Len(t) : a \in 1 .. n /\ a + 1 \in 1 .. n /\ a \in Int
       /\ \A a, b \in 1 .. n : s[a] = s[b] => a = b
  <2>1. \A a \in 1 .. Len(t) : a \in 1 .. n - 1 /\ a \in 1 .. n /\ a + 1 \in 1 .. n /\ a \in Int
    BY <1>0, <1>7, SMT
  <2> QED BY <1>7, <2>1 DEF IsRing
<1>11. ASSUME NEW a \in 1 .. Len(t), NEW b \in 1 .. Len(t), t[a] = t[b] PROVE a = b
  <2>1. a \in Int /\ b \in Int
    BY <1>10
  <2>2. CASE a < i /\ b < i
    BY <1>10, <1>11, <2>2
  <2>3. CASE ~ a < i /\ ~ b < i
    <3>1. a + 1 = b + 1
      BY <1>10, <1>11, <2>3
    <3> QED BY <2>1, <3>1, SMT
  <2>4. CASE a < i /\ ~ b < i
    <3>0. t[a] = s[a] /\ t[b] = s[b + 1] /\ a \in 1 .. n /\ b + 1 \in 1 .. n
      BY <1>10, <2>4
    <3>1. a = b + 1
      BY <1>10, <1>11, <3>0
    <3> QED BY <1>0, <2>1, <2>4, <3>1, SMT
  <2>5. CASE ~ a < i /\ b < i
    <3>0. t[a] = s[a + 1] /\ t[b] = s[b] /\ a + 1 \in 1 .. n /\ b \in 1 .. n
      BY <1>10, <2>5
    <3>1. a + 1 = b
      BY <1>10, <1>11, <3>0
    <3> QED BY <1>0, <2>1, <2>5, <3>1, SMT
  <2> QED BY <2>2, <2>3, <2>4, <2>5
<1>12. IsRing(h, t, nx2, pv2)
  BY <1>7, <1>9, <1>11 DEF IsRing
<1>13. Members(t) = Members(s) \ {o}
  <2>0. Len(t) = n - 1 /\ n \in Nat /\ i \in Int
    BY <1>0, <1>7
  <2>1. ASSUME NEW a \in 1 .. Len(t) PROVE \E b \in 1 .. n : s[b] = t[a] /\ b # i
    <3>1. (a < i => a # i) /\ (~ a < i => a + 1 # i)
      BY <1>10, <2>0, SMT
    <3>2. CASE a < i
      BY <1>10, <3>1, <3>2
    <3>3. CASE ~ a < i
      BY <1>10, <3>1, <3>3
    <3> QED BY <3>2, <3>3
  <2>2. ASSUME NEW a \in 1 .. n, a # i PROVE \E b \in 1 .. Len(t) : t[b] = s[a]
    <3>1. CASE a < i
      <4>1. a \in 1 .. Len(t)
        BY <2>0, <3>1, SMT
      <4> QED BY <1>10, <3>1, <4>1
    <3>2. CASE ~ a < i
      <4>1. a - 1 \in 1 .. Len(t) /\ ~ a - 1 < i /\ (a - 1) + 1 = a
        BY <2>0, <2>2, <3>2, PlaceAfter
      <4> QED BY <1>10, <4>1
    <3> QED BY <3>1, <3>2
  <2>3. \A a \in 1 .. n : s[a] = o <=> a = i
    BY <1>10
  <2> HIDE DEF n
  <2>4. \A a \in 1 .. Len(t) : t[a] \in Members(s) /\ t[a] # o
    BY <2>1, <2>3 DEF Members, n
  <2>5. \A a \in 1 .. n : s[a] # o => s[a] \in Members(t)
    BY <2>2, <2>3 DEF Members
  <2>6. Members(t) \subseteq Members(s) \ {o}
    BY <2>4 DEF Members
  <2>7. Members(s) \ {o} \subseteq Members(t)
    BY <2>5 DEF Members, n
  <2> QED BY <2>6, <2>7
<1>14. /\ pv[o] \in {h} \union Members(s) /\ nx[o] \in {h} \union Members(s)
       /\ o \in Members(s)
  BY <1>1, <1>3, <1>4 DEF Members
<1> QED BY <1>5, <1>6, <1>12, <1>13, <1>14 DEF Agree, RingEdit

-----------------------------------------------------------------------------
(* The invariant.                                                          *)

\* No two objects of the sequence have one name.
Unique(s) ==
  \A i, j \in 1 .. Len(s) : ObjectName[s[i]] = ObjectName[s[j]] => i = j

\* An object that is on no list has never been registered, or points to itself.
Loose(o, nx, pv, st) ==
  \/ st[o] = "new" /\ nx[o] = NULL /\ pv[o] = NULL
  \/ st[o] = "tried" /\ nx[o] = o /\ pv[o] = o

StatusType == [Objects -> {"new", "on", "tried"}]

\* The pointers are those of the rings of the sequences L, and the owners know
\* which objects are on them.
Shape(L, nx, pv, st) ==
  /\ nx \in PointerType /\ pv \in PointerType /\ st \in StatusType
  /\ L \in [Heads -> Seq(Objects)]
  /\ \A h \in Heads : IsRing(h, L[h], nx, pv) /\ Unique(L[h])
  /\ \A o \in Objects : IF o \in Members(L[HeadOf(o)]) THEN st[o] = "on"
                                                      ELSE Loose(o, nx, pv, st)

IInv == fault = FALSE /\ \E L : Shape(L, next, prev, status)

\* The members of a ring are objects for its head.
LEMMA MembersOfRing ==
  ASSUME NEW L, NEW nx, NEW pv, NEW st, Shape(L, nx, pv, st), NEW h \in Heads
  PROVE  /\ Members(L[h]) \subseteq ObjectsOf(h)
         /\ \A p \in Members(L[h]) : p \in Objects /\ HeadOf(p) = h
<1>1. L[h] \in Seq(ObjectsOf(h))
  BY DEF Shape, IsRing
<1>2. \A k \in 1 .. Len(L[h]) : L[h][k] \in ObjectsOf(h)
  BY <1>1, RingSeq
<1> QED BY <1>2 DEF Members, ObjectsOf

\* From L, nx, pv, st only the ring of the kind of o changes, from r to s.
Changed(o, h, r, s, nx, pv, st, nx2, pv2, st2) ==
  /\ nx2 \in PointerType /\ pv2 \in PointerType /\ st2 \in StatusType
  /\ IsRing(h, s, nx2, pv2) /\ Unique(s)
  /\ Agree(Nodes \ ({h, o} \union Members(r)), nx, nx2)
  /\ Agree(Nodes \ ({h, o} \union Members(r)), pv, pv2)
  /\ \A p \in Objects \ {o} : /\ st2[p] = st[p]
                              /\ p \in Members(s) <=> p \in Members(r)
  /\ IF o \in Members(s) THEN st2[o] = "on" ELSE Loose(o, nx2, pv2, st2)

LEMMA ShapeFrame ==
  ASSUME NEW L, NEW nx, NEW pv, NEW st, Shape(L, nx, pv, st),
         NEW o \in Objects, NEW h, h = HeadOf(o), NEW r, r = L[h],
         NEW s, NEW nx2, NEW pv2, NEW st2,
         Changed(o, h, r, s, nx, pv, st, nx2, pv2, st2)
  PROVE  Shape([L EXCEPT ![h] = s], nx2, pv2, st2)
<1> DEFINE M == [L EXCEPT ![h] = s]
<1>0. /\ h \in Heads /\ L \in [Heads -> Seq(Objects)]
      /\ Objects \subseteq Nodes /\ Heads \subseteq Nodes /\ Objects \intersect Heads = {}
  BY HeadsAndObjects DEF Shape
<1>1. s \in Seq(Objects)
  <2>1. s \in Seq(ObjectsOf(h)) /\ ObjectsOf(h) \subseteq Objects
    BY HeadsAndObjects DEF IsRing, Changed
  <2> QED BY <2>1, SeqMonotonic
<1>2. /\ M \in [Heads -> Seq(Objects)] /\ M[h] = s
      /\ \A g \in Heads \ {h} : M[g] = L[g]
  BY <1>0, <1>1
<1>3. ASSUME NEW g \in Heads PROVE IsRing(g, M[g], nx2, pv2) /\ Unique(M[g])
  <2>1. CASE g = h
    BY <1>2, <2>1 DEF Changed
  <2>2. CASE g # h
    <3>1. IsRing(g, L[g], nx, pv) /\ Unique(L[g])
      BY DEF Shape
    <3>2. ASSUME NEW n \in {g} \union Members(L[g])
          PROVE  n \in Nodes \ ({h, o} \union Members(r))
      <4>0. \A p \in Members(r) : p \in Objects /\ HeadOf(p) = h
        BY <1>0, MembersOfRing
      <4>1. CASE n = g
        BY <1>0, <2>2, <4>0, <4>1
      <4>2. CASE n \in Members(L[g])
        <5>1. n \in Objects /\ HeadOf(n) = g
          BY <4>2, MembersOfRing
        <5> QED BY <1>0, <2>2, <4>0, <5>1
      <4> QED BY <4>1, <4>2
    <3>3. Agree({g} \union Members(L[g]), nx, nx2) /\ Agree({g} \union Members(L[g]), pv, pv2)
      BY <3>2 DEF Changed, Agree
    <3>4. IsRing(g, L[g], nx2, pv2)
      BY <3>1, <3>3, RingFrame
    <3> QED BY <1>2, <2>2, <3>1, <3>4
  <2> QED BY <2>1, <2>2
<1>4. ASSUME NEW p \in Objects
      PROVE  IF p \in Members(M[HeadOf(p)]) THEN st2[p] = "on" ELSE Loose(p, nx2, pv2, st2)
  <2>1. CASE p = o
    BY <1>2, <2>1 DEF Changed
  <2>2. CASE p # o
    <3>0. st2[p] = st[p] /\ (p \in Members(s) <=> p \in Members(r))
      BY <2>2 DEF Changed
    <3>1. p \in Members(M[HeadOf(p)]) <=> p \in Members(L[HeadOf(p)])
      BY <1>2, <3>0, HeadsAndObjects
    <3>2. CASE p \in Members(L[HeadOf(p)])
      BY <3>0, <3>1, <3>2 DEF Shape
    <3>3. CASE p \notin Members(L[HeadOf(p)])
      <4>1. Loose(p, nx, pv, st)
        BY <3>3 DEF Shape
      <4>2. p \in Nodes /\ p # h /\ p \notin Members(r)
        <5>1. \A q \in Members(r) : HeadOf(q) = h
          BY <1>0, MembersOfRing
        <5> QED BY <1>0, <3>3, <5>1
      <4>3. nx2[p] = nx[p] /\ pv2[p] = pv[p]
        BY <2>2, <4>2 DEF Changed, Agree
      <4> QED BY <3>0, <3>1, <3>3, <4>1, <4>3 DEF Loose
    <3> QED BY <3>2, <3>3
  <2> QED BY <2>1, <2>2
<1> HIDE DEF M
<1>5. Shape(M, nx2, pv2, st2)
  BY <1>2, <1>3, <1>4 DEF Shape, Changed
<1> QED BY <1>5 DEF M

\* What a shape says of the ring of one object's kind.
LEMMA RingOfShape ==
  ASSUME NEW L, NEW nx, NEW pv, NEW st, Shape(L, nx, pv, st),
         NEW o \in Objects, NEW h, h = HeadOf(o), NEW r, r = L[h]
  PROVE  /\ h \in Heads /\ o \in ObjectsOf(h) /\ o # h /\ o \in Nodes
         /\ nx \in PointerType /\ pv \in PointerType /\ st \in StatusType
         /\ IsRing(h, r, nx, pv) /\ Unique(r) /\ r \in Seq(Objects) /\ Len(r) \in Nat
         /\ \A p \in Members(r) : p \in Objects
<1>1. h \in Heads /\ o \in ObjectsOf(h) /\ o # h /\ o \in Nodes
  BY HeadsAndObjects
<1>2. r \in Seq(Objects)
  BY <1>1 DEF Shape
<1>3. Len(r) \in Nat
  BY <1>2, LenProperties
<1>4. /\ nx \in PointerType /\ pv \in PointerType /\ st \in StatusType
      /\ IsRing(h, r, nx, pv) /\ Unique(r)
  BY <1>1 DEF Shape
<1>5. \A p \in Members(r) : p \in Objects
  BY <1>1, MembersOfRing
<1> QED BY <1>1, <1>2, <1>3, <1>4, <1>5

\* list_add_tail of an object whose name no other has.
LEMMA ShapeAppend ==
  ASSUME NEW L, NEW nx, NEW pv, NEW st, Shape(L, nx, pv, st),
         NEW o \in Objects, NEW h, h = HeadOf(o), NEW r, r = L[h],
         \A p \in Members(r) : ObjectName[p] # ObjectName[o],
         NEW nx2, NEW pv2, TailAdded(o, h, nx, pv, nx2, pv2),
         NEW st2, st2 = [st EXCEPT ![o] = "on"]
  PROVE  Shape([L EXCEPT ![h] = Append(r, o)], nx2, pv2, st2)
<1> DEFINE s == Append(r, o)
<1>0. /\ h \in Heads /\ o \in ObjectsOf(h)
      /\ nx \in PointerType /\ pv \in PointerType /\ st \in StatusType
      /\ IsRing(h, r, nx, pv) /\ Unique(r) /\ r \in Seq(Objects) /\ Len(r) \in Nat
  BY RingOfShape
<1>1. /\ IsRing(h, s, nx2, pv2)
      /\ nx2 \in PointerType /\ pv2 \in PointerType
      /\ Agree(Nodes \ ({h, o} \union Members(r)), nx, nx2)
      /\ Agree(Nodes \ ({h, o} \union Members(r)), pv, pv2)
      /\ Members(s) = Members(r) \union {o}
  <2>1. o \notin Members(r)
    OBVIOUS
  <2>2. TailAdded(o, h, nx, pv, nx2, pv2)
    OBVIOUS
  <2>3. RingEdit(h, r, o, nx, pv, s, Members(r) \union {o}, nx2, pv2)
    BY <1>0, <2>1, <2>2, RingAppend
  <2> QED BY <2>3 DEF RingEdit
<1>2. st2 \in StatusType /\ st2[o] = "on" /\ \A p \in Objects \ {o} : st2[p] = st[p]
  BY <1>0 DEF StatusType
<1>3. Unique(s)
  <2>2. /\ Len(s) = Len(r) + 1
        /\ \A i \in 1 .. Len(r) : s[i] = r[i]
        /\ s[Len(r) + 1] = o
    BY <1>0, AppendProperties
  <2>3. \A i \in 1 .. Len(s) : i \in 1 .. Len(r) \/ i = Len(r) + 1
    BY <1>0, <2>2, SMT
  <2>4. \A i \in 1 .. Len(r) : ObjectName[r[i]] # ObjectName[o]
    BY DEF Members
  <2> HIDE DEF s
  <2>5. ASSUME NEW i \in 1 .. Len(s), NEW j \in 1 .. Len(s),
               ObjectName[s[i]] = ObjectName[s[j]]
        PROVE  i = j
    BY <1>0, <2>2, <2>3, <2>4, <2>5 DEF Unique
  <2> QED BY <2>5 DEF Unique
<1> HIDE DEF s
<1>4. Changed(o, h, r, s, nx, pv, st, nx2, pv2, st2)
  BY <1>0, <1>1, <1>2, <1>3 DEF Changed
<1>5. Shape([L EXCEPT ![h] = s], nx2, pv2, st2)
  BY <1>4, ShapeFrame
<1> QED BY <1>5 DEF s

\* A function that changes at o.
Updated(o, v, f, g) == g = [f EXCEPT ![o] = v]

\* list_del_init of an object that is on its list.
LEMMA ShapeRemove ==
  ASSUME NEW L, NEW nx, NEW pv, NEW st, Shape(L, nx, pv, st),
         NEW o \in Objects, NEW h, h = HeadOf(o), NEW r, r = L[h],
         NEW i \in 1 .. Len(r), r[i] = o,
         NEW nx2, NEW pv2, NodeRemoved(o, nx, pv, nx2, pv2),
         NEW st2, Updated(o, "tried", st, st2),
         NEW t, t = Without(r, i)
  PROVE  Shape([L EXCEPT ![h] = t], nx2, pv2, st2)
<1>0. /\ h \in Heads /\ nx \in PointerType /\ pv \in PointerType /\ st \in StatusType
      /\ IsRing(h, r, nx, pv) /\ Unique(r) /\ r \in Seq(Objects) /\ Len(r) \in Nat
  BY RingOfShape
<1>1. /\ IsRing(h, t, nx2, pv2)
      /\ nx2 \in PointerType /\ pv2 \in PointerType
      /\ nx[o] \in Nodes /\ pv[o] \in Nodes
      /\ nx2[o] = o /\ pv2[o] = o
      /\ Agree(Nodes \ ({h, o} \union Members(r)), nx, nx2)
      /\ Agree(Nodes \ ({h, o} \union Members(r)), pv, pv2)
      /\ Members(t) = Members(r) \ {o}
  <2>1. NodeRemoved(o, nx, pv, nx2, pv2) /\ i \in 1 .. Len(r) /\ o = r[i] /\ t = Without(r, i)
    OBVIOUS
  <2>2. RingEdit(h, r, o, nx, pv, t, Members(r) \ {o}, nx2, pv2)
    BY <1>0, <2>1, RingRemove
  <2>3. nx[o] \in Nodes /\ pv[o] \in Nodes /\ nx[o] # o
    <3>1. o \in Members(r)
      BY DEF Members
    <3> QED BY <1>0, <3>1, RingNeighbours
  <2>4. nx2[o] = o /\ pv2[o] = o
    BY <1>0, HeadsAndObjects DEF NodeRemoved, PointerType
  <2> QED BY <2>2, <2>3, <2>4 DEF RingEdit
<1>2. st2 \in StatusType /\ st2[o] = "tried" /\ \A p \in Objects \ {o} : st2[p] = st[p]
  BY <1>0 DEF StatusType, Updated
<1>3. Unique(t)
  <2>1. t \in Seq(ObjectsOf(h)) /\ Len(t) \in Nat
        /\ \A a, b \in 1 .. Len(t) : t[a] = t[b] => a = b
    BY <1>0, <1>1, RingSeq DEF IsRing
  <2>2. ASSUME NEW a \in 1 .. Len(t)
        PROVE  \E b \in 1 .. Len(r) : t[a] = r[b]
    <3>1. t[a] \in Members(t)
      BY DEF Members
    <3>2. t[a] \in Members(r)
      BY <1>1, <3>1
    <3> QED BY <3>2 DEF Members
  <2>3. ASSUME NEW a \in 1 .. Len(t), NEW b \in 1 .. Len(t),
               ObjectName[t[a]] = ObjectName[t[b]]
        PROVE  a = b
    <3>1. PICK c \in 1 .. Len(r) : t[a] = r[c]
      BY <2>2
    <3>2. PICK d \in 1 .. Len(r) : t[b] = r[d]
      BY <2>2
    <3>3. c = d
      BY <1>0, <2>3, <3>1, <3>2 DEF Unique
    <3>4. t[a] = t[b]
      BY <3>1, <3>2, <3>3
    <3> QED BY <2>1, <3>4
  <2> QED BY <2>3 DEF Unique
<1>4. Loose(o, nx2, pv2, st2) /\ o \notin Members(t)
  BY <1>1, <1>2 DEF Loose
<1>5. Changed(o, h, r, t, nx, pv, st, nx2, pv2, st2)
  BY <1>0, <1>1, <1>2, <1>3, <1>4 DEF Changed, Agree
<1> QED BY <1>5, ShapeFrame

\* What the pointers and the status of an object that is on no list may be.
IdleValue(o, v, w) ==
  \/ v = o /\ w = "tried"
  \/ v = NULL /\ w = "new"

\* INIT_LIST_HEAD of an object that is on no list, and its disposal.
LEMMA ShapeLoose ==
  ASSUME NEW L, NEW nx, NEW pv, NEW st, Shape(L, nx, pv, st),
         NEW o \in Objects, o \notin Members(L[HeadOf(o)]),
         NEW v, NEW w, IdleValue(o, v, w),
         NEW nx2, Updated(o, v, nx, nx2), NEW pv2, Updated(o, v, pv, pv2),
         NEW st2, Updated(o, w, st, st2)
  PROVE  Shape(L, nx2, pv2, st2)
<1>a. PICK h : h = HeadOf(o)
  OBVIOUS
<1>b. PICK r : r = L[h]
  OBVIOUS
<1>0. /\ h \in Heads /\ o \in Nodes /\ o # h /\ o \in ObjectsOf(h)
      /\ nx \in PointerType /\ pv \in PointerType /\ st \in StatusType
      /\ IsRing(h, r, nx, pv) /\ Unique(r)
      /\ \A p \in Members(r) : p \in Objects
  BY <1>a, <1>b, RingOfShape
<1>1. /\ nx2 \in PointerType /\ pv2 \in PointerType /\ nx2[o] = v /\ pv2[o] = v
      /\ \A n \in Nodes \ {o} : nx2[n] = nx[n] /\ pv2[n] = pv[n]
  BY <1>0 DEF PointerType, Updated, IdleValue
<1>2. /\ st2 \in StatusType /\ st2[o] = w
      /\ \A p \in Objects \ {o} : st2[p] = st[p]
  BY <1>0 DEF StatusType, Updated, IdleValue
<1>3. o \notin Members(r)
  BY <1>a, <1>b
<1>4. Agree({h} \union Members(r), nx, nx2) /\ Agree({h} \union Members(r), pv, pv2)
  BY <1>0, <1>1, <1>3, HeadsAndObjects DEF Agree
<1>5. IsRing(h, r, nx2, pv2)
  BY <1>0, <1>4, RingFrame
<1>6. Loose(o, nx2, pv2, st2)
  BY <1>0, <1>1, <1>2, HeadsAndObjects DEF Loose, IdleValue
<1>7. Changed(o, h, r, r, nx, pv, st, nx2, pv2, st2)
  BY <1>0, <1>1, <1>2, <1>3, <1>5, <1>6 DEF Changed, Agree
<1>8. Shape([L EXCEPT ![h] = r], nx2, pv2, st2)
  BY <1>a, <1>b, <1>7, ShapeFrame
<1>9. [L EXCEPT ![h] = r] = L
  BY <1>0, <1>b DEF Shape
<1> QED BY <1>8, <1>9

-----------------------------------------------------------------------------
(* The steps.                                                              *)

\* The lists of a state of this shape are the sequences.
LEMMA ListsOfShape ==
  ASSUME NEW L, Shape(L, next, prev, status)
  PROVE  /\ \A h \in Heads : ListOf(h) = L[h] /\ OnList(h) = Members(L[h])
         /\ [h \in Heads |-> ListOf(h)] = L
<1>1. ASSUME NEW h \in Heads PROVE ListOf(h) = L[h] /\ OnList(h) = Members(L[h])
  <2>1. IsRing(h, L[h], next, prev) /\ L[h] \in Seq(Objects)
    BY DEF Shape
  <2>2. ListOf(h) = L[h]
    BY <2>1, ListOfRing
  <2>3. DOMAIN L[h] = 1 .. Len(L[h])
    BY <2>1, LenProperties
  <2> QED BY <2>2, <2>3 DEF OnList, Members
<1>2. L \in [Heads -> Seq(Objects)]
  BY DEF Shape
<1> QED BY <1>1, <1>2

LEMMA ListsOfShapeNext ==
  ASSUME NEW L, Shape(L, next', prev', status')
  PROVE  [h \in Heads |-> ListOf(h)]' = L
<1>1. ASSUME NEW h \in Heads PROVE (ListOf(h))' = L[h]
  <2>1. IsRing(h, L[h], next', prev')
    BY DEF Shape
  <2> QED BY <2>1, ListOfRingNext
<1>2. L \in [Heads -> Seq(Objects)]
  BY DEF Shape
<1> QED BY <1>1, <1>2

\* The module initialises three empty rings.
Empty == [h \in Heads |-> <<>>]

LEMMA InitShape ==
  Init => fault = FALSE /\ Shape(Empty, next, prev, status)
<1> SUFFICES ASSUME Init PROVE Shape(Empty, next, prev, status)
  BY DEF Init
<1>1. next \in PointerType /\ prev \in PointerType /\ status \in StatusType
  BY DEF Init, PointerType, StatusType
<1>2. Empty \in [Heads -> Seq(Objects)]
  BY DEF Empty
<1>3. ASSUME NEW h \in Heads
      PROVE  IsRing(h, Empty[h], next, prev) /\ Unique(Empty[h]) /\ Members(Empty[h]) = {}
  <2>1. Empty[h] = <<>> /\ Len(Empty[h]) = 0 /\ Empty[h] \in Seq(ObjectsOf(h))
    BY DEF Empty
  <2>2. h \in Nodes /\ next[h] = h /\ prev[h] = h
    BY HeadsAndObjects DEF Init
  <2>3. 1 .. Len(Empty[h]) = {} /\ 0 .. Len(Empty[h]) = {0}
    BY <2>1, SMT
  <2>4. \A k : RingAt(h, Empty[h], k) = h
    BY <2>3 DEF RingAt
  <2>5. \A k \in 0 .. Len(Empty[h]) :
          /\ next[RingAt(h, Empty[h], k)] = RingAt(h, Empty[h], k + 1)
          /\ prev[RingAt(h, Empty[h], k + 1)] = RingAt(h, Empty[h], k)
    BY <2>2, <2>4
  <2> QED BY <2>1, <2>3, <2>5 DEF IsRing, Unique, Members
<1>4. ASSUME NEW o \in Objects
      PROVE  o \notin Members(Empty[HeadOf(o)]) /\ Loose(o, next, prev, status)
  <2>1. o \in Nodes /\ o \notin Heads /\ HeadOf(o) \in Heads
    BY HeadsAndObjects
  <2> QED BY <1>3, <2>1 DEF Init, Loose
<1> QED BY <1>1, <1>2, <1>3, <1>4 DEF Shape

\* Calls that change neither the pointers nor what the owners know.
LEMMA ShapeUnchanged ==
  ASSUME NEW L, Shape(L, next, prev, status), UNCHANGED <<next, prev, status>>
  PROVE  Shape(L, next', prev', status')
OBVIOUS

\* register appends the object unless its name is taken.
LEMMA RegisterShape ==
  ASSUME NEW L, Shape(L, next, prev, status), NEW o \in Objects,
         NEW h, h = HeadOf(o), NEW r, r = L[h], RegisterObject(o)
  PROVE  /\ fault' = fault
         /\ \/ /\ ret' = EEXIST /\ SameName(o) # {}
               /\ Shape(L, next', prev', status')
            \/ /\ ret' = OK /\ SameName(o) = {}
               /\ Shape([L EXCEPT ![h] = Append(r, o)], next', prev', status')
<1>0. fault' = fault /\ SameName(o) = {p \in Members(r) : ObjectName[p] = ObjectName[o]}
  BY ListsOfShape, HeadsAndObjects DEF SameName, RegisterObject
<1>1. CASE SameName(o) = {}
  <2>1. ret' = OK /\ TailAdded(o, h, next, prev, next', prev')
        /\ status' = [status EXCEPT ![o] = "on"]
    BY <1>1 DEF RegisterObject, ListAddTail, TailAdded
  <2>2. \A p \in Members(r) : ObjectName[p] # ObjectName[o]
    BY <1>0, <1>1
  <2>3. Shape([L EXCEPT ![h] = Append(r, o)], next', prev', status')
    BY <2>1, <2>2, ShapeAppend
  <2> QED BY <1>0, <1>1, <2>1, <2>3
<1>2. CASE SameName(o) # {} /\ o \in SameName(o)
  <2>1. ret' = EEXIST /\ UNCHANGED <<next, prev>>
        /\ status' = [status EXCEPT ![o] = IF @ = "on" THEN "on" ELSE "tried"]
    BY <1>2 DEF RegisterObject
  <2>2. status[o] = "on" /\ status \in StatusType
    BY <1>0, <1>2 DEF Shape
  <2>3. status' = status
    BY <2>1, <2>2 DEF StatusType
  <2> QED BY <1>0, <1>2, <2>1, <2>3
<1>3. CASE SameName(o) # {} /\ o \notin SameName(o)
  <2>1. ret' = EEXIST /\ next' = [next EXCEPT ![o] = o] /\ prev' = [prev EXCEPT ![o] = o]
        /\ status' = [status EXCEPT ![o] = IF @ = "on" THEN "on" ELSE "tried"]
    BY <1>3 DEF RegisterObject, InitListHead
  <2>2. o \notin Members(L[HeadOf(o)])
    BY <1>0, <1>3
  <2>3. status[o] # "on" /\ status \in StatusType
    BY <2>2 DEF Shape, Loose
  <2>4. /\ Updated(o, o, next, next') /\ Updated(o, o, prev, prev')
        /\ Updated(o, "tried", status, status')
    BY <2>1, <2>3 DEF StatusType, Updated
  <2>5. IdleValue(o, o, "tried")
    BY DEF IdleValue
  <2>6. Shape(L, next', prev', status')
    BY <2>2, <2>4, <2>5, ShapeLoose
  <2> QED BY <1>0, <1>3, <2>1, <2>6
<1> QED BY <1>1, <1>2, <1>3

\* unregister removes the object if it is on its list, and does nothing else.
LEMMA UnregisterShape ==
  ASSUME NEW L, Shape(L, next, prev, status), NEW o \in Objects,
         NEW h, h = HeadOf(o), NEW r, r = L[h], UnregisterObject(o)
  PROVE  /\ fault' = fault /\ ret' = ret
         /\ \/ o \notin Members(r) /\ Shape(L, next', prev', status')
            \/ \E i \in 1 .. Len(r) :
                 /\ r[i] = o
                 /\ Shape([L EXCEPT ![h] = Without(r, i)], next', prev', status')
<1>0. /\ h \in Heads /\ IsRing(h, r, next, prev) /\ status \in StatusType
      /\ status' = [status EXCEPT ![o] = "tried"] /\ ret' = ret /\ status[o] # "new"
  BY RingOfShape DEF UnregisterObject
<1>1. CASE o \in Members(r)
  <2>1. PICK i \in 1 .. Len(r) : r[i] = o
    BY <1>1 DEF Members
  <2>2. next[o] \in Nodes /\ prev[o] \in Nodes /\ next[o] # o
    BY <1>0, <1>1, RingNeighbours
  <2>3. NULL \notin {next[o], prev[o]}
    BY <2>2, HeadsAndObjects
  <2>4. NodeRemoved(o, next, prev, next', prev') /\ fault' = fault
    BY <2>2, <2>3 DEF UnregisterObject, ListEmpty, ListDelInit, NodeRemoved
  <2>5. PICK t : t = Without(r, i)
    OBVIOUS
  <2>6. Shape([L EXCEPT ![h] = t], next', prev', status')
    <3>1. Updated(o, "tried", status, status')
      BY <1>0 DEF Updated
    <3> QED BY <2>1, <2>4, <2>5, <3>1, ShapeRemove
  <2> QED BY <1>0, <2>1, <2>4, <2>5, <2>6
<1>2. CASE o \notin Members(r)
  <2>1. status[o] = "tried" /\ next[o] = o
    BY <1>0, <1>2 DEF Shape, Loose
  <2>2. UNCHANGED <<next, prev, fault>>
    BY <2>1 DEF UnregisterObject, ListEmpty
  <2>3. status' = status
    BY <1>0, <2>1 DEF StatusType
  <2> QED BY <1>0, <1>2, <2>2, <2>3
<1> QED BY <1>1, <1>2

\* The memory that is disposed of is on no list.
LEMMA DisposeShape ==
  ASSUME NEW L, Shape(L, next, prev, status), NEW o \in Objects, DisposeDevice(o)
  PROVE  Shape(L, next', prev', status') /\ UNCHANGED <<ret, fault>>
<1>1. /\ next' = [next EXCEPT ![o] = NULL] /\ prev' = [prev EXCEPT ![o] = NULL]
      /\ status' = [status EXCEPT ![o] = "new"] /\ UNCHANGED <<ret, fault>>
      /\ status[o] = "tried"
  BY DEF DisposeDevice
<1>2. o \notin Members(L[HeadOf(o)])
  BY <1>1 DEF Shape
<1>3. /\ Updated(o, NULL, next, next') /\ Updated(o, NULL, prev, prev')
      /\ Updated(o, "new", status, status') /\ IdleValue(o, NULL, "new")
  BY <1>1 DEF Updated, IdleValue
<1>4. Shape(L, next', prev', status')
  BY <1>2, <1>3, ShapeLoose
<1> QED BY <1>1, <1>4

\* The calls that only answer.
Answer ==
  \/ \E o \in Objects : RegisterIncomplete(o)
  \/ \E n \in Names : FindBackend(n) \/ FindDevice(n)
  \/ \E c \in Classes : FindDriver(c)
  \/ \E stop \in SUBSET Devices : ForEachDevice(stop)
  \/ GetRegistrySnapshot

LEMMA StepKinds ==
  ASSUME Next
  PROVE  \/ \E o \in Objects : RegisterObject(o) \/ UnregisterObject(o) \/ DisposeDevice(o)
         \/ Answer /\ UNCHANGED <<next, prev, status, fault>>
<1>1. CASE \E o \in Objects : RegisterBackend(o) \/ RegisterDriver(o) \/ RegisterDevice(o)
  BY <1>1 DEF RegisterBackend, RegisterDriver, RegisterDevice
<1>2. CASE \E o \in Objects :
             UnregisterBackend(o) \/ UnregisterDriver(o) \/ UnregisterDevice(o)
  BY <1>2 DEF UnregisterBackend, UnregisterDriver, UnregisterDevice
<1>3. CASE \E o \in Objects : DisposeDevice(o)
  BY <1>3
<1>4. CASE Answer
  BY <1>4 DEF Answer, RegisterIncomplete, FindBackend, FindDriver, FindDevice,
              ForEachDevice, GetRegistrySnapshot
<1> QED BY <1>1, <1>2, <1>3, <1>4 DEF Next, Answer

LEMMA StepInv ==
  IInv /\ [Next]_vars => IInv'
<1> SUFFICES ASSUME fault = FALSE, NEW L, Shape(L, next, prev, status), [Next]_vars
             PROVE  fault' = FALSE /\ \E M : Shape(M, next', prev', status')
  BY DEF IInv
<1>1. CASE UNCHANGED vars
  BY <1>1 DEF vars
<1>2. ASSUME NEW o \in Objects, RegisterObject(o)
      PROVE  fault' = FALSE /\ \E M : Shape(M, next', prev', status')
  BY <1>2, RegisterShape
<1>3. ASSUME NEW o \in Objects, UnregisterObject(o)
      PROVE  fault' = FALSE /\ \E M : Shape(M, next', prev', status')
  BY <1>3, UnregisterShape
<1>4. ASSUME NEW o \in Objects, DisposeDevice(o)
      PROVE  fault' = FALSE /\ \E M : Shape(M, next', prev', status')
  BY <1>4, DisposeShape
<1>5. CASE UNCHANGED <<next, prev, status, fault>>
  BY <1>5
<1> QED BY <1>1, <1>2, <1>3, <1>4, <1>5, StepKinds

LEMMA InvHolds == Spec => []IInv
<1>1. Init => IInv
  BY InitShape DEF IInv
<1> QED BY <1>1, StepInv, PTL DEF Spec

-----------------------------------------------------------------------------
(* What the invariant says of the pointers and of the owners.              *)

\* Every node of a ring and its two neighbours point to each other.
LEMMA RingLinked ==
  ASSUME NEW h \in Heads, NEW s, NEW nx, NEW pv, IsRing(h, s, nx, pv),
         NEW n \in {h} \union Members(s)
  PROVE  nx[n] \in Nodes /\ pv[nx[n]] = n /\ pv[n] \in Nodes /\ nx[pv[n]] = n
<1>1. s \in Seq(ObjectsOf(h)) /\ Len(s) \in Nat
  BY RingSeq DEF IsRing
<1>2. \E k \in 0 .. Len(s) : RingAt(h, s, k) = n
  <2>1. 0 \in 0 .. Len(s) /\ \A k \in 1 .. Len(s) : k \in 0 .. Len(s)
    BY <1>1, SMT
  <2> QED BY <1>1, <2>1, RingSeq DEF Members
<1>3. \E k \in 0 .. Len(s) : RingAt(h, s, k + 1) = n
  <2>1. Len(s) \in 0 .. Len(s) /\ Len(s) + 1 > Len(s) /\ Len(s) + 1 \in Int
        /\ \A k \in 1 .. Len(s) : k - 1 \in 0 .. Len(s) /\ (k - 1) + 1 = k
    BY <1>1, SMT
  <2>2. CASE n = h
    BY <1>1, <2>1, <2>2, RingSeq
  <2>3. CASE n \in Members(s)
    <3>1. PICK k \in 1 .. Len(s) : s[k] = n
      BY <2>3 DEF Members
    <3>2. k - 1 \in 0 .. Len(s) /\ RingAt(h, s, (k - 1) + 1) = n
      BY <1>1, <2>1, <3>1, RingSeq
    <3> QED BY <3>2
  <2> QED BY <2>2, <2>3
<1>4. \A k \in 0 .. Len(s) : k \in Int /\ k + 1 \in Int
  BY <1>1, SMT
<1>5. \A k \in 0 .. Len(s) : RingAt(h, s, k) \in Nodes /\ RingAt(h, s, k + 1) \in Nodes
  BY <1>1, <1>4, RingSeq
<1>6. nx[n] \in Nodes /\ pv[nx[n]] = n
  BY <1>2, <1>5 DEF IsRing
<1>7. pv[n] \in Nodes /\ nx[pv[n]] = n
  BY <1>3, <1>5 DEF IsRing
<1> QED BY <1>6, <1>7

LEMMA ShapeLinked ==
  ASSUME NEW L, Shape(L, next, prev, status)
  PROVE  DoublyLinked
<1> SUFFICES ASSUME NEW n \in Nodes
             PROVE  \/ next[n] = NULL /\ prev[n] = NULL /\ n \notin Heads
                    \/ /\ next[n] \in Nodes /\ prev[next[n]] = n
                       /\ prev[n] \in Nodes /\ next[prev[n]] = n
  BY DEF DoublyLinked
<1>1. \A h \in Heads : IsRing(h, L[h], next, prev)
  BY DEF Shape
<1>2. CASE n \in Heads
  BY <1>1, <1>2, RingLinked
<1>3. CASE n \in Objects
  <2>1. HeadOf(n) \in Heads /\ n \notin Heads
    BY <1>3, HeadsAndObjects
  <2>2. CASE n \in Members(L[HeadOf(n)])
    BY <1>1, <2>1, <2>2, RingLinked
  <2>3. CASE n \notin Members(L[HeadOf(n)])
    BY <1>3, <2>1, <2>3 DEF Shape, Loose
  <2> QED BY <2>2, <2>3
<1> QED BY <1>2, <1>3, HeadsAndObjects

\* The pointers lead from node to node, or nowhere.
THEOREM RegistryTypeOK == Spec => []TypeOK
<1>1. IInv => TypeOK
  BY DEF IInv, Shape, TypeOK, PointerType, StatusType
<1> QED BY <1>1, InvHolds, PTL

\* A walk in either direction from a head comes back to it, whatever was
\* registered, refused, unregistered and disposed of before.
THEOREM RegistryDoublyLinked == Spec => []DoublyLinked
<1>1. IInv => DoublyLinked
  BY ShapeLinked DEF IInv
<1> QED BY <1>1, InvHolds, PTL

\* The list holds exactly the objects whose owners take them for registered.
THEOREM RegistryOwnersAgree == Spec => []OwnersAgree
<1>1. ASSUME NEW L, Shape(L, next, prev, status) PROVE OwnersAgree
  <2>1. \A o \in Objects : OnList(HeadOf(o)) = Members(L[HeadOf(o)])
    BY <1>1, ListsOfShape, HeadsAndObjects
  <2> QED BY <1>1, <2>1 DEF OwnersAgree, Shape, Loose
<1>2. IInv => OwnersAgree
  BY <1>1 DEF IInv
<1> QED BY <1>2, InvHolds, PTL

\* list_del_init never runs on a node that was never on a list.
THEOREM RegistryNoNullDeref == Spec => []NoNullDeref
<1>1. IInv => NoNullDeref
  BY DEF IInv, NoNullDeref
<1> QED BY <1>1, InvHolds, PTL

-----------------------------------------------------------------------------
(* The pointer structure implements the three lists.                       *)

\* The three heads are three nodes.
LEMMA HeadsDistinct ==
  BackendHead # DriverHead /\ BackendHead # DeviceHead /\ DriverHead # DeviceHead
<1>1. \A a, b : IsFiniteSet({a, b}) /\ Cardinality({a, b}) <= 2
  <2> TAKE a, b
  <2>1. IsFiniteSet({a}) /\ Cardinality({a}) = 1
    BY FS_Singleton
  <2>2. {a, b} = {a} \union {b}
    OBVIOUS
  <2>3. /\ IsFiniteSet({a} \union {b})
        /\ Cardinality({a} \union {b}) =
             IF b \in {a} THEN Cardinality({a}) ELSE Cardinality({a}) + 1
    BY <2>1, FS_AddElement
  <2> QED BY <2>1, <2>2, <2>3
<1>2. SUFFICES ASSUME NEW a, NEW b, Heads = {a, b} PROVE FALSE
  <2>1. BackendHead = DriverHead => Heads = {BackendHead, DeviceHead}
    BY DEF Heads
  <2>2. BackendHead = DeviceHead => Heads = {BackendHead, DriverHead}
    BY DEF Heads
  <2>3. DriverHead = DeviceHead => Heads = {BackendHead, DriverHead}
    BY DEF Heads
  <2> QED BY <1>2, <2>1, <2>2, <2>3
<1>3. Cardinality(Heads) = 3
  BY ObjectsAssumption
<1>4. Cardinality(Heads) <= 2
  BY <1>1, <1>2
<1> QED BY <1>3, <1>4, SMT

\* The look-up of the pointers and that of the lists find the same object.
LEMMA FirstOfList ==
  ASSUME NEW h \in Heads, ListOf(h) \in Seq(Objects), NEW W, NEW V,
         \A o \in OnList(h) : o \in W <=> o \in V
  PROVE  FirstOf(h, W) = Lists!FirstIn(ListOf(h), V)
<1> DEFINE list == ListOf(h)
           M == {k \in DOMAIN list : list[k] \in W}
           Least(k) == k \in M /\ \A j \in M : k <= j
           First(i) == i \in DOMAIN list /\ list[i] \in V
                       /\ \A j \in 1 .. i - 1 : list[j] \notin V
<1>1. DOMAIN list = 1 .. Len(list) /\ Len(list) \in Nat
  BY LenProperties
<1>2. \A k \in DOMAIN list : list[k] \in W <=> list[k] \in V
  BY DEF OnList
<1>3. \A i : Least(i) <=> First(i)
  <2> TAKE i
  <2>1. ASSUME Least(i) PROVE First(i)
    <3>1. i \in 1 .. Len(list) /\ list[i] \in V
      BY <1>1, <1>2, <2>1
    <3>2. ASSUME NEW j \in 1 .. i - 1, list[j] \in V PROVE FALSE
      <4>1. j \in 1 .. Len(list) /\ ~ i <= j
        BY <1>1, <3>1, SMT
      <4> QED BY <1>1, <1>2, <2>1, <3>2, <4>1
    <3> QED BY <1>1, <3>1, <3>2
  <2>2. ASSUME First(i) PROVE Least(i)
    <3>1. i \in M
      BY <1>2, <2>2
    <3>2. ASSUME NEW j \in M PROVE i <= j
      <4>1. i \in 1 .. Len(list) /\ j \in 1 .. Len(list) /\ list[j] \in V
        BY <1>1, <1>2, <2>2
      <4>2. j \notin 1 .. i - 1
        BY <2>2, <4>1
      <4> QED BY <1>1, <4>1, <4>2, SMT
    <3> QED BY <3>1, <3>2
  <2> QED BY <2>1, <2>2
<1>4. M = {} <=> Lists!MembersOf(list) \intersect V = {}
  BY <1>2 DEF Lists!MembersOf
<1>5. CASE M = {}
  BY <1>4, <1>5 DEF FirstOf, Lists!FirstIn
<1>6. CASE M # {}
  <2>1. PICK m : Least(m)
    <3>1. M \subseteq Nat
      BY <1>1, SMT
    <3> QED BY <1>6, <3>1, LeastNat
  <2>2. \A i : Least(i) => i = m
    <3>1. M \subseteq Nat
      BY <1>1, SMT
    <3>2. \A i \in M : Least(i) => i <= m /\ m <= i /\ i \in Nat /\ m \in Nat
      BY <2>1, <3>1
    <3> QED BY <3>2, SMT
  <2>3. (CHOOSE k \in M : \A j \in M : k <= j) = m
    BY <2>1, <2>2
  <2>4. Lists!FirstIndex(list, V) = m
    BY <1>3, <2>1, <2>2 DEF Lists!FirstIndex
  <2>5. FirstOf(h, W) = list[m]
    BY <1>6, <2>3 DEF FirstOf
  <2> QED BY <1>4, <1>6, <2>4, <2>5 DEF Lists!FirstIn
<1> QED BY <1>5, <1>6

\* The two ways to ask whether a name is taken.
LEMMA TakenIsSameName ==
  ASSUME NEW o \in Objects
  PROVE  Lists!Taken(o) <=> SameName(o) # {}
<1>1. HeadOf(o) \in Heads
  BY HeadsAndObjects
<1>2. OnList(HeadOf(o)) = Lists!MembersOf(ListOf(HeadOf(o)))
  BY DEF OnList, Lists!MembersOf
<1> QED BY <1>1, <1>2 DEF Lists!Taken, SameName

\* The look-ups filter the objects of one kind, the lists all of them.
LEMMA FindRefines ==
  ASSUME NEW L, Shape(L, next, prev, status)
  PROVE  /\ \A name : FindBackend(name) =>
              Lists!Find(BackendHead, {o \in Objects : ObjectName[o] = name})
         /\ \A name : FindDevice(name) =>
              Lists!Find(DeviceHead, {o \in Objects : ObjectName[o] = name})
         /\ \A class : FindDriver(class) =>
              Lists!Find(DriverHead, {o \in Objects : ObjectClass[o] = class})
<1>1. \A h \in Heads : ListOf(h) \in Seq(Objects)
  BY ListsOfShape DEF Shape
<1>2. \A h \in Heads : \A o \in OnList(h) : o \in Objects /\ HeadOf(o) = h
  BY ListsOfShape, MembersOfRing
<1>3. /\ BackendHead \in Heads /\ DriverHead \in Heads /\ DeviceHead \in Heads
      /\ \A o \in OnList(BackendHead) : o \in Objects /\ o \in Backends
      /\ \A o \in OnList(DriverHead) : o \in Objects /\ o \in Drivers
      /\ \A o \in OnList(DeviceHead) : o \in Objects /\ o \in Devices
  BY <1>2, HeadsDistinct DEF HeadOf, Heads, Objects
<1>4. \A h \in Heads : \A S : ret' = Lists!FirstIn(ListOf(h), S) => Lists!Find(h, S)
  BY DEF Lists!Find
<1>5. ASSUME NEW name, FindBackend(name)
      PROVE  Lists!Find(BackendHead, {o \in Objects : ObjectName[o] = name})
  <2> DEFINE W == {o \in Backends : ObjectName[o] = name}
             V == {o \in Objects : ObjectName[o] = name}
  <2>1. \A o \in OnList(BackendHead) : o \in W <=> o \in V
    BY <1>3
  <2>2. ret' = FirstOf(BackendHead, W)
    BY <1>5 DEF FindBackend
  <2> HIDE DEF W, V
  <2>3. FirstOf(BackendHead, W) = Lists!FirstIn(ListOf(BackendHead), V)
    BY <1>1, <1>3, <2>1, FirstOfList
  <2>4. Lists!Find(BackendHead, V)
    BY <1>3, <1>4, <2>2, <2>3
  <2> QED BY <2>4 DEF V
<1>6. ASSUME NEW name, FindDevice(name)
      PROVE  Lists!Find(DeviceHead, {o \in Objects : ObjectName[o] = name})
  <2> DEFINE W == {o \in Devices : ObjectName[o] = name}
             V == {o \in Objects : ObjectName[o] = name}
  <2>1. \A o \in OnList(DeviceHead) : o \in W <=> o \in V
    BY <1>3
  <2>2. ret' = FirstOf(DeviceHead, W)
    BY <1>6 DEF FindDevice
  <2> HIDE DEF W, V
  <2>3. FirstOf(DeviceHead, W) = Lists!FirstIn(ListOf(DeviceHead), V)
    BY <1>1, <1>3, <2>1, FirstOfList
  <2>4. Lists!Find(DeviceHead, V)
    BY <1>3, <1>4, <2>2, <2>3
  <2> QED BY <2>4 DEF V
<1>7. ASSUME NEW class, FindDriver(class)
      PROVE  Lists!Find(DriverHead, {o \in Objects : ObjectClass[o] = class})
  <2> DEFINE W == {o \in Drivers : ObjectClass[o] = class}
             V == {o \in Objects : ObjectClass[o] = class}
  <2>1. \A o \in OnList(DriverHead) : o \in W <=> o \in V
    BY <1>3
  <2>2. ret' = FirstOf(DriverHead, W)
    BY <1>7 DEF FindDriver
  <2> HIDE DEF W, V
  <2>3. FirstOf(DriverHead, W) = Lists!FirstIn(ListOf(DriverHead), V)
    BY <1>1, <1>3, <2>1, FirstOfList
  <2>4. Lists!Find(DriverHead, V)
    BY <1>3, <1>4, <2>2, <2>3
  <2> QED BY <2>4 DEF V
<1> QED BY <1>5, <1>6, <1>7

\* The iteration visits a prefix of the list that is empty only with it.
LEMMA ForEachRefines ==
  ASSUME NEW L, Shape(L, next, prev, status), NEW stop, ForEachDevice(stop)
  PROVE  \E n \in 0 .. Len(ListOf(DeviceHead)) : Lists!Visit(DeviceHead, n)
<1> DEFINE list    == ListOf(DeviceHead)
           stops   == {k \in DOMAIN list : list[k] \in stop}
           visited == {k \in DOMAIN list : \A j \in stops : k <= j}
<1>1. DeviceHead \in Heads /\ list \in Seq(Objects)
  BY ListsOfShape DEF Shape, Heads
<1>2. DOMAIN list = 1 .. Len(list) /\ Len(list) \in Nat
  BY <1>1, LenProperties
<1>3. ret' = [k \in visited |-> list[k]]
  BY DEF ForEachDevice
<1>4. stops \subseteq 1 .. Len(list)
  BY <1>2
<1> HIDE DEF stops
<1>5. \E n \in 0 .. Len(list) : visited = 1 .. n /\ (n = 0 => Len(list) = 0)
  <2>1. CASE stops = {}
    <3>1. visited = 1 .. Len(list)
      BY <1>2, <2>1
    <3>2. Len(list) \in 0 .. Len(list)
      BY <1>2, SMT
    <3> QED BY <3>1, <3>2
  <2>2. CASE stops # {}
    <3>1. stops \subseteq Nat
      BY <1>2, <1>4, SMT
    <3>2. PICK n \in stops : \A m \in stops : n <= m
      BY <2>2, <3>1, LeastNat
    <3>3. n \in 1 .. Len(list) /\ n \in 0 .. Len(list) /\ n # 0
      BY <1>2, <1>4, <3>2, SMT
    <3>4. \A k \in 1 .. Len(list) : k \in visited <=> k <= n
      <4>1. ASSUME NEW k \in 1 .. Len(list), k <= n PROVE k \in visited
        <5>1. \A m \in stops : k <= m
          <6>1. \A m \in stops : m \in Int /\ n <= m
            BY <3>1, <3>2
          <6> QED BY <1>2, <3>3, <4>1, <6>1, SMT
        <5> QED BY <1>2, <5>1
      <4> QED BY <3>2, <4>1
    <3>5. visited \subseteq 1 .. Len(list)
      BY <1>2
    <3>6. \A k \in 1 .. n : k \in 1 .. Len(list) /\ k <= n
      BY <1>2, <3>3, SMT
    <3>7. \A k \in 1 .. Len(list) : k <= n => k \in 1 .. n
      BY <1>2, <3>3, SMT
    <3>8. visited = 1 .. n
      BY <3>4, <3>5, <3>6, <3>7
    <3> QED BY <3>3, <3>8
  <2> QED BY <2>1, <2>2
<1>6. PICK n \in 0 .. Len(list) : visited = 1 .. n /\ (n = 0 => Len(list) = 0)
  BY <1>5
<1>7. n \in Int /\ \A k \in 1 .. n : k \in 1 .. Len(list)
  BY <1>2, <1>6, SMT
<1> HIDE DEF visited
<1>8. SubSeq(list, 1, n) = [k \in 1 .. n |-> list[k]]
  <2>1. \A k \in 1 .. n : list[k] \in Objects
    BY <1>1, <1>2, <1>7, ElementOfSeq
  <2>2. /\ SubSeq(list, 1, n) \in Seq(Objects)
        /\ Len(SubSeq(list, 1, n)) = IF 1 <= n THEN n - 1 + 1 ELSE 0
        /\ \A k \in 1 .. n - 1 + 1 : SubSeq(list, 1, n)[k] = list[1 + k - 1]
    BY <1>7, <2>1, SubSeqProperties
  <2>3. Len(SubSeq(list, 1, n)) = n /\ \A k \in 1 .. n : k \in 1 .. n - 1 + 1 /\ 1 + k - 1 = k
    BY <1>2, <1>6, <2>2, SMT
  <2> QED BY <2>2, <2>3, LenProperties
<1>9. n = 0 => list = <<>>
  BY <1>1, <1>6, EmptySeq
<1>10. Lists!Visit(DeviceHead, n)
  BY <1>1, <1>3, <1>6, <1>8, <1>9 DEF Lists!Visit
<1> QED BY <1>6, <1>10

LEMMA AnswerRefines ==
  ASSUME NEW L, Shape(L, next, prev, status), Answer
  PROVE  Lists!Query
<1>1. ASSUME NEW o \in Objects, RegisterIncomplete(o) PROVE Lists!Query
  BY <1>1 DEF RegisterIncomplete, Lists!Query, Lists!Reject
<1>2. BackendHead \in Heads /\ DriverHead \in Heads /\ DeviceHead \in Heads
  BY DEF Heads
<1>3. ASSUME NEW name \in Names, FindBackend(name) \/ FindDevice(name) PROVE Lists!Query
  BY <1>2, <1>3, FindRefines DEF Lists!Query
<1>4. ASSUME NEW class \in Classes, FindDriver(class) PROVE Lists!Query
  BY <1>2, <1>4, FindRefines DEF Lists!Query
<1>5. ASSUME NEW stop \in SUBSET Devices, ForEachDevice(stop) PROVE Lists!Query
  BY <1>2, <1>5, ForEachRefines DEF Lists!Query
<1>6. CASE GetRegistrySnapshot
  BY <1>6 DEF GetRegistrySnapshot, Lists!Query, Lists!Count
<1> QED BY <1>1, <1>3, <1>4, <1>5, <1>6 DEF Answer

LEMMA StepRefines ==
  IInv /\ [Next]_vars => [Lists!Next]_(Lists!vars)
<1> DEFINE lists == [h \in Heads |-> ListOf(h)]
<1> SUFFICES ASSUME NEW L, Shape(L, next, prev, status), [Next]_vars
             PROVE  [Lists!Next]_(Lists!vars)
  BY DEF IInv
<1>1. lists = L /\ L \in [Heads -> Seq(Objects)]
  BY ListsOfShape DEF Shape
<1>2. \A M : Shape(M, next', prev', status') => lists' = M
  BY ListsOfShapeNext
<1>3. \A o \in Objects : HeadOf(o) \in Heads /\ [p \in Objects |-> HeadOf(p)][o] = HeadOf(o)
  BY HeadsAndObjects
<1>4. CASE UNCHANGED vars
  <2>1. Shape(L, next', prev', status')
    BY <1>4 DEF vars
  <2> QED BY <1>1, <1>2, <1>4, <2>1 DEF vars, Lists!vars
<1>5. ASSUME NEW o \in Objects, RegisterObject(o) PROVE [Lists!Next]_(Lists!vars)
  <2>1. CASE ret' = EEXIST /\ SameName(o) # {} /\ Shape(L, next', prev', status')
    BY <1>1, <1>2, <2>1, TakenIsSameName DEF Lists!Next, Lists!Query, Lists!Refuse
  <2>2. CASE /\ ret' = OK /\ SameName(o) = {}
             /\ Shape([L EXCEPT ![HeadOf(o)] = Append(L[HeadOf(o)], o)],
                      next', prev', status')
    <3>1. lists' = [lists EXCEPT ![[p \in Objects |-> HeadOf(p)][o]] = Append(@, o)]
      BY <1>1, <1>2, <1>3, <2>2
    <3>2. Lists!Register(o)
      BY <2>2, <3>1, TakenIsSameName DEF Lists!Register
    <3> QED BY <3>2 DEF Lists!Next
  <2> QED BY <1>5, <2>1, <2>2, RegisterShape
<1>6. ASSUME NEW o \in Objects, UnregisterObject(o) PROVE [Lists!Next]_(Lists!vars)
  <2>0. OnList(HeadOf(o)) = Members(L[HeadOf(o)]) /\ ListOf(HeadOf(o)) = L[HeadOf(o)]
    BY <1>3, ListsOfShape
  <2>1. CASE /\ ret' = ret /\ o \notin Members(L[HeadOf(o)])
             /\ Shape(L, next', prev', status')
    <3>1. o \notin Lists!MembersOf(lists[[p \in Objects |-> HeadOf(p)][o]])
      BY <1>3, <2>0, <2>1 DEF Lists!MembersOf, OnList
    <3>2. lists' = lists
      BY <1>1, <1>2, <2>1
    <3>3. Lists!Unregister(o)
      BY <2>1, <3>1, <3>2 DEF Lists!Unregister
    <3> QED BY <3>3 DEF Lists!Next
  <2>2. ASSUME ret' = ret, NEW i \in 1 .. Len(L[HeadOf(o)]), L[HeadOf(o)][i] = o,
               Shape([L EXCEPT ![HeadOf(o)] = Without(L[HeadOf(o)], i)],
                     next', prev', status')
        PROVE  [Lists!Next]_(Lists!vars)
    <3>1. i \in DOMAIN L[HeadOf(o)]
      BY <1>1, <1>3, LenProperties
    <3>2. lists' = [lists EXCEPT ![[p \in Objects |-> HeadOf(p)][o]] = Without(@, i)]
      BY <1>1, <1>2, <1>3, <2>2
    <3>3. Lists!Unregister(o)
      BY <1>1, <1>3, <2>2, <3>1, <3>2 DEF Lists!Unregister, Lists!RemoveAt, Without
    <3> QED BY <3>3 DEF Lists!Next
  <2>3. /\ ret' = ret
        /\ \/ o \notin Members(L[HeadOf(o)]) /\ Shape(L, next', prev', status')
           \/ \E i \in 1 .. Len(L[HeadOf(o)]) :
                /\ L[HeadOf(o)][i] = o
                /\ Shape([L EXCEPT ![HeadOf(o)] = Without(L[HeadOf(o)], i)],
                         next', prev', status')
    BY <1>6, UnregisterShape
  <2> QED BY <2>1, <2>2, <2>3
<1>7. ASSUME NEW o \in Objects, DisposeDevice(o) PROVE [Lists!Next]_(Lists!vars)
  <2>1. Shape(L, next', prev', status') /\ ret' = ret
    BY <1>7, DisposeShape
  <2> QED BY <1>1, <1>2, <2>1 DEF Lists!vars
<1>8. CASE Answer /\ UNCHANGED <<next, prev, status, fault>>
  <2>1. Shape(L, next', prev', status')
    BY <1>8
  <2>2. lists' = lists /\ Lists!Query
    BY <1>1, <1>2, <1>8, <2>1, AnswerRefines
  <2> QED BY <2>2 DEF Lists!Next
<1> QED BY <1>4, <1>5, <1>6, <1>7, <1>8, StepKinds

\* The pointer structure behaves as three lists in order of registration with
\* unique names: every call appends one object, removes one, or only answers,
\* and its answer is that of the lists.
THEOREM RegistryImplementsLists == Spec => ImplementsLists
<1>1. Init => Lists!Init
  <2> SUFFICES ASSUME Init PROVE Lists!Init
    OBVIOUS
  <2>1. [h \in Heads |-> ListOf(h)] = [h \in Heads |-> <<>>] /\ ret = NULL
    BY InitShape, ListsOfShape DEF Empty, Init
  <2> QED BY <2>1 DEF Lists!Init
<1> QED BY <1>1, InvHolds, StepRefines, PTL DEF Spec, ImplementsLists, Lists!Spec

=============================================================================
