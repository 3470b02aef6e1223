--------------------------- MODULE DeviceIOProofs ---------------------------
(***************************************************************************)
(* For any processes, any devices in any order, rings and transfers of any *)
(* size: no selection dangles, no NULL pointer is followed, and no byte is *)
(* lost or duplicated by the interleaving of readers, writers, changes of  *)
(* power, the probes and the reloads of the module.                        *)
(***************************************************************************)
EXTENDS DeviceIO, SequenceTheorems, TLAPS

LEMMA Bounds ==
  RingSize \in Nat /\ MaxLen \in Nat /\ MaxBytes \in Nat /\ LogSize \in Nat
BY BoundsAssumption

LEMMA LesserRange ==
  ASSUME NEW m \in Nat, NEW n \in Nat
  PROVE  Lesser(m, n) \in Nat /\ Lesser(m, n) <= m /\ Lesser(m, n) <= n
BY SMT DEF Lesser

-----------------------------------------------------------------------------
(* The invariant.                                                          *)

Places == {"register", "bind", "ring", "state", "power", "announce"}

Points == {"idle", "read", "write", "copy", "driver_power", "power", "emit", "poll"}

LoaderTypes ==
  /\ loader \in {"load", "live"}
  /\ registered \subseteq Devices
  /\ pending \in Seq(Devices)
  /\ at \in Places
  /\ driver \in [Devices -> BOOLEAN]

ProcessTypes ==
  /\ fd \in [Procs -> {NULL, CLOSED} \union Devices]
  /\ pc \in [Procs -> Points]
  /\ call = [p \in Procs |-> call[p]]
  /\ kbuf \in [Procs -> Seq(Nat)]

ByteTypes ==
  /\ ring \in [Devices -> {NULL} \union Seq(Nat)]
  /\ accepted \in [Devices -> 0 .. MaxBytes]
  /\ delivered \in [Devices -> SUBSET Nat]
  /\ lost \in [Devices -> SUBSET Nat]

CounterTypes ==
  /\ power \in [Devices -> PowerStates]
  /\ events \in 0 .. LogSize

\* The devices that are still to be probed have no ring, and the one that is
\* being probed has its driver.
LoaderOrder ==
  /\ \A i, j \in DOMAIN pending : pending[i] = pending[j] => i = j
  /\ \A i \in DOMAIN pending :
       i # 1 \/ at \in {"register", "bind", "ring"} => ring[pending[i]] = NULL
  /\ at \in {"ring", "state", "power", "announce"} =>
       pending # <<>> /\ driver[pending[1]]

\* A call has passed the checks at its start: its device has a driver, and its
\* arguments are those of such a call.
InCall(p) ==
  /\ pc[p] # "idle" => fd[p] # CLOSED
  /\ pc[p] \in {"read", "write", "copy"} => fd[p] \in Devices /\ driver[fd[p]]
  /\ pc[p] \in {"read", "write"} => call[p].len \in 0 .. MaxLen
  /\ pc[p] \in {"driver_power", "power"} => fd[p] \in Devices /\ call[p].state \in PowerStates
  /\ pc[p] = "copy" => ring[fd[p]] # NULL
  /\ Len(kbuf[p]) <= MaxLen

Calls == \A p \in Procs : InCall(p)

\* A device without a ring has not taken a byte.
Untouched ==
  \A d \in Devices :
    ring[d] = NULL => accepted[d] = 0 /\ delivered[d] = {} /\ lost[d] = {}

\* What reads have taken from the ring and not handed on.
HeldBytes(d) == UNION {Numbers(p) : p \in InFlight(d)}

\* s are the youngest bytes of the first n, and no more than size of them.
Youngest(s, n, size) ==
  /\ Len(s) <= n
  /\ Len(s) <= size
  /\ \A i \in 1 .. Len(s) : s[i] = (n - Len(s)) + i

\* BytesConserved of one device, with what its steps need of the ring.
Ledger(d) ==
  /\ Youngest(Stream(d), accepted[d], RingSize)
  /\ 1 .. accepted[d] - Len(Stream(d)) = delivered[d] \union lost[d] \union HeldBytes(d)
  /\ delivered[d] \intersect lost[d] = {}
  /\ \A p \in InFlight(d) :
       /\ Numbers(p) \intersect (delivered[d] \union lost[d]) = {}
       /\ \A q \in InFlight(d) \ {p} : Numbers(p) \intersect Numbers(q) = {}

Ledgers == \A d \in Devices : Ledger(d)

IInv ==
  /\ LoaderTypes /\ ProcessTypes /\ ByteTypes /\ CounterTypes
  /\ LoaderOrder /\ Calls /\ Untouched /\ Ledgers
  /\ SelectionAlive /\ fault = FALSE

-----------------------------------------------------------------------------
(* Bytes.                                                                  *)

LEMMA StreamSeq ==
  ASSUME ByteTypes, NEW d \in Devices
  PROVE  Stream(d) \in Seq(Nat) /\ Len(Stream(d)) \in Nat /\ accepted[d] \in Nat
<1>1. <<>> \in Seq(Nat)
  BY EmptySeq
<1>2. Stream(d) \in Seq(Nat)
  BY <1>1 DEF ByteTypes, Stream
<1>3. accepted[d] \in 0 .. MaxBytes
  BY DEF ByteTypes
<1> QED BY <1>2, <1>3, LenProperties, Bounds, SMT

\* What leaves the ring, the history and the reads of a device alone leaves its
\* bytes alone.
LEMMA LedgerKept ==
  ASSUME NEW d \in Devices, Ledger(d),
         Stream(d)' = Stream(d), accepted'[d] = accepted[d],
         delivered'[d] = delivered[d], lost'[d] = lost[d],
         InFlight(d)' = InFlight(d),
         \A p \in InFlight(d) : kbuf'[p] = kbuf[p]
  PROVE  Ledger(d)'
<1>1. \A p \in InFlight(d) : Numbers(p)' = Numbers(p)
  BY DEF Numbers
<1>2. HeldBytes(d)' = HeldBytes(d)
  BY <1>1 DEF HeldBytes
<1> QED BY <1>1, <1>2 DEF Ledger

\* A read hands its bytes on, or loses them.
LEMMA LedgerSettled ==
  ASSUME NEW d \in Devices, Ledger(d), NEW p \in InFlight(d),
         Stream(d)' = Stream(d), accepted'[d] = accepted[d],
         \/ delivered'[d] = delivered[d] \union Numbers(p) /\ lost'[d] = lost[d]
         \/ delivered'[d] = delivered[d] /\ lost'[d] = lost[d] \union Numbers(p),
         InFlight(d)' = InFlight(d) \ {p},
         \A q \in InFlight(d) \ {p} : kbuf'[q] = kbuf[q]
  PROVE  Ledger(d)'
<1>1. \A q \in InFlight(d)' : Numbers(q)' = Numbers(q)
  BY DEF Numbers
<1>2. HeldBytes(d)' = UNION {Numbers(q) : q \in InFlight(d) \ {p}}
  BY <1>1 DEF HeldBytes
<1>3. HeldBytes(d) = HeldBytes(d)' \union Numbers(p)
  BY <1>2 DEF HeldBytes
<1>4. delivered'[d] \union lost'[d] = (delivered[d] \union lost[d]) \union Numbers(p)
  OBVIOUS
<1>5. Numbers(p) \intersect (delivered[d] \union lost[d]) = {}
  BY DEF Ledger
<1>6. 1 .. accepted'[d] - Len(Stream(d)') = delivered'[d] \union lost'[d] \union HeldBytes(d)'
  BY <1>3, <1>4 DEF Ledger
<1>7. delivered'[d] \intersect lost'[d] = {}
  BY <1>5 DEF Ledger
<1>8. ASSUME NEW q \in InFlight(d)'
      PROVE  /\ Numbers(q)' \intersect (delivered'[d] \union lost'[d]) = {}
             /\ \A r \in InFlight(d)' \ {q} : Numbers(q)' \intersect Numbers(r)' = {}
  <2>1. q \in InFlight(d) /\ q # p
    OBVIOUS
  <2>2. /\ Numbers(q) \intersect (delivered[d] \union lost[d]) = {}
        /\ Numbers(q) \intersect Numbers(p) = {}
    BY <2>1 DEF Ledger
  <2>3. \A r \in InFlight(d)' \ {q} : Numbers(q) \intersect Numbers(r) = {}
    BY <2>1 DEF Ledger
  <2> QED BY <1>1, <1>4, <2>2, <2>3
<1> QED BY <1>6, <1>7, <1>8 DEF Ledger

\* The b bytes that follow the first a.
LEMMA Part ==
  ASSUME NEW s \in Seq(Nat), NEW a \in Nat, NEW b \in Nat, a + b <= Len(s)
  PROVE  /\ SubSeq(s, a + 1, a + b) \in Seq(Nat)
         /\ Len(SubSeq(s, a + 1, a + b)) = b
         /\ \A i \in 1 .. b : SubSeq(s, a + 1, a + b)[i] = s[a + i]
<1>1. PICK l \in Nat : l = Len(s)
  BY LenProperties
<1>2. PICK x \in Int, y \in Int : x = a + 1 /\ y = a + b /\ y <= l
  BY <1>1, SMT
<1>3. \A i \in x .. y : s[i] \in Nat
  <2>1. ASSUME NEW i \in x .. y PROVE i \in 1 .. l
    BY <1>2, SMT
  <2> QED BY <1>1, <2>1, ElementOfSeq
<1> DEFINE t == SubSeq(s, x, y)
<1>4. /\ t \in Seq(Nat)
      /\ Len(t) = IF x <= y THEN y - x + 1 ELSE 0
      /\ \A i \in 1 .. y - x + 1 : t[i] = s[x + i - 1]
  BY <1>3, SubSeqProperties
<1> HIDE DEF t
<1>5. Len(t) = b
  BY <1>2, <1>4, SMT
<1>6. ASSUME NEW i \in 1 .. b PROVE t[i] = s[a + i]
  <2>1. i \in 1 .. y - x + 1 /\ x + i - 1 = a + i
    BY <1>2, SMT
  <2> QED BY <1>4, <2>1
<1> QED BY <1>2, <1>4, <1>5, <1>6 DEF t

LEMMA Shifted ==
  ASSUME NEW c \in Nat, NEW k \in Nat
  PROVE  {c + i : i \in 1 .. k} = c + 1 .. c + k
<1>1. ASSUME NEW i \in 1 .. k PROVE c + i \in c + 1 .. c + k
  BY SMT
<1>2. ASSUME NEW b \in c + 1 .. c + k PROVE b \in {c + i : i \in 1 .. k}
  <2>1. b - c \in 1 .. k /\ b = c + (b - c)
    BY SMT
  <2> QED BY <2>1
<1> QED BY <1>1, <1>2

LEMMA Joined ==
  ASSUME NEW c \in Nat, NEW k \in Nat
  PROVE  /\ 1 .. c + k = (1 .. c) \union (c + 1 .. c + k)
         /\ (1 .. c) \intersect (c + 1 .. c + k) = {}
BY SMT

Elements(s) == {s[i] : i \in DOMAIN s}

\* Taking the oldest k of them.
LEMMA YoungestTaken ==
  ASSUME NEW s \in Seq(Nat), NEW n \in Nat, NEW size \in Nat, NEW k \in Nat,
         Youngest(s, n, size), k <= Len(s)
  PROVE  /\ SubSeq(s, k + 1, Len(s)) \in Seq(Nat)
         /\ Youngest(SubSeq(s, k + 1, Len(s)), n, size)
         /\ SubSeq(s, 1, k) \in Seq(Nat)
         /\ Len(SubSeq(s, 1, k)) = k
         /\ (1 .. n - Len(s)) \intersect Elements(SubSeq(s, 1, k)) = {}
         /\ 1 .. n - Len(SubSeq(s, k + 1, Len(s))) =
              (1 .. n - Len(s)) \union Elements(SubSeq(s, 1, k))
<1> DEFINE t == SubSeq(s, k + 1, Len(s))
           u == SubSeq(s, 1, k)
<1>1. PICK m \in Nat : m = Len(s)
  BY LenProperties
<1>2. m <= n /\ m <= size /\ k <= m
  BY <1>1 DEF Youngest
<1>3. PICK c \in Nat, r \in Nat :
        c = n - m /\ r = m - k /\ n - r = c + k /\ k + r = m /\ r <= n /\ r <= size
  <2>1. PICK c \in Nat : c = n - m
    BY <1>2, SMT
  <2>2. PICK r \in Nat : r = m - k
    BY <1>2, SMT
  <2>3. n - r = c + k /\ k + r = m /\ r <= n /\ r <= size
    BY <1>2, <2>1, <2>2, SMT
  <2> QED BY <2>1, <2>2, <2>3
<1>4. \A i \in 1 .. m : s[i] = c + i
  <2>1. \A i \in 1 .. Len(s) : s[i] = (n - Len(s)) + i
    BY DEF Youngest
  <2>2. n - Len(s) = c
    BY <1>1, <1>3
  <2> QED BY <1>1, <2>1, <2>2
<1>5. /\ t \in Seq(Nat) /\ Len(t) = r
      /\ \A i \in 1 .. r : t[i] = s[k + i]
  <2>1. k + r = Len(s)
    BY <1>1, <1>3
  <2>2. k + r <= Len(s)
    BY <1>1, <1>3
  <2>3. /\ SubSeq(s, k + 1, k + r) \in Seq(Nat) /\ Len(SubSeq(s, k + 1, k + r)) = r
        /\ \A i \in 1 .. r : SubSeq(s, k + 1, k + r)[i] = s[k + i]
    BY <2>2, Part, ZenonT(40)
  <2>4. t = SubSeq(s, k + 1, k + r)
    BY <2>1
  <2> QED BY <2>3, <2>4
<1>6. \A i \in 1 .. r : t[i] = (c + k) + i
  <2>1. ASSUME NEW i \in 1 .. r PROVE k + i \in 1 .. m /\ c + (k + i) = (c + k) + i
    BY <1>3, SMT
  <2> QED BY <1>4, <1>5, <2>1
<1>7. u \in Seq(Nat) /\ Len(u) = k /\ \A i \in 1 .. k : u[i] = s[0 + i]
  <2>1. 0 + 1 = 1 /\ 0 + k = k
    BY SMT
  <2> QED BY <1>1, <1>2, <2>1, Part
<1>8. \A i \in 1 .. k : u[i] = c + i
  <2>1. ASSUME NEW i \in 1 .. k PROVE i \in 1 .. m /\ 0 + i = i
    BY <1>2, SMT
  <2> QED BY <1>4, <1>7, <2>1
<1>9. Elements(u) = c + 1 .. c + k
  <2>1. DOMAIN u = 1 .. k
    BY <1>7, LenProperties
  <2>2. Elements(u) = {u[i] : i \in 1 .. k}
    BY <2>1 DEF Elements
  <2> HIDE DEF u
  <2>3. {u[i] : i \in 1 .. k} = {c + i : i \in 1 .. k}
    BY <1>8
  <2> QED BY <2>2, <2>3, Shifted
<1> HIDE DEF t, u
<1>10. n - Len(t) = c + k /\ n - Len(s) = c
  BY <1>1, <1>3, <1>5
<1>11. Youngest(t, n, size)
  BY <1>3, <1>5, <1>6, <1>10 DEF Youngest
<1>12. (1 .. n - Len(s)) \intersect Elements(u) = {}
  BY <1>9, <1>10, Joined
<1>13. 1 .. n - Len(t) = (1 .. n - Len(s)) \union Elements(u)
  BY <1>9, <1>10, Joined
<1> QED BY <1>5, <1>7, <1>11, <1>12, <1>13 DEF t, u

\* Putting the next k behind them.
LEMMA YoungestPut ==
  ASSUME NEW s \in Seq(Nat), NEW n \in Nat, NEW size \in Nat, NEW k \in Nat,
         Youngest(s, n, size), Len(s) + k <= size
  PROVE  /\ s \o [i \in 1 .. k |-> n + i] \in Seq(Nat)
         /\ Youngest(s \o [i \in 1 .. k |-> n + i], n + k, size)
         /\ (n + k) - Len(s \o [i \in 1 .. k |-> n + i]) = n - Len(s)
<1> DEFINE new == [i \in 1 .. k |-> n + i]
           t == s \o new
<1>1. PICK m \in Nat : m = Len(s)
  BY LenProperties
<1>2. m <= n /\ m + k <= size
  BY <1>1 DEF Youngest
<1>3. PICK c \in Nat, l \in Nat : c = n - m /\ l = m + k /\ (n + k) - l = c /\ l <= n + k
  BY <1>2, SMT
<1>4. \A i \in 1 .. m : s[i] = c + i
  <2>1. \A i \in 1 .. Len(s) : s[i] = (n - Len(s)) + i
    BY DEF Youngest
  <2>2. n - Len(s) = c
    BY <1>1, <1>3
  <2> QED BY <1>1, <2>1, <2>2
<1>5. new \in Seq(Nat) /\ Len(new) = k /\ \A i \in 1 .. k : new[i] = n + i
  <2>1. new \in [1 .. k -> Nat] /\ \A i \in 1 .. k : new[i] = n + i
    BY SMT
  <2> HIDE DEF new
  <2> QED BY <2>1, SMT
<1> HIDE DEF new
<1>6. /\ t \in Seq(Nat) /\ Len(t) = Len(s) + Len(new)
      /\ \A i \in 1 .. Len(s) + Len(new) :
           t[i] = IF i <= Len(s) THEN s[i] ELSE new[i - Len(s)]
  BY <1>5, ConcatProperties
<1> HIDE DEF t
<1>7. Len(t) = l /\ \A i \in 1 .. l : t[i] = IF i <= m THEN s[i] ELSE new[i - m]
  BY <1>1, <1>3, <1>5, <1>6
<1>8. ASSUME NEW i \in 1 .. l PROVE t[i] = c + i
  <2>1. CASE i <= m
    <3>1. i \in 1 .. m
      BY <2>1, SMT
    <3> QED BY <1>4, <1>7, <2>1, <3>1
  <2>2. CASE ~ i <= m
    <3>1. i - m \in 1 .. k /\ n + (i - m) = c + i
      BY <1>3, <2>2, SMT
    <3> QED BY <1>5, <1>7, <2>2, <3>1
  <2> QED BY <2>1, <2>2
<1>9. (n + k) - Len(t) = c /\ n - Len(s) = c
  BY <1>1, <1>3, <1>7
<1>10. l <= size
  BY <1>2, <1>3
<1>11. Youngest(t, n + k, size)
  BY <1>3, <1>7, <1>8, <1>9, <1>10 DEF Youngest
<1> QED BY <1>6, <1>9, <1>11 DEF t, new

\* A read takes the oldest k bytes out of the ring.
LEMMA LedgerTaken ==
  ASSUME NEW d \in Devices, Ledger(d), ByteTypes, NEW p \in Procs, p \notin InFlight(d),
         NEW k \in Nat, k <= Len(Stream(d)),
         kbuf'[p] = SubSeq(Stream(d), 1, k),
         Stream(d)' = SubSeq(Stream(d), k + 1, Len(Stream(d))),
         accepted'[d] = accepted[d],
         delivered'[d] = delivered[d], lost'[d] = lost[d],
         InFlight(d)' = InFlight(d) \union {p},
         \A q \in InFlight(d) : kbuf'[q] = kbuf[q]
  PROVE  /\ Ledger(d)'
         /\ SubSeq(Stream(d), 1, k) \in Seq(Nat)
         /\ Len(SubSeq(Stream(d), 1, k)) = k
         /\ SubSeq(Stream(d), k + 1, Len(Stream(d))) \in Seq(Nat)
<1>1. PICK n \in Nat, s \in Seq(Nat) : n = accepted[d] /\ s = Stream(d)
  BY StreamSeq
<1>2. Youngest(s, n, RingSize)
  BY <1>1 DEF Ledger
<1> DEFINE t == SubSeq(s, k + 1, Len(s))
           u == SubSeq(s, 1, k)
<1>3. /\ t \in Seq(Nat) /\ Youngest(t, n, RingSize)
      /\ u \in Seq(Nat) /\ Len(u) = k
      /\ (1 .. n - Len(s)) \intersect Elements(u) = {}
      /\ 1 .. n - Len(t) = (1 .. n - Len(s)) \union Elements(u)
  <2>1. k <= Len(s) /\ RingSize \in Nat
    BY <1>1, Bounds
  <2> QED BY <1>2, <2>1, YoungestTaken
<1>4. Stream(d)' = t /\ kbuf'[p] = u
  BY <1>1
<1> HIDE DEF t, u
<1>5. Numbers(p)' = Elements(u)
  BY <1>4 DEF Numbers, Elements
<1>6. \A q \in InFlight(d) : Numbers(q)' = Numbers(q)
  BY DEF Numbers
<1>7. HeldBytes(d)' = HeldBytes(d) \union Numbers(p)'
  BY <1>6 DEF HeldBytes
<1>8. 1 .. n - Len(s) = delivered[d] \union lost[d] \union HeldBytes(d)
  BY <1>1 DEF Ledger
<1>9. 1 .. n - Len(t) = delivered[d] \union lost[d] \union HeldBytes(d)'
  BY <1>3, <1>5, <1>7, <1>8
<1>10. Numbers(p)' \intersect (delivered[d] \union lost[d] \union HeldBytes(d)) = {}
  BY <1>3, <1>5, <1>8
<1>11. Numbers(p)' \intersect (delivered[d] \union lost[d]) = {}
  BY <1>10
<1>12. \A q \in InFlight(d) : Numbers(p)' \intersect Numbers(q) = {}
  BY <1>10 DEF HeldBytes
<1>13. ASSUME NEW q \in InFlight(d)'
       PROVE  /\ Numbers(q)' \intersect (delivered[d] \union lost[d]) = {}
              /\ \A r \in InFlight(d)' \ {q} : Numbers(q)' \intersect Numbers(r)' = {}
  <2>1. CASE q = p
    <3>1. \A r \in InFlight(d)' \ {q} : r \in InFlight(d)
      BY <2>1
    <3> QED BY <1>6, <1>11, <1>12, <2>1, <3>1
  <2>2. CASE q # p
    <3>1. q \in InFlight(d)
      BY <2>2
    <3>2. Numbers(q) \intersect (delivered[d] \union lost[d]) = {}
      BY <3>1 DEF Ledger
    <3>3. ASSUME NEW r \in InFlight(d)' \ {q} PROVE Numbers(q)' \intersect Numbers(r)' = {}
      <4>1. CASE r = p
        BY <1>6, <1>12, <3>1, <4>1
      <4>2. CASE r # p
        <5>1. r \in InFlight(d) \ {q}
          BY <3>3, <4>2
        <5> QED BY <1>6, <3>1, <5>1 DEF Ledger
      <4> QED BY <4>1, <4>2
    <3> QED BY <1>6, <3>1, <3>2, <3>3
  <2> QED BY <2>1, <2>2
<1>14. delivered'[d] \intersect lost'[d] = {}
  BY DEF Ledger
<1>15. \A q \in InFlight(d)' :
         /\ Numbers(q)' \intersect (delivered'[d] \union lost'[d]) = {}
         /\ \A r \in InFlight(d)' \ {q} : Numbers(q)' \intersect Numbers(r)' = {}
  BY <1>13
<1>16. Youngest(Stream(d)', accepted'[d], RingSize)
  BY <1>1, <1>3, <1>4
<1>17. 1 .. accepted'[d] - Len(Stream(d)') =
         delivered'[d] \union lost'[d] \union HeldBytes(d)'
  BY <1>1, <1>4, <1>9
<1>18. Ledger(d)'
  BY <1>14, <1>15, <1>16, <1>17, Zenon DEF Ledger
<1> QED BY <1>1, <1>3, <1>18 DEF t, u

\* A write puts k bytes behind those in the ring.
LEMMA LedgerPut ==
  ASSUME NEW d \in Devices, Ledger(d), ByteTypes,
         NEW k \in Nat, Len(Stream(d)) + k <= RingSize,
         Stream(d)' = Stream(d) \o [i \in 1 .. k |-> accepted[d] + i],
         accepted'[d] = accepted[d] + k,
         delivered'[d] = delivered[d], lost'[d] = lost[d],
         InFlight(d)' = InFlight(d),
         \A q \in InFlight(d) : kbuf'[q] = kbuf[q]
  PROVE  Ledger(d)'
<1>1. PICK n \in Nat, s \in Seq(Nat) : n = accepted[d] /\ s = Stream(d)
  BY StreamSeq
<1>2. Youngest(s, n, RingSize)
  BY <1>1 DEF Ledger
<1> DEFINE t == s \o [i \in 1 .. k |-> n + i]
<1>3. Youngest(t, n + k, RingSize) /\ (n + k) - Len(t) = n - Len(s)
  <2>1. Len(s) + k <= RingSize /\ RingSize \in Nat
    BY <1>1, Bounds
  <2> QED BY <1>2, <2>1, YoungestPut
<1>4. Stream(d)' = t /\ accepted'[d] = n + k
  BY <1>1
<1> HIDE DEF t
<1>5. \A q \in InFlight(d) : Numbers(q)' = Numbers(q)
  BY DEF Numbers
<1>6. HeldBytes(d)' = HeldBytes(d)
  BY <1>5 DEF HeldBytes
<1>7. 1 .. n - Len(s) = delivered[d] \union lost[d] \union HeldBytes(d)
  BY <1>1 DEF Ledger
<1>8. 1 .. accepted'[d] - Len(Stream(d)') =
        delivered'[d] \union lost'[d] \union HeldBytes(d)'
  BY <1>3, <1>4, <1>6, <1>7
<1>9. delivered'[d] \intersect lost'[d] = {}
  BY DEF Ledger
<1>10. \A p \in InFlight(d)' :
         /\ Numbers(p)' \intersect (delivered'[d] \union lost'[d]) = {}
         /\ \A q \in InFlight(d)' \ {p} : Numbers(p)' \intersect Numbers(q)' = {}
  BY <1>5 DEF Ledger
<1>11. Youngest(Stream(d)', accepted'[d], RingSize)
  BY <1>3, <1>4
<1> QED BY <1>8, <1>9, <1>10, <1>11, Zenon DEF Ledger

-----------------------------------------------------------------------------
(* Processes.                                                              *)

\* A step of p that leaves p with these values and the others alone.
ProcessMoves(p, f, x, c, b) ==
  /\ fd' = [fd EXCEPT ![p] = f]
  /\ pc' = [pc EXCEPT ![p] = x]
  /\ call' = [call EXCEPT ![p] = c]
  /\ kbuf' = [kbuf EXCEPT ![p] = b]

\* What holds of the calls of the others stays.
LEMMA CallsKept ==
  ASSUME Calls, NEW p \in Procs, InCall(p)',
         \A q \in Procs \ {p} :
           fd'[q] = fd[q] /\ pc'[q] = pc[q] /\ call'[q] = call[q] /\ kbuf'[q] = kbuf[q],
         driver' = driver,
         \A d \in Devices : ring[d] # NULL => ring'[d] # NULL
  PROVE  Calls'
<1> SUFFICES ASSUME NEW q \in Procs, q # p PROVE InCall(q)'
  BY DEF Calls
<1>1. fd'[q] = fd[q] /\ pc'[q] = pc[q] /\ call'[q] = call[q] /\ kbuf'[q] = kbuf[q]
  OBVIOUS
<1>2. InCall(q)
  BY DEF Calls
<1>3. pc'[q] = "copy" => ring'[fd'[q]] # NULL
  BY <1>1, <1>2 DEF InCall
<1> QED BY <1>1, <1>2, <1>3, Zenon DEF InCall

\* A step that touches neither the loader's state nor a device nor a byte.
LEMMA QuietStep ==
  ASSUME IInv, CounterTypes', UNCHANGED <<loading, attachment, ring, history, fault>>,
         NEW p \in Procs, NEW f \in {NULL, CLOSED} \union registered,
         NEW x \in Points, x # "copy", pc[p] # "copy",
         NEW c, NEW b \in Seq(Nat), ProcessMoves(p, f, x, c, b), InCall(p)'
  PROVE  IInv'
<1> USE DEF IInv
<1>1. f \in {NULL, CLOSED} \union Devices
  BY DEF LoaderTypes
<1>2. /\ ProcessTypes'
      /\ fd'[p] = f /\ pc'[p] = x
      /\ \A q \in Procs \ {p} :
           fd'[q] = fd[q] /\ pc'[q] = pc[q] /\ call'[q] = call[q] /\ kbuf'[q] = kbuf[q]
  BY <1>1 DEF ProcessMoves, ProcessTypes
<1>3. LoaderTypes' /\ ByteTypes' /\ LoaderOrder' /\ Untouched' /\ fault' = FALSE
  BY DEF LoaderTypes, ByteTypes, LoaderOrder, Untouched, loading, attachment, history
<1>4. ring' = ring /\ driver' = driver
  BY DEF loading, attachment, history
<1>5. Calls'
  <2>1. \A d \in Devices : ring[d] # NULL => ring'[d] # NULL
    BY <1>4
  <2> QED BY <1>2, <1>4, <2>1, CallsKept
<1>6. SelectionAlive'
  BY <1>2 DEF SelectionAlive, loading
<1>7. ASSUME NEW d \in Devices PROVE Ledger(d)'
  <2>1. p \notin InFlight(d)
    BY DEF InFlight
  <2>2. InFlight(d)' = InFlight(d)
    BY <1>2 DEF InFlight
  <2>3. \A q \in InFlight(d) : kbuf'[q] = kbuf[q]
    BY <1>2, <2>1 DEF InFlight
  <2>4. Stream(d)' = Stream(d)
    BY <1>4 DEF Stream
  <2>5. accepted'[d] = accepted[d] /\ delivered'[d] = delivered[d] /\ lost'[d] = lost[d]
    BY DEF history
  <2>6. Ledger(d)
    BY DEF Ledgers
  <2> QED BY <2>2, <2>3, <2>4, <2>5, <2>6, LedgerKept
<1> QED BY <1>2, <1>3, <1>5, <1>6, <1>7 DEF Ledgers

\* A call that returns, whatever it was, with the selection it leaves.
LEMMA QuietReturn ==
  ASSUME IInv, CounterTypes', UNCHANGED <<loading, attachment, ring, history, fault>>,
         NEW p \in Procs, pc[p] # "copy", NEW f \in {NULL, CLOSED} \union registered,
         fd' = [fd EXCEPT ![p] = f], Return(p)
  PROVE  IInv'
<1>1. <<>> \in Seq(Nat) /\ Len(<<>>) = 0
  BY EmptySeq
<1>2. ProcessMoves(p, f, "idle", NULL, <<>>)
  BY DEF Return, ProcessMoves
<1>3. pc'[p] = "idle" /\ kbuf'[p] = <<>>
  BY <1>2 DEF IInv, ProcessTypes, ProcessMoves
<1>4. InCall(p)'
  BY <1>1, <1>3, Bounds, SMT DEF InCall
<1> QED BY <1>1, <1>2, <1>4, QuietStep DEF Points

LEMMA SelectionStays ==
  ASSUME IInv, UNCHANGED fd, NEW p \in Procs
  PROVE  fd' = [fd EXCEPT ![p] = fd[p]] /\ fd[p] \in {NULL, CLOSED} \union registered
BY DEF IInv, ProcessTypes, SelectionAlive

\* A call that goes on from one point to another.
LEMMA QuietMove ==
  ASSUME IInv, CounterTypes', UNCHANGED <<fd, loading, attachment, ring, history, fault>>,
         NEW p \in Procs, pc[p] # "copy", NEW x \in Points, x # "copy", NEW c,
         pc' = [pc EXCEPT ![p] = x], call' = [call EXCEPT ![p] = c], UNCHANGED kbuf,
         fd[p] # CLOSED,
         x \in {"read", "write"} =>
           fd[p] \in Devices /\ driver[fd[p]] /\ c.len \in 0 .. MaxLen,
         x \in {"driver_power", "power"} => fd[p] \in Devices /\ c.state \in PowerStates
  PROVE  IInv'
<1>1. kbuf[p] \in Seq(Nat) /\ kbuf' = [kbuf EXCEPT ![p] = kbuf[p]]
  BY DEF IInv, ProcessTypes
<1>2. ProcessMoves(p, fd[p], x, c, kbuf[p])
  BY <1>1, SelectionStays DEF ProcessMoves
<1>3. fd'[p] = fd[p] /\ pc'[p] = x /\ call'[p] = c /\ kbuf'[p] = kbuf[p] /\ driver' = driver
  BY DEF IInv, ProcessTypes, attachment
<1>4. Len(kbuf[p]) <= MaxLen
  BY DEF IInv, Calls, InCall
<1>5. InCall(p)'
  BY <1>3, <1>4 DEF InCall
<1> QED BY <1>1, <1>2, <1>5, SelectionStays, QuietStep

LEMMA CountersStay ==
  ASSUME IInv, UNCHANGED <<power, events>> PROVE CounterTypes'
BY DEF IInv, CounterTypes

LEMMA EmitCounts ==
  ASSUME IInv, Emit, UNCHANGED power PROVE CounterTypes'
<1>1. events \in 0 .. LogSize
  BY DEF IInv, CounterTypes
<1>2. events' \in 0 .. LogSize
  BY <1>1, Bounds, SMT DEF Emit
<1> QED BY <1>2 DEF IInv, CounterTypes

-----------------------------------------------------------------------------
(* The steps of a process.                                                 *)

LEMMA TransferKeeps ==
  ASSUME IInv, NEW p \in Procs, NEW op \in {"read", "write"}, NEW len \in 0 .. MaxLen,
         Transfer(p, op, len)
  PROVE  IInv'
<1>1. Idle(p) /\ pc[p] # "copy" /\ fd[p] # CLOSED
  BY DEF Transfer, Idle
<1>2. UNCHANGED <<fd, loading, attachment, ring, power, events, history, fault>>
  BY DEF Transfer
<1>3. CounterTypes'
  BY <1>2, CountersStay
<1>4. CASE Return(p)
  BY <1>1, <1>2, <1>3, <1>4, SelectionStays, QuietReturn
<1>5. CASE fd[p] # NULL /\ driver[fd[p]] /\ Enter(p, op, [op |-> op, len |-> len])
  <2>1. fd[p] \in Devices
    BY <1>1, <1>5 DEF IInv, ProcessTypes
  <2>2. op \in Points /\ op # "copy" /\ op \notin {"driver_power", "power"}
    BY DEF Points
  <2>3. [op |-> op, len |-> len].len \in 0 .. MaxLen
    OBVIOUS
  <2> DEFINE c == [op |-> op, len |-> len]
  <2>4. pc' = [pc EXCEPT ![p] = op] /\ call' = [call EXCEPT ![p] = c] /\ UNCHANGED kbuf
    BY <1>5 DEF Enter
  <2> HIDE DEF c
  <2>5. c.len \in 0 .. MaxLen
    BY <2>3 DEF c
  <2> QED BY <1>1, <1>2, <1>3, <1>5, <2>1, <2>2, <2>4, <2>5, QuietMove
<1> QED BY <1>4, <1>5 DEF Transfer

LEMMA SetPowerKeeps ==
  ASSUME IInv, NEW p \in Procs, NEW s, SetPower(p, s)
  PROVE  IInv'
<1>1. Idle(p) /\ pc[p] # "copy" /\ fd[p] # CLOSED
  BY DEF SetPower, Idle
<1>2. UNCHANGED <<fd, loading, attachment, ring, power, events, history, fault>>
  BY DEF SetPower
<1>3. CounterTypes'
  BY <1>2, CountersStay
<1>4. CASE Return(p)
  BY <1>1, <1>2, <1>3, <1>4, SelectionStays, QuietReturn
<1> DEFINE c == [op |-> "power", state |-> s]
           x == IF driver[fd[p]] THEN "driver_power" ELSE "power"
<1>5. CASE fd[p] # NULL /\ s \in PowerStates /\ Enter(p, x, c)
  <2>1. fd[p] \in Devices
    BY <1>1, <1>5 DEF IInv, ProcessTypes
  <2>2. x \in Points /\ x # "copy" /\ x \notin {"read", "write"}
    BY DEF Points
  <2>3. c.state \in PowerStates
    BY <1>5
  <2>4. pc' = [pc EXCEPT ![p] = x] /\ call' = [call EXCEPT ![p] = c] /\ UNCHANGED kbuf
    BY <1>5 DEF Enter
  <2> HIDE DEF c, x
  <2> QED BY <1>1, <1>2, <1>3, <2>1, <2>2, <2>3, <2>4, QuietMove
<1> QED BY <1>4, <1>5 DEF SetPower

LEMMA BeginKeeps ==
  ASSUME IInv, NEW p \in Procs, Begin(p)
  PROVE  IInv'
<1>1. CASE Open(p)
  <2>1. pc[p] # "copy"
    BY <1>1 DEF Open, IInv, Calls, InCall
  <2>2. UNCHANGED <<loading, attachment, ring, history, fault>> /\ CounterTypes'
    BY <1>1, CountersStay DEF Open
  <2>3. CASE fd' = [fd EXCEPT ![p] = NULL]
    BY <1>1, <2>1, <2>2, <2>3, QuietReturn DEF Open
  <2>4. CASE UNCHANGED fd
    BY <1>1, <2>1, <2>2, <2>4, SelectionStays, QuietReturn DEF Open
  <2> QED BY <1>1, <2>3, <2>4 DEF Open
<1>2. CASE Release(p)
  <2>1. UNCHANGED <<loading, attachment, ring, history, fault>> /\ CounterTypes'
    BY <1>2, CountersStay DEF Release
  <2> QED BY <1>2, <2>1, QuietReturn DEF Release, Idle
<1>3. ASSUME NEW d \in Devices, Select(p, d) PROVE IInv'
  <2>1. UNCHANGED <<loading, attachment, ring, history, fault>> /\ CounterTypes'
    BY <1>3, CountersStay DEF Select
  <2>2. pc[p] # "copy" /\ Return(p)
    BY <1>3 DEF Select, Idle
  <2>3. CASE d \in registered /\ fd' = [fd EXCEPT ![p] = d]
    BY <2>1, <2>2, <2>3, QuietReturn
  <2>4. CASE UNCHANGED fd
    BY <2>1, <2>2, <2>4, SelectionStays, QuietReturn
  <2> QED BY <1>3, <2>3, <2>4 DEF Select
<1>4. ASSUME NEW len \in 0 .. MaxLen, Read(p, len) PROVE IInv'
  BY <1>4, TransferKeeps DEF Read
<1>5. ASSUME NEW len \in 0 .. MaxLen, Write(p, len) PROVE IInv'
  BY <1>5, TransferKeeps DEF Write
<1>6. ASSUME NEW s \in PowerArgs, SetPower(p, s) PROVE IInv'
  BY <1>6, SetPowerKeeps
<1>7. CASE PollEvent(p)
  <2>1. UNCHANGED <<fd, loading, attachment, ring, history, fault>> /\ CounterTypes'
    BY <1>7, CountersStay DEF PollEvent
  <2>2. pc[p] # "copy" /\ fd[p] # CLOSED /\ UNCHANGED kbuf /\ pc' = [pc EXCEPT ![p] = "poll"]
    BY <1>7 DEF PollEvent, Idle
  <2>3. call' = [call EXCEPT ![p] = call[p]]
    BY <1>7 DEF PollEvent, IInv, ProcessTypes
  <2>4. "poll" \in Points
    BY DEF Points
  <2> QED BY <2>1, <2>2, <2>3, <2>4, QuietMove
<1> QED BY <1>1, <1>2, <1>3, <1>4, <1>5, <1>6, <1>7 DEF Begin

\* A step that moves bytes of the selected device, and keeps its ledger.
LEMMA BytesStep ==
  ASSUME IInv, UNCHANGED <<fd, loading, attachment, power, events>>, fault' = FALSE,
         NEW p \in Procs, NEW d \in Devices, d = fd[p], ring[d] # NULL,
         driver[d],
         NEW t \in Seq(Nat), ring' = [ring EXCEPT ![d] = t],
         NEW n \in 0 .. MaxBytes, accepted' = [accepted EXCEPT ![d] = n],
         NEW D \in SUBSET Nat, delivered' = [delivered EXCEPT ![d] = D],
         NEW L \in SUBSET Nat, lost' = [lost EXCEPT ![d] = L],
         NEW x \in {"idle", "copy"}, NEW c, NEW b \in Seq(Nat), Len(b) <= MaxLen,
         pc' = [pc EXCEPT ![p] = x], call' = [call EXCEPT ![p] = c],
         kbuf' = [kbuf EXCEPT ![p] = b],
         Ledger(d)'
  PROVE  IInv'
<1>1. t # NULL
  BY DevicesAssumption
<1>2. /\ ring'[d] = t
      /\ \A e \in Devices \ {d} :
           /\ ring'[e] = ring[e] /\ accepted'[e] = accepted[e]
           /\ delivered'[e] = delivered[e] /\ lost'[e] = lost[e]
  BY DEF IInv, ByteTypes
<1>3. /\ fd'[p] = d /\ pc'[p] = x /\ call'[p] = c /\ kbuf'[p] = b
      /\ \A q \in Procs \ {p} :
           fd'[q] = fd[q] /\ pc'[q] = pc[q] /\ call'[q] = call[q] /\ kbuf'[q] = kbuf[q]
  BY DEF IInv, ProcessTypes
<1>4. LoaderTypes' /\ CounterTypes' /\ SelectionAlive'
  BY DEF IInv, LoaderTypes, CounterTypes, SelectionAlive, loading, attachment
<1>5. ProcessTypes'
  BY DEF IInv, ProcessTypes, Points
<1>6. ByteTypes'
  BY DEF IInv, ByteTypes
<1>7. LoaderOrder'
  <2>1. pending' = pending /\ at' = at /\ driver' = driver
    BY DEF loading, attachment
  <2>2. ASSUME NEW i \in DOMAIN pending, ring[pending[i]] = NULL PROVE ring'[pending[i]] = NULL
    <3>1. pending[i] \in Devices
      BY DEF IInv, LoaderTypes
    <3> QED BY <1>2, <2>2, <3>1
  <2> QED BY <2>1, <2>2 DEF IInv, LoaderOrder
<1>8. Untouched'
  BY <1>1, <1>2 DEF IInv, Untouched
<1>9. Calls'
  <2>1. driver' = driver
    BY DEF attachment
  <2>2. InCall(p)'
    <3>1. d # CLOSED
      BY DevicesAssumption
    <3> QED BY <1>1, <1>2, <1>3, <2>1, <3>1 DEF InCall
  <2>3. \A e \in Devices : ring[e] # NULL => ring'[e] # NULL
    BY <1>1, <1>2
  <2>4. Calls
    BY DEF IInv
  <2> QED BY <1>3, <2>1, <2>2, <2>3, <2>4, CallsKept
<1>10. ASSUME NEW e \in Devices, e # d PROVE Ledger(e)'
  <2>1. p \notin InFlight(e)
    BY <1>10 DEF InFlight
  <2>2. InFlight(e)' = InFlight(e)
    BY <1>3, <1>10 DEF InFlight
  <2>3. \A q \in InFlight(e) : kbuf'[q] = kbuf[q]
    BY <1>3, <2>1 DEF InFlight
  <2>4. Stream(e)' = Stream(e)
    BY <1>2, <1>10 DEF Stream
  <2>5. /\ accepted'[e] = accepted[e] /\ delivered'[e] = delivered[e] /\ lost'[e] = lost[e]
        /\ Ledger(e)
    BY <1>2, <1>10 DEF IInv, Ledgers
  <2> QED BY <2>2, <2>3, <2>4, <2>5, LedgerKept
<1>11. Ledgers'
  BY <1>10 DEF Ledgers
<1> QED BY <1>4, <1>5, <1>6, <1>7, <1>8, <1>9, <1>11 DEF IInv

\* The device of a call that is past its checks.
LEMMA TransferDevice ==
  ASSUME IInv, NEW p \in Procs, pc[p] \in {"read", "write", "copy"}
  PROVE  /\ fd[p] \in Devices /\ driver[fd[p]]
         /\ pc[p] \in {"read", "write"} => call[p].len \in 0 .. MaxLen
         /\ pc[p] = "copy" => ring[fd[p]] # NULL
         /\ Ledger(fd[p]) /\ ByteTypes
BY DEF IInv, Calls, InCall, Ledgers

LEMMA TakeBytesKeeps ==
  ASSUME IInv, NEW p \in Procs, TakeBytes(p)
  PROVE  IInv'
<1>1. PICK d \in Devices : d = fd[p]
  BY TransferDevice DEF TakeBytes
<1>2. /\ driver[d] /\ Ledger(d) /\ ByteTypes /\ call[p].len \in 0 .. MaxLen
      /\ pc[p] = "read" /\ ring[d] # NULL
  BY <1>1, TransferDevice DEF TakeBytes
<1>3. PICK s \in Seq(Nat) : s = ring[d]
  BY <1>2 DEF ByteTypes
<1>4. Stream(d) = s /\ Len(s) \in Nat
  BY <1>2, <1>3, LenProperties DEF Stream
<1>5. PICK k \in Nat : k = Lesser(call[p].len, Len(s)) /\ k <= Len(s) /\ k <= MaxLen
  <2>1. PICK l \in 0 .. MaxLen : l = call[p].len
    BY <1>2
  <2>2. l \in Nat /\ l <= MaxLen
    BY Bounds, SMT
  <2>3. PICK m \in Nat : m = Len(s)
    BY <1>4
  <2>4. PICK k \in Nat : k = Lesser(l, m) /\ k <= l /\ k <= m
    BY <2>2, LesserRange
  <2>5. k <= MaxLen
    BY <2>2, <2>4, Bounds, SMT
  <2> QED BY <2>1, <2>3, <2>4, <2>5
<1> DEFINE u == SubSeq(s, 1, k)
           t == SubSeq(s, k + 1, Len(s))
<1>6. /\ kbuf' = [kbuf EXCEPT ![p] = u]
      /\ ring' = [ring EXCEPT ![d] = t]
      /\ pc' = [pc EXCEPT ![p] = "copy"]
      /\ UNCHANGED <<fd, call, loading, attachment, power, events, history, fault>>
  BY <1>1, <1>3, <1>5 DEF TakeBytes
<1> HIDE DEF t, u
<1>7. kbuf'[p] = u /\ ring'[d] = t /\ pc'[p] = "copy" /\ fd'[p] = d
  BY <1>1, <1>6 DEF IInv, ProcessTypes, ByteTypes
<1>8. \A q \in Procs \ {p} : fd'[q] = fd[q] /\ pc'[q] = pc[q] /\ kbuf'[q] = kbuf[q]
  BY <1>6 DEF IInv, ProcessTypes
<1>9. p \notin InFlight(d) /\ InFlight(d)' = InFlight(d) \union {p}
  BY <1>2, <1>7, <1>8 DEF InFlight
<1>10. \A q \in InFlight(d) : kbuf'[q] = kbuf[q]
  BY <1>8, <1>9 DEF InFlight
<1>11. accepted' = accepted /\ delivered' = delivered /\ lost' = lost
  BY <1>6 DEF history
<1>12. t = SubSeq(Stream(d), k + 1, Len(Stream(d))) /\ u = SubSeq(Stream(d), 1, k)
  BY <1>4 DEF t, u
<1>13. t \in Seq(Nat)
  <2>1. PICK m \in Nat : m = Len(s)
    BY <1>4
  <2>2. \A i \in k + 1 .. m : s[i] \in Nat
    <3>1. ASSUME NEW i \in k + 1 .. m PROVE i \in 1 .. m
      BY SMT
    <3> QED BY <2>1, <3>1, ElementOfSeq
  <2>3. SubSeq(s, k + 1, m) \in Seq(Nat)
    BY <1>5, <2>1, <2>2, SubSeqProperties
  <2> QED BY <2>1, <2>3 DEF t
<1>14. t # NULL
  BY <1>13, DevicesAssumption
<1>15. Stream(d)' = t
  BY <1>6, <1>7, <1>14 DEF Stream
<1>16. k <= Len(Stream(d))
  BY <1>4, <1>5
<1>17. Ledger(d)' /\ u \in Seq(Nat) /\ Len(u) = k
  <2>1. /\ kbuf'[p] = SubSeq(Stream(d), 1, k)
        /\ Stream(d)' = SubSeq(Stream(d), k + 1, Len(Stream(d)))
        /\ accepted'[d] = accepted[d] /\ delivered'[d] = delivered[d] /\ lost'[d] = lost[d]
    BY <1>7, <1>11, <1>12, <1>15
  <2>2. /\ Ledger(d)'
        /\ SubSeq(Stream(d), 1, k) \in Seq(Nat)
        /\ Len(SubSeq(Stream(d), 1, k)) = k
    BY <1>2, <1>9, <1>10, <1>16, <2>1, LedgerTaken
  <2> QED BY <1>12, <2>2
<1>18. Len(u) <= MaxLen
  BY <1>5, <1>17
<1>19. /\ accepted' = [accepted EXCEPT ![d] = accepted[d]] /\ accepted[d] \in 0 .. MaxBytes
       /\ delivered' = [delivered EXCEPT ![d] = delivered[d]] /\ delivered[d] \in SUBSET Nat
       /\ lost' = [lost EXCEPT ![d] = lost[d]] /\ lost[d] \in SUBSET Nat
       /\ call' = [call EXCEPT ![p] = call[p]]
       /\ fault' = FALSE
  BY <1>2, <1>6, <1>11 DEF IInv, ByteTypes, ProcessTypes
<1>20. UNCHANGED <<fd, loading, attachment, power, events>>
  BY <1>6
<1> QED BY <1>1, <1>2, <1>6, <1>13, <1>17, <1>18, <1>19, <1>20, BytesStep

\* The end of a read, whatever becomes of its bytes.
LEMMA CopyKeeps ==
  ASSUME IInv, NEW p \in Procs, pc[p] = "copy", Return(p), fault' = FALSE,
         UNCHANGED <<fd, loading, attachment, ring, power, events, accepted>>,
         \/ /\ delivered' = [delivered EXCEPT ![fd[p]] = @ \union Numbers(p)]
            /\ UNCHANGED lost
         \/ /\ lost' = [lost EXCEPT ![fd[p]] = @ \union Numbers(p)]
            /\ UNCHANGED delivered
  PROVE  IInv'
<1>1. PICK d \in Devices :
        d = fd[p] /\ driver[d] /\ Ledger(d) /\ ByteTypes /\ ring[d] # NULL
  BY TransferDevice
<1>2. /\ pc' = [pc EXCEPT ![p] = "idle"] /\ call' = [call EXCEPT ![p] = NULL]
      /\ kbuf' = [kbuf EXCEPT ![p] = <<>>]
  BY DEF Return
<1>3. /\ fd'[p] = d /\ pc'[p] = "idle"
      /\ \A q \in Procs \ {p} : fd'[q] = fd[q] /\ pc'[q] = pc[q] /\ kbuf'[q] = kbuf[q]
  BY <1>1, <1>2 DEF IInv, ProcessTypes
<1>4. p \in InFlight(d) /\ InFlight(d)' = InFlight(d) \ {p}
  BY <1>1, <1>3 DEF InFlight
<1>5. \A q \in InFlight(d) \ {p} : kbuf'[q] = kbuf[q]
  BY <1>3 DEF InFlight
<1>6. Numbers(p) \in SUBSET Nat
  <2>1. kbuf[p] \in Seq(Nat)
    BY DEF IInv, ProcessTypes
  <2> QED BY <2>1, ElementOfSeq, LenProperties DEF Numbers
<1>7. Stream(d)' = Stream(d) /\ accepted'[d] = accepted[d]
  BY DEF Stream
<1>8. /\ delivered' = [delivered EXCEPT ![d] = delivered'[d]] /\ delivered'[d] \in SUBSET Nat
      /\ lost' = [lost EXCEPT ![d] = lost'[d]] /\ lost'[d] \in SUBSET Nat
      /\ \/ delivered'[d] = delivered[d] \union Numbers(p) /\ lost'[d] = lost[d]
         \/ delivered'[d] = delivered[d] /\ lost'[d] = lost[d] \union Numbers(p)
  BY <1>1, <1>6 DEF ByteTypes
<1>9. Ledger(d)'
  BY <1>1, <1>4, <1>5, <1>7, <1>8, LedgerSettled
<1>10. /\ ring' = [ring EXCEPT ![d] = ring[d]] /\ ring[d] \in Seq(Nat)
       /\ accepted' = [accepted EXCEPT ![d] = accepted[d]] /\ accepted[d] \in 0 .. MaxBytes
  BY <1>1 DEF ByteTypes
<1>11. <<>> \in Seq(Nat) /\ Len(<<>>) <= MaxLen
  BY EmptySeq, Bounds, SMT
<1>12. PICK D \in SUBSET Nat : delivered' = [delivered EXCEPT ![d] = D]
  BY <1>8
<1>13. PICK L \in SUBSET Nat : lost' = [lost EXCEPT ![d] = L]
  BY <1>8
<1> QED BY <1>1, <1>2, <1>9, <1>10, <1>11, <1>12, <1>13, BytesStep

LEMMA PutBytesKeeps ==
  ASSUME IInv, NEW p \in Procs, PutBytes(p)
  PROVE  IInv'
<1>1. PICK d \in Devices : d = fd[p]
  BY TransferDevice DEF PutBytes
<1>2. /\ driver[d] /\ Ledger(d) /\ ByteTypes /\ call[p].len \in 0 .. MaxLen
      /\ pc[p] = "write" /\ ring[d] # NULL
  BY <1>1, TransferDevice DEF PutBytes
<1>3. PICK s \in Seq(Nat) : s = ring[d]
  BY <1>2 DEF ByteTypes
<1>4. Stream(d) = s
  BY <1>2, <1>3 DEF Stream
<1>5. PICK m \in Nat : m = Len(s) /\ m <= RingSize
  BY <1>2, <1>3, <1>4, LenProperties DEF Ledger, Youngest
<1>6. PICK n \in 0 .. MaxBytes : n = accepted[d]
  BY <1>2 DEF ByteTypes
<1>7. PICK k \in Nat :
        /\ k = Lesser(call[p].len, Lesser(RingSize - Len(s), MaxBytes - accepted[d]))
        /\ m + k <= RingSize /\ n + k \in 0 .. MaxBytes
  <2>1. PICK l \in 0 .. MaxLen : l = call[p].len
    BY <1>2
  <2>2. PICK room \in Nat : room = RingSize - m
    BY <1>5, Bounds, SMT
  <2>3. PICK rest \in Nat : rest = MaxBytes - n
    BY Bounds, SMT
  <2>4. PICK j \in Nat : j = Lesser(room, rest) /\ j <= room /\ j <= rest
    BY LesserRange
  <2>5. l \in Nat
    BY Bounds, SMT
  <2>6. PICK k \in Nat : k = Lesser(l, j) /\ k <= j
    BY <2>5, LesserRange
  <2>7. m + k <= RingSize /\ n + k \in 0 .. MaxBytes
    BY <2>2, <2>3, <2>4, <2>6, Bounds, SMT
  <2> QED BY <1>5, <1>6, <2>1, <2>2, <2>3, <2>4, <2>6, <2>7
<1> DEFINE t == s \o [i \in 1 .. k |-> n + i]
<1>8. /\ ring' = [ring EXCEPT ![d] = t]
      /\ accepted' = [accepted EXCEPT ![d] = n + k]
      /\ Return(p)
      /\ fault' = FALSE
      /\ UNCHANGED <<fd, loading, attachment, power, events, delivered, lost>>
  BY <1>1, <1>2, <1>3, <1>6, <1>7, Zenon DEF PutBytes, IInv
<1> HIDE DEF t
<1>9. /\ pc' = [pc EXCEPT ![p] = "idle"] /\ call' = [call EXCEPT ![p] = NULL]
      /\ kbuf' = [kbuf EXCEPT ![p] = <<>>]
  BY <1>8 DEF Return
<1>10. /\ fd'[p] = d /\ pc'[p] = "idle"
       /\ \A q \in Procs \ {p} : fd'[q] = fd[q] /\ pc'[q] = pc[q] /\ kbuf'[q] = kbuf[q]
  BY <1>1, <1>8, <1>9 DEF IInv, ProcessTypes
<1>11. p \notin InFlight(d) /\ InFlight(d)' = InFlight(d)
  BY <1>2, <1>10 DEF InFlight
<1>12. \A q \in InFlight(d) : kbuf'[q] = kbuf[q]
  BY <1>10, <1>11 DEF InFlight
<1>13. ring'[d] = t /\ accepted'[d] = accepted[d] + k
  BY <1>2, <1>6, <1>8 DEF ByteTypes
<1>14. t = Stream(d) \o [i \in 1 .. k |-> accepted[d] + i]
  BY <1>4, <1>6 DEF t
<1>15. t \in Seq(Nat)
  <2>1. [i \in 1 .. k |-> n + i] \in [1 .. k -> Nat]
    BY SMT
  <2>2. [i \in 1 .. k |-> n + i] \in Seq(Nat)
    BY <2>1, SMT
  <2> QED BY <2>2, ConcatProperties DEF t
<1>16. Stream(d)' = t
  BY <1>13, <1>15, DevicesAssumption DEF Stream
<1>17. Ledger(d)'
  <2>1. Len(Stream(d)) + k <= RingSize
    BY <1>4, <1>5, <1>7
  <2>2. Stream(d)' = Stream(d) \o [i \in 1 .. k |-> accepted[d] + i]
    BY <1>14, <1>16
  <2>3. delivered'[d] = delivered[d] /\ lost'[d] = lost[d]
    BY <1>8
  <2> QED BY <1>2, <1>11, <1>12, <1>13, <2>1, <2>2, <2>3, LedgerPut
<1>18. /\ delivered' = [delivered EXCEPT ![d] = delivered[d]] /\ delivered[d] \in SUBSET Nat
       /\ lost' = [lost EXCEPT ![d] = lost[d]] /\ lost[d] \in SUBSET Nat
  BY <1>2, <1>8 DEF ByteTypes
<1>19. <<>> \in Seq(Nat) /\ Len(<<>>) <= MaxLen
  BY EmptySeq, Bounds, SMT
<1>20. UNCHANGED <<fd, loading, attachment, power, events>>
  BY <1>8
<1> QED BY <1>1, <1>2, <1>7, <1>8, <1>9, <1>15, <1>17, <1>18, <1>19, <1>20, BytesStep

LEMMA StorePowerKeeps ==
  ASSUME IInv, NEW p \in Procs, NEW where \in {"power", "emit"}, StorePower(p, where)
  PROVE  IInv'
<1>1. pc[p] \in {"driver_power", "power"} /\ pc[p] # "copy"
  BY DEF StorePower
<1>2. fd[p] \in Devices /\ fd[p] # CLOSED /\ call[p].state \in PowerStates
  BY <1>1 DEF IInv, Calls, InCall
<1>3. CounterTypes'
  BY <1>2 DEF StorePower, IInv, CounterTypes
<1>4. /\ pc' = [pc EXCEPT ![p] = where] /\ UNCHANGED kbuf
      /\ call' = [call EXCEPT ![p] = call[p]]
  BY DEF StorePower, IInv, ProcessTypes
<1>5. UNCHANGED <<fd, loading, attachment, ring, history, fault>>
  BY DEF StorePower
<1>6. where \in Points /\ where # "copy" /\ where \notin {"read", "write"}
  BY DEF Points
<1> QED BY <1>1, <1>2, <1>3, <1>4, <1>5, <1>6, QuietMove

LEMMA ProceedKeeps ==
  ASSUME IInv, NEW p \in Procs, Proceed(p)
  PROVE  IInv'
<1>1. CASE NoRing(p)
  <2>1. UNCHANGED <<loading, attachment, ring, history, fault>> /\ CounterTypes'
    BY <1>1, CountersStay DEF NoRing
  <2> QED BY <1>1, <2>1, SelectionStays, QuietReturn DEF NoRing
<1>2. CASE TakeBytes(p)
  BY <1>2, TakeBytesKeeps
<1>3. CASE CopyFault(p)
  <2>1. fault' = FALSE
    BY <1>3 DEF CopyFault, IInv
  <2> QED BY <1>3, <2>1, CopyKeeps DEF CopyFault
<1>4. CASE CopyOut(p)
  <2>1. fault' = FALSE
    BY <1>4, TransferDevice DEF CopyOut, IInv
  <2> QED BY <1>4, <2>1, CopyKeeps DEF CopyOut
<1>5. CASE PutBytes(p)
  BY <1>5, PutBytesKeeps
<1>6. CASE DriverPower(p)
  BY <1>6, StorePowerKeeps DEF DriverPower
<1>7. CASE CorePower(p)
  BY <1>7, StorePowerKeeps DEF CorePower
<1>8. CASE ReportPower(p)
  <2>1. UNCHANGED <<loading, attachment, ring, history, fault>> /\ CounterTypes'
    BY <1>8, EmitCounts DEF ReportPower
  <2> QED BY <1>8, <2>1, SelectionStays, QuietReturn DEF ReportPower
<1>9. CASE PollReturns(p)
  <2>1. UNCHANGED <<loading, attachment, ring, history, fault>> /\ CounterTypes'
    BY <1>9, CountersStay DEF PollReturns
  <2> QED BY <1>9, <2>1, SelectionStays, QuietReturn DEF PollReturns
<1> QED BY <1>1, <1>2, <1>3, <1>4, <1>5, <1>6, <1>7, <1>8, <1>9 DEF Proceed

-----------------------------------------------------------------------------
(* The steps of the loader.                                                *)

LEMMA LoaderQuiet ==
  ASSUME IInv, UNCHANGED <<process, history>>, fault' = FALSE,
         LoaderTypes', CounterTypes', LoaderOrder',
         ring' \in [Devices -> {NULL} \union Seq(Nat)],
         registered \subseteq registered',
         \A d \in Devices : driver[d] => driver'[d],
         \A d \in Devices : ring'[d] = ring[d] \/ (ring[d] = NULL /\ ring'[d] = <<>>)
  PROVE  IInv'
<1>1. <<>> # NULL
  BY EmptySeq, DevicesAssumption
<1>2. /\ fd' = fd /\ pc' = pc /\ call' = call /\ kbuf' = kbuf
      /\ accepted' = accepted /\ delivered' = delivered /\ lost' = lost
  BY DEF process, history
<1>3. ProcessTypes' /\ ByteTypes' /\ SelectionAlive'
  BY <1>2 DEF IInv, ProcessTypes, ByteTypes, SelectionAlive
<1>4. Untouched'
  BY <1>1, <1>2 DEF IInv, Untouched
<1>5. ASSUME NEW p \in Procs PROVE InCall(p)'
  <2>1. InCall(p)
    BY DEF IInv, Calls
  <2>2. pc[p] = "copy" => fd[p] \in Devices /\ ring'[fd[p]] # NULL
    BY <1>1, <2>1 DEF InCall
  <2> QED BY <1>2, <2>1, <2>2 DEF InCall
<1>6. ASSUME NEW d \in Devices PROVE Ledger(d)'
  <2>1. Stream(d)' = Stream(d)
    BY <1>1 DEF Stream
  <2>2. InFlight(d)' = InFlight(d)
    BY <1>2 DEF InFlight
  <2>3. Ledger(d)
    BY DEF IInv, Ledgers
  <2> QED BY <1>2, <2>1, <2>2, <2>3, LedgerKept
<1> QED BY <1>3, <1>4, <1>5, <1>6 DEF IInv, Calls, Ledgers

\* The next device of the list.
LEMMA NextDevice ==
  ASSUME IInv, pending # <<>>, pending' = Tail(pending), at' = "register",
         UNCHANGED <<loader, ring, driver>>, registered' \subseteq Devices
  PROVE  LoaderTypes' /\ LoaderOrder'
<1>1. PICK s \in Seq(Devices) : s = pending /\ s # <<>>
  BY DEF IInv, LoaderTypes
<1>2. PICK n \in Nat : n = Len(s) /\ DOMAIN s = 1 .. n
  BY LenProperties
<1>3. /\ Tail(s) \in Seq(Devices) /\ Len(Tail(s)) = n - 1
      /\ \A i \in 1 .. n - 1 : Tail(s)[i] = s[i + 1]
  BY <1>1, <1>2, HeadTailProperties
<1>4. DOMAIN Tail(s) = 1 .. n - 1
  BY <1>3, LenProperties
<1>5. \A i \in 1 .. n - 1 : i + 1 \in 1 .. n /\ i + 1 # 1
  BY SMT
<1>6. \A i \in DOMAIN pending' : ring[pending'[i]] = NULL
  BY <1>1, <1>2, <1>3, <1>4, <1>5 DEF IInv, LoaderOrder
<1>7. ASSUME NEW i \in DOMAIN pending', NEW j \in DOMAIN pending', pending'[i] = pending'[j]
      PROVE  i = j
  <2>1. i + 1 = j + 1
    BY <1>1, <1>2, <1>3, <1>4, <1>5, <1>7 DEF IInv, LoaderOrder
  <2> QED BY <1>1, <1>4, <2>1, SMT
<1>8. LoaderTypes'
  BY <1>1, <1>3 DEF IInv, LoaderTypes, Places
<1> QED BY <1>6, <1>7, <1>8 DEF LoaderOrder

LEMMA LoaderKeeps ==
  ASSUME IInv, LoaderStep
  PROVE  IInv'
<1>1. CASE GoLive
  <2>1. LoaderTypes' /\ LoaderOrder'
    BY <1>1 DEF GoLive, attachment, IInv, LoaderTypes, LoaderOrder
  <2>2. CounterTypes'
    BY <1>1, CountersStay DEF GoLive
  <2> QED BY <1>1, <2>1, <2>2, LoaderQuiet DEF GoLive, attachment, IInv, ByteTypes
<1>2. ASSUME NEW d \in Devices, Register(d) PROVE IInv'
  <2>1. registered' \subseteq Devices /\ at = "register" /\ pending # <<>>
    BY <1>2 DEF Register, Creating, IInv, LoaderTypes
  <2>2. LoaderTypes' /\ LoaderOrder'
    <3>1. CASE d \in Bare
      BY <1>2, <2>1, <3>1, NextDevice DEF Register, attachment
    <3>2. CASE d \notin Bare
      BY <1>2, <2>1, <3>2
      DEF Register, attachment, IInv, LoaderTypes, LoaderOrder, Places
    <3> QED BY <3>1, <3>2
  <2>3. CounterTypes'
    BY <1>2, CountersStay DEF Register
  <2> QED BY <1>2, <2>2, <2>3, LoaderQuiet DEF Register, attachment, IInv, ByteTypes
<1>3. ASSUME NEW d \in Devices, Bind(d) PROVE IInv'
  <2>1. LoaderTypes' /\ LoaderOrder' /\ \A e \in Devices : driver[e] => driver'[e]
    BY <1>3 DEF Bind, Creating, IInv, LoaderTypes, LoaderOrder, Places
  <2>2. CounterTypes'
    BY <1>3, CountersStay DEF Bind
  <2> QED BY <1>3, <2>1, <2>2, LoaderQuiet DEF Bind, IInv, ByteTypes
<1>4. ASSUME NEW d \in Devices, ProbeRing(d) PROVE IInv'
  <2>1. /\ ring' = [ring EXCEPT ![d] = <<>>] /\ ring[d] = NULL
        /\ ring' \in [Devices -> {NULL} \union Seq(Nat)]
    <3>1. pending \in Seq(Devices) /\ pending # <<>> /\ pending[1] = d /\ at = "ring"
      BY <1>4 DEF ProbeRing, Creating, IInv, LoaderTypes
    <3>2. 1 \in DOMAIN pending
      BY <3>1, LenProperties, EmptySeq, SMT
    <3>3. ring[d] = NULL
      BY <3>1, <3>2 DEF IInv, LoaderOrder
    <3> QED BY <1>4, <3>3, EmptySeq DEF ProbeRing, IInv, ByteTypes
  <2>2. LoaderTypes'
    BY <1>4 DEF ProbeRing, attachment, IInv, LoaderTypes, Places
  <2>3. LoaderOrder'
    <3>1. /\ pending' = pending /\ at' = "state" /\ driver' = driver
          /\ pending # <<>> /\ pending[1] = d /\ at = "ring"
      BY <1>4 DEF ProbeRing, Creating, attachment
    <3>2. 1 \in DOMAIN pending
      BY <3>1, LenProperties, EmptySeq, SMT DEF IInv, LoaderTypes
    <3>3. ASSUME NEW i \in DOMAIN pending, i # 1 PROVE ring'[pending[i]] = NULL
      <4>1. pending[i] # d /\ ring[pending[i]] = NULL
        BY <3>1, <3>2, <3>3 DEF IInv, LoaderOrder
      <4>2. pending[i] \in Devices
        BY DEF IInv, LoaderTypes
      <4> QED BY <2>1, <4>1, <4>2 DEF IInv, ByteTypes
    <3> QED BY <3>1, <3>3 DEF IInv, LoaderOrder
  <2>4. CounterTypes'
    BY <1>4, CountersStay DEF ProbeRing
  <2>5. \A e \in Devices : ring'[e] = ring[e] \/ (ring[e] = NULL /\ ring'[e] = <<>>)
    BY <2>1 DEF IInv, ByteTypes
  <2> QED BY <1>4, <2>1, <2>2, <2>3, <2>4, <2>5, LoaderQuiet DEF ProbeRing, attachment, IInv
<1>5. ASSUME NEW d \in Devices, ProbeState(d) PROVE IInv'
  <2>1. driver[d]
    BY <1>5 DEF ProbeState, Creating, IInv, LoaderOrder
  <2>2. UNCHANGED <<fault, driver, ring, registered, process, history>>
    BY <1>5, <2>1 DEF ProbeState
  <2>3. LoaderTypes' /\ LoaderOrder'
    BY <1>5 DEF ProbeState, Creating, IInv, LoaderTypes, LoaderOrder, Places
  <2>4. CounterTypes'
    BY <1>5, CountersStay DEF ProbeState
  <2> QED BY <2>2, <2>3, <2>4, LoaderQuiet DEF IInv, ByteTypes
<1>6. ASSUME NEW d \in Devices, ProbePower(d) PROVE IInv'
  <2>1. LoaderTypes' /\ LoaderOrder'
    BY <1>6 DEF ProbePower, Creating, attachment, IInv, LoaderTypes, LoaderOrder, Places
  <2>2. CounterTypes'
    BY <1>6 DEF ProbePower, IInv, CounterTypes, PowerStates
  <2> QED BY <1>6, <2>1, <2>2, LoaderQuiet DEF ProbePower, attachment, IInv, ByteTypes
<1>7. ASSUME NEW d \in Devices, Announce(d) PROVE IInv'
  <2>1. LoaderTypes' /\ LoaderOrder'
    BY <1>7, NextDevice DEF Announce, Creating, attachment, IInv, LoaderTypes
  <2>2. CounterTypes'
    BY <1>7, EmitCounts DEF Announce
  <2> QED BY <1>7, <2>1, <2>2, LoaderQuiet DEF Announce, attachment, IInv, ByteTypes
<1> QED BY <1>1, <1>2, <1>3, <1>4, <1>5, <1>6, <1>7 DEF LoaderStep

\* The module has just been loaded.
Fresh ==
  /\ ProcessTypes
  /\ \A p \in Procs : fd[p] = CLOSED /\ pc[p] = "idle" /\ Len(kbuf[p]) <= MaxLen
  /\ loader = "load" /\ pending = LoadOrder /\ at = "register" /\ registered = {}
  /\ driver = [d \in Devices |-> FALSE]
  /\ ring = [d \in Devices |-> NULL]
  /\ power = [d \in Devices |-> "OFF"]
  /\ events = 0
  /\ accepted = [d \in Devices |-> 0]
  /\ delivered = [d \in Devices |-> {}]
  /\ lost = [d \in Devices |-> {}]
  /\ fault = FALSE

LEMMA FreshIInv == Fresh => IInv
<1> SUFFICES ASSUME Fresh PROVE IInv
  OBVIOUS
<1> USE DEF Fresh
<1>1. LoaderTypes
  BY DevicesAssumption DEF LoaderTypes, Places
<1>2. 0 \in 0 .. MaxBytes /\ 0 \in 0 .. LogSize
  BY Bounds, SMT
<1>3. ByteTypes /\ CounterTypes
  BY <1>2 DEF ByteTypes, CounterTypes, PowerStates
<1>4. LoaderOrder
  BY DevicesAssumption DEF LoaderOrder, Devices
<1>5. Len(<<>>) = 0 /\ Len(<<>>) <= MaxLen
  BY Bounds, SMT
<1>6. Calls
  BY <1>5 DEF Calls, InCall
<1>7. Untouched /\ SelectionAlive
  BY DEF Untouched, SelectionAlive
<1>8. ASSUME NEW d \in Devices PROVE Ledger(d)
  <2>1. Stream(d) = <<>> /\ InFlight(d) = {} /\ accepted[d] = 0 /\ delivered[d] = {} /\ lost[d] = {}
    BY DEF Stream, InFlight
  <2>2. HeldBytes(d) = {}
    BY <2>1 DEF HeldBytes
  <2>3. 0 <= RingSize /\ 1 .. 0 - 0 = {}
    BY Bounds, SMT
  <2> QED BY <1>5, <2>1, <2>2, <2>3 DEF Ledger, Youngest
<1> QED BY <1>1, <1>3, <1>4, <1>6, <1>7, <1>8 DEF IInv, Ledgers

LEMMA InitIInv == Init => IInv
<1> SUFFICES ASSUME Init PROVE IInv
  OBVIOUS
<1>1. ProcessTypes
  BY EmptySeq DEF Init, ProcessTypes, Points
<1>2. \A p \in Procs : Len(kbuf[p]) <= MaxLen
  BY Bounds, SMT DEF Init
<1> QED BY <1>1, <1>2, FreshIInv DEF Init, Fresh

LEMMA ReloadKeeps == IInv /\ Reload => IInv'
<1>1. IInv /\ Reload => Fresh'
  <2> SUFFICES ASSUME IInv, Reload PROVE Fresh'
    OBVIOUS
  <2>1. fd' = fd /\ pc' = pc /\ call' = call /\ kbuf' = kbuf
    BY DEF Reload, process
  <2>2. ProcessTypes'
    BY <2>1 DEF IInv, ProcessTypes
  <2>3. \A p \in Procs : fd[p] = CLOSED /\ pc[p] = "idle" /\ Len(kbuf[p]) <= MaxLen
    BY DEF Reload, IInv, Calls, InCall
  <2> QED BY <2>1, <2>2, <2>3 DEF Fresh, Reload, IInv
<1>2. Fresh' => IInv'
  BY FreshIInv, PTL
<1> QED BY <1>1, <1>2

LEMMA StutterKeeps == IInv /\ UNCHANGED vars => IInv'
<1> SUFFICES ASSUME IInv, UNCHANGED vars PROVE IInv'
  OBVIOUS
<1>1. /\ UNCHANGED <<process, history>> /\ fault' = FALSE
      /\ UNCHANGED <<loader, pending, at, registered, driver, state, ring, power, events>>
  BY DEF vars, loading, attachment, IInv
<1>2. LoaderTypes' /\ LoaderOrder' /\ CounterTypes'
  BY <1>1 DEF IInv, LoaderTypes, LoaderOrder, CounterTypes
<1> QED BY <1>1, <1>2, LoaderQuiet DEF IInv, ByteTypes

LEMMA IInvHolds == Spec => []IInv
<1>1. IInv /\ [Next]_vars => IInv'
  <2> SUFFICES ASSUME IInv, [Next]_vars PROVE IInv'
    OBVIOUS
  <2>1. CASE LoaderStep
    BY <2>1, LoaderKeeps
  <2>2. CASE Reload
    BY <2>2, ReloadKeeps
  <2>3. ASSUME NEW p \in Procs, Begin(p) PROVE IInv'
    BY <2>3, BeginKeeps
  <2>4. ASSUME NEW p \in Procs, Proceed(p) PROVE IInv'
    BY <2>4, ProceedKeeps
  <2>5. CASE UNCHANGED vars
    BY <2>5, StutterKeeps
  <2> QED BY <2>1, <2>2, <2>3, <2>4, <2>5 DEF Next
<1> QED BY InitIInv, <1>1, PTL DEF Spec

-----------------------------------------------------------------------------
(* The theorems.                                                           *)

\* Every variable keeps its type, no ring holds more than its size and no
\* process more than it asked for.
THEOREM DeviceIOTypeOK == Spec => []TypeOK
<1>1. IInv => TypeOK
  BY DEF IInv, LoaderTypes, ProcessTypes, CounterTypes, Calls, InCall, Ledgers, Ledger, Youngest, TypeOK
<1> QED BY IInvHolds, <1>1, PTL

\* The pointer a file keeps to the selected device (kdal_file_ctx) never
\* outlives the device.
THEOREM DeviceIOSelectionAlive == Spec => []SelectionAlive
<1>1. IInv => SelectionAlive
  BY DEF IInv
<1> QED BY IInvHolds, <1>1, PTL

\* Neither a process nor a probe follows a NULL device->driver, whatever point
\* the loader has reached when the process comes.
THEOREM DeviceIONoNullDeref == Spec => []NoNullDeref
<1>1. IInv => NoNullDeref
  BY DEF IInv, NoNullDeref
<1> QED BY IInvHolds, <1>1, PTL

\* Every byte a ring has accepted is in exactly one place, and the ring holds
\* the youngest in the order of acceptance (uart_read and uart_write).
THEOREM DeviceIOBytesConserved == Spec => []BytesConserved
<1>1. IInv => BytesConserved
  <2> SUFFICES ASSUME IInv, NEW d \in Devices
               PROVE  /\ Stream(d) = [i \in 1 .. Len(Stream(d)) |->
                                        accepted[d] - Len(Stream(d)) + i]
                      /\ 1 .. accepted[d] - Len(Stream(d)) =
                           delivered[d] \union lost[d] \union
                           UNION {Numbers(p) : p \in InFlight(d)}
                      /\ delivered[d] \intersect lost[d] = {}
                      /\ \A p \in InFlight(d) :
                           /\ Numbers(p) \intersect (delivered[d] \union lost[d]) = {}
                           /\ \A q \in InFlight(d) \ {p} :
                                Numbers(p) \intersect Numbers(q) = {}
    BY DEF BytesConserved
  <2>1. Ledger(d)
    BY DEF IInv, Ledgers
  <2>2. Stream(d) \in Seq(Nat)
    BY StreamSeq DEF IInv
  <2>3. DOMAIN Stream(d) = 1 .. Len(Stream(d))
    BY <2>2, LenProperties
  <2>4. Stream(d) = [i \in DOMAIN Stream(d) |-> Stream(d)[i]]
    BY <2>2
  <2>5. \A i \in 1 .. Len(Stream(d)) :
          Stream(d)[i] = accepted[d] - Len(Stream(d)) + i
    BY <2>1 DEF Ledger, Youngest
  <2>6. Stream(d) = [i \in 1 .. Len(Stream(d)) |-> accepted[d] - Len(Stream(d)) + i]
    BY <2>3, <2>4, <2>5
  <2> QED BY <2>1, <2>6 DEF Ledger, HeldBytes
<1> QED BY IInvHolds, <1>1, PTL

=============================================================================
