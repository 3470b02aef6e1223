--------------------------- MODULE QemuRingProofs ---------------------------
(***************************************************************************)
(* For every ring size, every counter width it divides, every number of    *)
(* threads and every length of transfer: the ring of QemuRing is type      *)
(* correct, its count agrees with its two free-running counters, and the   *)
(* byte-by-byte transfers under the spinlock implement the indivisible     *)
(* ones of ByteStream.  A transfer takes effect at its unlock.             *)
(***************************************************************************)
EXTENDS QemuRing, NatFacts, SequenceTheorems

\* The bytes that wait in the ring were written there: a read takes no byte out
\* of a slot as kzalloc left it.
LiveSlotsWritten == \A i \in 0 .. count - 1 : buf[SlotOf(tail + i)] \in Bytes

\* A thread in a call has the arguments of the call.
Asked == \A t \in Threads : pc[t] # "idle" => request[t] \in Requests

\* The loops run under the lock.
LockHeld == \A t \in Threads : pc[t] = "loop" <=> lock = t

\* TypeOK and CountersAgree are not inductive without the bytes that a read will
\* take and the arguments that the loops rely on.
IInv == TypeOK /\ CountersAgree /\ LiveSlotsWritten /\ Asked /\ LockHeld

-----------------------------------------------------------------------------
(* The counters.                                                           *)

\* What is assumed of the two sizes.
LEMMA Sizes ==
  /\ RingSize \in Nat \ {0}
  /\ CounterModulus \in Nat \ {0}
  /\ RingSize < CounterModulus
  /\ CounterModulus % RingSize = 0
BY RingSizeAssumption, ModulusAssumption, SMT

\* Every counter selects a slot of the array.
LEMMA SlotOfRange ==
  ASSUME NEW counter \in Int
  PROVE  SlotOf(counter) \in Slots
BY DivMod, RingSizeAssumption DEF SlotOf, Slots

\* The next value of a counter is one the code can hold.
LEMMA SuccRange ==
  ASSUME NEW c \in Int
  PROVE  Succ(c) \in 0 .. CounterModulus - 1
<1>1. PICK x \in Int : x = c + 1
  BY SMT
<1> QED BY <1>1, DivMod, Sizes DEF Succ

\* A wrap of the counter does not show in the slots.
LEMMA SuccSlot ==
  ASSUME NEW c \in Int, NEW d \in Int
  PROVE  SlotOf(Succ(c) + d) = SlotOf((c + 1) + d)
<1>1. PICK x \in Int : x = c + 1
  BY SMT
<1>2. ((x % CounterModulus) + d) % RingSize = (x + d) % RingSize
  BY ModWrapShift, Sizes, ZenonT(40)
<1> QED BY <1>1, <1>2, Zenon DEF SlotOf, Succ

\* Advancing the first counter adds one to the distance of two counters, and
\* advancing the second takes one off, modulo their width.
LEMMA SuccDistance ==
  ASSUME NEW h \in Int, NEW t \in Int
  PROVE  /\ (Succ(h) - t) % CounterModulus = ((h - t) + 1) % CounterModulus
         /\ (h - Succ(t)) % CounterModulus = ((h - t) - 1) % CounterModulus
<1>1. PICK x \in Int : x = h + 1
  BY SMT
<1>2. PICK d \in Int : d = 0 - t
  BY SMT
<1>3. ((x % CounterModulus) + d) % CounterModulus = (x + d) % CounterModulus
  BY ModShift, Sizes
<1>4. x % CounterModulus \in Int
  BY DivMod, Sizes
<1>5. (x % CounterModulus) + d = Succ(h) - t /\ x + d = (h - t) + 1
  BY <1>1, <1>2, <1>4, SMT DEF Succ
<1>6. PICK y \in Int : y = t + 1
  BY SMT
<1>7. PICK q \in Int : y = q * CounterModulus + (y % CounterModulus)
  BY DivMod, Sizes
<1>8. y % CounterModulus \in Int /\ q * CounterModulus \in Int
  BY DivMod, Sizes, SMT
<1>9. PICK u \in Int : u = h - (y % CounterModulus)
  BY <1>8, SMT
<1>10. PICK v \in Int : v = (h - t) - 1
  BY SMT
<1>11. u = v + q * CounterModulus
  <2>1. PICK r \in Int, k \in Int : r = y % CounterModulus /\ k = q * CounterModulus
    BY <1>8
  <2>2. y = k + r /\ u = h - r
    BY <1>7, <1>9, <2>1
  <2>3. u = v + k
    BY <1>6, <1>10, <2>2, SMT
  <2> QED BY <2>1, <2>3
<1>12. u % CounterModulus = v % CounterModulus
  BY <1>11, ModCongruent, Sizes
<1>13. h - Succ(t) = u
  BY <1>6, <1>9 DEF Succ
<1> QED BY <1>3, <1>5, <1>10, <1>12, <1>13

\* A distance n plus or minus one that stays within the ring is not reduced.
LEMMA DistanceStep ==
  ASSUME NEW x \in Int, NEW n \in Int, NEW d \in Int,
         n = x % CounterModulus, n + d \in 0 .. RingSize
  PROVE  (x + d) % CounterModulus = n + d
<1>1. ((x % CounterModulus) + d) % CounterModulus = (x + d) % CounterModulus
  BY ModShift, Sizes
<1>2. PICK m \in Int : m = n + d
  BY SMT
<1>3. m \in 0 .. CounterModulus - 1
  BY <1>2, Sizes, SMT
<1>4. m % CounterModulus = m
  BY <1>3, ModSmall, Sizes
<1> QED BY <1>1, <1>2, <1>4

\* The slot after the last byte is the one the head selects.
LEMMA HeadSlot ==
  ASSUME NEW h \in Int, NEW t \in Int
  PROVE  SlotOf(((h - t) % CounterModulus) + t) = SlotOf(h)
<1>1. PICK x \in Int : x = h - t
  BY SMT
<1>2. ((x % CounterModulus) + t) % RingSize = (x + t) % RingSize
  BY ModWrapShift, Sizes, ZenonT(40)
<1>3. x + t = h
  BY <1>1, SMT
<1> QED BY <1>1, <1>2, <1>3 DEF SlotOf

\* What TypeOK says of the numbers.
LEMMA NumberTypes ==
  ASSUME TypeOK
  PROVE  head \in Int /\ tail \in Int /\ count \in Nat /\ count <= RingSize
BY Sizes, SMT DEF TypeOK

\* The byte that a write moves next is one of its data.
LEMMA NextByte ==
  ASSUME TypeOK, Asked, NEW t \in Threads, Writing(t), CanWrite(t)
  PROVE  request[t].data[Len(moved[t]) + 1] \in Bytes
<1>1. request[t] \in Requests
  BY DEF Asked, Writing
<1>2. PICK n \in 0 .. MaxLen : request[t].data \in [1 .. n -> Bytes]
  BY <1>1 DEF Writing, Requests
<1>3. n \in Nat
  BY MaxLenAssumption, SMT
<1>4. Len(request[t].data) = n
  BY <1>2, <1>3, LenProperties, SMT
<1>5. Len(moved[t]) \in Nat
  BY LenProperties DEF TypeOK
<1>6. Len(moved[t]) + 1 \in 1 .. n
  BY <1>3, <1>4, <1>5, SMT DEF CanWrite
<1> QED BY <1>2, <1>6

-----------------------------------------------------------------------------
\* A ring just allocated is empty.
LEMMA EmptyRing ==
  ASSUME buf \in [Slots -> Bytes \union {ZeroByte}], head = 0, tail = 0, count = 0
  PROVE  /\ head \in 0 .. CounterModulus - 1
         /\ tail \in 0 .. CounterModulus - 1
         /\ count \in 0 .. RingSize
         /\ CountersAgree
         /\ LiveSlotsWritten
<1>1. 0 \in 0 .. CounterModulus - 1 /\ 0 \in 0 .. RingSize
  BY Sizes, SMT
<1>2. PICK z \in 0 .. CounterModulus - 1 : z = 0
  BY <1>1
<1>3. z % CounterModulus = z
  BY ModSmall, Sizes
<1>4. head - tail = 0 /\ 0 .. count - 1 = {}
  BY SMT
<1> QED BY <1>1, <1>2, <1>3, <1>4 DEF CountersAgree, LiveSlotsWritten

\* The invariant holds before the module allocates the ring.
LEMMA InitIInv == Init => IInv
<1> SUFFICES ASSUME Init PROVE IInv
  OBVIOUS
<1>1. buf \in [Slots -> Bytes \union {ZeroByte}]
  BY DEF Init, Fresh
<1>2. /\ head \in 0 .. CounterModulus - 1 /\ tail \in 0 .. CounterModulus - 1
      /\ count \in 0 .. RingSize /\ CountersAgree /\ LiveSlotsWritten
  BY <1>1, EmptyRing DEF Init
<1>3. TypeOK
  BY <1>1, <1>2, EmptySeq DEF Init, TypeOK
<1>4. Asked /\ LockHeld
  BY ThreadsAssumption DEF Init, Asked, LockHeld
<1> QED BY <1>2, <1>3, <1>4 DEF IInv

\* A byte written to the ring extends the live slots by the one at the head.
LEMMA WriteByteStep ==
  ASSUME IInv, NEW t \in Threads, WriteByte(t)
  PROVE  /\ head' \in 0 .. CounterModulus - 1
         /\ count' \in 0 .. RingSize
         /\ buf' \in [Slots -> Bytes \union {ZeroByte}]
         /\ moved' \in [Threads -> Seq(Bytes)]
         /\ CountersAgree'
         /\ LiveSlotsWritten'
<1> USE DEF IInv
<1>0. head \in Int /\ tail \in Int /\ count \in Nat /\ count < RingSize /\ RingSize \in Nat
  BY NumberTypes, Sizes DEF WriteByte, CanWrite
<1> DEFINE byte == request[t].data[Len(moved[t]) + 1]
<1>1. byte \in Bytes
  BY NextByte DEF WriteByte
<1>2. /\ buf' = [buf EXCEPT ![SlotOf(head)] = byte]
      /\ moved' = [moved EXCEPT ![t] = Append(@, byte)]
      /\ head' = Succ(head) /\ count' = count + 1 /\ tail' = tail
  BY DEF WriteByte
<1> HIDE DEF byte
<1>3. head' \in 0 .. CounterModulus - 1
  BY <1>0, <1>2, SuccRange
<1>4. count' \in 0 .. RingSize
  BY <1>0, <1>2, SMT
<1>5. SlotOf(head) \in Slots /\ buf \in [Slots -> Bytes \union {ZeroByte}]
  BY <1>0, SlotOfRange DEF TypeOK
<1>6. buf' \in [Slots -> Bytes \union {ZeroByte}]
  BY <1>1, <1>2, <1>5
<1>7. moved' \in [Threads -> Seq(Bytes)]
  <2>1. moved \in [Threads -> Seq(Bytes)] /\ moved[t] \in Seq(Bytes)
    BY DEF TypeOK
  <2>2. Append(moved[t], byte) \in Seq(Bytes)
    BY <2>1, <1>1, AppendProperties
  <2> QED BY <1>2, <2>1, <2>2
<1>8. CountersAgree'
  <2>1. PICK x \in Int : x = head - tail
    BY <1>0, SMT
  <2>2. (Succ(head) - tail) % CounterModulus = (x + 1) % CounterModulus
    BY <1>0, <2>1, SuccDistance
  <2>3. count = x % CounterModulus /\ count + 1 \in 0 .. RingSize
    BY <1>2, <1>4, <2>1 DEF CountersAgree
  <2>4. (x + 1) % CounterModulus = count + 1
    BY <2>3, <1>0, DistanceStep
  <2> QED BY <1>2, <2>2, <2>4 DEF CountersAgree
<1>9. LiveSlotsWritten'
  <2> SUFFICES ASSUME NEW i \in 0 .. count' - 1 PROVE buf'[SlotOf(tail + i)] \in Bytes
    BY <1>2 DEF LiveSlotsWritten
  <2>0. i \in Int /\ tail + i \in Int
    BY <1>0, <1>2, SMT
  <2>1. SlotOf(tail + i) \in Slots
    BY <2>0, SlotOfRange
  <2>2. CASE i = count
    <3>1. SlotOf(((head - tail) % CounterModulus) + tail) = SlotOf(head)
      BY <1>0, HeadSlot
    <3>2. count + tail = tail + i
      BY <1>0, <2>0, <2>2, SMT
    <3>3. SlotOf(tail + i) = SlotOf(head)
      BY <3>1, <3>2 DEF CountersAgree
    <3> QED BY <1>1, <1>2, <1>5, <3>3
  <2>3. CASE i # count
    <3>1. i \in 0 .. count - 1
      BY <1>0, <1>2, <2>3, SMT
    <3>2. buf[SlotOf(tail + i)] \in Bytes
      BY <3>1 DEF LiveSlotsWritten
    <3> QED BY <1>1, <1>2, <1>5, <2>1, <3>2
  <2> QED BY <2>2, <2>3
<1> QED BY <1>3, <1>4, <1>6, <1>7, <1>8, <1>9

\* A byte read from the ring takes the first live slot off the others.
LEMMA ReadByteStep ==
  ASSUME IInv, NEW t \in Threads, ReadByte(t)
  PROVE  /\ tail' \in 0 .. CounterModulus - 1
         /\ count' \in 0 .. RingSize
         /\ moved' \in [Threads -> Seq(Bytes)]
         /\ CountersAgree'
         /\ LiveSlotsWritten'
<1> USE DEF IInv
<1>0. /\ head \in Int /\ tail \in Int /\ count \in Nat /\ count # 0
      /\ RingSize \in Nat /\ count <= RingSize
  BY NumberTypes, Sizes DEF ReadByte, CanRead
<1>1. /\ moved' = [moved EXCEPT ![t] = Append(@, buf[SlotOf(tail)])]
      /\ tail' = Succ(tail) /\ count' = count - 1 /\ buf' = buf /\ head' = head
  BY DEF ReadByte
<1>2. tail' \in 0 .. CounterModulus - 1
  BY <1>0, <1>1, SuccRange
<1>3. count' \in 0 .. RingSize
  BY <1>0, <1>1, SMT
<1>4. buf[SlotOf(tail)] \in Bytes
  <2>1. 0 \in 0 .. count - 1 /\ tail + 0 = tail
    BY <1>0, SMT
  <2>2. buf[SlotOf(tail + 0)] \in Bytes
    BY <2>1 DEF LiveSlotsWritten
  <2> QED BY <2>1, <2>2
<1>5. moved' \in [Threads -> Seq(Bytes)]
  <2>1. moved \in [Threads -> Seq(Bytes)] /\ moved[t] \in Seq(Bytes)
    BY DEF TypeOK
  <2>2. Append(moved[t], buf[SlotOf(tail)]) \in Seq(Bytes)
    BY <2>1, <1>4, AppendProperties
  <2> QED BY <1>1, <2>1, <2>2
<1>6. CountersAgree'
  <2>1. PICK x \in Int : x = head - tail
    BY <1>0, SMT
  <2>2. (head - Succ(tail)) % CounterModulus = (x - 1) % CounterModulus
    BY <1>0, <2>1, SuccDistance
  <2>3. PICK d \in Int : d = -1
    BY SMT
  <2>4. x - 1 = x + d /\ count - 1 = count + d /\ count + d \in 0 .. RingSize
    BY <1>0, <2>1, <2>3, SMT
  <2>5. count = x % CounterModulus
    BY <2>1 DEF CountersAgree
  <2>6. (x + d) % CounterModulus = count + d
    BY <2>4, <2>5, <1>0, DistanceStep
  <2> QED BY <1>1, <2>2, <2>4, <2>6 DEF CountersAgree
<1>7. LiveSlotsWritten'
  <2> SUFFICES ASSUME NEW i \in 0 .. count' - 1
               PROVE  buf[SlotOf(Succ(tail) + i)] \in Bytes
    BY <1>1 DEF LiveSlotsWritten
  <2>1. i \in Int /\ i + 1 \in 0 .. count - 1 /\ (tail + 1) + i = tail + (i + 1)
    BY <1>0, <1>1, SMT
  <2>2. buf[SlotOf(tail + (i + 1))] \in Bytes
    BY <2>1 DEF LiveSlotsWritten
  <2> QED BY <1>0, <2>1, <2>2, SuccSlot
<1> QED BY <1>2, <1>3, <1>5, <1>6, <1>7

-----------------------------------------------------------------------------
(* One lemma per action.                                                   *)

\* kzalloc gives an empty ring.
LEMMA AllocRingStep == IInv /\ AllocRing => IInv'
<1> SUFFICES ASSUME IInv, AllocRing PROVE IInv'
  OBVIOUS
<1> USE DEF IInv, AllocRing
<1>1. buf' \in [Slots -> Bytes \union {ZeroByte}]
  BY DEF Fresh
<1>2. /\ head' \in 0 .. CounterModulus - 1 /\ tail' \in 0 .. CounterModulus - 1
      /\ count' \in 0 .. RingSize
  BY Sizes, SMT
<1>3. CountersAgree'
  <2>1. PICK z \in 0 .. CounterModulus - 1 : z = 0
    BY Sizes, SMT
  <2>2. z % CounterModulus = z /\ z - z = z
    BY <2>1, ModSmall, Sizes, SMT
  <2> QED BY <2>1, <2>2 DEF CountersAgree
<1>4. LiveSlotsWritten'
  <2>1. 0 .. count' - 1 = {}
    BY SMT
  <2> QED BY <2>1 DEF LiveSlotsWritten
<1>5. TypeOK'
  BY <1>1, <1>2 DEF TypeOK
<1>6. Asked' /\ LockHeld'
  BY DEF Asked, LockHeld
<1> QED BY <1>3, <1>4, <1>5, <1>6

\* What the steps below leave alone keeps the conjuncts about the ring.
LEMMA RingKept ==
  ASSUME CountersAgree, LiveSlotsWritten, UNCHANGED fields
  PROVE  CountersAgree' /\ LiveSlotsWritten'
BY DEF CountersAgree, LiveSlotsWritten, fields

\* kfree leaves fields that nobody reads.
LEMMA FreeRingStep == IInv /\ FreeRing => IInv'
<1> SUFFICES ASSUME IInv, FreeRing PROVE IInv'
  OBVIOUS
<1>1. TypeOK'
  BY DEF IInv, FreeRing, TypeOK, fields
<1>2. Asked' /\ LockHeld'
  BY DEF IInv, FreeRing, Asked, LockHeld
<1> QED BY <1>1, <1>2, RingKept DEF IInv, FreeRing

\* A call either waits for the lock with its arguments or fails at once.
LEMMA BeginStep ==
  ASSUME IInv, NEW t \in Threads, NEW r \in Requests, Begin(t, r)
  PROVE  IInv'
<1> USE DEF IInv
<1>1. CASE ring
  <2>1. /\ pc' = [pc EXCEPT ![t] = "lock"] /\ request' = [request EXCEPT ![t] = r]
        /\ reply' = [reply EXCEPT ![t] = NoReply]
        /\ UNCHANGED <<ring, fields, lock, moved>> /\ pc[t] = "idle"
    BY <1>1 DEF Begin
  <2>2. TypeOK'
    BY <2>1 DEF TypeOK, fields
  <2>3. Asked' /\ LockHeld'
    BY <2>1 DEF TypeOK, Asked, LockHeld
  <2> QED BY <2>1, <2>2, <2>3, RingKept
<1>2. CASE ~ring
  <2>1. reply' = [reply EXCEPT ![t] = EIO] /\ UNCHANGED <<ring, fields, lock, moved, pc, request>>
    BY <1>2 DEF Begin
  <2>2. TypeOK'
    BY <2>1 DEF TypeOK, fields
  <2>3. Asked' /\ LockHeld'
    BY <2>1 DEF Asked, LockHeld
  <2> QED BY <2>1, <2>2, <2>3, RingKept
<1> QED BY <1>1, <1>2

\* The lock is free when it is taken, so one thread is in the loop at most.
LEMMA AcquireStep ==
  ASSUME IInv, NEW t \in Threads, Acquire(t)
  PROVE  IInv'
<1> USE DEF IInv
<1>1. TypeOK'
  BY DEF Acquire, TypeOK, fields
<1>2. Asked'
  BY DEF Acquire, TypeOK, Asked
<1>3. LockHeld'
  BY ThreadsAssumption DEF Acquire, TypeOK, LockHeld
<1> QED BY <1>1, <1>2, <1>3, RingKept DEF Acquire

\* The reply of a call carries the bytes it moved.
LEMMA ReleaseStep ==
  ASSUME IInv, NEW t \in Threads, Release(t)
  PROVE  IInv'
<1> USE DEF IInv
<1>1. /\ lock' = NoThread /\ pc' = [pc EXCEPT ![t] = "idle"]
      /\ reply' = [reply EXCEPT ![t] = Transferred(moved[t])]
      /\ request' = [request EXCEPT ![t] = NULL] /\ moved' = [moved EXCEPT ![t] = <<>>]
      /\ UNCHANGED <<ring, fields>> /\ pc[t] = "loop"
  BY DEF Release, LoopEnds, Writing, Reading
<1>2. TypeOK'
  <2>1. moved' \in [Threads -> Seq(Bytes)]
    BY <1>1, EmptySeq DEF TypeOK
  <2>2. Transferred(moved[t]) \in [op : {"return"}, bytes : Seq(Bytes)]
    BY DEF TypeOK, Transferred
  <2>3. reply' \in [Threads -> {EIO, NoReply} \union [op : {"return"}, bytes : Seq(Bytes)]]
    BY <1>1, <2>2 DEF TypeOK
  <2>4. pc' \in [Threads -> {"idle", "lock", "loop"}]
    BY <1>1 DEF TypeOK
  <2>5. request' \in [Threads -> Requests \union {NULL}]
    BY <1>1 DEF TypeOK
  <2> QED BY <1>1, <2>1, <2>3, <2>4, <2>5 DEF TypeOK, fields
<1>3. Asked'
  BY <1>1 DEF TypeOK, Asked
<1>4. LockHeld'
  BY <1>1, ThreadsAssumption DEF TypeOK, LockHeld
<1> QED BY <1>1, <1>2, <1>3, <1>4, RingKept

\* Every step keeps the invariant.
LEMMA NextIInv == IInv /\ [Next]_vars => IInv'
<1> SUFFICES ASSUME IInv, [Next]_vars PROVE IInv'
  OBVIOUS
<1>1. CASE AllocRing
  BY <1>1, AllocRingStep
<1>2. CASE FreeRing
  BY <1>2, FreeRingStep
<1>3. ASSUME NEW t \in Threads, NEW r \in Requests, Begin(t, r) PROVE IInv'
  BY <1>3, BeginStep
<1>4. ASSUME NEW t \in Threads, Acquire(t) PROVE IInv'
  BY <1>4, AcquireStep
<1>5. ASSUME NEW t \in Threads, WriteByte(t) PROVE IInv'
  <2>1. /\ head' \in 0 .. CounterModulus - 1 /\ count' \in 0 .. RingSize
        /\ buf' \in [Slots -> Bytes \union {ZeroByte}]
        /\ moved' \in [Threads -> Seq(Bytes)]
        /\ CountersAgree' /\ LiveSlotsWritten'
    BY <1>5, WriteByteStep
  <2>2. UNCHANGED <<ring, tail, lock, pc, request, reply>>
    BY <1>5 DEF WriteByte
  <2>3. TypeOK'
    BY <2>1, <2>2 DEF IInv, TypeOK
  <2> QED BY <2>1, <2>2, <2>3 DEF IInv, Asked, LockHeld
<1>6. ASSUME NEW t \in Threads, ReadByte(t) PROVE IInv'
  <2>1. /\ tail' \in 0 .. CounterModulus - 1 /\ count' \in 0 .. RingSize
        /\ moved' \in [Threads -> Seq(Bytes)]
        /\ CountersAgree' /\ LiveSlotsWritten'
    BY <1>6, ReadByteStep
  <2>2. UNCHANGED <<ring, buf, head, lock, pc, request, reply>>
    BY <1>6 DEF ReadByte
  <2>3. TypeOK'
    BY <2>1, <2>2 DEF IInv, TypeOK
  <2> QED BY <2>1, <2>2, <2>3 DEF IInv, Asked, LockHeld
<1>7. ASSUME NEW t \in Threads, Release(t) PROVE IInv'
  BY <1>7, ReleaseStep
<1>8. CASE UNCHANGED vars
  BY <1>8 DEF IInv, TypeOK, CountersAgree, LiveSlotsWritten, Asked, LockHeld, vars, fields
<1> QED BY <1>1, <1>2, <1>3, <1>4, <1>5, <1>6, <1>7, <1>8 DEF Next, Proceed

\* The invariant that the two theorems below follow from: the ring's counters and
\* its live slots, the lock and the arguments of the calls, in every reachable state.
THEOREM QemuRingInvariant == Spec => []IInv
BY InitIInv, NextIInv, PTL DEF Spec

\* Whatever the threads do, the fields of the ring stay in their ranges and only
\* bytes that were written are ever moved (qemu_ring_write, qemu_ring_read).
THEOREM QemuRingTypeOK == Spec => []TypeOK
<1>1. IInv => TypeOK
  BY DEF IInv
<1> QED BY <1>1, QemuRingInvariant, PTL

\* The count is the distance of the two counters through every wrap, for every
\* ring size and every counter width it divides.
THEOREM QemuRingCountersAgree == Spec => []CountersAgree
<1>1. IInv => CountersAgree
  BY DEF IInv
<1> QED BY <1>1, QemuRingInvariant, PTL

-----------------------------------------------------------------------------
(* The refinement of ByteStream.                                           *)

LEMMA Difference ==
  ASSUME NEW a \in Nat, NEW b \in Nat, b <= a
  PROVE  \E k \in Nat : k = a - b /\ k <= a /\ k + b = a
<1>1. a - b \in Nat /\ a - b <= a /\ (a - b) + b = a
  BY SMT
<1> QED BY <1>1

-----------------------------------------------------------------------------
(* Sequences.                                                              *)

\* Sequences that agree up to k have the same first k elements.
LEMMA SamePrefix ==
  ASSUME NEW S, NEW s \in Seq(S), NEW t \in Seq(S), NEW k \in Nat,
         k <= Len(s), k <= Len(t), \A i \in 1 .. k : s[i] = t[i]
  PROVE  SubSeq(s, 1, k) = SubSeq(t, 1, k)
<1>1. Len(s) \in Nat /\ Len(t) \in Nat
  BY LenProperties
<1>2. (\A i \in 1 .. k : s[i] \in S) /\ (\A i \in 1 .. k : t[i] \in S)
  BY <1>1, ElementOfSeq, SMT
<1> DEFINE u == SubSeq(s, 1, k)
           v == SubSeq(t, 1, k)
<1>3. /\ u \in Seq(S) /\ Len(u) = IF 1 <= k THEN k - 1 + 1 ELSE 0
      /\ \A i \in 1 .. k - 1 + 1 : u[i] = s[1 + i - 1]
  BY <1>2, SubSeqProperties
<1>4. /\ v \in Seq(S) /\ Len(v) = IF 1 <= k THEN k - 1 + 1 ELSE 0
      /\ \A i \in 1 .. k - 1 + 1 : v[i] = t[1 + i - 1]
  BY <1>2, SubSeqProperties
<1> HIDE DEF u, v
<1>5. Len(u) = k /\ Len(v) = k
  BY <1>3, <1>4, SMT
<1>6. ASSUME NEW i \in 1 .. k PROVE u[i] = v[i]
  <2>1. i \in 1 .. k - 1 + 1 /\ 1 + i - 1 = i
    BY SMT
  <2>2. u[i] = s[i] /\ v[i] = t[i]
    BY <1>3, <1>4, <2>1
  <2> QED BY <2>2
<1>7. u = v
  BY <1>3, <1>4, <1>5, <1>6, SeqEqual
<1> QED BY <1>7 DEF u, v

\* The first elements of a sequence, as a sequence.
LEMMA Prefix ==
  ASSUME NEW S, NEW s \in Seq(S), NEW k \in Nat, k <= Len(s)
  PROVE  /\ SubSeq(s, 1, k) \in Seq(S)
         /\ Len(SubSeq(s, 1, k)) = k
         /\ \A i \in 1 .. k : SubSeq(s, 1, k)[i] = s[i]
<1>1. Len(s) \in Nat
  BY LenProperties
<1>2. \A i \in 1 .. k : s[i] \in S
  BY <1>1, ElementOfSeq, SMT
<1> DEFINE u == SubSeq(s, 1, k)
<1>3. /\ u \in Seq(S) /\ Len(u) = IF 1 <= k THEN k - 1 + 1 ELSE 0
      /\ \A i \in 1 .. k - 1 + 1 : u[i] = s[1 + i - 1]
  BY <1>2, SubSeqProperties
<1> HIDE DEF u
<1>4. Len(u) = k
  BY <1>3, SMT
<1>5. ASSUME NEW i \in 1 .. k PROVE u[i] = s[i]
  <2>1. i \in 1 .. k - 1 + 1 /\ 1 + i - 1 = i
    BY SMT
  <2> QED BY <1>3, <2>1
<1>6. u \in Seq(S) /\ Len(u) = k /\ \A i \in 1 .. k : u[i] = s[i]
  BY <1>3, <1>4, <1>5
<1> QED BY <1>6 DEF u

\* A sequence that ends in m is its beginning and m.
LEMMA EndsIn ==
  ASSUME NEW S, NEW s \in Seq(S), NEW m \in Seq(S), Len(m) <= Len(s),
         \A j \in 1 .. Len(m) : s[(Len(s) - Len(m)) + j] = m[j]
  PROVE  SubSeq(s, 1, Len(s) - Len(m)) \o m = s
<1>1. PICK a \in Nat, b \in Nat : a = Len(s) /\ b = Len(m)
  BY LenProperties
<1>a. b <= a
  BY <1>1
<1>2. PICK k \in Nat : k = a - b /\ k <= a /\ k + b = a
  BY <1>a, Difference
<1>2a. k <= Len(s) /\ k = Len(s) - Len(m)
  BY <1>1, <1>2
<1> DEFINE u == SubSeq(s, 1, k)
           v == u \o m
<1>3. u \in Seq(S) /\ Len(u) = k /\ \A i \in 1 .. k : u[i] = s[i]
  BY <1>2a, Prefix
<1> HIDE DEF u
<1>4. /\ v \in Seq(S)
      /\ Len(v) = k + b
      /\ \A i \in 1 .. k + b : v[i] = IF i <= k THEN u[i] ELSE m[i - k]
  <2>1. /\ v \in Seq(S) /\ Len(v) = Len(u) + Len(m)
        /\ \A i \in 1 .. Len(u) + Len(m) :
             v[i] = IF i <= Len(u) THEN u[i] ELSE m[i - Len(u)]
    BY <1>3, ConcatProperties, Zenon
  <2> HIDE DEF v
  <2> QED BY <1>1, <1>3, <2>1
<1> HIDE DEF v
<1>5. k + b = a
  BY <1>2
<1>6. ASSUME NEW i \in 1 .. Len(v) PROVE v[i] = s[i]
  <2>1. i \in 1 .. k + b
    BY <1>4
  <2>2. CASE i <= k
    <3>1. i \in 1 .. k
      BY <2>1, <2>2, SMT
    <3> QED BY <1>3, <1>4, <2>1, <2>2, <3>1
  <2>3. CASE ~ i <= k
    <3>1. i - k \in 1 .. b /\ k + (i - k) = i
      BY <2>1, <2>3, SMT
    <3>2. s[k + (i - k)] = m[i - k]
      BY <1>1, <1>2, <3>1
    <3> QED BY <1>4, <2>1, <2>3, <3>1, <3>2
  <2> QED BY <2>2, <2>3
<1>7. v = s
  BY <1>1, <1>4, <1>5, <1>6, SeqEqual
<1> QED BY <1>1, <1>2, <1>7 DEF u, v

\* The two parts of a concatenation.
LEMMA SplitConcat ==
  ASSUME NEW S, NEW m \in Seq(S), NEW s \in Seq(S)
  PROVE  /\ SubSeq(m \o s, 1, Len(m)) = m
         /\ SubSeq(m \o s, Len(m) + 1, Len(m \o s)) = s
<1>1. PICK a \in Nat, b \in Nat : a = Len(m) /\ b = Len(s)
  BY LenProperties
<1> DEFINE w == m \o s
<1>2. /\ w \in Seq(S)
      /\ Len(w) = a + b
      /\ \A i \in 1 .. a + b : w[i] = IF i <= a THEN m[i] ELSE s[i - a]
  BY <1>1, ConcatProperties
<1> HIDE DEF w
<1>3. SubSeq(w, 1, a) = m
  <2>1. a <= Len(w)
    BY <1>2, SMT
  <2> DEFINE u == SubSeq(w, 1, a)
  <2>2. u \in Seq(S) /\ Len(u) = a /\ \A i \in 1 .. a : u[i] = w[i]
    BY <1>2, <2>1, Prefix
  <2> HIDE DEF u
  <2>3. ASSUME NEW i \in 1 .. Len(u) PROVE u[i] = m[i]
    <3>1. i \in 1 .. a /\ i \in 1 .. a + b /\ i <= a
      BY <2>2, SMT
    <3> QED BY <1>2, <2>2, <3>1
  <2>4. u = m
    BY <1>1, <2>2, <2>3, SeqEqual
  <2> QED BY <2>4 DEF u
<1>4. SubSeq(w, a + 1, a + b) = s
  <2> DEFINE u == SubSeq(w, a + 1, a + b)
  <2>1. \A i \in a + 1 .. a + b : w[i] \in S
    BY <1>2, ElementOfSeq, SMT
  <2>2. /\ u \in Seq(S)
        /\ Len(u) = IF a + 1 <= a + b THEN (a + b) - (a + 1) + 1 ELSE 0
        /\ \A i \in 1 .. (a + b) - (a + 1) + 1 : u[i] = w[(a + 1) + i - 1]
    BY <2>1, SubSeqProperties
  <2> HIDE DEF u
  <2>3. Len(u) = b
    BY <2>2, SMT
  <2>4. ASSUME NEW i \in 1 .. Len(u) PROVE u[i] = s[i]
    <3>1. /\ i \in 1 .. (a + b) - (a + 1) + 1 /\ (a + 1) + i - 1 = a + i
          /\ a + i \in 1 .. a + b /\ ~ (a + i <= a) /\ (a + i) - a = i
      BY <2>3, SMT
    <3>2. u[i] = w[a + i]
      BY <2>2, <3>1
    <3>3. w[a + i] = s[(a + i) - a]
      BY <1>2, <3>1
    <3> QED BY <3>1, <3>2, <3>3
  <2>5. u = s
    BY <1>1, <2>2, <2>3, <2>4, SeqEqual
  <2> QED BY <2>5 DEF u
<1>5. SubSeq(w, 1, Len(m)) = m /\ SubSeq(w, Len(m) + 1, Len(w)) = s
  BY <1>1, <1>2, <1>3, <1>4
<1> QED BY <1>5 DEF w

\* Moving the first element of the second part to the end of the first.
LEMMA Shift ==
  ASSUME NEW S, NEW m \in Seq(S), NEW p \in Seq(S), NEW q \in Seq(S),
         p # <<>>, Len(q) = Len(p) - 1,
         \A i \in 1 .. Len(q) : q[i] = p[i + 1]
  PROVE  Append(m, p[1]) \o q = m \o p
<1>1. PICK a \in Nat, b \in Nat : a = Len(m) /\ b = Len(q)
  BY LenProperties
<1>2. Len(p) = b + 1 /\ Len(p) \in Nat \ {0}
  BY <1>1, LenProperties, EmptySeq, SMT
<1>3. p[1] \in S
  <2>1. 1 \in 1 .. Len(p)
    BY <1>2, SMT
  <2> QED BY <2>1, ElementOfSeq
<1> DEFINE n == Append(m, p[1])
           u == n \o q
           v == m \o p
<1>4. /\ n \in Seq(S) /\ Len(n) = a + 1
      /\ \A i \in 1 .. a : n[i] = m[i]
      /\ n[a + 1] = p[1]
  BY <1>1, <1>3, AppendProperties
<1> HIDE DEF n
<1>5. /\ u \in Seq(S) /\ Len(u) = (a + 1) + b
      /\ \A i \in 1 .. (a + 1) + b : u[i] = IF i <= a + 1 THEN n[i] ELSE q[i - (a + 1)]
  <2>1. /\ u \in Seq(S) /\ Len(u) = Len(n) + Len(q)
        /\ \A i \in 1 .. Len(n) + Len(q) : u[i] = IF i <= Len(n) THEN n[i] ELSE q[i - Len(n)]
    BY <1>4, ConcatProperties
  <2> HIDE DEF u
  <2> QED BY <1>1, <1>4, <2>1
<1>6. /\ v \in Seq(S) /\ Len(v) = a + (b + 1)
      /\ \A i \in 1 .. a + (b + 1) : v[i] = IF i <= a THEN m[i] ELSE p[i - a]
  BY <1>1, <1>2, ConcatProperties
<1> HIDE DEF u, v
<1>7. Len(u) = Len(v)
  BY <1>5, <1>6, SMT
<1>8. ASSUME NEW i \in 1 .. Len(u) PROVE u[i] = v[i]
  <2>1. i \in 1 .. (a + 1) + b /\ i \in 1 .. a + (b + 1)
    BY <1>5, SMT
  <2>2. CASE i <= a
    <3>1. i <= a + 1 /\ i \in 1 .. a
      BY <2>1, <2>2, SMT
    <3> QED BY <1>4, <1>5, <1>6, <2>1, <2>2, <3>1
  <2>3. CASE i = a + 1
    <3>1. i <= a + 1 /\ ~ i <= a /\ i - a = 1
      BY <2>3, SMT
    <3> QED BY <1>4, <1>5, <1>6, <2>1, <2>3, <3>1
  <2>4. CASE i > a + 1
    <3>1. /\ ~ i <= a + 1 /\ ~ i <= a
          /\ i - (a + 1) \in 1 .. b /\ (i - (a + 1)) + 1 = i - a
      BY <2>1, <2>4, SMT
    <3>2. q[i - (a + 1)] = p[i - a]
      BY <1>1, <3>1
    <3> QED BY <1>5, <1>6, <2>1, <3>1, <3>2
  <2>5. i <= a \/ i = a + 1 \/ i > a + 1
    <3>1. i \in Int
      BY <2>1
    <3> QED BY <3>1, SMT
  <2> QED BY <2>2, <2>3, <2>4, <2>5, Zenon
<1>9. u = v
  BY <1>5, <1>6, <1>7, <1>8, SeqEqual
<1> QED BY <1>9 DEF u, v, n

-----------------------------------------------------------------------------
(* The ring.                                                               *)

\* How far the call of t has come.  Its ring exists; outside the loop it has
\* moved nothing; what a write has moved are the first bytes of its data and the
\* last bytes of the ring; a read has not moved more than it asked for.
HowFar(t) ==
  /\ pc[t] # "idle" => ring
  /\ pc[t] # "loop" => moved[t] = <<>>
  /\ Writing(t) => /\ Len(moved[t]) <= Len(request[t].data)
                   /\ Len(moved[t]) <= count
                   /\ \A j \in 1 .. Len(moved[t]) :
                        /\ moved[t][j] = request[t].data[j]
                        /\ Pending[(count - Len(moved[t])) + j] = moved[t][j]
  /\ Reading(t) => Len(moved[t]) <= request[t].len

Halfway == \A t \in Threads : HowFar(t)

\* What IInv leaves open is where in a transfer the ring is.
RInv == IInv /\ Halfway

LEMMA RequestShape ==
  ASSUME NEW r \in Requests
  PROVE  /\ r.op \in {"write", "read"}
         /\ r.op = "write" => r.data \in Seq(Bytes)
         /\ r.op = "read" => r.len \in Nat
<1>1. CASE r \in [op : {"read"}, len : 0 .. MaxLen]
  <2>1. r.op = "read" /\ r.len \in 0 .. MaxLen
    BY <1>1
  <2>2. r.len \in Nat
    BY <2>1, MaxLenAssumption, SMT
  <2> QED BY <2>1, <2>2
<1>2. CASE r \in [op : {"write"}, data : UNION {[1 .. n -> Bytes] : n \in 0 .. MaxLen}]
  <2>1. r.op = "write" /\ r.data \in UNION {[1 .. n -> Bytes] : n \in 0 .. MaxLen}
    BY <1>2
  <2>2. PICK n \in 0 .. MaxLen : r.data \in [1 .. n -> Bytes]
    BY <2>1
  <2>3. n \in Nat
    BY MaxLenAssumption, SMT
  <2>4. r.data \in Seq(Bytes)
    BY <2>2, <2>3, SMT
  <2> QED BY <2>1, <2>4
<1> QED BY <1>1, <1>2 DEF Requests

LEMMA PendingSeq ==
  ASSUME IInv
  PROVE  /\ Pending \in Seq(Bytes)
         /\ Len(Pending) = count
         /\ \A i \in 1 .. count : Pending[i] = buf[SlotOf(tail + (i - 1))]
<1>0. tail \in Int /\ count \in Nat
  BY NumberTypes DEF IInv
<1>1. ASSUME NEW i \in 1 .. count
      PROVE  Pending[i] = buf[SlotOf(tail + (i - 1))] /\ Pending[i] \in Bytes
  <2>1. tail + i - 1 = tail + (i - 1) /\ i - 1 \in 0 .. count - 1
    BY <1>0, SMT
  <2>2. buf[SlotOf(tail + (i - 1))] \in Bytes
    BY <2>1 DEF IInv, LiveSlotsWritten
  <2>3. Pending[i] = buf[SlotOf(tail + (i - 1))]
    BY <2>1 DEF Pending
  <2> QED BY <2>2, <2>3
<1>2. Pending = [i \in 1 .. count |-> Pending[i]]
  BY DEF Pending
<1>3. Pending \in [1 .. count -> Bytes]
  BY <1>1, <1>2
<1> QED BY <1>0, <1>1, <1>3, LenProperties, SMT

LEMMA PendingSeqNext ==
  IInv' => /\ Pending' \in Seq(Bytes)
           /\ Len(Pending') = count'
           /\ \A i \in 1 .. count' : Pending'[i] = buf'[SlotOf(tail' + (i - 1))]
<1> DEFINE P == /\ Pending \in Seq(Bytes)
                /\ Len(Pending) = count
                /\ \A i \in 1 .. count : Pending[i] = buf[SlotOf(tail + (i - 1))]
<1>1. IInv => P
  BY PendingSeq
<1>2. IInv' => P'
  BY <1>1, PTL
<1> QED BY <1>2

\* A byte written goes behind the bytes in the ring and disturbs none of them.
LEMMA WriteAppends ==
  ASSUME IInv, IInv', NEW t \in Threads, WriteByte(t)
  PROVE  /\ count' = count + 1
         /\ \A i \in 1 .. count : Pending'[i] = Pending[i]
         /\ Pending'[count + 1] = request[t].data[Len(moved[t]) + 1]
<1>0. /\ head \in Int /\ tail \in Int /\ count \in Nat /\ count < RingSize
      /\ RingSize \in Nat \ {0} /\ count' = count + 1 /\ tail' = tail
  BY NumberTypes, Sizes DEF IInv, WriteByte, CanWrite
<1> DEFINE byte == request[t].data[Len(moved[t]) + 1]
<1>1. buf' = [buf EXCEPT ![SlotOf(head)] = byte] /\ DOMAIN buf = Slots
  BY DEF WriteByte, IInv, TypeOK
<1> HIDE DEF byte
<1>2. PICK h \in Int : h = count + tail
  BY <1>0, SMT
<1>3. SlotOf(h) = SlotOf(head)
  BY <1>0, <1>2, HeadSlot DEF IInv, CountersAgree
<1>4. ASSUME NEW i \in 1 .. count PROVE Pending'[i] = Pending[i]
  <2>1. PICK x \in Int : x = tail + (i - 1)
    BY <1>0, SMT
  <2>2. -RingSize < x - h /\ x - h < RingSize /\ x # h /\ i \in 1 .. count'
    BY <1>0, <1>2, <2>1, SMT
  <2>3. SlotOf(x) # SlotOf(h)
    BY <1>0, <2>2, ModInjective DEF SlotOf
  <2>4. SlotOf(x) \in Slots
    BY SlotOfRange
  <2>5. Pending'[i] = buf'[SlotOf(x)] /\ Pending[i] = buf[SlotOf(x)]
    BY <1>0, <2>1, <2>2, PendingSeq, PendingSeqNext
  <2> QED BY <1>1, <1>3, <2>3, <2>4, <2>5
<1>5. Pending'[count + 1] = byte
  <2>1. count + 1 \in 1 .. count' /\ tail + ((count + 1) - 1) = h
    BY <1>0, <1>2, SMT
  <2>2. Pending'[count + 1] = buf'[SlotOf(h)]
    BY <1>0, <2>1, PendingSeqNext
  <2>3. SlotOf(h) \in Slots
    BY SlotOfRange
  <2> QED BY <1>1, <1>3, <2>2, <2>3
<1> QED BY <1>0, <1>4, <1>5 DEF byte

\* A byte read is the oldest one, and the others stay.
LEMMA ReadTakes ==
  ASSUME IInv, IInv', NEW t \in Threads, ReadByte(t)
  PROVE  /\ count \in Nat \ {0} /\ count' = count - 1
         /\ moved' = [moved EXCEPT ![t] = Append(moved[t], Pending[1])]
         /\ \A i \in 1 .. count' : Pending'[i] = Pending[i + 1]
<1>0. /\ tail \in Int /\ count \in Nat \ {0} /\ count' = count - 1
      /\ tail' = Succ(tail) /\ buf' = buf
  BY NumberTypes DEF IInv, ReadByte, CanRead
<1>1. Pending[1] = buf[SlotOf(tail)]
  <2>1. 1 \in 1 .. count /\ tail + (1 - 1) = tail
    BY <1>0, SMT
  <2>2. Pending[1] = buf[SlotOf(tail + (1 - 1))]
    BY <2>1, PendingSeq
  <2> QED BY <2>1, <2>2
<1>2. ASSUME NEW i \in 1 .. count' PROVE Pending'[i] = Pending[i + 1]
  <2>1. i - 1 \in Int /\ i + 1 \in 1 .. count /\ (tail + 1) + (i - 1) = tail + ((i + 1) - 1)
    BY <1>0, SMT
  <2>2. SlotOf(Succ(tail) + (i - 1)) = SlotOf((tail + 1) + (i - 1))
    BY <1>0, <2>1, SuccSlot
  <2>3. Pending'[i] = buf[SlotOf(Succ(tail) + (i - 1))]
    BY <1>0, PendingSeqNext
  <2>4. Pending[i + 1] = buf[SlotOf(tail + ((i + 1) - 1))]
    BY <2>1, PendingSeq
  <2> QED BY <2>1, <2>2, <2>3, <2>4
<1> QED BY <1>0, <1>1, <1>2 DEF ReadByte

-----------------------------------------------------------------------------
(* Where a transfer is.                                                    *)

LEMMA HowFarKept ==
  ASSUME NEW t \in Threads, HowFar(t), UNCHANGED <<ring, fields>>,
         pc'[t] = pc[t], moved'[t] = moved[t], request'[t] = request[t]
  PROVE  HowFar(t)'
BY DEF HowFar, Pending, fields, Writing, Reading

\* A thread outside the loop has moved nothing.
LEMMA HowFarOutside ==
  ASSUME NEW t \in Threads, pc'[t] # "loop", moved'[t] = <<>>, pc'[t] # "idle" => ring'
  PROVE  HowFar(t)'
BY DEF HowFar, Writing, Reading

LEMMA WriteByteHalfway ==
  ASSUME RInv, IInv', NEW t \in Threads, WriteByte(t)
  PROVE  Halfway'
<1> SUFFICES ASSUME NEW u \in Threads PROVE HowFar(u)'
  BY DEF Halfway
<1>0. /\ IInv /\ HowFar(t) /\ HowFar(u) /\ lock = t
      /\ pc[t] = "loop" /\ request[t].op = "write" /\ Len(moved[t]) < Len(request[t].data)
      /\ pc' = pc /\ request' = request /\ ring' = ring
      /\ moved \in [Threads -> Seq(Bytes)]
  BY DEF RInv, Halfway, IInv, LockHeld, WriteByte, Writing, CanWrite, TypeOK
<1>1. CASE u # t
  <2>1. pc[u] # "loop" /\ moved'[u] = moved[u]
    BY <1>0, <1>1 DEF IInv, LockHeld, WriteByte
  <2> QED BY <1>0, <2>1, HowFarOutside DEF HowFar
<1>2. CASE u = t
  <2> DEFINE m    == moved[t]
             data == request[t].data
             byte == data[Len(m) + 1]
             m2   == Append(m, byte)
  <2>1. m \in Seq(Bytes) /\ data \in Seq(Bytes) /\ byte \in Bytes
    <3>1. request[t] \in Requests
      BY <1>0 DEF IInv, Asked
    <3>2. data \in Seq(Bytes)
      BY <1>0, <3>1, RequestShape
    <3>3. byte \in Bytes
      BY <1>0, NextByte DEF IInv, WriteByte
    <3> QED BY <1>0, <3>2, <3>3
  <2>2. moved'[t] = m2
    BY <1>0 DEF WriteByte
  <2>3. /\ m2 \in Seq(Bytes) /\ Len(m2) = Len(m) + 1
        /\ \A j \in 1 .. Len(m) : m2[j] = m[j]
        /\ m2[Len(m) + 1] = byte
    BY <2>1, AppendProperties
  <2>4. /\ count' = count + 1
        /\ \A i \in 1 .. count : Pending'[i] = Pending[i]
        /\ Pending'[count + 1] = byte
    BY <1>0, WriteAppends
  <2>5. /\ Len(m) <= Len(data) /\ Len(m) <= count
        /\ \A j \in 1 .. Len(m) : m[j] = data[j] /\ Pending[(count - Len(m)) + j] = m[j]
    BY <1>0 DEF HowFar, Writing
  <2>6. PICK n \in Nat, c \in Nat : n = Len(m) /\ c = count
    BY <2>1, LenProperties, NumberTypes, <1>0 DEF IInv
  <2>7. Len(data) \in Nat /\ Len(m) < Len(data)
    BY <1>0, <2>1, LenProperties
  <2> HIDE DEF m, data, byte, m2
  <2>8. Len(m2) <= Len(data) /\ Len(m2) <= count'
    BY <2>3, <2>4, <2>5, <2>6, <2>7, SMT
  <2>9. ASSUME NEW j \in 1 .. Len(m2)
        PROVE  m2[j] = data[j] /\ Pending'[(count' - Len(m2)) + j] = m2[j]
    <3>0. (count' - Len(m2)) + j = (c - n) + j
      BY <2>3, <2>4, <2>6, SMT
    <3>1. CASE j = n + 1
      <4>1. (c - n) + j = c + 1
        BY <2>6, <3>1, SMT
      <4>2. m2[j] = byte /\ byte = data[j]
        BY <2>3, <2>6, <3>1 DEF byte
      <4> QED BY <2>4, <2>6, <3>0, <4>1, <4>2
    <3>2. CASE j # n + 1
      <4>1. j \in 1 .. n /\ (c - n) + j \in 1 .. c
        BY <2>3, <2>5, <2>6, <3>2, SMT
      <4>2. m2[j] = m[j] /\ m[j] = data[j] /\ Pending[(c - n) + j] = m[j]
        BY <2>3, <2>5, <2>6, <4>1
      <4> QED BY <2>4, <2>6, <3>0, <4>1, <4>2
    <3> QED BY <3>1, <3>2
  <2>10. HowFar(t)'
    BY <1>0, <2>2, <2>8, <2>9 DEF HowFar, Writing, Reading, data
  <2> QED BY <1>2, <2>10
<1> QED BY <1>1, <1>2

LEMMA ReadByteHalfway ==
  ASSUME RInv, IInv', NEW t \in Threads, ReadByte(t)
  PROVE  Halfway'
<1> SUFFICES ASSUME NEW u \in Threads PROVE HowFar(u)'
  BY DEF Halfway
<1>0. /\ IInv /\ HowFar(t) /\ HowFar(u) /\ lock = t
      /\ pc[t] = "loop" /\ request[t].op = "read" /\ Len(moved[t]) < request[t].len
      /\ pc' = pc /\ request' = request /\ ring' = ring
      /\ moved \in [Threads -> Seq(Bytes)]
  BY DEF RInv, Halfway, IInv, LockHeld, ReadByte, Reading, CanRead, TypeOK
<1>1. CASE u # t
  <2>1. pc[u] # "loop" /\ moved'[u] = moved[u]
    BY <1>0, <1>1 DEF IInv, LockHeld, ReadByte
  <2> QED BY <1>0, <2>1, HowFarOutside DEF HowFar
<1>2. CASE u = t
  <2>1. moved'[t] = Append(moved[t], Pending[1]) /\ count \in Nat \ {0}
    BY <1>0, ReadTakes
  <2>2. Pending[1] \in Bytes
    <3>1. 1 \in 1 .. Len(Pending)
      BY <1>0, <2>1, PendingSeq, SMT
    <3> QED BY <1>0, <3>1, PendingSeq, ElementOfSeq
  <2>3. moved[t] \in Seq(Bytes) /\ Len(moved'[t]) = Len(moved[t]) + 1
    BY <1>0, <2>1, <2>2, AppendProperties
  <2>4. request[t].len \in Nat
    BY <1>0, RequestShape DEF IInv, Asked
  <2>5. Len(moved'[t]) <= request[t].len
    BY <1>0, <2>3, <2>4, LenProperties, SMT
  <2>6. HowFar(t)'
    BY <1>0, <2>5 DEF HowFar, Writing, Reading
  <2> QED BY <1>2, <2>6
<1> QED BY <1>1, <1>2

LEMMA NextRInv == RInv /\ [Next]_vars => RInv'
<1> SUFFICES ASSUME RInv, [Next]_vars PROVE Halfway'
  BY NextIInv DEF RInv
<1>0. IInv /\ IInv' /\ Halfway /\ TypeOK
  BY NextIInv DEF RInv, IInv
<1>1. CASE AllocRing \/ FreeRing
  <2>1. \A t \in Threads : pc[t] = "idle" /\ moved[t] = <<>>
    BY <1>0, <1>1 DEF AllocRing, FreeRing, Halfway, HowFar
  <2>2. UNCHANGED <<pc, moved>>
    BY <1>1 DEF AllocRing, FreeRing
  <2> QED BY <2>1, <2>2, HowFarOutside DEF Halfway
<1>2. ASSUME NEW t \in Threads, NEW r \in Requests, Begin(t, r) PROVE Halfway'
  <2> SUFFICES ASSUME NEW u \in Threads PROVE HowFar(u)'
    BY DEF Halfway
  <2>1. HowFar(u) /\ UNCHANGED <<ring, fields, moved>> /\ pc[t] = "idle"
    BY <1>0, <1>2 DEF Halfway, Begin
  <2>2. CASE u = t
    <3>1. moved'[t] = <<>>
      BY <2>1, <2>2 DEF HowFar
    <3>2. pc'[t] # "loop" /\ (pc'[t] # "idle" => ring')
      BY <1>0, <1>2, <2>1 DEF Begin, TypeOK
    <3> QED BY <2>2, <3>1, <3>2, HowFarOutside
  <2>3. CASE u # t
    <3>1. pc'[u] = pc[u] /\ request'[u] = request[u]
      BY <1>0, <1>2, <2>3 DEF Begin, TypeOK
    <3> QED BY <2>1, <3>1, HowFarKept
  <2> QED BY <2>2, <2>3
<1>3. ASSUME NEW t \in Threads, Acquire(t) PROVE Halfway'
  <2> SUFFICES ASSUME NEW u \in Threads PROVE HowFar(u)'
    BY DEF Halfway
  <2>1. /\ HowFar(u) /\ UNCHANGED <<ring, fields, moved, request>> /\ pc[t] = "lock"
        /\ pc' = [pc EXCEPT ![t] = "loop"]
    BY <1>0, <1>3 DEF Halfway, Acquire
  <2>2. CASE u = t
    <3>1. moved'[t] = <<>> /\ ring' /\ Len(moved'[t]) = 0 /\ 1 .. 0 = {}
      <4>1. moved'[t] = <<>> /\ ring'
        BY <2>1, <2>2 DEF HowFar
      <4> QED BY <4>1, EmptySeq, SMT
    <3>2. request'[t] \in Requests
      BY <1>0, <2>1 DEF IInv, Asked
    <3>3. request'[t].op = "write" => Len(request'[t].data) \in Nat
      BY <3>2, RequestShape, LenProperties
    <3>4. request'[t].op = "read" => request'[t].len \in Nat
      BY <3>2, RequestShape
    <3>5. count' \in Nat
      BY <1>0, <2>1, NumberTypes DEF fields
    <3>6. /\ request'[t].op = "write" => 0 <= Len(request'[t].data)
          /\ request'[t].op = "read" => 0 <= request'[t].len
          /\ 0 <= count'
      BY <3>3, <3>4, <3>5, SMT
    <3>7. HowFar(t)'
      BY <3>1, <3>6 DEF HowFar, Writing, Reading
    <3> QED BY <2>2, <3>7
  <2>3. CASE u # t
    <3>1. pc'[u] = pc[u]
      BY <1>0, <2>1, <2>3 DEF TypeOK
    <3> QED BY <2>1, <3>1, HowFarKept
  <2> QED BY <2>2, <2>3
<1>4. ASSUME NEW t \in Threads, WriteByte(t) PROVE Halfway'
  BY <1>0, <1>4, WriteByteHalfway
<1>5. ASSUME NEW t \in Threads, ReadByte(t) PROVE Halfway'
  BY <1>0, <1>5, ReadByteHalfway
<1>6. ASSUME NEW t \in Threads, Release(t) PROVE Halfway'
  <2> SUFFICES ASSUME NEW u \in Threads PROVE HowFar(u)'
    BY DEF Halfway
  <2>1. /\ HowFar(u) /\ UNCHANGED <<ring, fields>>
        /\ pc' = [pc EXCEPT ![t] = "idle"]
        /\ request' = [request EXCEPT ![t] = NULL]
        /\ moved' = [moved EXCEPT ![t] = <<>>]
    BY <1>0, <1>6 DEF Halfway, Release
  <2>2. CASE u = t
    <3>1. pc'[t] = "idle" /\ moved'[t] = <<>>
      BY <1>0, <2>1 DEF TypeOK
    <3> QED BY <2>2, <3>1, HowFarOutside
  <2>3. CASE u # t
    <3>1. pc'[u] = pc[u] /\ request'[u] = request[u] /\ moved'[u] = moved[u]
      BY <1>0, <2>1, <2>3 DEF TypeOK
    <3> QED BY <2>1, <3>1, HowFarKept
  <2> QED BY <2>2, <2>3
<1>7. CASE UNCHANGED vars
  <2>1. UNCHANGED <<ring, fields, pc, moved, request>>
    BY <1>7 DEF vars
  <2> QED BY <1>0, <2>1, HowFarKept DEF Halfway
<1> QED BY <1>1, <1>2, <1>3, <1>4, <1>5, <1>6, <1>7 DEF Next, Proceed

LEMMA RInvariance == Spec => []RInv
<1>1. Init => RInv
  <2>1. Init => Halfway
    BY DEF Init, Halfway, HowFar, Writing, Reading
  <2> QED BY <2>1, InitIInv DEF RInv
<1> QED BY <1>1, NextRInv, PTL DEF Spec

-----------------------------------------------------------------------------
(* What the other threads see.                                             *)

\* The calls and the answers of ByteStream.
Call == [t \in Threads |-> IF pc[t] = "idle" THEN reply[t] ELSE request[t]]

LEMMA SameRequests == Abstract!Requests = Requests
BY DEF Abstract!Requests, Requests

\* An answer is no request, so an idle thread does not wait.
LEMMA IdleWaitsNot ==
  ASSUME TypeOK, NEW t \in Threads, pc[t] = "idle"
  PROVE  Call[t] \notin Requests
<1>1. Call[t] = reply[t]
  BY DEF Call
<1>2. CASE reply[t] \in {EIO, NoReply}
  BY <1>1, <1>2, ValuesAssumption
<1>3. CASE reply[t] \in [op : {"return"}, bytes : Seq(Bytes)]
  <2>1. reply[t].op = "return"
    BY <1>3
  <2> QED BY <1>1, <2>1, RequestShape
<1> QED BY <1>2, <1>3 DEF TypeOK

\* One thread's part of the calls.
LEMMA CallStep ==
  ASSUME NEW t \in Threads, NEW v,
         (IF pc'[t] = "idle" THEN reply'[t] ELSE request'[t]) = v,
         \A u \in Threads \ {t} :
           pc'[u] = pc[u] /\ reply'[u] = reply[u] /\ request'[u] = request[u]
  PROVE  Call' = [Call EXCEPT ![t] = v]
BY DEF Call

LEMMA CallKept ==
  ASSUME \A u \in Threads :
           /\ pc'[u] = pc[u] \/ (pc[u] # "idle" /\ pc'[u] # "idle")
           /\ reply'[u] = reply[u] /\ request'[u] = request[u]
  PROVE  Call' = Call
BY DEF Call

LEMMA StreamKept ==
  ASSUME UNCHANGED <<ring, fields, lock>>,
         lock # NoThread => /\ pc'[lock] = pc[lock] /\ moved'[lock] = moved[lock]
                            /\ request'[lock] = request[lock]
  PROVE  Stream' = Stream
BY DEF Stream, Pending, fields, Writing

\* Without a transfer under way the stream is what the ring holds.
LEMMA StreamAtRest ==
  ASSUME ring, lock = NoThread
  PROVE  Stream = Pending
BY DEF Stream

LEMMA StreamWriting ==
  ASSUME RInv, NEW t \in Threads, lock = t, Writing(t)
  PROVE  Stream = SubSeq(Pending, 1, count - Len(moved[t]))
BY ThreadsAssumption DEF Stream, RInv, Halfway, HowFar, Writing

LEMMA StreamReading ==
  ASSUME RInv, NEW t \in Threads, lock = t, Reading(t)
  PROVE  Stream = moved[t] \o Pending
BY ThreadsAssumption DEF Stream, RInv, Halfway, HowFar, Writing, Reading

LEMMA StreamSeq ==
  ASSUME RInv, ring
  PROVE  Stream \in Seq(Bytes)
<1>0. Pending \in Seq(Bytes) /\ Len(Pending) = count /\ count \in Nat
  BY PendingSeq, NumberTypes DEF RInv, IInv
<1>1. CASE lock = NoThread
  BY <1>0, <1>1, StreamAtRest
<1>2. CASE lock # NoThread
  <2>1. lock \in Threads /\ pc[lock] = "loop" /\ moved[lock] \in Seq(Bytes)
        /\ HowFar(lock)
    BY <1>2 DEF RInv, IInv, TypeOK, LockHeld, Halfway
  <2>2. CASE Writing(lock)
    <3>1. Len(moved[lock]) \in Nat /\ Len(moved[lock]) <= count
      BY <2>1, <2>2, LenProperties DEF HowFar
    <3>2. PICK k \in Nat : k = count - Len(moved[lock]) /\ k <= count
      BY <1>0, <3>1, Difference
    <3>3. k <= Len(Pending)
      BY <1>0, <3>2
    <3>4. SubSeq(Pending, 1, k) \in Seq(Bytes)
      BY <1>0, <3>3, Prefix
    <3> QED BY <2>1, <2>2, <3>2, <3>4, StreamWriting
  <2>3. CASE ~Writing(lock)
    <3>1. Stream = moved[lock] \o Pending
      BY <1>2, <2>3 DEF Stream
    <3> QED BY <1>0, <2>1, <3>1, ConcatProperties
  <2> QED BY <2>2, <2>3
<1> QED BY <1>1, <1>2

-----------------------------------------------------------------------------
(* The steps.                                                              *)

LEMMA RefineAllocRing ==
  ASSUME RInv, RInv', AllocRing
  PROVE  Abstract!Open
<1>1. Stream = NULL
  BY DEF AllocRing, Stream
<1>2. lock = NoThread
  BY DEF RInv, IInv, TypeOK, LockHeld, Halfway, HowFar, AllocRing
<1>3. Stream' = <<>>
  <2>1. Stream' = Pending'
    BY <1>2 DEF AllocRing, Stream
  <2>2. Pending' \in Seq(Bytes) /\ Len(Pending') = 0
    BY PendingSeqNext DEF RInv, AllocRing
  <2> QED BY <2>1, <2>2, EmptySeq
<1>4. Call' = Call
  BY CallKept DEF AllocRing
<1> QED BY <1>1, <1>3, <1>4 DEF Abstract!Open, Call

LEMMA RefineFreeRing ==
  ASSUME RInv, FreeRing
  PROVE  Abstract!Close
<1>1. Stream # NULL
  BY StreamSeq, ValuesAssumption DEF FreeRing
<1>2. \A t \in Threads : Call[t] \notin Requests
  BY IdleWaitsNot DEF RInv, IInv, FreeRing
<1>3. Stream' = NULL
  BY DEF FreeRing, Stream
<1>4. Call' = Call
  BY CallKept DEF FreeRing
<1> QED BY <1>1, <1>2, <1>3, <1>4, SameRequests
        DEF Abstract!Close, Abstract!Waiting, Call

LEMMA RefineBegin ==
  ASSUME RInv, NEW t \in Threads, NEW r \in Requests, Begin(t, r)
  PROVE  Abstract!Begin(t, r)
<1>0. TypeOK /\ LockHeld /\ pc[t] = "idle"
  BY DEF RInv, IInv, Begin
<1>1. Call[t] \notin Requests
  BY <1>0, IdleWaitsNot
<1>2. Stream' = Stream
  <2>1. lock # NoThread => lock # t
    BY <1>0 DEF TypeOK, LockHeld
  <2>2. lock # NoThread => /\ pc'[lock] = pc[lock] /\ moved'[lock] = moved[lock]
                           /\ request'[lock] = request[lock]
    BY <1>0, <2>1 DEF Begin, TypeOK
  <2> QED BY <2>2, StreamKept DEF Begin
<1>3. \A u \in Threads \ {t} :
        pc'[u] = pc[u] /\ reply'[u] = reply[u] /\ request'[u] = request[u]
  BY <1>0 DEF Begin, TypeOK
<1>4. CASE ring
  <2>1. Stream # NULL
    BY <1>4, StreamSeq, ValuesAssumption
  <2>2. pc'[t] = "lock" /\ request'[t] = r
    BY <1>0, <1>4 DEF Begin, TypeOK
  <2>3. Call' = [Call EXCEPT ![t] = r]
    BY <1>3, <2>2, CallStep
  <2> QED BY <1>1, <1>2, <2>1, <2>3, SameRequests
          DEF Abstract!Begin, Abstract!Waiting, Call
<1>5. CASE ~ring
  <2>1. Stream = NULL
    BY <1>5 DEF Stream
  <2>2. pc'[t] = "idle" /\ reply'[t] = EIO
    BY <1>0, <1>5 DEF Begin, TypeOK
  <2>3. Call' = [Call EXCEPT ![t] = EIO]
    BY <1>3, <2>2, CallStep
  <2> QED BY <1>1, <1>2, <2>1, <2>3, SameRequests
          DEF Abstract!Begin, Abstract!Waiting, Call
<1> QED BY <1>4, <1>5

\* Nothing of a transfer is seen when it takes the lock.
LEMMA RefineAcquire ==
  ASSUME RInv, RInv', NEW t \in Threads, Acquire(t)
  PROVE  Stream' = Stream /\ Call' = Call
<1>0. /\ TypeOK /\ pc[t] = "lock" /\ ring /\ lock = NoThread /\ moved[t] = <<>>
      /\ lock' = t /\ moved' = moved /\ ring' = ring /\ UNCHANGED fields
      /\ pc'[t] = "loop" /\ count \in Nat
  BY NumberTypes DEF RInv, IInv, Acquire, Halfway, HowFar, TypeOK
<1>1. Call' = Call
  BY <1>0, CallKept DEF Acquire, TypeOK
<1>2. Stream = Pending /\ Pending' = Pending
  BY <1>0, StreamAtRest DEF Pending, fields
<1>3. Pending \in Seq(Bytes) /\ Len(Pending) = count
  BY PendingSeq DEF RInv
<1>4. SubSeq(Pending, 1, count - 0) = Pending /\ <<>> \o Pending = Pending
  <2>1. count - 0 = Len(Pending)
    BY <1>0, <1>3, SMT
  <2> QED BY <1>3, <2>1, SubSeqFull, ConcatEmptySeq
<1>5. Len(moved'[t]) = 0 /\ count' = count
  BY <1>0, EmptySeq DEF fields
<1>6. CASE Writing(t)'
  <2>1. Stream' = SubSeq(Pending', 1, count' - Len(moved'[t]))
    BY <1>0, <1>6, ThreadsAssumption DEF Stream, Writing
  <2> QED BY <1>1, <1>2, <1>4, <1>5, <2>1
<1>7. CASE ~Writing(t)'
  <2>1. Stream' = moved'[t] \o Pending'
    BY <1>0, <1>7, ThreadsAssumption DEF Stream, Writing
  <2>2. moved'[t] = <<>>
    BY <1>0
  <2> QED BY <1>1, <1>2, <1>4, <2>1, <2>2
<1> QED BY <1>6, <1>7

\* The bytes that a write has moved are not in the stream yet.
LEMMA RefineWriteByte ==
  ASSUME RInv, RInv', NEW t \in Threads, WriteByte(t)
  PROVE  Stream' = Stream /\ Call' = Call
<1>0. /\ IInv /\ IInv' /\ lock = t /\ lock' = t /\ Writing(t) /\ Writing(t)'
      /\ moved[t] \in Seq(Bytes) /\ moved'[t] \in Seq(Bytes)
      /\ HowFar(t) /\ HowFar(t)'
  BY DEF RInv, IInv, TypeOK, LockHeld, Halfway, WriteByte, Writing
<1>1. Call' = Call
  BY CallKept DEF WriteByte
<1>2. Len(moved'[t]) = Len(moved[t]) + 1
  <2>1. moved'[t] = Append(moved[t], request[t].data[Len(moved[t]) + 1])
    BY DEF WriteByte, RInv, IInv, TypeOK
  <2> QED BY <1>0, <2>1, NextByte, AppendProperties DEF IInv, WriteByte
<1>3. PICK n \in Nat, c \in Nat : n = Len(moved[t]) /\ c = count /\ n <= c
  BY <1>0, LenProperties, NumberTypes DEF IInv, HowFar
<1>4. count' = c + 1 /\ \A i \in 1 .. c : Pending'[i] = Pending[i]
  BY <1>0, <1>3, WriteAppends
<1>5. PICK k \in Nat : k = c - n
  BY <1>3, SMT
<1>6. count - Len(moved[t]) = k /\ count' - Len(moved'[t]) = k /\ k <= c /\ k <= c + 1
  <2>1. count' = c + 1 /\ Len(moved'[t]) = n + 1 /\ count = c /\ Len(moved[t]) = n
    BY <1>2, <1>3, <1>4
  <2>2. (c + 1) - (n + 1) = k /\ c - n = k /\ k <= c /\ k <= c + 1
    BY <1>5, SMT
  <2> QED BY <2>1, <2>2
<1>7. /\ Pending \in Seq(Bytes) /\ Len(Pending) = c
      /\ Pending' \in Seq(Bytes) /\ Len(Pending') = c + 1
  BY <1>0, <1>3, <1>4, PendingSeq, PendingSeqNext
<1>8. \A i \in 1 .. k : Pending'[i] = Pending[i]
  BY <1>4, <1>6, SMT
<1>9. SubSeq(Pending', 1, k) = SubSeq(Pending, 1, k)
  BY <1>6, <1>7, <1>8, SamePrefix
<1>10. Stream = SubSeq(Pending, 1, k)
  BY <1>0, <1>6, StreamWriting
<1>11. Stream' = SubSeq(Pending', 1, k)
  BY <1>0, <1>6, ThreadsAssumption DEF Stream, HowFar, Writing
<1> QED BY <1>1, <1>9, <1>10, <1>11

\* The bytes that a read has moved are still in the stream.
LEMMA RefineReadByte ==
  ASSUME RInv, RInv', NEW t \in Threads, ReadByte(t)
  PROVE  Stream' = Stream /\ Call' = Call
<1>0. /\ IInv /\ IInv' /\ lock = t /\ lock' = t /\ Reading(t) /\ Reading(t)'
      /\ moved[t] \in Seq(Bytes) /\ HowFar(t)' /\ moved \in [Threads -> Seq(Bytes)]
  BY DEF RInv, IInv, TypeOK, LockHeld, Halfway, ReadByte, Reading
<1>1. Call' = Call
  BY CallKept DEF ReadByte
<1>2. /\ count \in Nat \ {0} /\ count' = count - 1
      /\ moved'[t] = Append(moved[t], Pending[1])
      /\ \A i \in 1 .. count' : Pending'[i] = Pending[i + 1]
  BY <1>0, ReadTakes
<1>3. /\ Pending \in Seq(Bytes) /\ Len(Pending) = count
      /\ Pending' \in Seq(Bytes) /\ Len(Pending') = count'
  BY <1>0, PendingSeq, PendingSeqNext
<1>4. Pending # <<>>
  BY <1>2, <1>3, EmptySeq
<1>5. Append(moved[t], Pending[1]) \o Pending' = moved[t] \o Pending
  <2>1. PICK m \in Seq(Bytes), p \in Seq(Bytes), q \in Seq(Bytes) :
          m = moved[t] /\ p = Pending /\ q = Pending'
    BY <1>0, <1>3
  <2>2. p # <<>> /\ Len(q) = Len(p) - 1 /\ \A i \in 1 .. Len(q) : q[i] = p[i + 1]
    BY <1>2, <1>3, <1>4, <2>1
  <2>3. Append(m, p[1]) \o q = m \o p
    BY <2>2, Shift
  <2> QED BY <2>1, <2>3
<1>6. Stream = moved[t] \o Pending
  BY <1>0, StreamReading
<1>7. Stream' = moved'[t] \o Pending'
  BY <1>0, ThreadsAssumption DEF Stream, HowFar, Writing, Reading
<1> QED BY <1>1, <1>2, <1>5, <1>6, <1>7

\* A write takes effect when it lets the lock go: the stream gets as many bytes as
\* fitted, which are those it answers with.
LEMMA RefineReleaseWrite ==
  ASSUME RInv, NEW t \in Threads, Release(t), request[t].op = "write"
  PROVE  Abstract!Write(t)
<1> DEFINE m    == moved[t]
           data == request[t].data
<1>0. /\ IInv /\ TypeOK /\ HowFar(t) /\ lock = t /\ ring /\ pc[t] = "loop" /\ Writing(t)
      /\ m \in Seq(Bytes) /\ request[t] \in Requests /\ ~CanWrite(t)
      /\ lock' = NoThread /\ UNCHANGED <<ring, fields>>
  <2>1. pc[t] = "loop"
    BY DEF Release, LoopEnds, Writing, Reading
  <2>2. Writing(t) /\ ~CanWrite(t)
    BY <2>1 DEF Release, LoopEnds, Writing, Reading
  <2> QED BY <2>1, <2>2
          DEF RInv, IInv, TypeOK, Halfway, HowFar, LockHeld, Asked, Release
<1>1. data \in Seq(Bytes)
  BY <1>0, RequestShape
<1>2. PICK n \in Nat, c \in Nat, d \in Nat : n = Len(m) /\ c = count /\ d = Len(data)
  BY <1>0, <1>1, LenProperties, NumberTypes
<1>3. /\ n <= d /\ n <= c /\ c <= RingSize /\ RingSize \in Nat
      /\ ~ (n < d /\ c < RingSize)
      /\ \A j \in 1 .. n : m[j] = data[j] /\ Pending[(c - n) + j] = m[j]
  BY <1>0, <1>2, NumberTypes, Sizes DEF HowFar, CanWrite
<1>4. Pending \in Seq(Bytes) /\ Len(Pending) = c
  BY <1>0, <1>2, PendingSeq
<1>5. PICK k \in Nat : k = c - n
  BY <1>3, SMT
<1>6. Stream = SubSeq(Pending, 1, k) /\ Len(Stream) = k
  <2>1. k <= Len(Pending)
    BY <1>3, <1>4, <1>5, SMT
  <2>2. Len(SubSeq(Pending, 1, k)) = k
    BY <1>4, <2>1, Prefix
  <2> QED BY <1>0, <1>2, <1>5, <2>2, StreamWriting
<1>7. Stream' = Pending
  <2>1. Pending' = Pending
    BY <1>0 DEF Pending, fields
  <2> QED BY <1>0, <2>1 DEF Stream
<1>8. SubSeq(Pending, 1, k) \o m = Pending
  <2>1. k = Len(Pending) - Len(m) /\ Len(m) <= Len(Pending)
    BY <1>2, <1>3, <1>4, <1>5, SMT
  <2>2. \A j \in 1 .. Len(m) : Pending[(Len(Pending) - Len(m)) + j] = m[j]
    BY <1>2, <1>3, <1>4
  <2>3. SubSeq(Pending, 1, Len(Pending) - Len(m)) \o m = Pending
    BY <1>0, <1>4, <2>1, <2>2, EndsIn
  <2> QED BY <2>1, <2>3
<1>9. Abstract!Lesser(Len(data), RingSize - Len(Stream)) = n
  <2>1. RingSize - Len(Stream) = RingSize - k
    BY <1>6
  <2>2. Abstract!Lesser(Len(data), RingSize - k) = n
    BY <1>2, <1>3, <1>5, SMT DEF Abstract!Lesser
  <2> QED BY <2>1, <2>2
<1>10. SubSeq(data, 1, n) = m
  <2>1. n <= Len(m) /\ n <= Len(data)
    BY <1>2, <1>3, SMT
  <2>2. SubSeq(data, 1, n) = SubSeq(m, 1, n)
    BY <1>0, <1>1, <1>3, <2>1, SamePrefix
  <2>3. SubSeq(m, 1, Len(m)) = m
    BY <1>0, SubSeqFull
  <2> QED BY <1>2, <2>2, <2>3
<1>11. Call[t] = request[t] /\ Call[t].data = data
  BY <1>0 DEF Call
<1>12. Call' = [Call EXCEPT ![t] = Transferred(m)]
  <2>1. pc'[t] = "idle" /\ reply'[t] = Transferred(m)
    BY <1>0 DEF Release, TypeOK
  <2>2. \A u \in Threads \ {t} :
          pc'[u] = pc[u] /\ reply'[u] = reply[u] /\ request'[u] = request[u]
    BY <1>0 DEF Release, TypeOK
  <2> QED BY <2>1, <2>2, CallStep
<1> DEFINE accepted == SubSeq(Call[t].data, 1,
                              Abstract!Lesser(Len(Call[t].data), RingSize - Len(Stream)))
<1>13. accepted = m
  BY <1>9, <1>10, <1>11
<1>14. Stream' = Stream \o accepted /\ Call' = [Call EXCEPT ![t] = Transferred(accepted)]
  BY <1>6, <1>7, <1>8, <1>12, <1>13
<1>15. Call[t] \in Abstract!Requests /\ Call[t].op = "write"
  BY <1>0, <1>11, SameRequests
<1> HIDE DEF m, data
<1> QED BY <1>14, <1>15
        DEF Abstract!Write, Abstract!Waiting, Abstract!Transferred, Transferred, Call

\* A read takes effect when it lets the lock go: the bytes it answers with leave
\* the stream.
LEMMA RefineReleaseRead ==
  ASSUME RInv, NEW t \in Threads, Release(t), request[t].op = "read"
  PROVE  Abstract!Read(t)
<1> DEFINE m   == moved[t]
           len == request[t].len
<1>0. /\ IInv /\ TypeOK /\ HowFar(t) /\ lock = t /\ ring /\ pc[t] = "loop" /\ Reading(t)
      /\ m \in Seq(Bytes) /\ request[t] \in Requests /\ ~CanRead(t)
      /\ lock' = NoThread /\ UNCHANGED <<ring, fields>>
  <2>1. pc[t] = "loop"
    BY DEF Release, LoopEnds, Writing, Reading
  <2>2. Reading(t) /\ ~CanRead(t)
    BY <2>1 DEF Release, LoopEnds, Writing, Reading
  <2> QED BY <2>1, <2>2
          DEF RInv, IInv, TypeOK, Halfway, HowFar, LockHeld, Asked, Release
<1>1. len \in Nat
  BY <1>0, RequestShape
<1>2. PICK n \in Nat, c \in Nat : n = Len(m) /\ c = count
  BY <1>0, LenProperties, NumberTypes
<1>3. n <= len /\ ~ (n < len /\ c # 0)
  BY <1>0, <1>2 DEF HowFar, CanRead
<1>4. Pending \in Seq(Bytes) /\ Len(Pending) = c
  BY <1>0, <1>2, PendingSeq
<1>5. Stream = m \o Pending /\ Len(Stream) = n + c
  BY <1>0, <1>2, <1>4, StreamReading, ConcatProperties
<1>6. Stream' = Pending
  <2>1. Pending' = Pending
    BY <1>0 DEF Pending, fields
  <2> QED BY <1>0, <2>1 DEF Stream
<1>7. Abstract!Lesser(len, Len(Stream)) = n
  BY <1>1, <1>2, <1>3, <1>5, SMT DEF Abstract!Lesser
<1>8. SubSeq(Stream, 1, n) = m /\ SubSeq(Stream, n + 1, Len(Stream)) = Pending
  BY <1>0, <1>2, <1>4, <1>5, SplitConcat
<1>9. Call[t] = request[t] /\ Call[t].len = len
  BY <1>0 DEF Call
<1>10. Call' = [Call EXCEPT ![t] = Transferred(m)]
  <2>1. pc'[t] = "idle" /\ reply'[t] = Transferred(m)
    BY <1>0 DEF Release, TypeOK
  <2>2. \A u \in Threads \ {t} :
          pc'[u] = pc[u] /\ reply'[u] = reply[u] /\ request'[u] = request[u]
    BY <1>0 DEF Release, TypeOK
  <2> QED BY <2>1, <2>2, CallStep
<1> DEFINE taken == Abstract!Lesser(Call[t].len, Len(Stream))
<1>11. taken = n
  BY <1>7, <1>9
<1>12. /\ Stream' = SubSeq(Stream, taken + 1, Len(Stream))
       /\ Call' = [Call EXCEPT ![t] = Transferred(SubSeq(Stream, 1, taken))]
  BY <1>6, <1>8, <1>10, <1>11
<1>13. Call[t] \in Abstract!Requests /\ Call[t].op = "read"
  BY <1>0, <1>9, SameRequests
<1> HIDE DEF m, len
<1> QED BY <1>12, <1>13
        DEF Abstract!Read, Abstract!Waiting, Abstract!Transferred, Transferred, Call

LEMMA RefineStep == RInv /\ RInv' /\ [Next]_vars => [Abstract!Next]_Abstract!vars
<1> SUFFICES ASSUME RInv, RInv', [Next]_vars PROVE [Abstract!Next]_Abstract!vars
  OBVIOUS
<1>1. CASE AllocRing
  BY <1>1, RefineAllocRing DEF Abstract!Next
<1>2. CASE FreeRing
  BY <1>2, RefineFreeRing DEF Abstract!Next
<1>3. ASSUME NEW t \in Threads, NEW r \in Requests, Begin(t, r) PROVE Abstract!Next
  BY <1>3, RefineBegin, SameRequests DEF Abstract!Next
<1>4. ASSUME Stream' = Stream, Call' = Call PROVE UNCHANGED Abstract!vars
  BY <1>4 DEF Abstract!vars, Call
<1>5. ASSUME NEW t \in Threads, Acquire(t) \/ WriteByte(t) \/ ReadByte(t)
      PROVE  UNCHANGED Abstract!vars
  BY <1>4, <1>5, RefineAcquire, RefineWriteByte, RefineReadByte
<1>6. ASSUME NEW t \in Threads, Release(t) PROVE Abstract!Next
  <2>1. request[t].op \in {"write", "read"}
    BY <1>6 DEF Release, LoopEnds, Writing, Reading
  <2> QED BY <1>6, <2>1, RefineReleaseWrite, RefineReleaseRead DEF Abstract!Next
<1>7. CASE UNCHANGED vars
  <2>1. Stream' = Stream
    BY <1>7 DEF vars, fields, Stream, Pending, Writing
  <2>2. Call' = Call
    BY <1>7, CallKept DEF vars
  <2> QED BY <1>4, <2>1, <2>2
<1> QED BY <1>1, <1>2, <1>3, <1>5, <1>6, <1>7 DEF Next, Proceed

\* For every ring, every counter width and any threads, each transfer happens at
\* once: no byte is lost, repeated or overtaken ("Data written to a device can be
\* read back", the header comment of qemubackend.c).
THEOREM QemuRingImplementsStream == Spec => ImplementsStream
<1>1. Init => Abstract!Init
  BY DEF Init, Abstract!Init, Stream
<1> QED BY <1>1, RInvariance, RefineStep, PTL
        DEF Spec, ImplementsStream, Abstract!Spec

=============================================================================
