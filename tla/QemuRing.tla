------------------------------ MODULE QemuRing ------------------------------
(***************************************************************************)
(* The per-device ring buffer of the QEMU backend                          *)
(* (src/backends/qemu/qemubackend.c): a circular array between two         *)
(* free-running 32-bit counters and a byte count, copied one byte at a     *)
(* time under the ring's spinlock by any number of threads.                *)
(*                                                                         *)
(* kdal_qemu_alloc_ring and kdal_qemu_free_ring store and clear            *)
(* device->priv with no lock.  Their callers are a driver's probe and      *)
(* remove: probe runs once for a device without a ring, and remove runs in *)
(* the exit of the module, which the module loader holds back while a file *)
(* is open, so no thread is in a read or a write.                          *)
(***************************************************************************)
EXTENDS Integers, Sequences

CONSTANTS
  Threads,         \* processes in a read or write of the device
  Bytes,
  RingSize,        \* QEMU_RING_SIZE, 4096 in the code
  CounterModulus,  \* 2^32, where an unsigned int wraps
  MaxLen,          \* bound: the longest transfer
  NoThread,        \* nobody holds the lock
  ZeroByte,        \* what kzalloc leaves in a slot
  EIO, NoReply, NULL

ASSUME RingSizeAssumption == RingSize \in Nat \ {0}

\* 4096 divides 2^32 and is smaller.
ASSUME ModulusAssumption ==
  /\ CounterModulus \in Nat
  /\ CounterModulus > RingSize
  /\ CounterModulus % RingSize = 0

ASSUME ThreadsAssumption == NoThread \notin Threads

ASSUME MaxLenAssumption == MaxLen \in Nat

VARIABLES
  ring,     \* device->priv points to a ring
  buf, head, tail, count,  \* its fields
  lock,     \* the thread that holds its spinlock
  pc,       \* where each thread is
  request,  \* the arguments of its call
  moved,    \* the bytes its loop has copied so far
  reply     \* what its last call returned: the bytes transferred or an error

fields == <<buf, head, tail, count>>
vars == <<ring, fields, lock, pc, request, moved, reply>>

Slots == 0 .. RingSize - 1

SlotOf(counter) == counter % RingSize

Succ(counter) == (counter + 1) % CounterModulus

Requests ==
  [op : {"write"}, data : UNION {[1 .. n -> Bytes] : n \in 0 .. MaxLen}]
    \union [op : {"read"}, len : 0 .. MaxLen]

\* The answers are no requests, and NULL is no sequence of bytes.
ASSUME ValuesAssumption ==
  /\ EIO \notin Requests /\ NoReply \notin Requests
  /\ NULL \notin Seq(Bytes)

\* What a successful call returns.
Transferred(bytes) == [op |-> "return", bytes |-> bytes]

Fresh == [s \in Slots |-> ZeroByte]

Init ==
  /\ ring = FALSE
  /\ buf = Fresh /\ head = 0 /\ tail = 0 /\ count = 0
  /\ lock = NoThread
  /\ pc = [t \in Threads |-> "idle"]
  /\ request = [t \in Threads |-> NULL]
  /\ moved = [t \in Threads |-> <<>>]
  /\ reply = [t \in Threads |-> NoReply]

\* kdal_qemu_alloc_ring; when kzalloc fails nothing changes.
AllocRing ==
  /\ ~ring
  /\ ring' = TRUE
  /\ buf' = Fresh /\ head' = 0 /\ tail' = 0 /\ count' = 0
  /\ UNCHANGED <<lock, pc, request, moved, reply>>

FreeRing ==
  /\ ring
  /\ \A t \in Threads : pc[t] = "idle"
  /\ ring' = FALSE
  /\ UNCHANGED <<fields, lock, pc, request, moved, reply>>

\* The entry of qemu_backend_read and qemu_backend_write, up to the lock.
Begin(t, r) ==
  /\ pc[t] = "idle"
  /\ IF ring
       THEN /\ pc' = [pc EXCEPT ![t] = "lock"]
            /\ request' = [request EXCEPT ![t] = r]
            /\ reply' = [reply EXCEPT ![t] = NoReply]
       ELSE /\ reply' = [reply EXCEPT ![t] = EIO]
            /\ UNCHANGED <<pc, request>>
  /\ UNCHANGED <<ring, fields, lock, moved>>

\* Acquire without the spinlock: whoever comes takes it for granted.
AcquireNoLock(t) ==
  /\ pc[t] = "lock"
  /\ lock' = t
  /\ pc' = [pc EXCEPT ![t] = "loop"]
  /\ UNCHANGED <<ring, fields, request, moved, reply>>

Acquire(t) ==
  /\ pc[t] = "lock"
  /\ lock = NoThread
  /\ lock' = t
  /\ pc' = [pc EXCEPT ![t] = "loop"]
  /\ UNCHANGED <<ring, fields, request, moved, reply>>

Writing(t) == pc[t] = "loop" /\ request[t].op = "write"
Reading(t) == pc[t] = "loop" /\ request[t].op = "read"

\* The loop's tests, with the break for a full ring one byte late.
CanWriteOneMore(t) == Len(moved[t]) < Len(request[t].data) /\ count <= RingSize

CanWrite(t) == Len(moved[t]) < Len(request[t].data) /\ count < RingSize
CanRead(t)  == Len(moved[t]) < request[t].len /\ count # 0

\* One round of the loop in qemu_ring_write.
WriteByte(t) ==
  /\ Writing(t) /\ CanWrite(t)
  /\ LET byte == request[t].data[Len(moved[t]) + 1]
     IN  /\ buf' = [buf EXCEPT ![SlotOf(head)] = byte]
         /\ moved' = [moved EXCEPT ![t] = Append(@, byte)]
  /\ head' = Succ(head)
  /\ count' = count + 1
  /\ UNCHANGED <<ring, tail, lock, pc, request, reply>>

\* ReadByte whose tail wraps at the size of the ring, not of the counter.
ReadByteTailWraps(t) ==
  /\ Reading(t) /\ CanRead(t)
  /\ moved' = [moved EXCEPT ![t] = Append(@, buf[SlotOf(tail)])]
  /\ tail' = SlotOf(tail + 1)
  /\ count' = count - 1
  /\ UNCHANGED <<ring, buf, head, lock, pc, request, reply>>

\* One round of the loop in qemu_ring_read.
ReadByte(t) ==
  /\ Reading(t) /\ CanRead(t)
  /\ moved' = [moved EXCEPT ![t] = Append(@, buf[SlotOf(tail)])]
  /\ tail' = Succ(tail)
  /\ count' = count - 1
  /\ UNCHANGED <<ring, buf, head, lock, pc, request, reply>>

LoopEnds(t) ==
  \/ Writing(t) /\ ~CanWrite(t)
  \/ Reading(t) /\ ~CanRead(t)

\* Release that starts a transfer again when it moved nothing.
ReleaseRetries(t) ==
  /\ LoopEnds(t)
  /\ lock' = NoThread
  /\ IF moved[t] = <<>>
       THEN /\ pc' = [pc EXCEPT ![t] = "lock"]
            /\ UNCHANGED <<reply, request, moved>>
       ELSE /\ pc' = [pc EXCEPT ![t] = "idle"]
            /\ reply' = [reply EXCEPT ![t] = Transferred(moved[t])]
            /\ request' = [request EXCEPT ![t] = NULL]
            /\ moved' = [moved EXCEPT ![t] = <<>>]
  /\ UNCHANGED <<ring, fields>>

\* The loop ends, the lock is released and the call returns.
Release(t) ==
  /\ LoopEnds(t)
  /\ lock' = NoThread
  /\ pc' = [pc EXCEPT ![t] = "idle"]
  /\ reply' = [reply EXCEPT ![t] = Transferred(moved[t])]
  /\ request' = [request EXCEPT ![t] = NULL]
  /\ moved' = [moved EXCEPT ![t] = <<>>]
  /\ UNCHANGED <<ring, fields>>

Proceed(t) == Acquire(t) \/ WriteByte(t) \/ ReadByte(t) \/ Release(t)

Next ==
  \/ AllocRing
  \/ FreeRing
  \/ \E t \in Threads : (\E r \in Requests : Begin(t, r)) \/ Proceed(t)

Spec == Init /\ [][Next]_vars

\* The holder of a spinlock taken with spin_lock_irqsave is not preempted, and
\* the kernel's queued spinlocks serve their waiters in turn.
Fairness ==
  \A t \in Threads :
    /\ SF_vars(Acquire(t))
    /\ WF_vars(WriteByte(t) \/ ReadByte(t) \/ Release(t))

FairSpec == Spec /\ Fairness

-----------------------------------------------------------------------------
TypeOK ==
  /\ ring \in BOOLEAN
  /\ buf \in [Slots -> Bytes \union {ZeroByte}]
  /\ head \in 0 .. CounterModulus - 1
  /\ tail \in 0 .. CounterModulus - 1
  /\ count \in 0 .. RingSize
  /\ lock \in Threads \union {NoThread}
  /\ pc \in [Threads -> {"idle", "lock", "loop"}]
  /\ request \in [Threads -> Requests \union {NULL}]
  /\ moved \in [Threads -> Seq(Bytes)]
  /\ reply \in [Threads -> {EIO, NoReply} \union [op : {"return"}, bytes : Seq(Bytes)]]

\* The byte count is the distance between the two free-running counters at
\* every point of a transfer, also when only one of them has wrapped
\* (qemu_ring_write and qemu_ring_read keep the three fields separately).
CountersAgree == count = (head - tail) % CounterModulus

\* The bytes in the ring, oldest first.
Pending == [i \in 1 .. count |-> buf[SlotOf(tail + i - 1)]]

\* The stream as the other threads see it: the transfer of the thread that
\* holds the lock has not happened yet.
Stream ==
  IF ~ring THEN NULL
  ELSE IF lock = NoThread THEN Pending
  ELSE IF Writing(lock) THEN SubSeq(Pending, 1, count - Len(moved[lock]))
  ELSE moved[lock] \o Pending

Abstract == INSTANCE ByteStream WITH
              Capacity <- RingSize,
              stream   <- Stream,
              call     <- [t \in Threads |-> IF pc[t] = "idle" THEN reply[t]
                                             ELSE request[t]]

\* Concurrent transfers of several bytes are indivisible and in order: no byte
\* is lost, repeated, overtaken or taken from a slot nobody wrote, through
\* every wrap of the array and of the counters ("Data written to a device can
\* be read back", the header comment of qemubackend.c).
ImplementsStream == Abstract!Spec

\* Every read and write of a device returns, whatever the other threads do.
CallsReturn == \A t \in Threads : pc[t] # "idle" ~> pc[t] = "idle"

=============================================================================
