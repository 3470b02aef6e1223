----------------------------- MODULE ByteStream -----------------------------
(***************************************************************************)
(* What the emulated transport of the QEMU backend promises the drivers: a *)
(* bounded byte stream.  A write appends as much of its data as fits and a *)
(* read takes as much as there is, each in one indivisible step between    *)
(* the call and its return; a call to a device without a ring fails.       *)
(* QemuRing implements this specification.                                 *)
(***************************************************************************)
EXTENDS Integers, Sequences

CONSTANTS
  Threads, Bytes,
  Capacity,      \* how many bytes the stream holds
  MaxLen,        \* bound: the longest transfer
  EIO, NoReply, NULL

VARIABLES
  stream,  \* the bytes written and not yet read, or NULL without a ring
  call     \* what each thread asked for, or the answer to it

vars == <<stream, call>>

Requests ==
  [op : {"write"}, data : UNION {[1 .. n -> Bytes] : n \in 0 .. MaxLen}]
    \union [op : {"read"}, len : 0 .. MaxLen]

\* What a successful call returns.
Transferred(bytes) == [op |-> "return", bytes |-> bytes]

Waiting(t) == call[t] \in Requests

Lesser(m, n) == IF m < n THEN m ELSE n

Init == stream = NULL /\ call = [t \in Threads |-> NoReply]

Begin(t, r) ==
  /\ ~Waiting(t)
  /\ call' = [call EXCEPT ![t] = IF stream = NULL THEN EIO ELSE r]
  /\ UNCHANGED stream

Write(t) ==
  /\ Waiting(t) /\ call[t].op = "write"
  /\ LET data     == call[t].data
         accepted == SubSeq(data, 1, Lesser(Len(data), Capacity - Len(stream)))
     IN  /\ stream' = stream \o accepted
         /\ call' = [call EXCEPT ![t] = Transferred(accepted)]

Read(t) ==
  /\ Waiting(t) /\ call[t].op = "read"
  /\ LET n == Lesser(call[t].len, Len(stream))
     IN  /\ stream' = SubSeq(stream, n + 1, Len(stream))
         /\ call' = [call EXCEPT ![t] = Transferred(SubSeq(stream, 1, n))]

Open == stream = NULL /\ stream' = <<>> /\ UNCHANGED call

Close ==
  /\ stream # NULL
  /\ \A t \in Threads : ~Waiting(t)
  /\ stream' = NULL
  /\ UNCHANGED call

Next ==
  \/ \E t \in Threads : \/ \E r \in Requests : Begin(t, r)
                        \/ Write(t)
                        \/ Read(t)
  \/ Open
  \/ Close

Spec == Init /\ [][Next]_vars

=============================================================================
