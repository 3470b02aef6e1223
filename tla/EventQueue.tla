----------------------------- MODULE EventQueue -----------------------------
(***************************************************************************)
(* What the event log promises its clients: a first-in first-out queue of  *)
(* the Capacity most recent events that have not been polled yet.  An emit *)
(* never fails and never blocks; when the queue is full it discards the    *)
(* oldest event.  EventLog implements this specification.                  *)
(***************************************************************************)
EXTENDS Naturals, Sequences

CONSTANTS
  Events,    \* what may be emitted
  Capacity,  \* how many unpolled events are kept
  EAGAIN,    \* poll found nothing
  EINVAL,    \* poll was given no place to store the event
  NoReply    \* nothing has been polled yet

VARIABLES
  pending,   \* the events a poll can still return, oldest first
  reply      \* what the last poll returned

vars == <<pending, reply>>

Init == pending = <<>> /\ reply = NoReply

Emit(e) ==
  /\ pending' = IF Len(pending) < Capacity
                THEN Append(pending, e)
                ELSE Append(Tail(pending), e)
  /\ UNCHANGED reply

Poll ==
  /\ pending # <<>>
  /\ reply' = Head(pending)
  /\ pending' = Tail(pending)

PollEmpty ==
  /\ pending = <<>>
  /\ reply' = EAGAIN
  /\ UNCHANGED pending

PollRejected == reply' = EINVAL /\ UNCHANGED pending

Reset == pending' = <<>> /\ UNCHANGED reply

Next ==
  \/ \E e \in Events : Emit(e)
  \/ Poll
  \/ PollEmpty
  \/ PollRejected
  \/ Reset

Spec == Init /\ [][Next]_vars

=============================================================================
