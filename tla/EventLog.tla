------------------------------ MODULE EventLog ------------------------------
(***************************************************************************)
(* The kernel module's event log (src/core/event.c): a circular array of   *)
(* KDAL_EVENT_LOG_SIZE slots, a free-running 32-bit write counter          *)
(* kdal_event_head and the number kdal_event_count of unpolled events.     *)
(* Every function holds kdal_event_lock from its first access to its last, *)
(* so each is one action.  An event is an element of Events: its type,     *)
(* device name and data are copied as one value and never inspected.       *)
(***************************************************************************)
EXTENDS Integers, Sequences

CONSTANTS
  Events,          \* what the callers emit
  LogSize,         \* KDAL_EVENT_LOG_SIZE, 256 in the code
  CounterModulus,  \* 2^32, where an unsigned int wraps
  ZeroEvent,       \* the contents of a slot of the static array at load
  EAGAIN, EINVAL, NoReply

ASSUME LogSizeAssumption == LogSize \in Nat \ {0}

\* 256 divides 2^32: a wrap of the counter does not move the next slot.
ASSUME ModulusAssumption ==
  /\ CounterModulus \in Nat \ {0}
  /\ CounterModulus % LogSize = 0

VARIABLES
  log,     \* kdal_event_log
  head,    \* kdal_event_head, the counter of the next slot to write
  count,   \* kdal_event_count, the number of events not yet polled
  reply    \* what the last kdal_poll_event returned

vars == <<log, head, count, reply>>

Slots == 0 .. LogSize - 1

\* The slot a counter selects.
SlotOf(counter) == counter % LogSize

\* TailCounter off by one: the slot after the oldest event.
TailCounterOffByOne == (head - count + 1) % CounterModulus

\* The counter of the oldest unpolled event: an unsigned subtraction.
TailCounter == (head - count) % CounterModulus

Init ==
  /\ log = [s \in Slots |-> ZeroEvent]
  /\ head = 0
  /\ count = 0
  /\ reply = NoReply

\* EmitEvent without the saturation of kdal_event_count.
EmitEventUnsaturated(e) ==
  /\ log' = [log EXCEPT ![SlotOf(head)] = e]
  /\ head' = (head + 1) % CounterModulus
  /\ count' = count + 1
  /\ UNCHANGED reply

\* kdal_emit_event.  The wake-up of kdal_event_wq wakes nobody: no code of the
\* module ever waits on it.
EmitEvent(e) ==
  /\ log' = [log EXCEPT ![SlotOf(head)] = e]
  /\ head' = (head + 1) % CounterModulus
  /\ count' = IF count < LogSize THEN count + 1 ELSE count
  /\ UNCHANGED reply

\* kdal_poll_event, one action per way out of it.
PollNull == reply' = EINVAL /\ UNCHANGED <<log, head, count>>

PollEmpty ==
  /\ count = 0
  /\ reply' = EAGAIN
  /\ UNCHANGED <<log, head, count>>

PollOldest ==
  /\ count # 0
  /\ reply' = log[SlotOf(TailCounter)]
  /\ count' = count - 1
  /\ UNCHANGED <<log, head>>

PollEvent == PollNull \/ PollEmpty \/ PollOldest

\* EventShutdown that forgets to reset the count.
EventShutdownKeepsCount ==
  /\ head' = 0
  /\ UNCHANGED <<log, count, reply>>

\* kdal_event_shutdown forgets the events but leaves the slots as they are.
EventShutdown ==
  /\ head' = 0
  /\ count' = 0
  /\ UNCHANGED <<log, reply>>

Next ==
  \/ \E e \in Events : EmitEvent(e)
  \/ PollEvent
  \/ EventShutdown

Spec == Init /\ [][Next]_vars

-----------------------------------------------------------------------------
TypeOK ==
  /\ log \in [Slots -> Events \union {ZeroEvent}]
  /\ head \in 0 .. CounterModulus - 1
  /\ count \in 0 .. LogSize
  /\ reply \in Events \union {EAGAIN, EINVAL, NoReply}

\* The queue the circular array stands for, oldest event first.
Pending == [i \in 1 .. count |-> log[SlotOf(TailCounter + i - 1)]]

\* The slots from the tail counter up to the head counter hold emitted
\* events: whatever the counters have been through, a poll never returns a
\* slot of the static array that nobody has written (kdal_poll_event).
LiveSlotsWritten == \A i \in 1 .. count : Pending[i] \in Events

Queue == INSTANCE EventQueue WITH
           Capacity <- LogSize,
           pending  <- Pending

\* The log is a first-in first-out queue of the LogSize most recent unpolled
\* events, through every wrap of the array and of the 32-bit counter
\* (the header comment of event.c and the comment on kdal_poll_event).
ImplementsQueue == Queue!Spec

=============================================================================
