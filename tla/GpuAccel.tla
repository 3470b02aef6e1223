------------------------------ MODULE GpuAccel ------------------------------
(***************************************************************************)
(* The accelerator operations of the gpu driver                            *)
(* (src/drivers/example/gpudriver.c) over the event log: queues and        *)
(* buffers, which the driver only counts, and submissions, each of which   *)
(* counts itself and reports its completion as an event.                   *)
(*                                                                         *)
(* The driver takes no lock.  The clients submit concurrently, as the      *)
(* owners of different queues do; what sets queues and buffers up and      *)
(* tears them down is one thread, as in tests/kunit/test_accel.c, but in   *)
(* any order.  The counters are plain memory: submit_count++ is a load and *)
(* a store.  Queue and buffer differ in the handle a count gives: the      *)
(* count itself, or the next multiple of 0x10000, here in units of it.     *)
(***************************************************************************)
EXTENDS EventLog, SequencesExt, Functions

CONSTANTS
  Clients,      \* threads that submit
  MaxQueues,    \* GPU_MAX_QUEUES
  MaxBuffers,   \* GPU_MAX_BUFFERS
  DataModulus,  \* 2^32, the width of an event's data
  MaxSubmits,   \* bound: the submissions of one life of the module
  Added, Removed, PowerChange   \* the events of other kinds

Completions == 0 .. DataModulus - 1

ASSUME CompletionsAssumption ==
  /\ DataModulus \in Nat \ {0}
  /\ Completions \union {Added, Removed, PowerChange} \subseteq Events
  /\ {Added, Removed, PowerChange} \intersect Completions = {}

VARIABLES
  module,   \* "down", "up", "leaving": the life of the driver and of the log
  live,     \* the handles of the queues and of the buffers, oldest first
  tracked,  \* active_queues and mapped_buffers
  stacked,  \* only the youngest has ever been given back, since none was left
  submits,  \* submit_count
  pc, seen, \* where each client is in gpu_submit, and what it has read
  overlap   \* two submissions have overlapped in this life

tracking == <<live, tracked, stacked>>
submitting == <<submits, pc, seen, overlap>>
gpuVars == <<vars, module, tracking, submitting>>

Kinds == {"queue", "buffer"}

Limit == [queue |-> MaxQueues, buffer |-> MaxBuffers]

\* The address of a buffer from the count alone: 0 is that of no buffer.
HandleFromZero(kind, n) == n

\* queue->id and buffer->iova.
Handle(kind, n) == IF kind = "queue" THEN n ELSE n + 1

None == [k \in Kinds |-> <<>>]
Zero == [k \in Kinds |-> 0]
All  == [k \in Kinds |-> TRUE]

GpuInit ==
  /\ Init
  /\ module = "down"
  /\ live = None /\ tracked = Zero /\ stacked = All
  /\ submits = 0
  /\ pc = [c \in Clients |-> "idle"]
  /\ seen = [c \in Clients |-> 0]
  /\ overlap = FALSE

-----------------------------------------------------------------------------
(* The life of the driver.                                                 *)

\* kdal_gpu_driver_init and gpu_probe, which takes a zeroed state.
DriverInit ==
  /\ module = "down"
  /\ EmitEvent(Added)
  /\ module' = "up"
  /\ live' = None /\ tracked' = Zero /\ stacked' = All
  /\ submits' = 0 /\ overlap' = FALSE
  /\ UNCHANGED <<pc, seen>>

\* kdal_gpu_driver_exit and gpu_remove.  The clients are code of the module:
\* it is not unloaded under them.
DriverExit ==
  /\ module = "up"
  /\ \A c \in Clients : pc[c] = "idle"
  /\ EmitEvent(Removed)
  /\ module' = "leaving"
  /\ UNCHANGED <<tracking, submitting>>

\* The rest of kdal_core_exit.
LogExit ==
  /\ module = "leaving"
  /\ EventShutdown
  /\ module' = "down"
  /\ UNCHANGED <<tracking, submitting>>

\* What the rest of the module does to the log.
Elsewhere ==
  /\ module = "up"
  /\ EmitEvent(PowerChange) \/ PollEvent
  /\ UNCHANGED <<module, tracking, submitting>>

-----------------------------------------------------------------------------
(* Queues and buffers.  A call that is refused, at the limit (-ENOSPC) or   *)
(* for a missing argument (-EINVAL), changes nothing.                      *)

Obtain(kind) ==
  /\ tracked[kind] < Limit[kind]
  /\ live' = [live EXCEPT ![kind] = Append(@, Handle(kind, tracked[kind]))]
  /\ tracked' = [tracked EXCEPT ![kind] = @ + 1]
  /\ UNCHANGED stacked

\* The i-th oldest is given back.
GiveBack(kind, i) ==
  /\ live' = [live EXCEPT ![kind] = RemoveAt(@, i)]
  /\ tracked' = [tracked EXCEPT ![kind] = IF @ > 0 THEN @ - 1 ELSE @]
  /\ stacked' = [stacked EXCEPT ![kind] = \/ live'[kind] = <<>>
                                          \/ @ /\ i = Len(live[kind])]

QueueCreate  == Obtain("queue")
QueueDestroy == \E i \in DOMAIN live["queue"] : GiveBack("queue", i)
BufferMap    == Obtain("buffer")
BufferUnmap  == \E i \in DOMAIN live["buffer"] : GiveBack("buffer", i)

Tracking ==
  /\ module = "up"
  /\ QueueCreate \/ QueueDestroy \/ BufferMap \/ BufferUnmap
  /\ UNCHANGED <<vars, module, submitting>>

-----------------------------------------------------------------------------
(* gpu_submit.                                                             *)

Move(c, from, to) == pc[c] = from /\ pc' = [pc EXCEPT ![c] = to]

\* submit_count is read to be incremented.
SubmitLoad(c) ==
  /\ module = "up"
  /\ submits < MaxSubmits
  /\ Move(c, "idle", "store")
  /\ seen' = [seen EXCEPT ![c] = submits]
  /\ overlap' = (overlap \/ \E d \in Clients \ {c} : pc[d] # "idle")
  /\ UNCHANGED <<vars, module, tracking, submits>>

SubmitStore(c) ==
  /\ Move(c, "store", "number")
  /\ submits' = seen[c] + 1
  /\ UNCHANGED <<vars, module, tracking, seen, overlap>>

\* SubmitNumber that takes the count it has incremented.
SubmitNumberBefore(c) ==
  /\ Move(c, "number", "emit")
  /\ UNCHANGED <<vars, module, tracking, submits, seen, overlap>>

\* After the backend's write, whose result is not looked at (QemuRing has what
\* it does), the count is read once more for the event.
SubmitNumber(c) ==
  /\ Move(c, "number", "emit")
  /\ seen' = [seen EXCEPT ![c] = submits]
  /\ UNCHANGED <<vars, module, tracking, submits, overlap>>

SubmitEmit(c) ==
  /\ Move(c, "emit", "idle")
  /\ EmitEvent(seen[c] % DataModulus)
  /\ seen' = [seen EXCEPT ![c] = 0]
  /\ UNCHANGED <<module, tracking, submits, overlap>>

Submit(c) ==
  \/ SubmitLoad(c) \/ SubmitStore(c) \/ SubmitNumber(c) \/ SubmitEmit(c)

GpuNext ==
  \/ DriverInit \/ DriverExit \/ LogExit \/ Elsewhere
  \/ Tracking
  \/ \E c \in Clients : Submit(c)

GpuSpec == GpuInit /\ [][GpuNext]_gpuVars

-----------------------------------------------------------------------------
\* The counts are those of the live queues and buffers.  As long as only the
\* youngest is given back, the handles made from the counts are distinct, and
\* none is the address 0 that marks an unmapped buffer (gpu_queue_create and
\* gpu_buffer_map, against their counterparts in any order).  Without the
\* condition handles are shared.
HandlesDistinct ==
  \A k \in Kinds :
    /\ tracked[k] = Len(live[k])
    /\ stacked[k] => IsInjective(live[k])
    /\ k = "buffer" => \A i \in DOMAIN live[k] : live[k][i] # 0

\* The submissions that have been counted and not yet reported.
Unreported == {c \in Clients : pc[c] \in {"number", "emit"}}

\* The number of the last submission reported.
Reported == IF Unreported = {} THEN submits ELSE submits - 1

\* The places of the completions among n waiting events.
Done(events, n) == {i \in 1 .. n : events[i] \in Completions}

\* The completions among n waiting events count up, one by one, to last.
InOrder(events, n, last) ==
  \A i \in Done(events, n) :
    \/ /\ \A k \in Done(events, n) : k <= i
       /\ events[i] = last % DataModulus
    \/ \E j \in Done(events, n) :
         /\ i < j /\ \A k \in Done(events, n) : k <= i \/ j <= k
         /\ events[j] = (events[i] + 1) % DataModulus

\* As long as no two submissions overlap, the completions waiting in the log
\* are numbered one after the other up to the last submission reported,
\* through the wrap of the data and whatever the log has dropped or others
\* have emitted (gpu_submit).
CompletionsInOrder == ~overlap => InOrder(Pending, count, Reported)

=============================================================================
