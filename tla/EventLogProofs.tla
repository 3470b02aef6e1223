--------------------------- MODULE EventLogProofs ---------------------------
(***************************************************************************)
(* For every log size, and every counter width it divides: the event log   *)
(* is type correct, never hands out a slot that was not written, and       *)
(* implements the queue of EventQueue.  For any number of clients and any  *)
(* limits, the gpu driver uses the log only as the log's specification     *)
(* says, so that the same holds under the driver; and the handles it makes *)
(* from its counts are distinct while the youngest is given back first.    *)
(***************************************************************************)
EXTENDS GpuAccel, NatFacts, SequenceTheorems

Contents == Events \union {ZeroEvent}

\* What is assumed of the two constants.
LEMMA Positive ==
  /\ LogSize \in Nat \ {0}
  /\ CounterModulus \in Nat \ {0}
  /\ CounterModulus % LogSize = 0
BY LogSizeAssumption, ModulusAssumption

\* Every counter selects a slot of the array.
LEMMA SlotOfRange ==
  ASSUME NEW counter \in Int
  PROVE  SlotOf(counter) \in Slots
BY DivMod, LogSizeAssumption DEF SlotOf, Slots

\* The tail counter of any two counters is one the code can hold.
LEMMA TailRange ==
  ASSUME NEW h \in Int, NEW n \in Nat
  PROVE  (h - n) % CounterModulus \in 0 .. CounterModulus - 1
<1>1. PICK x \in Int : x = h - n
  BY SMT
<1> QED BY <1>1, DivMod, Positive

\* The slot d places after the tail counter of a head h and a count n: the
\* wrap of the unsigned subtraction does not show.
LEMMA TailSlot ==
  ASSUME NEW h \in Int, NEW n \in Nat, NEW d \in Int
  PROVE  SlotOf(((h - n) % CounterModulus) + d) = SlotOf(h - n + d)
<1>1. PICK x \in Int : x = h - n
  BY SMT
<1>2. ((x % CounterModulus) + d) % LogSize = (x + d) % LogSize
  BY ModWrapShift, Positive, ZenonT(40)
<1> QED BY <1>1, <1>2, Zenon DEF SlotOf

\* Advancing a counter before it is reduced to its width selects the slot the
\* advanced counter selects: a wrap of kdal_event_head does not show either.
LEMMA HeadSlot ==
  ASSUME NEW h \in Int, NEW d \in Int
  PROVE  SlotOf(((h + 1) % CounterModulus) + d) = SlotOf(h + 1 + d)
<1>1. PICK x \in Int : x = h + 1
  BY SMT
<1>2. ((x % CounterModulus) + d) % LogSize = (x + d) % LogSize
  BY ModWrapShift, Positive, ZenonT(40)
<1> QED BY <1>1, <1>2, Zenon DEF SlotOf

\* What TypeOK says of the counters.
LEMMA CounterTypes ==
  ASSUME TypeOK
  PROVE  head \in Int /\ count \in Nat /\ count <= LogSize
BY LogSizeAssumption, ModulusAssumption, SMT DEF TypeOK

\* The i-th unpolled event, in terms of the two counters.
LEMMA PendingAt ==
  ASSUME TypeOK, NEW i \in 1 .. count
  PROVE  /\ Pending[i] = log[SlotOf(head - count + (i - 1))]
         /\ SlotOf(head - count + (i - 1)) \in Slots
<1>1. i \in Int /\ i - 1 \in Int /\ head \in Int /\ count \in Nat
  BY CounterTypes, SMT
<1>2. TailCounter \in Int
  BY <1>1, TailRange, ModulusAssumption, SMT DEF TailCounter
<1>3. TailCounter + i - 1 = TailCounter + (i - 1)
  BY <1>1, <1>2, SMT
<1>4. SlotOf(TailCounter + (i - 1)) = SlotOf(head - count + (i - 1))
  BY <1>1, TailSlot DEF TailCounter
<1>5. head - count + (i - 1) \in Int
  BY <1>1, SMT
<1> QED BY <1>3, <1>4, <1>5, SlotOfRange DEF Pending

\* The same after a step, for the steps of Spec.
LEMMA PendingAtNext ==
  ASSUME TypeOK', NEW i \in 1 .. count'
  PROVE  /\ Pending'[i] = log'[SlotOf(head' - count' + (i - 1))]
         /\ SlotOf(head' - count' + (i - 1)) \in Slots
<1>1. i \in Int /\ i - 1 \in Int /\ head' \in Int /\ count' \in Nat
  BY LogSizeAssumption, ModulusAssumption, SMT DEF TypeOK
<1>2. TailCounter' \in Int
  BY <1>1, TailRange, ModulusAssumption, SMT DEF TailCounter
<1>3. TailCounter' + i - 1 = TailCounter' + (i - 1)
  BY <1>1, <1>2, SMT
<1>4. SlotOf(TailCounter' + (i - 1)) = SlotOf(head' - count' + (i - 1))
  BY <1>1, TailSlot DEF TailCounter
<1>5. head' - count' + (i - 1) \in Int
  BY <1>1, SMT
<1> QED BY <1>3, <1>4, <1>5, SlotOfRange DEF Pending

\* The unpolled events are a sequence of count slots' contents.
LEMMA PendingSeq ==
  ASSUME TypeOK
  PROVE  /\ Pending \in Seq(Contents)
         /\ Len(Pending) = count
<1>1. count \in Nat
  BY CounterTypes
<1>2. ASSUME NEW i \in 1 .. count
      PROVE  Pending[i] \in Contents
  BY PendingAt DEF TypeOK, Contents
<1>3. Pending = [i \in 1 .. count |-> Pending[i]]
  BY DEF Pending
<1>4. Pending \in [1 .. count -> Contents]
  BY <1>2, <1>3
<1> QED BY <1>1, <1>4, LenProperties, SMT

-----------------------------------------------------------------------------
\* TypeOK alone is not inductive: that a poll returns an event, and not the
\* contents of an unwritten slot, is the second conjunct.
IInv == TypeOK /\ LiveSlotsWritten

LEMMA InitIInv == Init => IInv
<1> SUFFICES ASSUME Init PROVE IInv
  OBVIOUS
<1>1. 0 \in 0 .. CounterModulus - 1 /\ 0 \in 0 .. LogSize
  BY Positive, SMT
<1>2. TypeOK
  BY <1>1 DEF Init, TypeOK
<1>3. 1 .. count = {}
  BY SMT DEF Init
<1> QED BY <1>2, <1>3 DEF IInv, LiveSlotsWritten

LEMMA TypeStep == IInv /\ [Next]_vars => TypeOK'
<1> SUFFICES ASSUME TypeOK, LiveSlotsWritten, [Next]_vars PROVE TypeOK'
  BY DEF IInv
<1> USE DEF TypeOK
<1>0. /\ 0 \in 0 .. CounterModulus - 1 /\ 0 \in 0 .. LogSize
      /\ head \in Int /\ count \in Nat
  BY Positive, CounterTypes, SMT
<1>1. ASSUME NEW e \in Events, EmitEvent(e) PROVE TypeOK'
  <2>1. PICK h \in Int : h = head + 1
    BY <1>0, SMT
  <2>2. head' \in 0 .. CounterModulus - 1
    BY <1>1, <2>1, DivMod, Positive DEF EmitEvent
  <2>3. log' \in [Slots -> Events \union {ZeroEvent}]
    BY <1>1 DEF EmitEvent
  <2>4. count' \in 0 .. LogSize
    BY <1>1, Positive, SMT DEF EmitEvent
  <2> QED BY <1>1, <2>2, <2>3, <2>4 DEF EmitEvent
<1>2. CASE PollNull
  BY <1>2 DEF PollNull
<1>3. CASE PollEmpty
  BY <1>3 DEF PollEmpty
<1>4. CASE PollOldest
  <2>1. 1 \in 1 .. count
    BY <1>0, <1>4, SMT DEF PollOldest
  <2>2. TailCounter + 1 - 1 = TailCounter
    BY <1>0, TailRange, Positive, SMT DEF TailCounter
  <2>3. Pending[1] = log[SlotOf(TailCounter)]
    BY <2>1, <2>2 DEF Pending
  <2>4. log[SlotOf(TailCounter)] \in Events
    BY <2>1, <2>3 DEF LiveSlotsWritten
  <2>5. count' \in 0 .. LogSize
    BY <1>4, Positive, SMT DEF PollOldest
  <2> QED BY <1>4, <2>4, <2>5 DEF PollOldest
<1>5. CASE EventShutdown
  BY <1>0, <1>5 DEF EventShutdown
<1>6. CASE UNCHANGED vars
  BY <1>6 DEF vars
<1> QED BY <1>1, <1>2, <1>3, <1>4, <1>5, <1>6 DEF Next, PollEvent

-----------------------------------------------------------------------------
\* What each step does to the unpolled events.  These are the steps of the
\* refinement, and LiveSlotsWritten follows from them.

\* An emit below the limit adds an event behind the others.
LEMMA EmitAppends ==
  ASSUME TypeOK, TypeOK', NEW e \in Events, EmitEvent(e), count < LogSize
  PROVE  /\ count' = count + 1
         /\ \A i \in 1 .. count : Pending'[i] = Pending[i]
         /\ Pending'[count + 1] = e
<1>0. head \in Int /\ count \in Nat /\ LogSize \in Nat \ {0} /\ count' = count + 1
  BY CounterTypes, Positive DEF EmitEvent
<1>1. ASSUME NEW i \in 1 .. count + 1
      PROVE  /\ Pending'[i] = log'[SlotOf(head - count + (i - 1))]
             /\ SlotOf(head - count + (i - 1)) \in Slots
  <2>1. i \in 1 .. count'
    BY <1>0
  <2>2. Pending'[i] = log'[SlotOf(head' - count' + (i - 1))]
    BY <2>1, PendingAtNext
  <2>3. PICK d \in Int : d = (i - 1) - count'
    BY <1>0, SMT
  <2>4. SlotOf(((head + 1) % CounterModulus) + d) = SlotOf(head + 1 + d)
    BY <1>0, HeadSlot
  <2>5. head' \in Int /\ head' = (head + 1) % CounterModulus
    BY Positive, SMT DEF TypeOK, EmitEvent
  <2>6. head' - count' + (i - 1) = head' + d
    BY <1>0, <2>3, <2>5, SMT
  <2>7. head + 1 + d = head - count + (i - 1) /\ head + 1 + d \in Int
    BY <1>0, <2>3, SMT
  <2> QED BY <2>2, <2>4, <2>5, <2>6, <2>7, SlotOfRange
<1>2. Pending'[count + 1] = e
  <2>1. head - count + ((count + 1) - 1) = head /\ count + 1 \in 1 .. count + 1
    BY <1>0, SMT
  <2>2. Pending'[count + 1] = log'[SlotOf(head)] /\ SlotOf(head) \in Slots
    BY <1>1, <2>1
  <2> QED BY <2>2 DEF EmitEvent, TypeOK
<1>3. ASSUME NEW i \in 1 .. count
      PROVE  Pending'[i] = Pending[i]
  <2>1. i \in 1 .. count + 1
    BY <1>0, SMT
  <2>2. PICK t \in Int : t = head - count + (i - 1)
    BY <1>0, SMT
  <2>3. t # head /\ -LogSize < t - head /\ t - head < LogSize
    BY <1>0, <2>2, SMT
  <2>4. SlotOf(t) # SlotOf(head)
    BY <1>0, <2>3, ModInjective DEF SlotOf
  <2>5. Pending'[i] = log'[SlotOf(t)] /\ SlotOf(t) \in Slots
    BY <1>1, <2>1, <2>2
  <2>6. log'[SlotOf(t)] = log[SlotOf(t)]
    BY <2>4, <2>5 DEF EmitEvent, TypeOK
  <2> QED BY <2>2, <2>5, <2>6, PendingAt
<1> QED BY <1>0, <1>2, <1>3

\* An emit at the limit drops the oldest event and adds one behind the others.
LEMMA EmitOverwrites ==
  ASSUME TypeOK, TypeOK', NEW e \in Events, EmitEvent(e), ~ count < LogSize
  PROVE  /\ count' = count /\ count = LogSize
         /\ \A i \in 1 .. count - 1 : Pending'[i] = Pending[i + 1]
         /\ Pending'[count] = e
<1>0. /\ head \in Int /\ count \in Nat /\ LogSize \in Nat \ {0}
      /\ count' = count /\ count = LogSize
  BY CounterTypes, Positive, SMT DEF EmitEvent
<1>1. ASSUME NEW i \in 1 .. count
      PROVE  /\ Pending'[i] = log'[SlotOf(head - count + i)]
             /\ SlotOf(head - count + i) \in Slots
  <2>1. i \in 1 .. count'
    BY <1>0
  <2>2. Pending'[i] = log'[SlotOf(head' - count' + (i - 1))]
    BY <2>1, PendingAtNext
  <2>3. PICK d \in Int : d = (i - 1) - count'
    BY <1>0, SMT
  <2>4. SlotOf(((head + 1) % CounterModulus) + d) = SlotOf(head + 1 + d)
    BY <1>0, HeadSlot
  <2>5. head' \in Int /\ head' = (head + 1) % CounterModulus
    BY Positive, SMT DEF TypeOK, EmitEvent
  <2>6. head' - count' + (i - 1) = head' + d
    BY <1>0, <2>3, <2>5, SMT
  <2>7. head + 1 + d = head - count + i /\ head + 1 + d \in Int
    BY <1>0, <2>3, SMT
  <2> QED BY <2>2, <2>4, <2>5, <2>6, <2>7, SlotOfRange
<1>2. Pending'[count] = e
  <2>1. head - count + count = head /\ count \in 1 .. count
    BY <1>0, SMT
  <2>2. Pending'[count] = log'[SlotOf(head)] /\ SlotOf(head) \in Slots
    BY <1>1, <2>1
  <2> QED BY <2>2 DEF EmitEvent, TypeOK
<1>3. ASSUME NEW i \in 1 .. count - 1
      PROVE  Pending'[i] = Pending[i + 1]
  <2>1. i \in 1 .. count /\ i + 1 \in 1 .. count /\ (i + 1) - 1 = i
    BY <1>0, SMT
  <2>2. PICK t \in Int : t = head - count + i
    BY <1>0, SMT
  <2>3. t # head /\ -LogSize < t - head /\ t - head < LogSize
    BY <1>0, <2>2, SMT
  <2>4. SlotOf(t) # SlotOf(head)
    BY <1>0, <2>3, ModInjective DEF SlotOf
  <2>5. Pending'[i] = log'[SlotOf(t)] /\ SlotOf(t) \in Slots
    BY <1>1, <2>1, <2>2
  <2>6. log'[SlotOf(t)] = log[SlotOf(t)]
    BY <2>4, <2>5 DEF EmitEvent, TypeOK
  <2>7. Pending[i + 1] = log[SlotOf(head - count + ((i + 1) - 1))]
    BY <2>1, PendingAt
  <2> QED BY <2>1, <2>2, <2>5, <2>6, <2>7
<1> QED BY <1>0, <1>2, <1>3

\* A poll takes the oldest event and leaves the others.
LEMMA PollTakes ==
  ASSUME TypeOK, TypeOK', PollOldest
  PROVE  /\ count \in Nat \ {0} /\ count' = count - 1
         /\ reply' = Pending[1]
         /\ \A i \in 1 .. count - 1 : Pending'[i] = Pending[i + 1]
<1>0. head \in Int /\ count \in Nat \ {0} /\ count' = count - 1 /\ head' = head
  BY CounterTypes DEF PollOldest
<1>1. reply' = Pending[1]
  <2>1. 1 \in 1 .. count
    BY <1>0, SMT
  <2>2. TailCounter + 1 - 1 = TailCounter
    BY <1>0, TailRange, Positive, SMT DEF TailCounter
  <2> QED BY <2>1, <2>2 DEF Pending, PollOldest
<1>2. ASSUME NEW i \in 1 .. count - 1
      PROVE  Pending'[i] = Pending[i + 1]
  <2>1. i \in 1 .. count' /\ i + 1 \in 1 .. count
    BY <1>0, SMT
  <2>2. head' - count' + (i - 1) = head - count + ((i + 1) - 1)
    BY <1>0, <2>1, SMT
  <2>3. Pending'[i] = log'[SlotOf(head' - count' + (i - 1))]
    BY <2>1, PendingAtNext
  <2>4. Pending[i + 1] = log[SlotOf(head - count + ((i + 1) - 1))]
    BY <2>1, PendingAt
  <2> QED BY <2>2, <2>3, <2>4 DEF PollOldest
<1> QED BY <1>0, <1>1, <1>2

LEMMA LiveStep == IInv /\ [Next]_vars => LiveSlotsWritten'
<1> SUFFICES ASSUME IInv, [Next]_vars PROVE LiveSlotsWritten'
  OBVIOUS
<1>0. TypeOK /\ LiveSlotsWritten /\ TypeOK' /\ count \in Nat
  BY TypeStep, CounterTypes DEF IInv
<1> SUFFICES ASSUME NEW i \in 1 .. count' PROVE Pending'[i] \in Events
  BY DEF LiveSlotsWritten
<1>1. ASSUME NEW e \in Events, EmitEvent(e) PROVE Pending'[i] \in Events
  <2>1. CASE count < LogSize
    <3>1. i \in 1 .. count \/ i = count + 1
      BY <1>0, <1>1, <2>1, EmitAppends, SMT
    <3> QED BY <1>0, <1>1, <2>1, <3>1, EmitAppends DEF LiveSlotsWritten
  <2>2. CASE ~ count < LogSize
    <3>1. i \in 1 .. count - 1 \/ i = count
      BY <1>0, <1>1, <2>2, EmitOverwrites, SMT
    <3>2. ASSUME i \in 1 .. count - 1 PROVE i + 1 \in 1 .. count
      BY <1>0, <3>2, SMT
    <3> QED BY <1>0, <1>1, <2>2, <3>1, <3>2, EmitOverwrites DEF LiveSlotsWritten
  <2> QED BY <2>1, <2>2
<1>2. CASE PollOldest
  <2>1. i \in 1 .. count - 1
    BY <1>0, <1>2, PollTakes
  <2>2. i + 1 \in 1 .. count
    BY <1>0, <2>1, SMT
  <2> QED BY <1>0, <1>2, <2>1, <2>2, PollTakes DEF LiveSlotsWritten
<1>3. CASE EventShutdown
  BY <1>3, SMT DEF EventShutdown
<1>4. CASE UNCHANGED <<log, head, count>>
  BY <1>0, <1>4 DEF LiveSlotsWritten, Pending, TailCounter
<1> QED BY <1>1, <1>2, <1>3, <1>4
        DEF Next, PollEvent, PollNull, PollEmpty, vars

LEMMA Invariance == Spec => []IInv
<1>1. IInv /\ [Next]_vars => IInv'
  BY TypeStep, LiveStep DEF IInv
<1> QED BY <1>1, InitIInv, PTL DEF Spec

\* The event log keeps its types for every size: the write counter stays in
\* its width, the number of unpolled events never exceeds the array, and what
\* a poll returns is an event or an error code (event.c).
THEOREM EventLogTypeOK == Spec => []TypeOK
<1>1. IInv => TypeOK
  BY DEF IInv
<1> QED BY <1>1, Invariance, PTL

\* No poll can return a slot of the array that was never written (event.c,
\* kdal_poll_event).
THEOREM EventLogLiveSlots == Spec => []LiveSlotsWritten
<1>1. IInv => LiveSlotsWritten
  BY DEF IInv
<1> QED BY <1>1, Invariance, PTL

-----------------------------------------------------------------------------
LEMMA RefineInit == Init => Queue!Init
<1> SUFFICES ASSUME Init PROVE Pending = <<>> /\ reply = NoReply
  BY DEF Queue!Init
<1>1. TypeOK
  BY InitIInv DEF IInv
<1>2. Pending \in Seq(Contents) /\ Len(Pending) = 0
  BY <1>1, PendingSeq DEF Init
<1> QED BY <1>2, EmptySeq DEF Init

\* The unpolled events are a sequence after a step too.
LEMMA PendingSeqNext ==
  TypeOK' => Pending' \in Seq(Contents) /\ Len(Pending') = count'
<1> DEFINE IsSeq == Pending \in Seq(Contents) /\ Len(Pending) = count
<1>1. TypeOK => IsSeq
  BY PendingSeq
<1>2. TypeOK' => IsSeq'
  BY <1>1, PTL
<1> QED BY <1>2

LEMMA RefineEmit ==
  ASSUME TypeOK, TypeOK', NEW e \in Events, EmitEvent(e)
  PROVE  Queue!Emit(e)
<1>0. /\ Pending \in Seq(Contents) /\ Len(Pending) = count /\ count \in Nat
      /\ Pending' \in Seq(Contents) /\ Len(Pending') = count'
      /\ e \in Contents
  BY PendingSeq, PendingSeqNext, CounterTypes DEF Contents
<1>1. CASE count < LogSize
  <2> DEFINE q == Append(Pending, e)
  <2>1. /\ q \in Seq(Contents) /\ Len(q) = count + 1
        /\ \A i \in 1 .. count : q[i] = Pending[i]
        /\ q[count + 1] = e
    BY <1>0, AppendProperties
  <2>2. /\ Len(Pending') = count + 1
        /\ \A i \in 1 .. count : Pending'[i] = Pending[i]
        /\ Pending'[count + 1] = e
    BY <1>0, <1>1, EmitAppends
  <2> HIDE DEF q
  <2>3. ASSUME NEW i \in 1 .. Len(q) PROVE q[i] = Pending'[i]
    <3>1. i \in 1 .. count \/ i = count + 1
      BY <1>0, <2>1, SMT
    <3> QED BY <2>1, <2>2, <3>1
  <2>4. q = Pending'
    BY <1>0, <2>1, <2>2, <2>3, SeqEqual
  <2> QED BY <1>0, <1>1, <2>4 DEF q, Queue!Emit, EmitEvent
<1>2. CASE ~ count < LogSize
  <2> DEFINE t == Tail(Pending)
             q == Append(t, e)
  <2>1. count \in Nat \ {0} /\ Pending # <<>>
    BY <1>0, <1>2, Positive, EmptySeq, SMT
  <2>2. /\ t \in Seq(Contents) /\ Len(t) = count - 1
        /\ \A i \in 1 .. count - 1 : t[i] = Pending[i + 1]
    BY <1>0, <2>1, HeadTailProperties
  <2> HIDE DEF t
  <2>3. /\ q \in Seq(Contents) /\ Len(q) = count
        /\ \A i \in 1 .. count - 1 : q[i] = t[i]
        /\ q[count] = e
    <3>1. Len(t) + 1 = count
      BY <2>1, <2>2, SMT
    <3> QED BY <1>0, <2>2, <3>1, AppendProperties
  <2>4. /\ Len(Pending') = count
        /\ \A i \in 1 .. count - 1 : Pending'[i] = Pending[i + 1]
        /\ Pending'[count] = e
    BY <1>0, <1>2, EmitOverwrites
  <2> HIDE DEF q
  <2>5. ASSUME NEW i \in 1 .. Len(q) PROVE q[i] = Pending'[i]
    <3>1. i \in 1 .. count - 1 \/ i = count
      BY <2>1, <2>3, SMT
    <3> QED BY <2>2, <2>3, <2>4, <3>1
  <2>6. q = Pending'
    BY <1>0, <2>3, <2>4, <2>5, SeqEqual
  <2> QED BY <1>0, <1>2, <2>6 DEF q, t, Queue!Emit, EmitEvent
<1> QED BY <1>1, <1>2

LEMMA RefinePoll ==
  ASSUME TypeOK, TypeOK', PollOldest
  PROVE  Queue!Poll
<1>0. /\ Pending \in Seq(Contents) /\ Len(Pending) = count
      /\ Pending' \in Seq(Contents) /\ Len(Pending') = count'
      /\ count \in Nat \ {0} /\ count' = count - 1
      /\ reply' = Pending[1]
      /\ \A i \in 1 .. count - 1 : Pending'[i] = Pending[i + 1]
  BY PendingSeq, PendingSeqNext, PollTakes
<1>1. Pending # <<>>
  BY <1>0, EmptySeq
<1>2. /\ Tail(Pending) \in Seq(Contents) /\ Len(Tail(Pending)) = count - 1
      /\ \A i \in 1 .. count - 1 : Tail(Pending)[i] = Pending[i + 1]
  BY <1>0, <1>1, HeadTailProperties
<1>3. Pending' = Tail(Pending)
  BY <1>0, <1>2, SeqEqual
<1>4. Head(Pending) = Pending[1]
  BY <1>0, <1>1
<1> QED BY <1>0, <1>1, <1>3, <1>4 DEF Queue!Poll

LEMMA RefineStep ==
  ASSUME TypeOK, TypeOK', [Next]_vars
  PROVE  [Queue!Next]_Queue!vars
<1>0. /\ Pending \in Seq(Contents) /\ Len(Pending) = count
      /\ Pending' \in Seq(Contents) /\ Len(Pending') = count'
  BY PendingSeq, PendingSeqNext
<1>1. ASSUME NEW e \in Events, EmitEvent(e) PROVE Queue!Next
  BY <1>1, RefineEmit DEF Queue!Next
<1>2. CASE PollNull
  BY <1>2 DEF PollNull, Pending, TailCounter, Queue!Next, Queue!PollRejected
<1>3. CASE PollEmpty
  <2>1. Pending = <<>>
    BY <1>0, <1>3, EmptySeq DEF PollEmpty
  <2>2. Pending' = Pending
    BY <1>3 DEF PollEmpty, Pending, TailCounter
  <2> QED BY <1>3, <2>1, <2>2 DEF PollEmpty, Queue!Next, Queue!PollEmpty
<1>4. CASE PollOldest
  BY <1>4, RefinePoll DEF Queue!Next
<1>5. CASE EventShutdown
  <2>1. Pending' = <<>>
    BY <1>0, <1>5, EmptySeq DEF EventShutdown
  <2> QED BY <1>5, <2>1 DEF EventShutdown, Queue!Next, Queue!Reset
<1>6. CASE UNCHANGED vars
  BY <1>6 DEF vars, Pending, TailCounter, Queue!vars
<1> QED BY <1>1, <1>2, <1>3, <1>4, <1>5, <1>6 DEF Next, PollEvent

\* For every array size and every counter width it divides, the event log is
\* a first-in first-out queue of the most recent unpolled events.
THEOREM EventLogImplementsQueue == Spec => ImplementsQueue
<1>1. Spec => []TypeOK
  BY EventLogTypeOK
<1>2. TypeOK /\ TypeOK' /\ [Next]_vars => [Queue!Next]_Queue!vars
  BY RefineStep
<1> QED BY <1>1, <1>2, RefineInit, PTL DEF Spec, ImplementsQueue, Queue!Spec

-----------------------------------------------------------------------------
(* The gpu driver.                                                         *)

\* What the handle of a queue and the address of a buffer may be.
HandlesOf(kind) == IF kind = "queue" THEN Nat ELSE Nat \ {0}

\* One kind of object: the handles s of the live ones, their count n, and
\* whether only the youngest has been given back.
Tidy(kind, s, n, young) ==
  /\ s \in Seq(HandlesOf(kind))
  /\ n = Len(s)
  /\ young => \A i \in 1 .. n : s[i] = Handle(kind, i - 1)

LEMMA HandleRange ==
  ASSUME NEW kind, NEW n \in Nat
  PROVE  Handle(kind, n) \in HandlesOf(kind)
BY SMT DEF Handle, HandlesOf

\* What RemoveAt leaves.
LEMMA RemoveAtProperties ==
  ASSUME NEW S, NEW s \in Seq(S), NEW i \in 1 .. Len(s)
  PROVE  /\ RemoveAt(s, i) \in Seq(S)
         /\ Len(RemoveAt(s, i)) = Len(s) - 1
         /\ \A j \in 1 .. i - 1 : RemoveAt(s, i)[j] = s[j]
<1> DEFINE front == SubSeq(s, 1, i - 1)
           back  == SubSeq(s, i + 1, Len(s))
<1>0. Len(s) \in Nat /\ i \in Int /\ i - 1 \in Int /\ i + 1 \in Int
  BY LenProperties, SMT
<1>1. \A j \in 1 .. i - 1 : s[j] \in S
  BY <1>0, ElementOfSeq, SMT
<1>2. \A j \in i + 1 .. Len(s) : s[j] \in S
  BY <1>0, ElementOfSeq, SMT
<1>3. /\ front \in Seq(S)
      /\ Len(front) = IF 1 <= i - 1 THEN (i - 1) - 1 + 1 ELSE 0
      /\ \A j \in 1 .. (i - 1) - 1 + 1 : front[j] = s[1 + j - 1]
  BY <1>0, <1>1, SubSeqProperties
<1>4. /\ back \in Seq(S)
      /\ Len(back) = IF i + 1 <= Len(s) THEN Len(s) - (i + 1) + 1 ELSE 0
  BY <1>0, <1>2, SubSeqProperties
<1> HIDE DEF front, back
<1>5. /\ Len(front) = i - 1
      /\ Len(back) = Len(s) - i
      /\ \A j \in 1 .. i - 1 : front[j] = s[j]
  BY <1>0, <1>3, <1>4, SMT
<1>6. /\ front \o back \in Seq(S)
      /\ Len(front \o back) = Len(front) + Len(back)
      /\ \A j \in 1 .. Len(front) + Len(back) :
           (front \o back)[j] = IF j <= Len(front) THEN front[j] ELSE back[j - Len(front)]
  BY <1>3, <1>4, ConcatProperties
<1>7. RemoveAt(s, i) = front \o back
  BY DEF RemoveAt, front, back
<1>8. ASSUME NEW j \in 1 .. i - 1 PROVE (front \o back)[j] = s[j]
  BY <1>0, <1>5, <1>6, SMT
<1>9. Len(front) + Len(back) = Len(s) - 1
  BY <1>0, <1>5, SMT
<1> QED BY <1>6, <1>7, <1>8, <1>9

-----------------------------------------------------------------------------
(* The handles.                                                            *)

LEMMA ObtainTidy ==
  ASSUME NEW kind, NEW s, NEW n, NEW young, Tidy(kind, s, n, young)
  PROVE  Tidy(kind, Append(s, Handle(kind, n)), n + 1, young)
<1> DEFINE H == HandlesOf(kind)
           h == Handle(kind, n)
           t == Append(s, h)
<1>1. s \in Seq(H) /\ n = Len(s) /\ n \in Nat
  BY LenProperties DEF Tidy
<1>2. h \in H
  BY <1>1, HandleRange
<1>3. /\ t \in Seq(H)
      /\ Len(t) = n + 1
      /\ \A i \in 1 .. n : t[i] = s[i]
      /\ t[n + 1] = h
  BY <1>1, <1>2, AppendProperties
<1>4. ASSUME young, NEW i \in 1 .. n + 1 PROVE t[i] = Handle(kind, i - 1)
  <2>1. CASE i = n + 1
    <3>1. i - 1 = n
      BY <1>1, <2>1, SMT
    <3> QED BY <1>3, <2>1, <3>1
  <2>2. CASE i # n + 1
    <3>1. i \in 1 .. n
      BY <1>1, <2>2, SMT
    <3>2. s[i] = Handle(kind, i - 1)
      BY <1>4, <3>1 DEF Tidy
    <3> QED BY <1>3, <3>1, <3>2
  <2> QED BY <2>1, <2>2
<1> QED BY <1>3, <1>4 DEF Tidy

LEMMA GiveBackTidy ==
  ASSUME NEW kind, NEW s, NEW n, NEW young, Tidy(kind, s, n, young),
         NEW i \in DOMAIN s
  PROVE  Tidy(kind, RemoveAt(s, i), IF n > 0 THEN n - 1 ELSE n,
              RemoveAt(s, i) = <<>> \/ (young /\ i = Len(s)))
<1> DEFINE H == HandlesOf(kind)
           t == RemoveAt(s, i)
<1>1. s \in Seq(H) /\ n = Len(s) /\ n \in Nat /\ i \in 1 .. n
  BY LenProperties DEF Tidy
<1>2. /\ t \in Seq(H)
      /\ Len(t) = n - 1
      /\ \A j \in 1 .. i - 1 : t[j] = s[j]
  BY <1>1, RemoveAtProperties
<1> HIDE DEF t
<1>3. (IF n > 0 THEN n - 1 ELSE n) = n - 1
  BY <1>1, SMT
<1>4. ASSUME t = <<>> PROVE 1 .. n - 1 = {}
  <2>1. n - 1 = 0
    BY <1>2, <1>4, EmptySeq
  <2> QED BY <2>1, SMT
<1>5. ASSUME young, i = Len(s), NEW j \in 1 .. n - 1
      PROVE  t[j] = Handle(kind, j - 1)
  <2>1. j \in 1 .. i - 1 /\ j \in 1 .. n
    BY <1>1, <1>5, SMT
  <2>2. s[j] = Handle(kind, j - 1)
    BY <1>5, <2>1 DEF Tidy
  <2> QED BY <1>2, <2>1, <2>2
<1>6. Tidy(kind, t, n - 1, t = <<>> \/ (young /\ i = Len(s)))
  BY <1>2, <1>4, <1>5 DEF Tidy
<1> QED BY <1>3, <1>6 DEF t

\* The counts as they are used; HandlesDistinct alone does not say that a new
\* handle is none of the others.
HandleInv ==
  /\ live \in [Kinds -> Seq(Nat)]
  /\ tracked \in [Kinds -> Nat]
  /\ stacked \in [Kinds -> BOOLEAN]
  /\ \A kind \in Kinds : Tidy(kind, live[kind], tracked[kind], stacked[kind])

LEMMA FreshHandles ==
  ASSUME NEW l, NEW t, NEW s, l = None, t = Zero, s = All
  PROVE  /\ l \in [Kinds -> Seq(Nat)]
         /\ t \in [Kinds -> Nat]
         /\ s \in [Kinds -> BOOLEAN]
         /\ \A kind \in Kinds : Tidy(kind, l[kind], t[kind], s[kind])
<1>1. ASSUME NEW kind \in Kinds
      PROVE  Tidy(kind, <<>>, 0, TRUE)
  <2>1. <<>> \in Seq(HandlesOf(kind)) /\ Len(<<>>) = 0
    BY EmptySeq
  <2>2. 1 .. 0 = {}
    BY SMT
  <2> QED BY <2>1, <2>2 DEF Tidy
<1>2. <<>> \in Seq(Nat)
  BY EmptySeq
<1> QED BY <1>1, <1>2 DEF None, Zero, All

\* A step on the objects of one kind leaves those of the other kind alone.
LEMMA OneKind ==
  ASSUME HandleInv, NEW kind \in Kinds, NEW s, NEW n, NEW young \in BOOLEAN,
         Tidy(kind, s, n, young),
         live' = [live EXCEPT ![kind] = s],
         tracked' = [tracked EXCEPT ![kind] = n],
         stacked' = [stacked EXCEPT ![kind] = young]
  PROVE  HandleInv'
<1>1. s \in Seq(HandlesOf(kind)) /\ HandlesOf(kind) \subseteq Nat
  BY DEF Tidy, HandlesOf
<1>2. s \in Seq(Nat) /\ n \in Nat
  BY <1>1, SeqMonotonic, LenProperties DEF Tidy
<1>3. /\ live' \in [Kinds -> Seq(Nat)]
      /\ tracked' \in [Kinds -> Nat]
      /\ stacked' \in [Kinds -> BOOLEAN]
  BY <1>2 DEF HandleInv
<1>4. ASSUME NEW other \in Kinds
      PROVE  Tidy(other, live'[other], tracked'[other], stacked'[other])
  <2>1. CASE other = kind
    <3>1. live'[other] = s /\ tracked'[other] = n /\ stacked'[other] = young
      BY <2>1 DEF HandleInv
    <3> QED BY <2>1, <3>1
  <2>2. CASE other # kind
    <3>1. /\ live'[other] = live[other]
          /\ tracked'[other] = tracked[other]
          /\ stacked'[other] = stacked[other]
      BY <2>2 DEF HandleInv
    <3> QED BY <3>1 DEF HandleInv
  <2> QED BY <2>1, <2>2
<1> QED BY <1>3, <1>4 DEF HandleInv

LEMMA ObtainStep ==
  ASSUME HandleInv, NEW kind \in Kinds, Obtain(kind)
  PROVE  HandleInv'
<1>1. Tidy(kind, Append(live[kind], Handle(kind, tracked[kind])), tracked[kind] + 1,
           stacked[kind])
  BY ObtainTidy DEF HandleInv
<1>2. /\ stacked' = [stacked EXCEPT ![kind] = stacked[kind]]
      /\ stacked[kind] \in BOOLEAN
  BY DEF Obtain, HandleInv
<1> QED BY <1>1, <1>2, OneKind DEF Obtain

LEMMA GiveBackStep ==
  ASSUME HandleInv, NEW kind \in Kinds, NEW i \in DOMAIN live[kind], GiveBack(kind, i)
  PROVE  HandleInv'
<1> DEFINE s == RemoveAt(live[kind], i)
           n == IF tracked[kind] > 0 THEN tracked[kind] - 1 ELSE tracked[kind]
           young == s = <<>> \/ (stacked[kind] /\ i = Len(live[kind]))
<1>1. Tidy(kind, s, n, young)
  BY GiveBackTidy DEF HandleInv
<1>2. live' = [live EXCEPT ![kind] = s] /\ live'[kind] = s
  BY DEF GiveBack, HandleInv
<1>3. tracked' = [tracked EXCEPT ![kind] = n]
  BY DEF GiveBack
<1>4. stacked' = [stacked EXCEPT ![kind] = young]
  BY <1>2 DEF GiveBack
<1>5. young \in BOOLEAN
  OBVIOUS
<1> HIDE DEF s, n, young
<1> QED BY <1>1, <1>2, <1>3, <1>4, <1>5, OneKind

LEMMA HandleStep == HandleInv /\ [GpuNext]_gpuVars => HandleInv'
<1> SUFFICES ASSUME HandleInv, [GpuNext]_gpuVars PROVE HandleInv'
  OBVIOUS
<1>0. "queue" \in Kinds /\ "buffer" \in Kinds
  BY DEF Kinds
<1>1. CASE DriverInit
  BY <1>1, FreshHandles DEF DriverInit, HandleInv
<1>2. CASE Tracking
  <2>1. CASE QueueCreate
    BY <1>0, <2>1, ObtainStep DEF QueueCreate
  <2>2. CASE QueueDestroy
    BY <1>0, <2>2, GiveBackStep DEF QueueDestroy
  <2>3. CASE BufferMap
    BY <1>0, <2>3, ObtainStep DEF BufferMap
  <2>4. CASE BufferUnmap
    BY <1>0, <2>4, GiveBackStep DEF BufferUnmap
  <2> QED BY <1>2, <2>1, <2>2, <2>3, <2>4 DEF Tracking
<1>3. ASSUME UNCHANGED tracking PROVE HandleInv'
  BY <1>3 DEF tracking, HandleInv
<1>4. ASSUME DriverExit \/ LogExit \/ Elsewhere \/ UNCHANGED gpuVars
      PROVE  UNCHANGED tracking
  BY <1>4 DEF DriverExit, LogExit, Elsewhere, gpuVars
<1>5. ASSUME NEW c \in Clients, Submit(c) PROVE UNCHANGED tracking
  BY <1>5 DEF Submit, SubmitLoad, SubmitStore, SubmitNumber, SubmitEmit
<1> QED BY <1>1, <1>2, <1>3, <1>4, <1>5 DEF GpuNext

LEMMA HandleInvariance == GpuSpec => []HandleInv
<1>1. GpuInit => HandleInv
  BY FreshHandles DEF GpuInit, HandleInv
<1> QED BY <1>1, HandleStep, PTL DEF GpuSpec

\* Handles made from a count differ when the counts do.
LEMMA HandleInjective ==
  ASSUME NEW kind, NEW m \in Int, NEW n \in Int, Handle(kind, m) = Handle(kind, n)
  PROVE  m = n
BY SMT DEF Handle

\* Whatever the limits and the order of the calls: the counts are those of the
\* live objects, no buffer has the address 0, and the handles are distinct
\* while the youngest is given back first (gpu_queue_create, gpu_buffer_map).
THEOREM GpuHandlesDistinct == GpuSpec => []HandlesDistinct
<1>1. HandleInv => HandlesDistinct
  <2> SUFFICES ASSUME HandleInv, NEW k \in Kinds
               PROVE  /\ tracked[k] = Len(live[k])
                      /\ stacked[k] => IsInjective(live[k])
                      /\ k = "buffer" => \A i \in DOMAIN live[k] : live[k][i] # 0
    BY DEF HandlesDistinct
  <2> DEFINE s == live[k]
  <2>1. Tidy(k, s, tracked[k], stacked[k])
    BY DEF HandleInv
  <2>2. s \in Seq(HandlesOf(k)) /\ tracked[k] = Len(s) /\ DOMAIN s = 1 .. Len(s)
    BY <2>1, LenProperties DEF Tidy
  <2>3. ASSUME stacked[k], NEW a \in DOMAIN s, NEW b \in DOMAIN s, s[a] = s[b]
        PROVE  a = b
    <3>1. s[a] = Handle(k, a - 1) /\ s[b] = Handle(k, b - 1)
      BY <2>1, <2>2, <2>3 DEF Tidy
    <3>2. Len(s) \in Nat /\ a \in Int /\ b \in Int /\ a - 1 \in Int /\ b - 1 \in Int
      BY <2>2, LenProperties, SMT
    <3>3. a - 1 = b - 1
      BY <2>3, <3>1, <3>2, HandleInjective
    <3> QED BY <3>2, <3>3, SMT
  <2>4. ASSUME k = "buffer", NEW i \in DOMAIN s PROVE s[i] # 0
    BY <2>2, <2>4, ElementOfSeq DEF HandlesOf
  <2> QED BY <2>2, <2>3, <2>4 DEF IsInjective
<1> QED BY <1>1, HandleInvariance, PTL

-----------------------------------------------------------------------------
(* The log under the driver.                                               *)

\* The numbers that clients hold are numbers, so that a completion is an event.
NumberInv == submits \in Nat /\ seen \in [Clients -> Nat]

LEMMA NumberStep == NumberInv /\ [GpuNext]_gpuVars => NumberInv'
<1> SUFFICES ASSUME NumberInv, [GpuNext]_gpuVars PROVE NumberInv'
  OBVIOUS
<1> USE DEF NumberInv
<1>1. CASE DriverInit
  BY <1>1, SMT DEF DriverInit
<1>2. ASSUME DriverExit \/ LogExit \/ Elsewhere \/ Tracking \/ UNCHANGED gpuVars
      PROVE  UNCHANGED submitting
  BY <1>2 DEF DriverExit, LogExit, Elsewhere, Tracking, gpuVars
<1>3. ASSUME UNCHANGED submitting PROVE NumberInv'
  BY <1>3 DEF submitting
<1>4. ASSUME NEW c \in Clients, Submit(c) PROVE NumberInv'
  <2>1. CASE SubmitLoad(c)
    BY <2>1 DEF SubmitLoad
  <2>2. CASE SubmitStore(c)
    BY <2>2, SMT DEF SubmitStore
  <2>3. CASE SubmitNumber(c)
    BY <2>3 DEF SubmitNumber
  <2>4. CASE SubmitEmit(c)
    BY <2>4, SMT DEF SubmitEmit
  <2> QED BY <1>4, <2>1, <2>2, <2>3, <2>4 DEF Submit
<1> QED BY <1>1, <1>2, <1>3, <1>4 DEF GpuNext

LEMMA NumberInvariance == GpuSpec => []NumberInv
<1>1. GpuInit => NumberInv
  BY SMT DEF GpuInit, NumberInv
<1> QED BY <1>1, NumberStep, PTL DEF GpuSpec

\* A completion is an event of the log.
LEMMA CompletionEvent ==
  ASSUME NumberInv, NEW c \in Clients
  PROVE  seen[c] % DataModulus \in Events
<1>1. PICK x \in Int : x = seen[c]
  BY SMT DEF NumberInv
<1>2. x % DataModulus \in 0 .. DataModulus - 1
  BY DivMod, CompletionsAssumption
<1> QED BY <1>1, <1>2, CompletionsAssumption DEF Completions

\* Every step of the module is a step of the log, or none.
LEMMA LogStep == NumberInv /\ [GpuNext]_gpuVars => [Next]_vars
<1> SUFFICES ASSUME NumberInv, [GpuNext]_gpuVars PROVE [Next]_vars
  OBVIOUS
<1>0. Added \in Events /\ Removed \in Events /\ PowerChange \in Events
  BY CompletionsAssumption
<1>1. ASSUME NEW e \in Events, EmitEvent(e) PROVE Next
  BY <1>1 DEF Next
<1>2. ASSUME DriverInit \/ DriverExit PROVE Next
  BY <1>0, <1>1, <1>2 DEF DriverInit, DriverExit
<1>3. CASE LogExit
  BY <1>3 DEF LogExit, Next
<1>4. CASE Elsewhere
  BY <1>0, <1>1, <1>4 DEF Elsewhere, Next
<1>5. ASSUME Tracking \/ UNCHANGED gpuVars PROVE UNCHANGED vars
  BY <1>5 DEF Tracking, gpuVars
<1>6. ASSUME NEW c \in Clients, Submit(c) PROVE [Next]_vars
  <2>1. ASSUME SubmitLoad(c) \/ SubmitStore(c) \/ SubmitNumber(c) PROVE UNCHANGED vars
    BY <2>1 DEF SubmitLoad, SubmitStore, SubmitNumber
  <2>2. CASE SubmitEmit(c)
    BY <1>1, <2>2, CompletionEvent DEF SubmitEmit
  <2> QED BY <1>6, <2>1, <2>2 DEF Submit
<1> QED BY <1>2, <1>3, <1>4, <1>5, <1>6 DEF GpuNext

LEMMA UsesLog == GpuSpec => Spec
<1>1. GpuInit => Init
  BY DEF GpuInit
<1> QED BY <1>1, LogStep, NumberInvariance, PTL DEF GpuSpec, Spec

\* Under the driver, with submissions that overlap and modules that are loaded
\* again, a poll never returns a slot that was never written (event.c,
\* kdal_poll_event; gpu_submit).
THEOREM GpuLiveSlots == GpuSpec => []LiveSlotsWritten
BY UsesLog, EventLogLiveSlots

\* The log under the driver is the bounded first-in first-out queue (event.c).
THEOREM GpuImplementsQueue == GpuSpec => ImplementsQueue
BY UsesLog, EventLogImplementsQueue DEF ImplementsQueue

-----------------------------------------------------------------------------
(* The order of the completions.                                           *)

\* Another event at the end, which is no completion.
LEMMA AppendOther ==
  ASSUME NEW p, NEW n \in Nat, NEW last, InOrder(p, n, last),
         NEW q, \A i \in 1 .. n : q[i] = p[i],
         q[n + 1] \notin Completions
  PROVE  InOrder(q, n + 1, last)
<1>1. Done(q, n + 1) = Done(p, n)
  BY SMT DEF Done
<1>2. \A i \in Done(p, n) : q[i] = p[i]
  BY DEF Done
<1> QED BY <1>1, <1>2, SMT DEF InOrder

\* The next completion at the end.
LEMMA AppendNext ==
  ASSUME NEW p, NEW n \in Nat, NEW last \in Int, InOrder(p, n, last),
         NEW q, \A i \in 1 .. n : q[i] = p[i],
         q[n + 1] = (last + 1) % DataModulus
  PROVE  InOrder(q, n + 1, last + 1)
<1>0. /\ DataModulus \in Nat \ {0}
      /\ (last + 1) % DataModulus \in Completions
      /\ ((last % DataModulus) + 1) % DataModulus = (last + 1) % DataModulus
  <2>1. DataModulus \in Nat \ {0} /\ last + 1 \in Int /\ 1 \in Int
    BY CompletionsAssumption, SMT
  <2> QED BY <2>1, DivMod, ModShift DEF Completions
<1>1. Done(q, n + 1) = Done(p, n) \union {n + 1}
  BY <1>0, SMT DEF Done
<1>2. \A i \in Done(p, n) : q[i] = p[i] /\ i \in Int /\ i <= n /\ i < n + 1
  BY SMT DEF Done
<1>3. n + 1 \in Int
  BY SMT
<1> SUFFICES ASSUME NEW i \in Done(q, n + 1)
             PROVE  \/ /\ \A k \in Done(q, n + 1) : k <= i
                       /\ q[i] = (last + 1) % DataModulus
                    \/ \E j \in Done(q, n + 1) :
                         /\ i < j /\ \A k \in Done(q, n + 1) : k <= i \/ j <= k
                         /\ q[j] = (q[i] + 1) % DataModulus
  BY DEF InOrder
<1>4. CASE i = n + 1
  BY <1>1, <1>2, <1>3, <1>4, SMT
<1>5. CASE i # n + 1
  <2>1. i \in Done(p, n)
    BY <1>1, <1>5
  <2>2. ASSUME \A k \in Done(p, n) : k <= i, p[i] = last % DataModulus
        PROVE  /\ n + 1 \in Done(q, n + 1)
               /\ i < n + 1 /\ \A k \in Done(q, n + 1) : k <= i \/ n + 1 <= k
               /\ q[n + 1] = (q[i] + 1) % DataModulus
    <3>1. q[n + 1] = (q[i] + 1) % DataModulus
      BY <1>0, <1>2, <2>1, <2>2
    <3> QED BY <1>1, <1>2, <1>3, <2>1, <2>2, <3>1, SMT
  <2>3. ASSUME NEW j \in Done(p, n),
               i < j, \A k \in Done(p, n) : k <= i \/ j <= k,
               p[j] = (p[i] + 1) % DataModulus
        PROVE  /\ j \in Done(q, n + 1)
               /\ i < j /\ \A k \in Done(q, n + 1) : k <= i \/ j <= k
               /\ q[j] = (q[i] + 1) % DataModulus
    BY <1>1, <1>2, <1>3, <2>1, <2>3, SMT
  <2> QED BY <2>1, <2>2, <2>3 DEF InOrder
<1> QED BY <1>4, <1>5

\* Without the oldest event.
LEMMA DropOldest ==
  ASSUME NEW p, NEW n \in Nat, NEW last, InOrder(p, n + 1, last),
         NEW q, \A i \in 1 .. n : q[i] = p[i + 1]
  PROVE  InOrder(q, n, last)
<1>1. \A i : i \in Done(q, n) => i \in Int /\ i \in 1 .. n /\ i + 1 \in Done(p, n + 1) /\ q[i] = p[i + 1]
  BY SMT DEF Done
<1>2. \A i : i \in Done(p, n + 1) => i \in Int /\ i >= 1
  BY SMT DEF Done
<1>3. ASSUME NEW j, j \in Done(p, n + 1), j > 1
      PROVE  j - 1 \in Done(q, n) /\ q[j - 1] = p[j]
  <2>1. j \in 1 .. n + 1 /\ p[j] \in Completions /\ j - 1 \in 1 .. n /\ (j - 1) + 1 = j
    BY <1>3, SMT DEF Done
  <2> QED BY <2>1 DEF Done
<1> SUFFICES ASSUME NEW i \in Done(q, n)
             PROVE  \/ /\ \A k \in Done(q, n) : k <= i
                       /\ q[i] = last % DataModulus
                    \/ \E j \in Done(q, n) :
                         /\ i < j /\ \A k \in Done(q, n) : k <= i \/ j <= k
                         /\ q[j] = (q[i] + 1) % DataModulus
  BY DEF InOrder
<1>4. i + 1 \in Done(p, n + 1) /\ q[i] = p[i + 1] /\ i \in Int /\ i >= 1
  BY <1>1, SMT
<1>5. ASSUME \A k \in Done(p, n + 1) : k <= i + 1, p[i + 1] = last % DataModulus
      PROVE  /\ \A k \in Done(q, n) : k <= i
             /\ q[i] = last % DataModulus
  <2>1. ASSUME NEW k \in Done(q, n) PROVE k <= i
    <3>1. k + 1 <= i + 1 /\ k \in Int
      BY <1>1, <1>5
    <3> QED BY <1>4, <3>1, SMT
  <2> QED BY <1>4, <1>5, <2>1
<1>6. ASSUME NEW j \in Done(p, n + 1),
             i + 1 < j, \A k \in Done(p, n + 1) : k <= i + 1 \/ j <= k,
             p[j] = (p[i + 1] + 1) % DataModulus
      PROVE  /\ j - 1 \in Done(q, n)
             /\ i < j - 1 /\ \A k \in Done(q, n) : k <= i \/ j - 1 <= k
             /\ q[j - 1] = (q[i] + 1) % DataModulus
  <2>1. j \in Int /\ j > 1
    BY <1>2, <1>4, <1>6, SMT
  <2>2. j - 1 \in Done(q, n) /\ q[j - 1] = p[j]
    BY <1>3, <2>1
  <2>3. ASSUME NEW k \in Done(q, n) PROVE k <= i \/ j - 1 <= k
    <3>1. (k + 1 <= i + 1 \/ j <= k + 1) /\ k \in Int
      BY <1>1, <1>6
    <3> QED BY <1>4, <2>1, <3>1, SMT
  <2>4. i < j - 1
    BY <1>4, <1>6, <2>1, SMT
  <2>5. q[j - 1] = (q[i] + 1) % DataModulus
    BY <1>4, <1>6, <2>2
  <2> QED BY <2>2, <2>3, <2>4, <2>5
<1> QED BY <1>4, <1>5, <1>6 DEF InOrder

\* The waiting events depend on the log only.
LEMMA LogUnchanged ==
  UNCHANGED <<log, head, count>> => Pending' = Pending /\ count' = count
BY DEF Pending, TailCounter, SlotOf

\* What the log does to the waiting events.
LEMMA EmitOther ==
  ASSUME TypeOK, TypeOK', NEW e \in Events, EmitEvent(e), e \notin Completions,
         NEW last, InOrder(Pending, count, last)
  PROVE  InOrder(Pending', count', last)
<1>0. count \in Nat
  BY CounterTypes
<1>1. CASE count < LogSize
  <2>1. count' = count + 1 /\ (\A i \in 1 .. count : Pending'[i] = Pending[i])
        /\ Pending'[count + 1] = e
    BY <1>1, EmitAppends
  <2> QED BY <1>0, <2>1, AppendOther
<1>2. CASE ~ count < LogSize
  <2> DEFINE q == [i \in 1 .. count - 1 |-> Pending[i + 1]]
  <2>1. count' = count /\ count = LogSize
        /\ (\A i \in 1 .. count - 1 : Pending'[i] = Pending[i + 1])
        /\ Pending'[count] = e
    BY <1>2, EmitOverwrites
  <2>2. count - 1 \in Nat /\ (count - 1) + 1 = count
    BY <1>0, <2>1, LogSizeAssumption, SMT
  <2>3. \A i \in 1 .. count - 1 : q[i] = Pending[i + 1]
    OBVIOUS
  <2>4. \A i \in 1 .. count - 1 : Pending'[i] = q[i]
    BY <2>1, <2>3
  <2> HIDE DEF q
  <2>5. InOrder(q, count - 1, last)
    BY <2>2, <2>3, DropOldest
  <2>6. InOrder(Pending', (count - 1) + 1, last)
    BY <2>1, <2>2, <2>4, <2>5, AppendOther
  <2> QED BY <2>1, <2>2, <2>6
<1> QED BY <1>1, <1>2

LEMMA EmitNext ==
  ASSUME TypeOK, TypeOK', NEW e \in Events, EmitEvent(e),
         NEW last \in Int, e = (last + 1) % DataModulus,
         InOrder(Pending, count, last)
  PROVE  InOrder(Pending', count', last + 1)
<1>0. count \in Nat
  BY CounterTypes
<1>1. CASE count < LogSize
  <2>1. count' = count + 1 /\ (\A i \in 1 .. count : Pending'[i] = Pending[i])
        /\ Pending'[count + 1] = e
    BY <1>1, EmitAppends
  <2> QED BY <1>0, <2>1, AppendNext
<1>2. CASE ~ count < LogSize
  <2> DEFINE q == [i \in 1 .. count - 1 |-> Pending[i + 1]]
  <2>1. count' = count /\ count = LogSize
        /\ (\A i \in 1 .. count - 1 : Pending'[i] = Pending[i + 1])
        /\ Pending'[count] = e
    BY <1>2, EmitOverwrites
  <2>2. count - 1 \in Nat /\ (count - 1) + 1 = count
    BY <1>0, <2>1, LogSizeAssumption, SMT
  <2>3. \A i \in 1 .. count - 1 : q[i] = Pending[i + 1]
    OBVIOUS
  <2>4. \A i \in 1 .. count - 1 : Pending'[i] = q[i]
    BY <2>1, <2>3
  <2> HIDE DEF q
  <2>5. InOrder(q, count - 1, last)
    BY <2>2, <2>3, DropOldest
  <2>6. InOrder(Pending', (count - 1) + 1, last + 1)
    BY <2>1, <2>2, <2>4, <2>5, AppendNext
  <2> QED BY <2>1, <2>2, <2>6
<1> QED BY <1>1, <1>2

LEMMA PollKeepsOrder ==
  ASSUME TypeOK, TypeOK', PollEvent, NEW last, InOrder(Pending, count, last)
  PROVE  InOrder(Pending', count', last)
<1>1. CASE PollOldest
  <2>1. count \in Nat \ {0} /\ count' = count - 1
        /\ (\A i \in 1 .. count - 1 : Pending'[i] = Pending[i + 1])
    BY <1>1, PollTakes
  <2>2. count - 1 \in Nat /\ (count - 1) + 1 = count
    BY <2>1, SMT
  <2> QED BY <2>1, <2>2, DropOldest
<1>2. CASE PollNull \/ PollEmpty
  BY <1>2, LogUnchanged DEF PollNull, PollEmpty
<1> QED BY <1>1, <1>2 DEF PollEvent

\* Where the submissions are.  While none overlap, at most one is under way,
\* it holds the count it has just made, and the log is as CompletionsInOrder
\* says; when the module is down the log is empty.
SubmitInv ==
  /\ module \in {"down", "up", "leaving"}
  /\ pc \in [Clients -> {"idle", "store", "number", "emit"}]
  /\ module # "up" => \A c \in Clients : pc[c] = "idle"
  /\ module = "down" => count = 0
  /\ overlap \in BOOLEAN

AloneInv ==
  ~overlap =>
    /\ \A c, d \in Clients : pc[c] # "idle" /\ pc[d] # "idle" => c = d
    /\ \A c \in Clients : pc[c] \in {"store", "emit"} => seen[c] = submits

OrderInv == SubmitInv /\ AloneInv /\ NumberInv /\ CompletionsInOrder

LEMMA NoneWaiting ==
  ASSUME NEW p, NEW last
  PROVE  InOrder(p, 0, last)
<1>1. Done(p, 0) = {}
  BY SMT DEF Done
<1> QED BY <1>1 DEF InOrder

\* A step that leaves the submissions alone, and emits what is no completion,
\* polls, or leaves the log alone too.
LEMMA LogKept ==
  ASSUME OrderInv, TypeOK, TypeOK', UNCHANGED submitting,
         \/ \E e \in Events : EmitEvent(e) /\ e \notin Completions
         \/ PollEvent
         \/ UNCHANGED vars
  PROVE  AloneInv' /\ CompletionsInOrder'
<1>1. AloneInv'
  BY DEF OrderInv, AloneInv, submitting
<1>2. Reported' = Reported /\ overlap' = overlap
  BY DEF Reported, Unreported, submitting
<1>3. ASSUME ~overlap PROVE InOrder(Pending', count', Reported)
  <2>1. InOrder(Pending, count, Reported)
    BY <1>3 DEF OrderInv, CompletionsInOrder
  <2>2. CASE UNCHANGED vars
    BY <2>1, <2>2, LogUnchanged DEF vars
  <2> QED BY <2>1, <2>2, EmitOther, PollKeepsOrder
<1> QED BY <1>1, <1>2, <1>3 DEF CompletionsInOrder

LEMMA AddedOther ==
  \A e \in {Added, Removed, PowerChange} : e \in Events /\ e \notin Completions
BY CompletionsAssumption

LEMMA DriverInitOrder ==
  ASSUME OrderInv, TypeOK, TypeOK', DriverInit
  PROVE  OrderInv'
<1>1. /\ EmitEvent(Added) /\ count = 0 /\ module' = "up"
      /\ UNCHANGED <<pc, seen>> /\ overlap' = FALSE /\ submits' = 0
      /\ \A c \in Clients : pc[c] = "idle"
  BY DEF DriverInit, OrderInv, SubmitInv
<1>2. InOrder(Pending', count', Reported')
  BY <1>1, NoneWaiting, EmitOther, AddedOther
<1>3. SubmitInv' /\ AloneInv' /\ NumberInv'
  BY <1>1 DEF OrderInv, SubmitInv, AloneInv, NumberInv
<1> QED BY <1>2, <1>3 DEF OrderInv, CompletionsInOrder

LEMMA DriverExitOrder ==
  ASSUME OrderInv, TypeOK, TypeOK', DriverExit
  PROVE  OrderInv'
<1>1. AloneInv' /\ CompletionsInOrder'
  BY LogKept, AddedOther DEF DriverExit
<1>2. SubmitInv' /\ NumberInv'
  BY DEF DriverExit, OrderInv, SubmitInv, NumberInv, submitting
<1> QED BY <1>1, <1>2 DEF OrderInv

LEMMA LogExitOrder ==
  ASSUME OrderInv, TypeOK, TypeOK', LogExit
  PROVE  OrderInv'
<1>1. count' = 0
  BY DEF LogExit, EventShutdown
<1>2. CompletionsInOrder'
  BY <1>1, NoneWaiting DEF CompletionsInOrder
<1>3. SubmitInv' /\ AloneInv' /\ NumberInv'
  BY <1>1 DEF LogExit, OrderInv, SubmitInv, AloneInv, NumberInv, submitting
<1> QED BY <1>2, <1>3 DEF OrderInv

LEMMA ElsewhereOrder ==
  ASSUME OrderInv, TypeOK, TypeOK', Elsewhere
  PROVE  OrderInv'
<1>1. AloneInv' /\ CompletionsInOrder'
  BY LogKept, AddedOther DEF Elsewhere
<1>2. SubmitInv' /\ NumberInv'
  BY DEF Elsewhere, OrderInv, SubmitInv, NumberInv, submitting
<1> QED BY <1>1, <1>2 DEF OrderInv

LEMMA QuietOrder ==
  ASSUME OrderInv, TypeOK, TypeOK', Tracking \/ UNCHANGED gpuVars
  PROVE  OrderInv'
<1>1. UNCHANGED submitting /\ UNCHANGED vars /\ UNCHANGED module
  BY DEF Tracking, gpuVars
<1>2. AloneInv' /\ CompletionsInOrder'
  BY <1>1, LogKept
<1>3. SubmitInv' /\ NumberInv'
  BY <1>1 DEF OrderInv, SubmitInv, NumberInv, submitting, vars
<1> QED BY <1>2, <1>3 DEF OrderInv

\* A step of a submission before its event keeps the number of the last
\* submission reported.
LEMMA SubmitQuiet ==
  ASSUME OrderInv, NEW c \in Clients,
         SubmitLoad(c) \/ SubmitStore(c) \/ SubmitNumber(c)
  PROVE  OrderInv'
<1>0. UNCHANGED <<log, head, count>> /\ UNCHANGED module
  BY DEF SubmitLoad, SubmitStore, SubmitNumber, vars
<1>1. Pending' = Pending /\ count' = count
  BY <1>0, LogUnchanged
<1>2. SubmitInv' /\ NumberInv'
  <2>1. module = "up" /\ module' = "up" /\ count' = count
    BY <1>0 DEF OrderInv, SubmitInv, SubmitLoad, SubmitStore, SubmitNumber, Move
  <2>2. CASE SubmitLoad(c)
    BY <2>1, <2>2 DEF OrderInv, SubmitInv, NumberInv, SubmitLoad, Move
  <2>3. CASE SubmitStore(c)
    <3>1. seen[c] + 1 \in Nat
      BY SMT DEF OrderInv, NumberInv
    <3> QED BY <2>1, <2>3, <3>1 DEF OrderInv, SubmitInv, NumberInv, SubmitStore, Move
  <2>4. CASE SubmitNumber(c)
    BY <2>1, <2>4 DEF OrderInv, SubmitInv, NumberInv, SubmitNumber, Move
  <2> QED BY <2>2, <2>3, <2>4
<1>3. ASSUME ~overlap'
      PROVE  /\ ~overlap
             /\ \A d \in Clients \ {c} : pc[d] = "idle" /\ pc'[d] = "idle"
             /\ pc \in [Clients -> {"idle", "store", "number", "emit"}]
             /\ submits \in Nat /\ seen \in [Clients -> Nat]
             /\ pc[c] \in {"store", "emit"} => seen[c] = submits
  <2>1. ~overlap
    BY <1>3 DEF SubmitLoad, SubmitStore, SubmitNumber
  <2>2. ASSUME NEW d \in Clients \ {c} PROVE pc[d] = "idle" /\ pc'[d] = "idle"
    BY <1>3, <2>1, <2>2
       DEF SubmitLoad, SubmitStore, SubmitNumber, Move, OrderInv, AloneInv, SubmitInv
  <2> QED BY <2>1, <2>2 DEF OrderInv, AloneInv, SubmitInv, NumberInv
<1>4. ASSUME ~overlap' PROVE Reported' = Reported
  <2>1. CASE SubmitLoad(c)
    <3>1. Unreported' = Unreported /\ submits' = submits
      BY <1>3, <1>4, <2>1 DEF Unreported, SubmitLoad, Move
    <3> QED BY <3>1 DEF Reported
  <2>2. CASE SubmitStore(c)
    <3>1. Unreported = {} /\ c \in Unreported' /\ submits' = submits + 1
      BY <1>3, <1>4, <2>2 DEF Unreported, SubmitStore, Move
    <3> QED BY <1>3, <1>4, <3>1, SMT DEF Reported
  <2>3. CASE SubmitNumber(c)
    <3>1. Unreported' = Unreported /\ submits' = submits
      BY <1>3, <1>4, <2>3 DEF Unreported, SubmitNumber, Move
    <3> QED BY <3>1 DEF Reported
  <2> QED BY <2>1, <2>2, <2>3
<1>5. CompletionsInOrder'
  BY <1>1, <1>3, <1>4 DEF OrderInv, CompletionsInOrder
<1>6. AloneInv'
  <2> SUFFICES ASSUME ~overlap'
               PROVE  /\ \A a, b \in Clients : pc'[a] # "idle" /\ pc'[b] # "idle" => a = b
                      /\ \A d \in Clients : pc'[d] \in {"store", "emit"} => seen'[d] = submits'
    BY DEF AloneInv
  <2>1. \A a, b \in Clients : pc'[a] # "idle" /\ pc'[b] # "idle" => a = b
    BY <1>3
  <2>2. pc'[c] \in {"store", "emit"} => seen'[c] = submits'
    <3>1. CASE SubmitLoad(c) \/ SubmitNumber(c)
      BY <1>3, <3>1 DEF SubmitLoad, SubmitNumber, Move
    <3>2. CASE SubmitStore(c)
      BY <1>3, <3>2 DEF SubmitStore, Move
    <3> QED BY <3>1, <3>2
  <2> QED BY <1>3, <2>1, <2>2
<1> QED BY <1>2, <1>5, <1>6 DEF OrderInv

LEMMA SubmitEmitOrder ==
  ASSUME OrderInv, TypeOK, TypeOK', NEW c \in Clients, SubmitEmit(c)
  PROVE  OrderInv'
<1>0. /\ module = "up" /\ module' = "up" /\ overlap' = overlap /\ submits' = submits
      /\ pc \in [Clients -> {"idle", "store", "number", "emit"}]
      /\ pc' = [pc EXCEPT ![c] = "idle"] /\ pc[c] = "emit"
      /\ seen' = [seen EXCEPT ![c] = 0]
      /\ submits \in Nat /\ seen \in [Clients -> Nat]
  BY DEF OrderInv, SubmitInv, NumberInv, SubmitEmit, Move
<1>1. SubmitInv' /\ NumberInv'
  BY <1>0 DEF OrderInv, SubmitInv, NumberInv
<1>2. ASSUME ~overlap
      PROVE  /\ \A d \in Clients \ {c} : pc[d] = "idle" /\ pc'[d] = "idle"
             /\ seen[c] = submits
  BY <1>0, <1>2 DEF OrderInv, AloneInv
<1>3. AloneInv'
  BY <1>0, <1>2 DEF AloneInv
<1>4. ASSUME ~overlap PROVE InOrder(Pending', count', Reported')
  <2>1. Unreported = {c} /\ Unreported' = {}
    BY <1>0, <1>2, <1>4 DEF Unreported
  <2>2. PICK last \in Int : last = submits - 1
    BY <1>0, SMT
  <2>3. Reported = last /\ Reported' = last + 1 /\ seen[c] = last + 1
    BY <1>0, <1>2, <1>4, <2>1, <2>2, SMT DEF Reported
  <2>4. InOrder(Pending, count, last)
    BY <1>4, <2>3 DEF OrderInv, CompletionsInOrder
  <2>5. seen[c] % DataModulus \in Events /\ EmitEvent(seen[c] % DataModulus)
    BY CompletionEvent DEF OrderInv, SubmitEmit
  <2>6. InOrder(Pending', count', last + 1)
    BY <2>3, <2>4, <2>5, EmitNext
  <2> QED BY <2>3, <2>6
<1>5. CompletionsInOrder'
  BY <1>0, <1>4 DEF CompletionsInOrder
<1> QED BY <1>1, <1>3, <1>5 DEF OrderInv

LEMMA OrderStep ==
  OrderInv /\ TypeOK /\ TypeOK' /\ [GpuNext]_gpuVars => OrderInv'
<1> SUFFICES ASSUME OrderInv, TypeOK, TypeOK', [GpuNext]_gpuVars PROVE OrderInv'
  OBVIOUS
<1>1. CASE DriverInit
  BY <1>1, DriverInitOrder
<1>2. CASE DriverExit
  BY <1>2, DriverExitOrder
<1>3. CASE LogExit
  BY <1>3, LogExitOrder
<1>4. CASE Elsewhere
  BY <1>4, ElsewhereOrder
<1>5. CASE Tracking \/ UNCHANGED gpuVars
  BY <1>5, QuietOrder
<1>6. ASSUME NEW c \in Clients, Submit(c) PROVE OrderInv'
  BY <1>6, SubmitQuiet, SubmitEmitOrder DEF Submit
<1> QED BY <1>1, <1>2, <1>3, <1>4, <1>5, <1>6 DEF GpuNext

\* For any clients, a log of any size and data of any width: as long as no two
\* submissions overlap, the completions a process finds in the log follow one
\* another up to the last one reported (gpu_submit, kdal_emit_event).
THEOREM GpuCompletionsInOrder == GpuSpec => []CompletionsInOrder
<1>1. GpuInit => OrderInv
  <2> SUFFICES ASSUME GpuInit PROVE OrderInv
    OBVIOUS
  <2>1. NumberInv
    BY SMT DEF GpuInit, NumberInv
  <2>2. SubmitInv /\ AloneInv /\ count = 0
    BY DEF GpuInit, Init, SubmitInv, AloneInv
  <2> QED BY <2>1, <2>2, NoneWaiting DEF OrderInv, CompletionsInOrder
<1>2. GpuSpec => []TypeOK
  BY UsesLog, EventLogTypeOK
<1>3. OrderInv => CompletionsInOrder
  BY DEF OrderInv
<1> QED BY <1>1, <1>2, <1>3, OrderStep, PTL DEF GpuSpec

=============================================================================
