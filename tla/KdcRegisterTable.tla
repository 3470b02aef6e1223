-------------------------- MODULE KdcRegisterTable --------------------------
(***************************************************************************)
(* The register table of the dry run (src/tools/kdality/simulate.c,        *)
(* sim_reg_read and sim_reg_write): at most MaxVRegs virtual registers     *)
(* that come into being when they are first named, and the trace of what   *)
(* was done to them.  A register whose name does not fit into its entry is *)
(* never found again: it comes into being whenever it is named.            *)
(***************************************************************************)
EXTENDS KdalityNames, Integers, Sequences

CONSTANT MaxVRegs   \* MAX_VREGS, 64 in the code

ASSUME MaxVRegsAssumption == MaxVRegs \in Nat

\* struct sim_state: the table, the steps that --trace prints, and the value of
\* the expression evaluated last.
SimStart == [regs |-> <<>>, trace |-> <<>>, v |-> 0]

Step(s, event) == [s EXCEPT !.trace = Append(@, event)]

\* The entries of the table with a name.
Entries(s, name) == {k \in DOMAIN s.regs : s.regs[k].name = name}

FirstEntry(s, name) ==
  CHOOSE k \in Entries(s, name) : \A j \in Entries(s, name) : k <= j

\* An entry keeps as much of the name as fits.
AddEntry(s, name, val) ==
  IF Len(s.regs) < MaxVRegs
  THEN [s EXCEPT !.regs = Append(@, [name |-> StoredName(name), value |-> val])]
  ELSE s

\* sim_reg_read: a register that is not in the table is added and reads as zero.
SimRegRead(s, name) ==
  LET known == Entries(s, name) # {}
      val   == IF known THEN s.regs[FirstEntry(s, name)].value ELSE 0
  IN  [Step(IF known THEN s ELSE AddEntry(s, name, 0), <<"read", name, val>>)
         EXCEPT !.v = val]

\* SimRegWrite that adds an entry for every write.
SimRegWriteAppends(s, name, val) == Step(AddEntry(s, name, val), <<"write", name, val>>)

\* sim_reg_write: when the table is full the write leaves no trace.
SimRegWrite(s, name, val) ==
  IF Entries(s, name) # {}
  THEN Step([s EXCEPT !.regs[FirstEntry(s, name)].value = val], <<"write", name, val>>)
  ELSE IF Len(s.regs) < MaxVRegs
       THEN Step(AddEntry(s, name, val), <<"write", name, val>>)
       ELSE s

-----------------------------------------------------------------------------
(* Dry runs: what they do to the table are reads and writes, and nothing   *)
(* they do is missing from the trace but writes to a full table.           *)

\* The step that leaves an event.
Traced(s, event) ==
  CASE event[1] = "read" -> SimRegRead(s, event[2])
    [] event[1] = "write" -> SimRegWrite(s, event[2], event[3])
    [] OTHER -> Step(s, event)

\* The steps of a trace, one after the other.
Replay(trace) ==
  LET after[k \in 0 .. Len(trace)] ==
        IF k = 0 THEN SimStart ELSE Traced(after[k - 1], trace[k])
  IN  after[Len(trace)]

IsSimulation(s) ==
  /\ s.trace \in Seq({s.trace[k] : k \in DOMAIN s.trace})
  /\ LET end == Replay(s.trace) IN end.trace = s.trace /\ end.regs = s.regs

\* The places of the writes to a register in the trace.
WritesTo(s, name) ==
  {k \in DOMAIN s.trace : s.trace[k][1] = "write" /\ s.trace[k][2] = name}

LastOf(S) == CHOOSE k \in S : \A j \in S : j <= k

\* The value of a register after the writes at the places W.
ValueAfter(s, W) == IF W = {} THEN 0 ELSE s.trace[LastOf(W)][3]

\* The value the trace leaves in a register.
Outcome(s, name) == ValueAfter(s, WritesTo(s, name))

\* The names of the registers that the trace reads or writes.
AccessesIn(s) == {k \in DOMAIN s.trace : s.trace[k][1] \in {"read", "write"}}

Accessed(s) == {s.trace[k][2] : k \in AccessesIn(s)}

\* What is left of those of them that are cut: entries of these names may be
\* another register's.
CutsIn(s) == {Cut[name] : name \in Accessed(s) \intersect DOMAIN Cut}

=============================================================================
