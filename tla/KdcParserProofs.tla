--------------------------- MODULE KdcParserProofs ---------------------------
(***************************************************************************)
(* For every file: a driver that kdal_parse accepts has no hole in its     *)
(* tree, the table that a dry run ends with is the outcome of its trace,   *)
(* and the tree of a header is as the analysis relies on, its registers    *)
(* at offsets that stand in the text.                                      *)
(***************************************************************************)
EXTENDS KdcDriver, KdhFrontEnd, KdcFrontEndProofs

\* Steps that lead from S to S can be taken one after the other, n of them.
Steps(n, S) == [1 .. n -> [S -> S]]

IsRun(f, n, S, a, g) ==
  f \in [0 .. n -> S] /\ f[0] = a /\ \A k \in 1 .. n : f[k] = g[k][f[k - 1]]

LEMMA Iteration ==
  ASSUME NEW n \in Nat, NEW S, NEW a \in S, NEW g \in Steps(n, S)
  PROVE  \E f : IsRun(f, n, S, a, g)
<1> USE DEF Steps
<1> DEFINE Runs(f, m) == f[0] = a /\ \A k \in 1 .. m : f[k] = g[k][f[k - 1]]
           good == {m \in 0 .. n : \E f \in [0 .. m -> S] : Runs(f, m)}
<1>1. 0 \in good
  <2> DEFINE f == [k \in 0 .. 0 |-> a]
  <2>1. f \in [0 .. 0 -> S] /\ Runs(f, 0) /\ 0 \in 0 .. n
    BY SMT
  <2> HIDE DEF f, Runs
  <2> QED BY <2>1
<1>2. ASSUME NEW m \in 0 + 1 .. n, m - 1 \in good PROVE m \in good
  <2>1. PICK f \in [0 .. m - 1 -> S] : Runs(f, m - 1)
    BY <1>2
  <2> DEFINE h == [k \in 0 .. m |-> IF k = m THEN g[m][f[m - 1]] ELSE f[k]]
  <2>2. /\ m \in 1 .. n /\ m \in 0 .. n /\ m - 1 \in 0 .. m - 1 /\ m # 0 /\ 0 \in 0 .. m
        /\ \A k \in 0 .. m : k # m => k \in 0 .. m - 1
        /\ \A k \in 1 .. m : k \in 0 .. m /\ k - 1 \in 0 .. m /\ k - 1 # m
        /\ \A k \in 1 .. m : k # m => k \in 1 .. m - 1
    BY SMT
  <2>3. g[m][f[m - 1]] \in S
    BY <2>1, <2>2
  <2>4. h \in [0 .. m -> S]
    BY <2>1, <2>2, <2>3
  <2>5. h[0] = a
    BY <2>1, <2>2
  <2>6. ASSUME NEW k \in 1 .. m PROVE h[k] = g[k][h[k - 1]]
    <3>1. h[k - 1] = f[k - 1]
      BY <2>2
    <3>2. CASE k = m
      BY <2>2, <3>1, <3>2
    <3>3. CASE k # m
      BY <2>1, <2>2, <3>1, <3>3
    <3> QED BY <3>2, <3>3
  <2> HIDE DEF h
  <2> QED BY <2>2, <2>4, <2>5, <2>6
<1> HIDE DEF good
<1>3. \A m \in 0 .. n : m \in good
  BY <1>1, <1>2, Upwards
<1>4. n \in good
  BY <1>3, SMT
<1> QED BY <1>4 DEF good, IsRun

-----------------------------------------------------------------------------
(* The register table.                                                     *)

\* Tables over the names N and the values V, and traces of the events E and of
\* reads and writes.
RegistersOver(N, V) == Seq([name : N, value : V])
EventsOver(N, V, E) == E \union ({"read", "write"} \X N \X V)

TablesOver(N, V, E) ==
  [regs : RegistersOver(N, V), trace : Seq(EventsOver(N, V, E)), v : V]

\* The names of the entries fit.
NamesStored(s) == \A k \in DOMAIN s.regs : s.regs[k].name \notin DOMAIN Cut

\* What every step of a dry run keeps.
TableInv(s) ==
  /\ Len(s.regs) <= MaxVRegs /\ NamesStored(s)
  /\ EntriesUnique(s) /\ EntriesOutcome(s) /\ EntriesThere(s) /\ ReadsRight(s)

\* The last of some places of a trace of n events is one of them.
LEMMA LastThere ==
  ASSUME NEW n \in Nat, NEW W, W \subseteq 1 .. n, W # {}
  PROVE  LastOf(W) \in W
<1> DEFINE D == {n - k : k \in W}
<1>1. D \subseteq Nat /\ D # {}
  <2>1. \A k \in W : n - k \in Nat
    BY SMT
  <2> QED BY <2>1
<1>2. PICK d \in D : \A m \in D : d <= m
  BY <1>1, LeastNat
<1>3. PICK k \in W : d = n - k
  OBVIOUS
<1>4. \A j \in W : j <= k
  <2>1. \A j \in W : n - k <= n - j
    BY <1>2, <1>3
  <2> QED BY <2>1, SMT
<1> QED BY <1>4, Zenon DEF LastOf

\* What an event more leaves as it is.
OneMore(s, t, e) ==
  LET n == Len(s.trace)
  IN  /\ n \in Nat /\ DOMAIN s.trace = 1 .. n /\ DOMAIN t.trace = 1 .. n + 1
      /\ t.trace[n + 1] = e /\ \A k \in 1 .. n : t.trace[k] = s.trace[k]
      /\ 1 .. n + 1 = (1 .. n) \union {n + 1} /\ n + 1 \notin 1 .. n
      /\ \A W : W \subseteq 1 .. n => ValueAfter(t, W) = ValueAfter(s, W)

LEMMA TraceAppend ==
  ASSUME NEW F, NEW s, NEW t, NEW e \in F,
         s.trace \in Seq(F), t.trace = Append(s.trace, e)
  PROVE  OneMore(s, t, e)
<1> DEFINE n == Len(s.trace)
<1>1. /\ n \in Nat /\ DOMAIN s.trace = 1 .. n
      /\ DOMAIN t.trace = 1 .. n + 1 /\ t.trace[n + 1] = e
      /\ \A k \in 1 .. n : t.trace[k] = s.trace[k]
  BY LenProperties, AppendProperties, SMT
<1>2. 1 .. n + 1 = (1 .. n) \union {n + 1} /\ n + 1 \notin 1 .. n
  BY <1>1, SMT
<1>3. ASSUME NEW W, W \subseteq 1 .. n PROVE ValueAfter(t, W) = ValueAfter(s, W)
  <2>1. CASE W = {}
    BY <2>1 DEF ValueAfter
  <2>2. CASE W # {}
    <3>1. LastOf(W) \in 1 .. n
      BY <1>1, <1>3, <2>2, LastThere
    <3> HIDE DEF n
    <3> QED BY <1>1, <3>1 DEF ValueAfter
  <2> QED BY <2>1, <2>2
<1> QED BY <1>1, <1>2, <1>3 DEF OneMore

\* An event more changes the outcome for the register it writes only.
LEMMA OutcomeAppend ==
  ASSUME NEW F, NEW s, NEW t, NEW e \in F,
         s.trace \in Seq(F), t.trace = Append(s.trace, e)
  PROVE  \A name : Outcome(t, name) =
           IF e[1] = "write" /\ e[2] = name THEN e[3] ELSE Outcome(s, name)
<1> TAKE name
<1> DEFINE n == Len(s.trace)
<1>1. /\ n \in Nat /\ DOMAIN s.trace = 1 .. n
      /\ DOMAIN t.trace = 1 .. n + 1 /\ t.trace[n + 1] = e
      /\ \A k \in 1 .. n : t.trace[k] = s.trace[k]
      /\ 1 .. n + 1 = (1 .. n) \union {n + 1} /\ n + 1 \notin 1 .. n
      /\ \A W : W \subseteq 1 .. n => ValueAfter(t, W) = ValueAfter(s, W)
  BY TraceAppend DEF OneMore
<1>2. CASE e[1] = "write" /\ e[2] = name
  <2>1. WritesTo(t, name) = WritesTo(s, name) \union {n + 1}
    BY <1>1, <1>2 DEF WritesTo
  <2>2. \A k \in WritesTo(t, name) : k <= n + 1 /\ k \in Nat
    <3>1. WritesTo(t, name) \subseteq 1 .. n + 1
      BY <1>1 DEF WritesTo
    <3> QED BY <1>1, <3>1, SMT
  <2>3. LastOf(WritesTo(t, name)) = n + 1
    <3>1. n + 1 \in WritesTo(t, name) /\ \A j \in WritesTo(t, name) : j <= n + 1
      BY <2>1, <2>2
    <3>2. \A k \in WritesTo(t, name) :
            (\A j \in WritesTo(t, name) : j <= k) => k = n + 1
      BY <1>1, <2>2, <3>1, SMT
    <3> QED BY <3>1, <3>2, Zenon DEF LastOf
  <2> QED BY <1>1, <1>2, <2>1, <2>3 DEF Outcome, ValueAfter
<1>3. CASE ~ (e[1] = "write" /\ e[2] = name)
  <2>1. WritesTo(t, name) = WritesTo(s, name) /\ WritesTo(s, name) \subseteq 1 .. n
    BY <1>1, <1>3 DEF WritesTo
  <2> QED BY <1>1, <1>3, <2>1, Zenon DEF Outcome
<1> QED BY <1>2, <1>3

\* An event more names its register, and cuts its name.
LEMMA CutsAppend ==
  ASSUME NEW F, NEW s, NEW t, NEW e \in F,
         s.trace \in Seq(F), t.trace = Append(s.trace, e)
  PROVE  /\ CutsIn(s) \subseteq CutsIn(t)
         /\ e[1] \in {"read", "write"} /\ e[2] \in DOMAIN Cut => Cut[e[2]] \in CutsIn(t)
         /\ e[1] \notin {"read", "write"} => CutsIn(t) = CutsIn(s)
<1> DEFINE n == Len(s.trace)
<1>1. /\ DOMAIN s.trace = 1 .. n /\ DOMAIN t.trace = (1 .. n) \union {n + 1}
      /\ t.trace[n + 1] = e /\ \A k \in 1 .. n : t.trace[k] = s.trace[k]
  <2>1. OneMore(s, t, e)
    BY TraceAppend
  <2> QED BY <2>1 DEF OneMore
<1> HIDE DEF n
<1>2. AccessesIn(t) = AccessesIn(s) \union (IF e[1] \in {"read", "write"} THEN {n + 1} ELSE {})
  BY <1>1 DEF AccessesIn
<1>3. Accessed(t) = Accessed(s) \union (IF e[1] \in {"read", "write"} THEN {e[2]} ELSE {})
  <2>1. \A k \in AccessesIn(s) : t.trace[k] = s.trace[k]
    BY <1>1 DEF AccessesIn
  <2> DEFINE more == IF e[1] \in {"read", "write"} THEN {n + 1} ELSE {}
  <2>2. \A k \in more : t.trace[k] = e
    BY <1>1
  <2>3. \A x : x \in Accessed(t) <=> \/ \E k \in AccessesIn(s) : x = t.trace[k][2]
                                   \/ \E k \in more : x = t.trace[k][2]
    <3>1. AccessesIn(t) = AccessesIn(s) \union more
      BY <1>2
    <3> HIDE DEF more
    <3> QED BY <3>1 DEF Accessed
  <2>4. \A x : x \in Accessed(t) <=> x \in Accessed(s) \/ \E k \in more : x = e[2]
    <3> HIDE DEF more
    <3>1. \A x : (\E k \in AccessesIn(s) : x = t.trace[k][2]) <=> x \in Accessed(s)
      <4>1. \A k \in AccessesIn(s) : t.trace[k][2] = s.trace[k][2]
        BY <2>1
      <4> QED BY <4>1, Zenon DEF Accessed
    <3>2. \A x : (\E k \in more : x = t.trace[k][2]) <=> (\E k \in more : x = e[2])
      BY <2>2, Zenon
    <3> QED BY <2>3, <3>1, <3>2, Zenon
  <2>5. \A x : (\E k \in more : x = e[2]) <=> (e[1] \in {"read", "write"} /\ x = e[2])
    OBVIOUS
  <2> QED BY <2>4, <2>5
<1> QED BY <1>3 DEF CutsIn

\* The reads of a trace stay right when an event is added, a read that is right.
LEMMA ReadsAppend ==
  ASSUME NEW F, NEW s, NEW t, NEW e \in F,
         s.trace \in Seq(F), t.trace = Append(s.trace, e), ReadsRight(s),
         e[1] = "read" /\ e[2] \notin CutsIn(s) =>
           e[3] = IF e[2] \in DOMAIN Cut THEN 0 ELSE Outcome(s, e[2])
  PROVE  ReadsRight(t)
<1> DEFINE n == Len(s.trace)
           Before(u, name, k) == {j \in WritesTo(u, name) : j < k}
<1>1. /\ n \in Nat /\ DOMAIN s.trace = 1 .. n
      /\ DOMAIN t.trace = (1 .. n) \union {n + 1} /\ n + 1 \notin 1 .. n
      /\ t.trace[n + 1] = e /\ \A k \in 1 .. n : t.trace[k] = s.trace[k]
      /\ \A W : W \subseteq 1 .. n => ValueAfter(t, W) = ValueAfter(s, W)
  <2>1. OneMore(s, t, e)
    BY TraceAppend
  <2> QED BY <2>1 DEF OneMore
<1>2. \A k \in 1 .. n + 1, j \in (1 .. n) \union {n + 1} : j < k => j \in 1 .. n
  BY <1>1, SMT
<1>3. \A k \in 1 .. n + 1 : k \in (1 .. n) \union {n + 1}
  BY <1>1, SMT
<1>4. ASSUME NEW name, NEW k \in (1 .. n) \union {n + 1}
      PROVE  /\ Before(t, name, k) = Before(s, name, k)
             /\ ValueAfter(t, Before(t, name, k)) = ValueAfter(s, Before(s, name, k))
  <2>1. k \in 1 .. n + 1
    BY <1>1, SMT
  <2> HIDE DEF n
  <2>2. Before(t, name, k) = Before(s, name, k) /\ Before(s, name, k) \subseteq 1 .. n
    BY <1>1, <1>2, <2>1 DEF WritesTo
  <2> HIDE DEF Before
  <2> QED BY <1>1, <2>2
<1>5. \A name : Before(s, name, n + 1) = WritesTo(s, name)
  <2>1. \A j \in 1 .. n : j < n + 1
    BY <1>1, SMT
  <2> HIDE DEF n
  <2> QED BY <1>1, <2>1 DEF WritesTo
<1>6. SUFFICES ASSUME NEW k \in AccessesIn(t), t.trace[k][1] = "read",
                      t.trace[k][2] \notin CutsIn(t)
               PROVE  t.trace[k][3] = IF t.trace[k][2] \in DOMAIN Cut THEN 0
                                      ELSE ValueAfter(t, Before(t, t.trace[k][2], k))
  BY Zenon DEF ReadsRight
<1>7. t.trace[k][2] \notin CutsIn(s)
  <2>1. CutsIn(s) \subseteq CutsIn(t)
    BY CutsAppend
  <2> QED BY <1>6, <2>1
<1> HIDE DEF n
<1>8. k \in (1 .. n) \union {n + 1}
  BY <1>1 DEF AccessesIn
<1>9. CASE k \in 1 .. n
  <2>1. t.trace[k] = s.trace[k] /\ k \in AccessesIn(s)
    BY <1>1, <1>6, <1>9 DEF AccessesIn
  <2>2. s.trace[k][3] = IF s.trace[k][2] \in DOMAIN Cut THEN 0
                        ELSE ValueAfter(s, Before(s, s.trace[k][2], k))
    BY <1>6, <1>7, <2>1, Zenon DEF ReadsRight
  <2> HIDE DEF Before
  <2> QED BY <1>4, <1>8, <2>1, <2>2
<1>10. CASE k = n + 1
  <2>1. e[3] = IF e[2] \in DOMAIN Cut THEN 0 ELSE Outcome(s, e[2])
    BY <1>1, <1>6, <1>7, <1>10
  <2>2. ValueAfter(t, Before(t, e[2], k)) = Outcome(s, e[2])
    <3>1. ValueAfter(t, Before(t, e[2], k)) = ValueAfter(s, Before(s, e[2], k))
      BY <1>4, <1>8
    <3> HIDE DEF Before
    <3> QED BY <1>5, <1>10, <3>1 DEF Outcome
  <2> HIDE DEF Before
  <2> QED BY <1>1, <1>10, <2>1, <2>2
<1> QED BY <1>8, <1>9, <1>10

-----------------------------------------------------------------------------

LEMMA TableOutcome ==
  ASSUME NEW N, NEW V, NEW E, NEW s \in TablesOver(N, V, E),
         NEW e \in EventsOver(N, V, E), NEW t \in TablesOver(N, V, E),
         t.trace = Append(s.trace, e)
  PROVE  \A name : Outcome(t, name) =
           IF e[1] = "write" /\ e[2] = name THEN e[3] ELSE Outcome(s, name)
<1> DEFINE F == EventsOver(N, V, E)
<1>1. s.trace \in Seq(F) /\ e \in F
  BY DEF TablesOver
<1> HIDE DEF F
<1> QED BY <1>1, OutcomeAppend

\* Steps and entries, as the step of a table.
StepOf(s, e, N, V, E) ==
  /\ Step(s, e) \in TablesOver(N, V, E)
  /\ Step(s, e).trace = Append(s.trace, e)
  /\ Step(s, e).regs = s.regs /\ Step(s, e).v = s.v

LEMMA StepOver ==
  ASSUME NEW N, NEW V, NEW E, NEW s \in TablesOver(N, V, E), NEW e \in EventsOver(N, V, E)
  PROVE  StepOf(s, e, N, V, E)
<1> DEFINE F == EventsOver(N, V, E)
           R == RegistersOver(N, V)
<1>1. s \in [regs : R, trace : Seq(F), v : V] /\ e \in F
  BY DEF TablesOver
<1> HIDE DEF F, R
<1>2. Append(s.trace, e) \in Seq(F)
  BY <1>1, AppendProperties
<1>3. /\ Step(s, e) \in [regs : R, trace : Seq(F), v : V]
      /\ Step(s, e).trace = Append(s.trace, e)
      /\ Step(s, e).regs = s.regs /\ Step(s, e).v = s.v
  BY <1>1, <1>2 DEF Step
<1> QED BY <1>3 DEF StepOf, TablesOver, F, R

LEMMA LastValue ==
  ASSUME NEW N, NEW V, NEW E, NEW s \in TablesOver(N, V, E), NEW val \in V
  PROVE  LET t == [s EXCEPT !.v = val] IN
           t \in TablesOver(N, V, E) /\ t.trace = s.trace /\ t.regs = s.regs
<1> DEFINE R == RegistersOver(N, V)
           F == Seq(EventsOver(N, V, E))
<1>1. s \in [regs : R, trace : F, v : V]
  BY DEF TablesOver
<1> HIDE DEF R, F
<1>2. [s EXCEPT !.v = val] \in [regs : R, trace : F, v : V]
  BY <1>1
<1> QED BY <1>1, <1>2 DEF TablesOver, R, F

LEMMA EntryValue ==
  ASSUME NEW N, NEW V, NEW E, NEW s \in TablesOver(N, V, E), NEW k \in DOMAIN s.regs
  PROVE  s.regs[k] \in [name : N, value : V] /\ s.regs[k].value \in V
<1> DEFINE R == [name : N, value : V]
<1>1. s.regs \in Seq(R)
  BY DEF TablesOver, RegistersOver
<1>2. s.regs[k] \in R
  <2> HIDE DEF R
  <2> QED BY <1>1, ElementOfSeq, LenProperties, SMT
<1> QED BY <1>2

LEMMA EntryAdded ==
  ASSUME NEW N, NEW V, NEW E, NEW s \in TablesOver(N, V, E), NEW name, StoredName(name) \in N, NEW val \in V,
         Len(s.regs) < MaxVRegs
  PROVE  /\ AddEntry(s, name, val) \in TablesOver(N, V, E)
         /\ AddEntry(s, name, val).trace = s.trace
         /\ AddEntry(s, name, val).regs = Append(s.regs, [name |-> StoredName(name), value |-> val])
<1> DEFINE R == [name : N, value : V]
           F == EventsOver(N, V, E)
           r == [name |-> StoredName(name), value |-> val]
<1>1. s \in [regs : Seq(R), trace : Seq(F), v : V] /\ r \in R
  BY DEF TablesOver, RegistersOver
<1>2. AddEntry(s, name, val) = [s EXCEPT !.regs = Append(@, r)]
  BY DEF AddEntry
<1> HIDE DEF R, F, r
<1>3. Append(s.regs, r) \in Seq(R)
  BY <1>1, AppendProperties
<1>4. /\ AddEntry(s, name, val) \in [regs : Seq(R), trace : Seq(F), v : V]
      /\ AddEntry(s, name, val).trace = s.trace
      /\ AddEntry(s, name, val).regs = Append(s.regs, r)
  BY <1>1, <1>2, <1>3
<1> QED BY <1>4 DEF TablesOver, RegistersOver, R, F, r

LEMMA EntryWritten ==
  ASSUME NEW N, NEW V, NEW E, NEW s \in TablesOver(N, V, E), NEW val \in V,
         NEW k \in DOMAIN s.regs
  PROVE  LET t == [s EXCEPT !.regs[k].value = val] IN
           /\ t \in TablesOver(N, V, E) /\ t.trace = s.trace
           /\ t.regs = [s.regs EXCEPT ![k].value = val]
<1> DEFINE R == [name : N, value : V]
           F == EventsOver(N, V, E)
           old == s.regs[k]
           new == [old EXCEPT !.value = val]
           regs == [s.regs EXCEPT ![k] = new]
           t == [s EXCEPT !.regs = regs]
<1>1. s \in [regs : Seq(R), trace : Seq(F), v : V] /\ old \in R
  BY EntryValue DEF TablesOver, RegistersOver
<1>2. new \in R
  <2> HIDE DEF old
  <2> QED BY <1>1
<1>3. regs \in Seq(R)
  <2> HIDE DEF R, new, F
  <2> QED BY <1>1, <1>2, ExceptSeq
<1>4. t \in [regs : Seq(R), trace : Seq(F), v : V] /\ t.trace = s.trace /\ t.regs = regs
  <2> HIDE DEF R, regs, F
  <2> QED BY <1>1, <1>3
<1>5. t = [s EXCEPT !.regs[k].value = val] /\ regs = [s.regs EXCEPT ![k].value = val]
  OBVIOUS
<1> HIDE DEF t, regs
<1> QED BY <1>4, <1>5 DEF TablesOver, RegistersOver, R, F

\* What a step makes of a table that it leaves as it is.
LEMMA SameRegisters ==
  ASSUME NEW N, NEW V, NEW E, NEW s \in TablesOver(N, V, E), TableInv(s),
         NEW e \in EventsOver(N, V, E), NEW t \in TablesOver(N, V, E),
         t.trace = Append(s.trace, e), t.regs = s.regs,
         e[1] # "write",
         e[1] = "read" => Len(s.regs) = MaxVRegs \/ Entries(s, StoredName(e[2])) # {},
         e[1] = "read" /\ e[2] \notin CutsIn(s) =>
           e[3] = IF e[2] \in DOMAIN Cut THEN 0 ELSE Outcome(s, e[2])
  PROVE  TableInv(t)
<1> DEFINE F == EventsOver(N, V, E)
<1>1. /\ s.trace \in Seq(F) /\ e \in F
      /\ \A name : Entries(t, name) = Entries(s, name)
  BY DEF TablesOver, Entries
<1> HIDE DEF F
<1>2. \A name : Outcome(t, name) = Outcome(s, name)
  <2>1. \A name : Outcome(t, name) =
          IF e[1] = "write" /\ e[2] = name THEN e[3] ELSE Outcome(s, name)
    BY TableOutcome
  <2> QED BY <2>1
<1>3. CutsIn(s) \subseteq CutsIn(t)
  BY <1>1, CutsAppend
<1>4. EntriesThere(t)
  <2>1. ASSUME NEW k \in AccessesIn(t)
        PROVE  (k \in AccessesIn(s) /\ t.trace[k] = s.trace[k]) \/ t.trace[k] = e
    BY <1>1, TraceAppend DEF OneMore, AccessesIn
  <2> QED BY <1>1, <2>1 DEF EntriesThere, TableInv, AccessesIn
<1>5. ReadsRight(t)
  BY <1>1, ReadsAppend DEF TableInv
<1>6. NamesStored(t) /\ EntriesUnique(t) /\ EntriesOutcome(t)
  BY <1>2, <1>3 DEF TableInv, NamesStored, EntriesUnique, EntriesOutcome
<1> QED BY <1>4, <1>5, <1>6 DEF TableInv

\* What is stored of a name fits.
LEMMA StoredFits ==
  ASSUME NEW name
  PROVE  /\ StoredName(name) \notin DOMAIN Cut
         /\ name \notin DOMAIN Cut => StoredName(name) = name
         /\ name \in DOMAIN Cut => StoredName(name) = Cut[name]
BY CutAssumption DEF StoredName

\* What a step makes of a table that it adds an entry to: the trace knows nothing of
\* the register yet, or its name does not fit.
LEMMA RegisterAdded ==
  ASSUME NEW N, NEW V, NEW E, NEW s \in TablesOver(N, V, E), TableInv(s),
         NEW e \in EventsOver(N, V, E), NEW t \in TablesOver(N, V, E), NEW val \in V,
         t.trace = Append(s.trace, e),
         t.regs = Append(s.regs, [name |-> StoredName(e[2]), value |-> val]),
         Len(s.regs) < MaxVRegs, Entries(s, e[2]) = {}, StoredName(e[2]) \in N,
         (e[1] = "write" /\ val = e[3]) \/ (e[1] = "read" /\ val = 0 /\ e[3] = 0)
  PROVE  TableInv(t)
<1> DEFINE n == Len(s.regs)
           new == StoredName(e[2])
           F == EventsOver(N, V, E)
<1>1. /\ s.trace \in Seq(F) /\ e \in F /\ s.regs \in Seq([name : N, value : V])
      /\ n \in Nat /\ MaxVRegs \in Nat
  BY LenProperties, MaxVRegsAssumption DEF TablesOver, RegistersOver
<1> HIDE DEF F
<1>2. /\ DOMAIN s.regs = 1 .. n /\ Len(t.regs) = n + 1 /\ DOMAIN t.regs = 1 .. n + 1
      /\ t.regs[n + 1].name = new /\ t.regs[n + 1].value = val
      /\ \A k \in 1 .. n : t.regs[k] = s.regs[k]
  <2> HIDE DEF new
  <2>1. [name |-> new, value |-> val] \in [name : N, value : V]
    BY DEF new
  <2>2. /\ Len(t.regs) = n + 1 /\ DOMAIN t.regs = 1 .. n + 1
        /\ t.regs[n + 1] = [name |-> new, value |-> val]
        /\ \A k \in 1 .. n : t.regs[k] = s.regs[k]
    <3>1. t.regs = Append(s.regs, [name |-> new, value |-> val])
      BY DEF new
    <3> QED BY <1>1, <2>1, <3>1, AppendProperties, LenProperties, SMT
  <2> QED BY <1>1, <2>2, LenProperties
<1>3. 1 .. n + 1 = (1 .. n) \union {n + 1} /\ n + 1 \notin 1 .. n /\ n # MaxVRegs
  BY <1>1, SMT
<1> HIDE DEF n, new
<1>4. \A k \in 1 .. n : s.regs[k].name # e[2] /\ s.regs[k].name \notin DOMAIN Cut
  BY <1>2 DEF Entries, TableInv, NamesStored
<1>5. /\ CutsIn(s) \subseteq CutsIn(t)
      /\ e[2] \in DOMAIN Cut => new \in CutsIn(t)
      /\ e[2] \notin DOMAIN Cut => new = e[2]
      /\ new \notin DOMAIN Cut
  <2>1. /\ CutsIn(s) \subseteq CutsIn(t)
        /\ e[1] \in {"read", "write"} /\ e[2] \in DOMAIN Cut => Cut[e[2]] \in CutsIn(t)
    BY <1>1, CutsAppend
  <2>2. /\ StoredName(e[2]) \notin DOMAIN Cut
        /\ e[2] \notin DOMAIN Cut => StoredName(e[2]) = e[2]
        /\ e[2] \in DOMAIN Cut => StoredName(e[2]) = Cut[e[2]]
    BY StoredFits
  <2> QED BY <2>1, <2>2 DEF new
<1>6. \A name : Outcome(t, name) =
        IF e[1] = "write" /\ e[2] = name THEN e[3] ELSE Outcome(s, name)
  BY TableOutcome
<1>7. ASSUME e[2] \notin DOMAIN Cut
      PROVE  Outcome(s, e[2]) = 0
  <2>1. Entries(s, StoredName(e[2])) = {}
    BY <1>7, StoredFits
  <2>2. WritesTo(s, e[2]) = {}
    BY <2>1 DEF TableInv, EntriesThere, WritesTo, AccessesIn
  <2> QED BY <2>2 DEF Outcome, ValueAfter
<1>8. NamesStored(t)
  BY <1>2, <1>3, <1>4, <1>5 DEF NamesStored
<1>9. EntriesUnique(t)
  <2> SUFFICES ASSUME NEW j \in DOMAIN t.regs, NEW k \in DOMAIN t.regs,
                      t.regs[j].name = t.regs[k].name, t.regs[k].name \notin CutsIn(t)
               PROVE  j = k
    BY DEF EntriesUnique
  <2>1. CASE j \in 1 .. n /\ k \in 1 .. n
    BY <1>2, <1>5, <2>1 DEF TableInv, EntriesUnique
  <2>2. CASE j = n + 1 \/ k = n + 1
    <3>1. e[2] \notin DOMAIN Cut /\ t.regs[j].name = e[2] /\ t.regs[k].name = e[2]
      BY <1>2, <1>5, <2>2
    <3>2. j \notin 1 .. n /\ k \notin 1 .. n
      BY <1>2, <1>4, <3>1
    <3> QED BY <1>2, <1>3, <3>2
  <2> QED BY <1>2, <1>3, <2>1, <2>2
<1>10. EntriesOutcome(t)
  <2> SUFFICES ASSUME NEW k \in DOMAIN t.regs, t.regs[k].name \notin CutsIn(t)
               PROVE  t.regs[k].value = Outcome(t, t.regs[k].name)
    BY DEF EntriesOutcome
  <2>1. CASE k \in 1 .. n
    <3>1. Outcome(t, s.regs[k].name) = Outcome(s, s.regs[k].name)
      BY <1>4, <1>6, <2>1
    <3> QED BY <1>2, <1>5, <2>1, <3>1 DEF TableInv, EntriesOutcome
  <2>2. CASE k = n + 1
    <3>1. e[2] \notin DOMAIN Cut /\ new = e[2]
      BY <1>2, <1>5, <2>2
    <3>2. Outcome(t, e[2]) = val
      BY <1>6, <1>7, <3>1
    <3> QED BY <1>2, <2>2, <3>1, <3>2
  <2> QED BY <1>2, <1>3, <2>1, <2>2
<1>11. EntriesThere(t)
  <2>1. \A k \in AccessesIn(t) :
        (k \in AccessesIn(s) /\ t.trace[k] = s.trace[k]) \/ t.trace[k] = e
    BY <1>1, TraceAppend DEF OneMore, AccessesIn
  <2>2. n + 1 \in Entries(t, new)
    BY <1>2, <1>3 DEF Entries
  <2>3. \A name : Entries(s, name) # {} => Entries(t, name) # {}
    BY <1>2, <1>3 DEF Entries
  <2>4. Len(s.regs) # MaxVRegs
    BY <1>3 DEF n
  <2> QED BY <2>1, <2>2, <2>3, <2>4 DEF TableInv, EntriesThere, new
<1>12. ReadsRight(t)
  <2>1. e[1] = "read" => e[3] = IF e[2] \in DOMAIN Cut THEN 0 ELSE Outcome(s, e[2])
    BY <1>7
  <2> QED BY <1>1, <2>1, ReadsAppend DEF TableInv
<1>13. Len(t.regs) <= MaxVRegs
  BY <1>1, <1>2, SMT DEF n
<1> QED BY <1>8, <1>9, <1>10, <1>11, <1>12, <1>13 DEF TableInv

\* What a write makes of the entry of its register.
LEMMA WrittenRegister ==
  ASSUME NEW N, NEW V, NEW E, NEW s \in TablesOver(N, V, E), TableInv(s),
         NEW e \in EventsOver(N, V, E), NEW t \in TablesOver(N, V, E),
         NEW k \in Entries(s, e[2]),
         t.trace = Append(s.trace, e), t.regs = [s.regs EXCEPT ![k].value = e[3]],
         e[1] = "write"
  PROVE  TableInv(t)
<1> DEFINE F == EventsOver(N, V, E)
<1>1. /\ s.trace \in Seq(F) /\ e \in F /\ s.regs \in Seq([name : N, value : V])
      /\ k \in DOMAIN s.regs /\ s.regs[k].name = e[2]
      /\ t.regs \in Seq([name : N, value : V])
  BY DEF TablesOver, RegistersOver, Entries
<1> HIDE DEF F
<1>0. \A name : Outcome(t, name) =
        IF e[1] = "write" /\ e[2] = name THEN e[3] ELSE Outcome(s, name)
  BY TableOutcome
<1>2. /\ DOMAIN t.regs = DOMAIN s.regs
      /\ t.regs[k].name = e[2] /\ t.regs[k].value = e[3]
      /\ \A j \in DOMAIN s.regs : j # k => t.regs[j] = s.regs[j]
  <2> DEFINE old == s.regs[k]
             new == [old EXCEPT !.value = e[3]]
  <2>1. old \in [name : N, value : V]
    <3> DEFINE R == [name : N, value : V]
    <3>1. s.regs \in Seq(R) /\ k \in DOMAIN s.regs
      BY <1>1
    <3> HIDE DEF R
    <3>2. s.regs[k] \in R
      BY <3>1, ElementOfSeq, LenProperties, SMT
    <3> QED BY <3>2 DEF R
  <2>2. new.name = old.name /\ new.value = e[3]
    <3> HIDE DEF old
    <3> QED BY <2>1
  <2>3. t.regs = [s.regs EXCEPT ![k] = new]
    OBVIOUS
  <2> HIDE DEF new
  <2> QED BY <1>1, <2>2, <2>3
<1>3. Len(t.regs) = Len(s.regs)
  BY <1>1, <1>2, LenProperties, SMT
<1>4. \A j \in DOMAIN s.regs : t.regs[j].name = s.regs[j].name
  BY <1>1, <1>2
<1>5. \A name : Entries(t, name) = Entries(s, name)
  BY <1>2, <1>4 DEF Entries
<1>6. CutsIn(s) \subseteq CutsIn(t)
  BY <1>1, CutsAppend
<1>7. NamesStored(t) /\ EntriesUnique(t)
  BY <1>2, <1>4, <1>6 DEF TableInv, NamesStored, EntriesUnique
<1>8. EntriesOutcome(t)
  <2>1. Outcome(t, e[2]) = e[3]
    BY <1>0
  <2>2. ASSUME NEW j \in DOMAIN s.regs, j # k, t.regs[j].name \notin CutsIn(t)
        PROVE  t.regs[j].value = Outcome(t, t.regs[j].name)
    <3>1. s.regs[j].name # e[2]
      BY <1>1, <1>4, <1>6, <2>2 DEF TableInv, EntriesUnique
    <3>2. Outcome(t, s.regs[j].name) = Outcome(s, s.regs[j].name)
      BY <1>0, <3>1
    <3> QED BY <1>2, <1>6, <2>2, <3>2 DEF TableInv, EntriesOutcome
  <2> QED BY <1>2, <2>1, <2>2 DEF EntriesOutcome
<1>9. EntriesThere(t)
  <2>1. \A i \in AccessesIn(t) :
        (i \in AccessesIn(s) /\ t.trace[i] = s.trace[i]) \/ t.trace[i] = e
    BY <1>1, TraceAppend DEF OneMore, AccessesIn
  <2>2. Entries(t, StoredName(e[2])) # {}
    <3>1. StoredName(e[2]) = e[2]
      BY <1>1, StoredFits DEF TableInv, NamesStored
    <3> QED BY <1>5, <3>1
  <2> QED BY <1>3, <1>5, <2>1, <2>2 DEF TableInv, EntriesThere
<1>10. ReadsRight(t)
  BY <1>1, ReadsAppend DEF TableInv
<1> QED BY <1>3, <1>7, <1>8, <1>9, <1>10 DEF TableInv

\* The reads and the writes of the interpreter keep the invariant of the table.
LEMMA OtherKept ==
  ASSUME NEW N, NEW V, NEW E, NEW s \in TablesOver(N, V, E), TableInv(s),
         NEW e \in E, e[1] \notin {"read", "write"}
  PROVE  Step(s, e) \in TablesOver(N, V, E) /\ TableInv(Step(s, e))
<1>1. e \in EventsOver(N, V, E)
  BY DEF EventsOver
<1>2. StepOf(s, e, N, V, E)
  BY <1>1, StepOver
<1> QED BY <1>1, <1>2, SameRegisters DEF StepOf

\* The first entry with a name is one of its entries.
LEMMA FirstEntryThere ==
  ASSUME NEW N, NEW V, NEW E, NEW s \in TablesOver(N, V, E), NEW name, Entries(s, name) # {}
  PROVE  FirstEntry(s, name) \in Entries(s, name)
<1>1. Entries(s, name) \subseteq Nat
  <2>1. DOMAIN s.regs = 1 .. Len(s.regs) /\ Len(s.regs) \in Nat
    BY LenProperties DEF TablesOver, RegistersOver
  <2> QED BY <2>1, SMT DEF Entries
<1>2. \E n \in Entries(s, name) : \A m \in Entries(s, name) : n <= m
  BY <1>1, LeastNat
<1> QED BY <1>2, Zenon DEF FirstEntry

LEMMA ReadKept ==
  ASSUME NEW N, NEW V, NEW E, NEW s \in TablesOver(N, V, E), TableInv(s),
         NEW name \in N, StoredName(name) \in N, 0 \in V
  PROVE  SimRegRead(s, name) \in TablesOver(N, V, E) /\ TableInv(SimRegRead(s, name))
<1> DEFINE new == AddEntry(s, name, 0)
<1>1. CASE Entries(s, name) # {}
  <2> DEFINE val == s.regs[FirstEntry(s, name)].value
             e == <<"read", name, val>>
             t == [Step(s, e) EXCEPT !.v = val]
  <2>1. SimRegRead(s, name) = t
    BY <1>1 DEF SimRegRead
  <2>2. /\ val \in V /\ name \notin DOMAIN Cut
        /\ name \notin CutsIn(s) => val = Outcome(s, name)
    <3> DEFINE k == FirstEntry(s, name)
    <3>1. k \in DOMAIN s.regs /\ s.regs[k].name = name
      BY <1>1, FirstEntryThere DEF Entries
    <3> HIDE DEF k
    <3>2. /\ s.regs[k].value \in V /\ name \notin DOMAIN Cut
          /\ name \notin CutsIn(s) => s.regs[k].value = Outcome(s, name)
      BY <3>1, EntryValue DEF TableInv, NamesStored, EntriesOutcome
    <3> QED BY <3>2 DEF k
  <2> HIDE DEF val
  <2>3. e \in EventsOver(N, V, E) /\ e[1] = "read" /\ e[2] = name /\ e[3] = val
    BY <2>2 DEF EventsOver
  <2> HIDE DEF e
  <2>4. t \in TablesOver(N, V, E) /\ t.trace = Append(s.trace, e) /\ t.regs = s.regs
    BY <2>2, <2>3, StepOver, LastValue DEF StepOf
  <2> HIDE DEF t
  <2>5. TableInv(t)
    <3>1. StoredName(name) = name
      BY <2>2, StoredFits
    <3> QED BY <1>1, <2>2, <2>3, <2>4, <3>1, SameRegisters
  <2> QED BY <2>1, <2>4, <2>5
<1>2. CASE Entries(s, name) = {}
  <2> DEFINE e == <<"read", name, 0>>
             t == [Step(new, e) EXCEPT !.v = 0]
  <2>1. SimRegRead(s, name) = t
    BY <1>2 DEF SimRegRead
  <2>2. e \in EventsOver(N, V, E) /\ e[1] = "read" /\ e[2] = name /\ e[3] = 0
    BY DEF EventsOver
  <2> HIDE DEF e
  <2>3. CASE Len(s.regs) < MaxVRegs
    <3>1. /\ new \in TablesOver(N, V, E) /\ new.trace = s.trace
          /\ new.regs = Append(s.regs, [name |-> StoredName(name), value |-> 0])
      BY <2>3, EntryAdded
    <3> HIDE DEF new
    <3>2. /\ t \in TablesOver(N, V, E) /\ t.trace = Append(s.trace, e)
          /\ t.regs = Append(s.regs, [name |-> StoredName(e[2]), value |-> 0])
      BY <2>2, <3>1, StepOver, LastValue DEF StepOf
    <3> HIDE DEF t
    <3>3. TableInv(t)
      BY <1>2, <2>2, <2>3, <3>2, RegisterAdded
    <3> QED BY <2>1, <3>2, <3>3
  <2>4. CASE ~ (Len(s.regs) < MaxVRegs)
    <3>1. new = s
      BY <2>4 DEF AddEntry
    <3> HIDE DEF new
    <3>2. t \in TablesOver(N, V, E) /\ t.trace = Append(s.trace, e) /\ t.regs = s.regs
      BY <2>2, <3>1, StepOver, LastValue DEF StepOf
    <3>3. Len(s.regs) = MaxVRegs
      <4>1. Len(s.regs) \in Nat /\ MaxVRegs \in Nat /\ Len(s.regs) <= MaxVRegs
        BY MaxVRegsAssumption, LenProperties DEF TablesOver, RegistersOver, TableInv
      <4> QED BY <2>4, <4>1, SMT
    <3> HIDE DEF t
    <3>4. name \notin DOMAIN Cut => Outcome(s, name) = 0
      <4>1. ASSUME name \notin DOMAIN Cut PROVE WritesTo(s, name) = {}
        <5>1. Entries(s, StoredName(name)) = {}
          BY <1>2, <4>1, StoredFits
        <5> QED BY <5>1 DEF TableInv, EntriesThere, WritesTo, AccessesIn
      <4> QED BY <4>1 DEF Outcome, ValueAfter
    <3>5. TableInv(t)
      BY <2>2, <3>2, <3>3, <3>4, SameRegisters
    <3> QED BY <2>1, <3>2, <3>5
  <2> QED BY <2>3, <2>4
<1> QED BY <1>1, <1>2

LEMMA WriteKept ==
  ASSUME NEW N, NEW V, NEW E, NEW s \in TablesOver(N, V, E), TableInv(s),
         NEW name \in N, StoredName(name) \in N, NEW val \in V
  PROVE  SimRegWrite(s, name, val) \in TablesOver(N, V, E) /\ TableInv(SimRegWrite(s, name, val))
<1> DEFINE e == <<"write", name, val>>
           t == SimRegWrite(s, name, val)
<1>1. e \in EventsOver(N, V, E) /\ e[1] = "write" /\ e[2] = name /\ e[3] = val
  BY DEF EventsOver
<1>2. CASE Entries(s, name) # {}
  <2> DEFINE k == FirstEntry(s, name)
             u == [s EXCEPT !.regs[k].value = val]
  <2>1. t = Step(u, e)
    BY <1>2 DEF SimRegWrite
  <2>2. k \in Entries(s, name)
    BY <1>2, FirstEntryThere
  <2> HIDE DEF e, k
  <2>0. k \in DOMAIN s.regs
    BY <2>2 DEF Entries
  <2>3. u \in TablesOver(N, V, E) /\ u.trace = s.trace /\ u.regs = [s.regs EXCEPT ![k].value = val]
    BY <2>0, EntryWritten
  <2> HIDE DEF u
  <2>4. t \in TablesOver(N, V, E) /\ t.trace = Append(s.trace, e) /\ t.regs = [s.regs EXCEPT ![k].value = e[3]]
    BY <1>1, <2>1, <2>3, StepOver DEF StepOf
  <2> HIDE DEF t
  <2>5. TableInv(t)
    BY <1>1, <2>2, <2>4, WrittenRegister
  <2> QED BY <2>4, <2>5 DEF t
<1>3. CASE Entries(s, name) = {} /\ Len(s.regs) < MaxVRegs
  <2> DEFINE new == AddEntry(s, name, val)
  <2>1. t = Step(new, e)
    BY <1>3 DEF SimRegWrite
  <2>2. /\ new \in TablesOver(N, V, E) /\ new.trace = s.trace
        /\ new.regs = Append(s.regs, [name |-> StoredName(name), value |-> val])
    BY <1>3, EntryAdded
  <2> HIDE DEF new, e
  <2>3. /\ t \in TablesOver(N, V, E) /\ t.trace = Append(s.trace, e)
        /\ t.regs = Append(s.regs, [name |-> StoredName(e[2]), value |-> val])
    BY <1>1, <2>1, <2>2, StepOver DEF StepOf
  <2> HIDE DEF t
  <2>4. TableInv(t)
    BY <1>1, <1>3, <2>3, RegisterAdded
  <2> QED BY <2>3, <2>4 DEF t
<1>4. CASE Entries(s, name) = {} /\ ~ (Len(s.regs) < MaxVRegs)
  BY <1>4 DEF SimRegWrite
<1> QED BY <1>2, <1>3, <1>4

LEMMA TracedKept ==
  ASSUME NEW N, NEW V, NEW E, NEW s \in TablesOver(N, V, E), TableInv(s), 0 \in V, NEW e,
         e[1] \in {"read", "write"} => e[2] \in N /\ StoredName(e[2]) \in N,
         e[1] = "write" => e[3] \in V,
         e[1] \notin {"read", "write"} => e \in E
  PROVE  Traced(s, e) \in TablesOver(N, V, E) /\ TableInv(Traced(s, e))
<1>1. CASE e[1] = "read"
  BY <1>1, ReadKept DEF Traced
<1>2. CASE e[1] = "write"
  <2>1. Traced(s, e) = SimRegWrite(s, e[2], e[3])
    BY <1>2 DEF Traced
  <2> QED BY <1>2, <2>1, WriteKept
<1>3. CASE e[1] \notin {"read", "write"}
  <2>1. Traced(s, e) = Step(s, e)
    BY <1>3 DEF Traced
  <2> QED BY <1>3, <2>1, OtherKept
<1> QED BY <1>1, <1>2, <1>3

\* What a dry run that replays its trace ends with.
LEMMA ReplayKept ==
  ASSUME NEW T, NEW trace \in Seq(T)
  PROVE  TableInv(Replay(trace)) /\ \E N, V, E : Replay(trace) \in TablesOver(N, V, E)
<1> DEFINE n == Len(trace)
           N == {e[2] : e \in T} \union {StoredName(e[2]) : e \in T}
           V == {0} \union {e[3] : e \in T}
           E == {e \in T : e[1] \notin {"read", "write"}}
           S == {s \in TablesOver(N, V, E) : TableInv(s)}
           g == [k \in 1 .. n |-> [s \in S |-> Traced(s, trace[k])]]
           G(h) == [k \in 0 .. n |-> IF k = 0 THEN SimStart ELSE Traced(h[k - 1], trace[k])]
           after == CHOOSE h : h = G(h)
<1>1. n \in Nat /\ \A k \in 1 .. n : trace[k] \in T
  BY LenProperties, ElementOfSeq
<1>2. SimStart \in S
  <2>1. SimStart \in TablesOver(N, V, E)
    <3>1. <<>> \in RegistersOver(N, V) /\ <<>> \in Seq(EventsOver(N, V, E)) /\ 0 \in V
      BY EmptySeq DEF RegistersOver
    <3> HIDE DEF N, V, E
    <3> QED BY <3>1 DEF SimStart, TablesOver
  <2>2. TableInv(SimStart)
    BY MaxVRegsAssumption, EmptySeq, SMT
    DEF SimStart, TableInv, NamesStored, EntriesUnique, EntriesOutcome, EntriesThere,
        ReadsRight, AccessesIn
  <2> QED BY <2>1, <2>2
<1>3. \A k \in 1 .. n : \A s \in S : Traced(s, trace[k]) \in S
  <2> SUFFICES ASSUME NEW k \in 1 .. n, NEW s \in S PROVE Traced(s, trace[k]) \in S
    OBVIOUS
  <2> DEFINE e == trace[k]
  <2>1. e[2] \in N /\ StoredName(e[2]) \in N /\ e[3] \in V /\ (e[1] \notin {"read", "write"} => e \in E) /\ 0 \in V
    BY <1>1
  <2> HIDE DEF N, V, E, e
  <2> QED BY <2>1, TracedKept DEF e
<1> HIDE DEF S
<1>4. g \in Steps(n, S)
  BY <1>3 DEF Steps
<1>5. PICK f : f \in [0 .. n -> S] /\ f[0] = SimStart /\ \A k \in 1 .. n : f[k] = g[k][f[k - 1]]
  <2> HIDE DEF g, n
  <2>1. n \in Nat
    BY <1>1
  <2>2. \E f : IsRun(f, n, S, SimStart, g)
    BY <1>2, <1>4, <2>1, Iteration
  <2> QED BY <2>2 DEF IsRun
<1>6. \A k \in 0 .. n : k # 0 => k \in 1 .. n /\ k - 1 \in 0 .. n
  BY <1>1, SMT
<1>7. f = G(f)
  <2>1. \A k \in 0 .. n : f[k] = IF k = 0 THEN SimStart ELSE Traced(f[k - 1], trace[k])
    BY <1>5, <1>6
  <2> HIDE DEF n
  <2> QED BY <1>5, <2>1
<1>8. after = G(after)
  <2> HIDE DEF G
  <2> QED BY <1>7, Zenon
<1>9. Replay(trace) = after[n]
  BY Zenon DEF Replay
<1>10. \A k \in 0 .. n : after[k] = IF k = 0 THEN SimStart ELSE Traced(after[k - 1], trace[k])
  <2> HIDE DEF after, n
  <2> QED BY <1>8, Zenon
<1> HIDE DEF after
<1>11. after[n] \in S
  <2> DEFINE good == {k \in 0 .. n : after[k] \in S}
  <2>1. 0 \in good
    BY <1>1, <1>2, <1>10, SMT
  <2>2. ASSUME NEW k \in 0 + 1 .. n, k - 1 \in good PROVE k \in good
    <3>1. k \in 1 .. n /\ k \in 0 .. n /\ k # 0
      BY SMT
    <3> QED BY <1>3, <1>10, <2>2, <3>1
  <2>3. n \in 0 .. n
    BY <1>1, SMT
  <2> HIDE DEF good
  <2>4. \A k \in 0 .. n : k \in good
    BY <1>1, <2>1, <2>2, Upwards
  <2> QED BY <2>3, <2>4 DEF good
<1> HIDE DEF N, V, E
<1>12. after[n] \in TablesOver(N, V, E) /\ TableInv(after[n])
  BY <1>11 DEF S
<1> QED BY <1>9, <1>12, Zenon

\* The outcome of a trace is the outcome of an equal trace.
LEMMA SimulationMatches ==
  ASSUME NEW s, IsSimulation(s)
  PROVE  /\ EntriesUnique(s) /\ EntriesOutcome(s) /\ EntriesThere(s) /\ ReadsRight(s)
         /\ Len(s.regs) <= MaxVRegs
<1> DEFINE end == Replay(s.trace)
<1>1. TableInv(end) /\ end.trace = s.trace /\ end.regs = s.regs
  BY ReplayKept DEF IsSimulation
<1> HIDE DEF end
<1>2. /\ \A name : Entries(end, name) = Entries(s, name) /\ WritesTo(end, name) = WritesTo(s, name)
      /\ \A W : ValueAfter(end, W) = ValueAfter(s, W)
      /\ AccessesIn(end) = AccessesIn(s)
  BY <1>1 DEF Entries, ValueAfter, WritesTo, AccessesIn
<1>3. /\ \A name : Outcome(end, name) = Outcome(s, name)
      /\ Accessed(end) = Accessed(s)
  BY <1>1, <1>2 DEF Outcome, Accessed
<1>4. CutsIn(end) = CutsIn(s)
  BY <1>3 DEF CutsIn
<1>5. EntriesUnique(s) /\ EntriesOutcome(s) /\ EntriesThere(s) /\ Len(s.regs) <= MaxVRegs
  BY <1>1, <1>2, <1>3, <1>4 DEF TableInv, EntriesUnique, EntriesOutcome, EntriesThere
<1>6. ReadsRight(s)
  BY <1>1, <1>2, <1>4 DEF TableInv, ReadsRight
<1> QED BY <1>5, <1>6

-----------------------------------------------------------------------------
(* Chains without holes. *)

\* A set of whole nodes that nothing below them is missing from.
Closed(S) == \A node \in S : Whole(node) /\ \A c \in Chains(node) : Members(c) \subseteq S

Solid(chain) == \E S : Closed(S) /\ chain \in Seq(S)

\* A chain of n expressions.
Exprs(chain, n) ==
  Solid(chain) /\ Len(chain) = n /\ \A k \in 1 .. n : chain[k].type \in ExprTypes

\* A chain of at least n nodes whose first k are expressions.
Headed(chain, k, n) ==
  Solid(chain) /\ Len(chain) >= n /\ \A j \in 1 .. k : chain[j].type \in ExprTypes

LEMMA ClosedUnion ==
  ASSUME NEW S, NEW T, Closed(S), Closed(T)
  PROVE  Closed(S \union T)
BY DEF Closed

LEMMA SolidLen ==
  ASSUME NEW chain, Solid(chain)
  PROVE  Len(chain) \in Nat /\ DOMAIN chain = 1 .. Len(chain) /\ (chain # <<>> => Len(chain) # 0)
         /\ (Len(chain) # 0 => chain # <<>>)
<1>1. PICK S : chain \in Seq(S)
  BY DEF Solid
<1> QED BY <1>1, LenProperties, EmptySeq

LEMMA SolidEmpty == Exprs(<<>>, 0) /\ Solid(<<>>)
<1>1. Closed({}) /\ <<>> \in Seq({}) /\ Len(<<>>) = 0
  BY EmptySeq DEF Closed
<1>2. Solid(<<>>)
  BY <1>1 DEF Solid
<1>3. 1 .. 0 = {}
  BY SMT
<1> QED BY <1>1, <1>2, <1>3 DEF Exprs

LEMMA SolidConcat ==
  ASSUME NEW a, NEW b, Solid(a), Solid(b)
  PROVE  /\ Solid(a \o b)
         /\ Len(a \o b) = Len(a) + Len(b)
         /\ \A k \in 1 .. Len(a) : (a \o b)[k] = a[k]
         /\ \A k \in 1 .. Len(b) : (a \o b)[Len(a) + k] = b[k]
<1>1. PICK S : Closed(S) /\ a \in Seq(S)
  BY DEF Solid
<1>2. PICK T : Closed(T) /\ b \in Seq(T)
  BY DEF Solid
<1> DEFINE U == S \union T
<1>3. Closed(U)
  BY <1>1, <1>2, ClosedUnion
<1>4. a \in Seq(U)
  BY <1>1, SeqMonotonic
<1>5. b \in Seq(U)
  BY <1>2, SeqMonotonic
<1> HIDE DEF U
<1>6. a \o b \in Seq(U) /\ Len(a \o b) = Len(a) + Len(b)
  BY <1>4, <1>5, ConcatProperties
<1>7. Len(a) \in Nat /\ Len(b) \in Nat
  BY <1>4, <1>5, LenProperties
<1>8. \A k \in 1 .. Len(a) + Len(b) :
        (a \o b)[k] = IF k <= Len(a) THEN a[k] ELSE b[k - Len(a)]
  BY <1>4, <1>5, ConcatProperties
<1>9. \A k \in 1 .. Len(a) : k \in 1 .. Len(a) + Len(b) /\ k <= Len(a)
  BY <1>7, SMT
<1>10. \A k \in 1 .. Len(b) : /\ Len(a) + k \in 1 .. Len(a) + Len(b)
                              /\ ~ (Len(a) + k <= Len(a)) /\ (Len(a) + k) - Len(a) = k
  BY <1>7, SMT
<1> QED BY <1>3, <1>6, <1>8, <1>9, <1>10 DEF Solid

\* A whole node above solid chains.
LEMMA SolidNode ==
  ASSUME NEW node, Whole(node), \A c \in Chains(node) : Solid(c), NEW S, Closed(S),
         \A c \in Chains(node) : Members(c) \subseteq S
  PROVE  Solid(<<node>>)
<1> DEFINE T == S \union {node}
<1>1. Closed(T)
  BY DEF Closed
<1>2. <<node>> \in Seq(T)
  BY SMT
<1> QED BY <1>1, <1>2, Zenon DEF Solid

LEMMA MembersOf ==
  ASSUME NEW S, NEW chain \in Seq(S)
  PROVE  Members(chain) \subseteq S
<1>1. \A k \in DOMAIN chain : chain[k] \in S
  BY LenProperties, ElementOfSeq
<1> QED BY <1>1 DEF Members

\* An expression that is made of one or two operands.
LEMMA OperandOf ==
  ASSUME NEW chain, Exprs(chain, 1)
  PROVE  Operand(chain) /\ Solid(chain)
<1>1. 1 \in 1 .. 1
  BY SMT
<1> QED BY <1>1 DEF Exprs, Operand

LEMMA SingleExpr ==
  ASSUME NEW node, Solid(<<node>>), node.type \in ExprTypes
  PROVE  Exprs(<<node>>, 1)
<1>1. Len(<<node>>) = 1 /\ \A k \in 1 .. 1 : <<node>>[k] = node
  BY SMT
<1> QED BY <1>1 DEF Exprs

\* A leaf of an expression.
LEMMA LeafExpr ==
  ASSUME NEW node, node.type \in ExprTypes \ {"BINOP", "UNOP", "READ"}
  PROVE  Exprs(<<node>>, 1)
<1>1. Chains(node) = {}
  BY DEF Chains, ExprTypes
<1>2. Whole(node)
  BY <1>1 DEF Whole
<1>3. Closed({})
  BY DEF Closed
<1> QED BY <1>1, <1>2, <1>3, SolidNode, SingleExpr

LEMMA ReadWhole ==
  ASSUME NEW path, Exprs(path, 1)
  PROVE  Exprs(<<ReadExpr(path)>>, 1)
<1> DEFINE node == ReadExpr(path)
<1>1. node.type = "READ" /\ Chains(node) = {path}
  BY DEF ReadExpr, Chains
<1>2. PICK S : Closed(S) /\ path \in Seq(S)
  BY DEF Exprs, Solid
<1>3. Whole(node)
  BY <1>1, OperandOf DEF Whole, ExprTypes
<1> HIDE DEF node
<1>4. Solid(<<node>>)
  BY <1>1, <1>2, <1>3, MembersOf, OperandOf, SolidNode
<1> QED BY <1>1, <1>4, SingleExpr DEF node, ExprTypes

LEMMA UnOpWhole ==
  ASSUME NEW op, NEW operand, Exprs(operand, 1)
  PROVE  Exprs(<<UnOp(op, operand)>>, 1)
<1> DEFINE node == UnOp(op, operand)
<1>1. node.type = "UNOP" /\ Chains(node) = {operand}
  BY DEF UnOp, Chains
<1>2. PICK S : Closed(S) /\ operand \in Seq(S)
  BY DEF Exprs, Solid
<1>3. Whole(node)
  BY <1>1, OperandOf DEF Whole, ExprTypes
<1> HIDE DEF node
<1>4. Solid(<<node>>)
  BY <1>1, <1>2, <1>3, MembersOf, OperandOf, SolidNode
<1> QED BY <1>1, <1>4, SingleExpr DEF node, ExprTypes

LEMMA BinOpWhole ==
  ASSUME NEW op, NEW lhs, NEW rhs, Exprs(lhs, 1), Exprs(rhs, 1)
  PROVE  Exprs(<<BinOp(op, lhs, rhs)>>, 1)
<1> DEFINE node == BinOp(op, lhs, rhs)
<1>1. node.type = "BINOP" /\ Chains(node) = {lhs, rhs}
  BY DEF BinOp, Chains
<1>2. PICK S : Closed(S) /\ lhs \in Seq(S)
  BY DEF Exprs, Solid
<1>3. PICK T : Closed(T) /\ rhs \in Seq(T)
  BY DEF Exprs, Solid
<1>4. Closed(S \union T)
  BY <1>2, <1>3, ClosedUnion
<1>5. Whole(node)
  BY <1>1, OperandOf DEF Whole, ExprTypes
<1> HIDE DEF node
<1>6. \A c \in Chains(node) : Members(c) \subseteq S \union T
  BY <1>1, <1>2, <1>3, MembersOf
<1>7. Solid(<<node>>)
  BY <1>1, <1>4, <1>5, <1>6, OperandOf, SolidNode
<1> QED BY <1>1, <1>7, SingleExpr DEF node, ExprTypes

\* Expressions after expressions.
LEMMA MoreExprs ==
  ASSUME NEW a, NEW b, NEW n \in Nat, NEW m \in Nat, Exprs(a, n), Exprs(b, m)
  PROVE  Exprs(a \o b, n + m)
<1>1. Solid(a) /\ Solid(b) /\ Len(a) = n /\ Len(b) = m
  BY DEF Exprs
<1>2. /\ Solid(a \o b) /\ Len(a \o b) = n + m
      /\ \A k \in 1 .. n : (a \o b)[k] = a[k]
      /\ \A k \in 1 .. m : (a \o b)[n + k] = b[k]
  BY <1>1, SolidConcat
<1>3. \A k \in 1 .. n + m : k \in 1 .. n \/ (k - n \in 1 .. m /\ k = n + (k - n))
  BY SMT
<1>4. \A k \in 1 .. n + m : (a \o b)[k].type \in ExprTypes
  <2> SUFFICES ASSUME NEW k \in 1 .. n + m PROVE (a \o b)[k].type \in ExprTypes
    OBVIOUS
  <2>1. CASE k \in 1 .. n
    BY <1>2, <2>1 DEF Exprs
  <2>2. CASE k - n \in 1 .. m /\ k = n + (k - n)
    BY <1>2, <2>2 DEF Exprs
  <2> QED BY <1>3, <2>1, <2>2
<1> QED BY <1>2, <1>4 DEF Exprs

\* One more expression.
LEMMA OneMoreExpr ==
  ASSUME NEW a, NEW b, NEW n \in Nat, Exprs(a, n), Exprs(b, 1)
  PROVE  Exprs(a \o b, n + 1)
<1>1. 1 \in Nat
  BY SMT
<1> QED BY <1>1, MoreExprs

\* Nodes after a chain that begins with expressions.
LEMMA HeadedConcat ==
  ASSUME NEW a, NEW b, NEW k \in Nat, NEW n \in Nat, Headed(a, k, n), k <= n,
         Solid(b), NEW m \in Nat, Len(b) >= m
  PROVE  Headed(a \o b, k, n + m)
<1>1. Solid(a) /\ Len(a) >= n /\ Len(a) \in Nat /\ Len(b) \in Nat
  BY SolidLen DEF Headed
<1>2. /\ Solid(a \o b) /\ Len(a \o b) = Len(a) + Len(b)
      /\ \A j \in 1 .. Len(a) : (a \o b)[j] = a[j]
  BY <1>1, SolidConcat
<1>3. (\A j \in 1 .. k : j \in 1 .. Len(a)) /\ Len(a) + Len(b) >= n + m
  BY <1>1, SMT
<1> QED BY <1>2, <1>3 DEF Headed

\* A statement above its children.
LEMMA SolidStatement ==
  ASSUME NEW type, type \notin ExprTypes, NEW child, Solid(child),
         Len(child) \in Arity(Node(type, child)),
         \A k \in 1 .. Operands(Node(type, child)) : child[k].type \in ExprTypes
  PROVE  Solid(<<Node(type, child)>>)
<1> DEFINE node == Node(type, child)
<1>1. node.type = type /\ node.child = child
  BY DEF Node
<1>2. Chains(node) = {child}
  <2> HIDE DEF node
  <2> QED BY <1>1 DEF Chains, ExprTypes
<1>3. PICK S : Closed(S) /\ child \in Seq(S)
  BY DEF Solid
<1>4. Whole(node)
  BY <1>1 DEF Whole
<1> HIDE DEF node
<1>5. Solid(<<node>>)
  BY <1>2, <1>3, <1>4, MembersOf, SolidNode
<1> QED BY <1>5 DEF node

\* The nodes of a solid chain at every level are whole.
LEMMA SolidWhole ==
  ASSUME NEW chain, Solid(chain)
  PROVE  WholeChain(chain)
<1>1. PICK S : Closed(S) /\ chain \in Seq(S)
  BY DEF Solid
<1> DEFINE n == MaxDepth
           P == SUBSET S
           a == Members(chain)
           g == [d \in 1 .. n |-> [X \in P |-> Below(X)]]
           G(h) == [d \in 0 .. n |-> IF d = 0 THEN a ELSE Below(h[d - 1])]
           level == CHOOSE h : h = G(h)
<1>2. n \in Nat /\ a \in P
  BY <1>1, MembersOf, MaxDepthAssumption
<1>3. \A X \in P : Below(X) \in P
  BY <1>1 DEF Below, Closed
<1>4. g \in Steps(n, P)
  BY <1>3 DEF Steps
<1> HIDE DEF P, a
<1>5. PICK f : f \in [0 .. n -> P] /\ f[0] = a /\ \A d \in 1 .. n : f[d] = g[d][f[d - 1]]
  <2> HIDE DEF g, n
  <2>1. \E f : IsRun(f, n, P, a, g)
    BY <1>2, <1>4, Iteration
  <2> QED BY <2>1 DEF IsRun
<1>6. \A d \in 0 .. n : d # 0 => d \in 1 .. n /\ d - 1 \in 0 .. n
  BY <1>2, SMT
<1>7. f = G(f)
  <2>1. \A d \in 0 .. n : f[d] = IF d = 0 THEN a ELSE Below(f[d - 1])
    BY <1>5, <1>6
  <2> HIDE DEF n
  <2> QED BY <1>5, <2>1
<1>8. level = G(level)
  <2> HIDE DEF G
  <2> QED BY <1>7, Zenon
<1>9. Levels(chain) = level
  BY Zenon DEF Levels, a
<1>10. \A d \in 0 .. n : level[d] = IF d = 0 THEN a ELSE Below(level[d - 1])
  <2> HIDE DEF level, n
  <2> QED BY <1>8, Zenon
<1> HIDE DEF level
<1>11. \A d \in 0 .. n : level[d] \in P
  <2> DEFINE good == {d \in 0 .. n : level[d] \in P}
  <2>1. 0 \in good
    BY <1>2, <1>10, SMT
  <2>2. ASSUME NEW d \in 0 + 1 .. n, d - 1 \in good PROVE d \in good
    <3>1. d \in 0 .. n /\ d # 0
      BY SMT
    <3> QED BY <1>3, <1>10, <2>2, <3>1
  <2> HIDE DEF good
  <2>3. \A d \in 0 .. n : d \in good
    BY <1>2, <2>1, <2>2, Upwards
  <2> QED BY <2>3 DEF good
<1> QED BY <1>1, <1>9, <1>11 DEF WholeChain, Closed, P

-----------------------------------------------------------------------------
(* Parser states and the cursor. *)

\* A driver record whose blocks have no holes.
GoodDriver(d) ==
  /\ d = [has |-> d.has, probe |-> d.probe, remove |-> d.remove, handlers |-> d.handlers]
  /\ Solid(d.probe) /\ Solid(d.remove)
  /\ \E H : d.handlers \in Seq(H) /\ \A h \in H : Solid(h.body)

\* What a call returns if no error was reported.
Delivers(c, out) ==
  /\ c[1] = "expr" => Exprs(out, 1)
  /\ c[1] = "args" => \E n \in Nat : Exprs(out, n)
  /\ c[1] \in {"elif", "list"} => Solid(out)
  /\ c[1] = "body" => GoodDriver(out)

\* The return from a call c at position j.
GoodReturn(tokens, j, c, r) ==
  /\ r.pos \in j .. Len(tokens)
  /\ r.had_error \in BOOLEAN
  /\ ~ r.had_error => Delivers(c, r.out)

GoodTable(tokens, later) ==
  \A j \in DOMAIN later : \A c \in Calls : GoodReturn(tokens, j, c, later[j][c])

\* Tokens as kdal_lex leaves them, of whatever kind.
EndsWithEof(tokens) ==
  /\ \E S : tokens \in Seq(S)
  /\ tokens # <<>> /\ tokens[Len(tokens)] = "EOF"

\* The states of a parser whose calls at later positions return as they should.
State(p) ==
  /\ EndsWithEof(p.tokens)
  /\ p \in [tokens : {p.tokens}, pos : 1 .. Len(p.tokens), had_error : BOOLEAN,
            out : {p.out}, later : {p.later}]
  /\ DOMAIN p.later \subseteq Nat
  /\ \A j \in p.pos + 1 .. Len(p.tokens) : j \in DOMAIN p.later
  /\ GoodTable(p.tokens, p.later)

\* A state that a parse function leads to from p.
Follows(p, q) ==
  /\ State(q)
  /\ q.tokens = p.tokens /\ q.later = p.later
  /\ q.pos >= p.pos
  /\ p.had_error => q.had_error

\* At a later position, where the calls may be made.
Ready(p) == p.pos \in DOMAIN p.later

LEMMA FileEnd ==
  ASSUME NEW tokens, EndsWithEof(tokens)
  PROVE  /\ Len(tokens) \in Nat /\ Len(tokens) >= 1 /\ DOMAIN tokens = 1 .. Len(tokens)
         /\ tokens[Len(tokens)] = "EOF"
         /\ \A k \in 1 .. Len(tokens) : tokens[k] # "EOF" => k + 1 \in 1 .. Len(tokens)
<1>1. Len(tokens) \in Nat /\ Len(tokens) # 0 /\ DOMAIN tokens = 1 .. Len(tokens)
  BY LenProperties, EmptySeq DEF EndsWithEof
<1>2. tokens[Len(tokens)] = "EOF"
  BY DEF EndsWithEof
<1>3. Len(tokens) >= 1 /\ \A k \in 1 .. Len(tokens) : k # Len(tokens) => k + 1 \in 1 .. Len(tokens)
  <2> DEFINE n == Len(tokens)
  <2> HIDE DEF n
  <2>1. n \in Nat /\ n # 0 => n >= 1 /\ \A k \in 1 .. n : k # n => k + 1 \in 1 .. n
    BY SMT
  <2> QED BY <1>1, <2>1 DEF n
<1> QED BY <1>1, <1>2, <1>3

LEMMA StateFields ==
  ASSUME NEW p, State(p)
  PROVE  /\ p.pos \in 1 .. Len(p.tokens) /\ p.pos \in Nat
         /\ Len(p.tokens) \in Nat
         /\ p.had_error \in BOOLEAN
         /\ Follows(p, p)
<1>1. p.pos \in 1 .. Len(p.tokens) /\ p.had_error \in BOOLEAN
  BY DEF State
<1>2. Len(p.tokens) \in Nat
  BY FileEnd DEF State
<1> QED BY <1>1, <1>2, SMT DEF Follows

LEMMA FollowsTrans ==
  ASSUME NEW p, NEW q, NEW r, State(p), Follows(p, q), Follows(q, r)
  PROVE  Follows(p, r)
<1>1. p.pos \in Nat /\ q.pos \in Nat /\ r.pos \in Nat
  BY StateFields DEF Follows
<1> QED BY <1>1, SMT DEF Follows

\* A state with another position, error flag and chain.
LEMMA StateOf ==
  ASSUME NEW p, State(p), NEW q, NEW i \in p.pos .. Len(p.tokens), NEW e \in BOOLEAN, NEW o,
         q = [tokens |-> p.tokens, pos |-> i, had_error |-> e, out |-> o, later |-> p.later],
         p.had_error => e
  PROVE  Follows(p, q)
<1>1. /\ q.tokens = p.tokens /\ q.pos = i /\ q.had_error = e /\ q.out = o /\ q.later = p.later
  OBVIOUS
<1>2. p.pos \in Nat /\ Len(p.tokens) \in Nat /\ p.pos \in 1 .. Len(p.tokens)
  BY StateFields
<1>3. i \in 1 .. Len(p.tokens) /\ i >= p.pos /\ \A j \in i + 1 .. Len(p.tokens) : j \in p.pos + 1 .. Len(p.tokens)
  BY <1>2, SMT
<1>4. q \in [tokens : {q.tokens}, pos : 1 .. Len(q.tokens), had_error : BOOLEAN,
             out : {q.out}, later : {q.later}]
  BY <1>1, <1>3
<1>5. State(q)
  <2>1. \A j \in q.pos + 1 .. Len(q.tokens) : j \in DOMAIN q.later
    BY <1>1, <1>3 DEF State
  <2> QED BY <1>1, <1>4, <2>1 DEF State
<1> QED BY <1>1, <1>3, <1>5 DEF Follows

LEMMA Record ==
  ASSUME NEW p, State(p)
  PROVE  /\ \A i : [p EXCEPT !.pos = i] =
              [tokens |-> p.tokens, pos |-> i, had_error |-> p.had_error, out |-> p.out, later |-> p.later]
         /\ \A o : [p EXCEPT !.out = o] =
              [tokens |-> p.tokens, pos |-> p.pos, had_error |-> p.had_error, out |-> o, later |-> p.later]
         /\ \A e : [p EXCEPT !.had_error = e] =
              [tokens |-> p.tokens, pos |-> p.pos, had_error |-> e, out |-> p.out, later |-> p.later]
<1> DEFINE tokens == p.tokens
           pos == p.pos
           had_error == p.had_error
           out == p.out
           later == p.later
<1>1. p \in [tokens : {tokens}, pos : 1 .. Len(tokens), had_error : BOOLEAN,
             out : {out}, later : {later}]
  BY DEF State
<1>2. p = [tokens |-> tokens, pos |-> pos, had_error |-> had_error, out |-> out, later |-> later]
  BY <1>1
<1> HIDE DEF tokens, pos, had_error, out, later
<1>3. \A i : [p EXCEPT !.pos = i] =
        [tokens |-> tokens, pos |-> i, had_error |-> had_error, out |-> out, later |-> later]
  BY <1>2
<1>4. \A o : [p EXCEPT !.out = o] =
        [tokens |-> tokens, pos |-> pos, had_error |-> had_error, out |-> o, later |-> later]
  BY <1>2
<1>5. \A e : [p EXCEPT !.had_error = e] =
        [tokens |-> tokens, pos |-> pos, had_error |-> e, out |-> out, later |-> later]
  BY <1>2
<1> QED BY <1>3, <1>4, <1>5 DEF tokens, pos, had_error, out, later

LEMMA ReadyKept ==
  ASSUME NEW p, NEW q, State(p), Ready(p), Follows(p, q)
  PROVE  Ready(q)
<1>1. /\ p.pos \in Nat /\ q.pos \in Nat /\ q.pos >= p.pos /\ q.pos \in 1 .. Len(p.tokens)
      /\ q.later = p.later /\ Len(p.tokens) \in Nat
  BY StateFields DEF Follows
<1>2. q.pos = p.pos \/ q.pos \in p.pos + 1 .. Len(p.tokens)
  BY <1>1, SMT
<1> QED BY <1>1, <1>2 DEF Ready, State

\* No token that is told by its type is the end of the file, unless it is asked for.
LEMMA NotEof ==
  ASSUME NEW p, NEW type, Is(p, type), type # "EOF"
  PROVE  Cur(p) # "EOF"
BY EofAssumption DEF Is, TokenType

LEMMA Advanced ==
  ASSUME NEW p, State(p)
  PROVE  /\ Follows(p, Advance(p))
         /\ Advance(p).out = p.out /\ Advance(p).had_error = p.had_error
         /\ Cur(p) # "EOF" => Advance(p).pos = p.pos + 1 /\ Ready(Advance(p))
<1> DEFINE n == Len(p.tokens)
           i == IF p.pos < n THEN p.pos + 1 ELSE p.pos
           q == [tokens |-> p.tokens, pos |-> i, had_error |-> p.had_error, out |-> p.out,
                 later |-> p.later]
<1>1. p.pos \in 1 .. n /\ n \in Nat /\ p.had_error \in BOOLEAN
  BY StateFields
<1>2. Advance(p) = q
  BY Record DEF Advance
<1>3. i \in p.pos .. n
  <2> HIDE DEF n
  <2> QED BY <1>1, SMT
<1>4. Follows(p, q)
  <2> HIDE DEF i
  <2> QED BY <1>1, <1>3, StateOf
<1>5. ASSUME Cur(p) # "EOF" PROVE i = p.pos + 1 /\ i \in p.pos + 1 .. n
  <2>1. p.pos # n
    BY <1>5, FileEnd DEF State, Cur
  <2> HIDE DEF n
  <2> QED BY <1>1, <2>1, SMT
<1>6. q.pos = i /\ q.out = p.out /\ q.had_error = p.had_error /\ q.later = p.later
  OBVIOUS
<1> HIDE DEF q, i
<1> QED BY <1>2, <1>4, <1>5, <1>6 DEF Ready, State

LEMMA Given ==
  ASSUME NEW p, State(p), NEW o
  PROVE  /\ Follows(p, Give(p, o)) /\ Give(p, o).out = o
         /\ Give(p, o).had_error = p.had_error /\ Give(p, o).pos = p.pos
         /\ Give(p, o).tokens = p.tokens
<1> DEFINE q == [tokens |-> p.tokens, pos |-> p.pos, had_error |-> p.had_error, out |-> o,
                 later |-> p.later]
<1>1. Give(p, o) = q
  BY Record DEF Give
<1>2. p.pos \in p.pos .. Len(p.tokens) /\ p.had_error \in BOOLEAN
  BY StateFields, SMT
<1>3. Follows(p, q)
  BY <1>2, StateOf
<1> QED BY <1>1, <1>3

LEMMA Failed ==
  ASSUME NEW p, State(p)
  PROVE  /\ Follows(p, Fail(p))
         /\ Fail(p).had_error = TRUE /\ Fail(p).pos = p.pos /\ Fail(p).out = <<>>
<1> DEFINE f == [p EXCEPT !.had_error = TRUE]
           q == [tokens |-> p.tokens, pos |-> p.pos, had_error |-> TRUE, out |-> p.out,
                 later |-> p.later]
<1>1. Fail(p) = Give(f, <<>>) /\ f = q
  BY Record DEF Fail, Give
<1>2. p.pos \in p.pos .. Len(p.tokens) /\ TRUE \in BOOLEAN
  BY StateFields, SMT
<1>3. Follows(p, q)
  BY <1>2, StateOf
<1>4. q.had_error = TRUE /\ q.pos = p.pos
  OBVIOUS
<1> HIDE DEF f, q
<1>5. Follows(q, Give(q, <<>>)) /\ Give(q, <<>>).out = <<>>
      /\ Give(q, <<>>).had_error = TRUE /\ Give(q, <<>>).pos = p.pos
  BY <1>3, <1>4, Given DEF Follows
<1> QED BY <1>1, <1>3, <1>5, FollowsTrans

LEMMA Expected ==
  ASSUME NEW p, State(p), NEW type
  PROVE  Follows(p, Expect(p, type)) /\ Expect(p, type).out = p.out
<1>1. CASE Is(p, type)
  BY <1>1, Advanced DEF Expect
<1>2. CASE ~ Is(p, type)
  <2> DEFINE q == [tokens |-> p.tokens, pos |-> p.pos, had_error |-> TRUE, out |-> p.out,
                   later |-> p.later]
  <2>1. Expect(p, type) = q
    BY <1>2, Record DEF Expect
  <2>2. p.pos \in p.pos .. Len(p.tokens) /\ TRUE \in BOOLEAN
    BY StateFields, SMT
  <2>3. Follows(p, q)
    BY <2>2, StateOf
  <2> QED BY <2>1, <2>3
<1> QED BY <1>1, <1>2

LEMMA ReturnedGood ==
  ASSUME NEW p, State(p), Ready(p), NEW c \in Calls
  PROVE  /\ Follows(p, Returned(p, c))
         /\ ~ Returned(p, c).had_error => Delivers(c, Returned(p, c).out) /\ ~ p.had_error
<1> DEFINE r == p.later[p.pos][c]
           e == p.had_error \/ r.had_error
           q == [tokens |-> p.tokens, pos |-> r.pos, had_error |-> e, out |-> r.out,
                 later |-> p.later]
<1>1. Returned(p, c) = q
  <2> DEFINE f == [p EXCEPT !.pos = r.pos]
             g == [f EXCEPT !.had_error = e]
  <2>1. Returned(p, c) = [g EXCEPT !.out = r.out]
    BY DEF Returned
  <2> HIDE DEF r, e
  <2>2. f = [tokens |-> p.tokens, pos |-> r.pos, had_error |-> p.had_error, out |-> p.out,
             later |-> p.later]
    BY Record
  <2> HIDE DEF f
  <2>3. g = [tokens |-> p.tokens, pos |-> r.pos, had_error |-> e, out |-> p.out,
             later |-> p.later]
    BY <2>2
  <2> HIDE DEF g
  <2>4. [g EXCEPT !.out = r.out] = q
    BY <2>3
  <2> QED BY <2>1, <2>4
<1>2. GoodReturn(p.tokens, p.pos, c, r)
  BY DEF State, GoodTable, Ready
<1> HIDE DEF r
<1>3. r.pos \in p.pos .. Len(p.tokens) /\ e \in BOOLEAN /\ (p.had_error => e)
  BY <1>2, StateFields DEF GoodReturn
<1>4. ~ e => Delivers(c, r.out) /\ ~ p.had_error
  BY <1>2 DEF GoodReturn
<1>5. Follows(p, q)
  <2> HIDE DEF e
  <2> QED BY <1>3, StateOf
<1>6. q.had_error = e /\ q.out = r.out
  OBVIOUS
<1> HIDE DEF q, e
<1> QED BY <1>1, <1>4, <1>5, <1>6

LEMMA ThenGood ==
  ASSUME NEW p, State(p), Ready(p), NEW c \in Calls
  PROVE  /\ Follows(p, Then(p, c))
         /\ ~ Then(p, c).had_error => ~ p.had_error /\
              \E o : Delivers(c, o) /\ Then(p, c).out = p.out \o o
<1> DEFINE q == Returned(p, c)
           r == Give(q, p.out \o q.out)
<1>1. Follows(p, q) /\ (~ q.had_error => Delivers(c, q.out) /\ ~ p.had_error)
  BY ReturnedGood
<1>2. State(q)
  BY <1>1 DEF Follows
<1>3. Then(p, c) = r
  BY DEF Then, Give
<1> HIDE DEF q
<1>4. Follows(q, r) /\ r.out = p.out \o q.out /\ r.had_error = q.had_error
  BY <1>2, Given
<1> HIDE DEF r
<1>5. Follows(p, r)
  BY <1>1, <1>4, FollowsTrans
<1> QED BY <1>1, <1>3, <1>4, <1>5

-----------------------------------------------------------------------------
(* Expressions. *)

\* A later state with n expressions, unless an error was reported.
Holds(p, q, n) ==
  Follows(p, q) /\ Ready(q) /\ (~ q.had_error => Exprs(q.out, n))

LEMMA HoldsState ==
  ASSUME NEW p, NEW q, NEW n, Holds(p, q, n)
  PROVE  State(q) /\ Ready(q) /\ Follows(p, q)
BY DEF Holds, Follows

LEMMA HoldsExpect ==
  ASSUME NEW p, State(p), NEW q, NEW n, Holds(p, q, n), NEW type
  PROVE  Holds(p, Expect(q, type), n)
<1>1. State(q) /\ Ready(q) /\ Follows(p, q)
  BY HoldsState
<1>2. Follows(q, Expect(q, type)) /\ Expect(q, type).out = q.out
  BY <1>1, Expected
<1>3. Follows(p, Expect(q, type)) /\ Ready(Expect(q, type))
  BY <1>1, <1>2, FollowsTrans, ReadyKept
<1>4. ~ Expect(q, type).had_error => ~ q.had_error
  BY <1>2 DEF Follows
<1> QED BY <1>2, <1>3, <1>4 DEF Holds

LEMMA HoldsAdvance ==
  ASSUME NEW p, State(p), NEW q, NEW n, Holds(p, q, n)
  PROVE  Holds(p, Advance(q), n)
<1>1. State(q) /\ Ready(q) /\ Follows(p, q)
  BY HoldsState
<1>2. Follows(q, Advance(q)) /\ Advance(q).out = q.out /\ Advance(q).had_error = q.had_error
  BY <1>1, Advanced
<1>3. Follows(p, Advance(q)) /\ Ready(Advance(q))
  BY <1>1, <1>2, FollowsTrans, ReadyKept
<1> QED BY <1>2, <1>3 DEF Holds

\* A chain that is given to a later state.
LEMMA GivenTo ==
  ASSUME NEW p, State(p), NEW q, Follows(p, q), Ready(q), NEW chain
  PROVE  /\ Follows(p, Give(q, chain)) /\ Ready(Give(q, chain))
         /\ Give(q, chain).had_error = q.had_error /\ Give(q, chain).out = chain
<1>1. State(q)
  BY DEF Follows
<1>2. Follows(q, Give(q, chain)) /\ Give(q, chain).out = chain
      /\ Give(q, chain).had_error = q.had_error
  BY <1>1, Given
<1>3. Follows(p, Give(q, chain)) /\ Ready(Give(q, chain))
  BY <1>1, <1>2, FollowsTrans, ReadyKept
<1> QED BY <1>2, <1>3

LEMMA HoldsGiven ==
  ASSUME NEW p, State(p), NEW q, Follows(p, q), Ready(q), NEW chain, NEW n,
         ~ q.had_error => Exprs(chain, n)
  PROVE  Holds(p, Give(q, chain), n)
BY GivenTo DEF Holds

\* The word that a construct begins with.
LEMMA Begun ==
  ASSUME NEW p, State(p), Cur(p) # "EOF"
  PROVE  Follows(p, Advance(p)) /\ Ready(Advance(p)) /\ State(Advance(p))
BY Advanced DEF Follows

LEMMA ExprReturned ==
  ASSUME NEW p, State(p), NEW q, Follows(p, q), Ready(q), NEW m \in 1 .. 11
  PROVE  Holds(p, ExprPrec(q, m), 1)
<1> DEFINE c == <<"expr", m>>
<1>1. State(q) /\ c \in Calls /\ c[1] = "expr"
  BY DEF Follows, Calls
<1> HIDE DEF c
<1>2. /\ Follows(q, Returned(q, c))
      /\ ~ Returned(q, c).had_error => Delivers(c, Returned(q, c).out)
  BY <1>1, ReturnedGood
<1>3. Follows(p, Returned(q, c)) /\ Ready(Returned(q, c))
  BY <1>1, <1>2, FollowsTrans, ReadyKept
<1>4. ExprPrec(q, m) = Returned(q, c)
  BY DEF ExprPrec, c
<1> QED BY <1>1, <1>2, <1>3, <1>4 DEF Holds, Delivers

LEMMA HoldsAddExpr ==
  ASSUME NEW p, State(p), NEW q, NEW n \in Nat, Holds(p, q, n)
  PROVE  Holds(p, AddExpr(q), n + 1)
<1>1. State(q) /\ Ready(q) /\ Follows(p, q)
  BY HoldsState
<1>2. 1 \in 1 .. 11
  BY SMT
<1>3. Follows(q, q)
  BY <1>1, StateFields
<1> DEFINE r == Expr(q)
<1>4. Holds(q, r, 1)
  BY <1>1, <1>2, <1>3, ExprReturned DEF Expr
<1>5. AddExpr(q) = Give(r, q.out \o r.out)
  BY DEF AddExpr, Give
<1> HIDE DEF r
<1>6. Follows(q, r) /\ Ready(r)
  BY <1>4 DEF Holds
<1>7. Follows(p, r)
  BY <1>1, <1>6, FollowsTrans
<1>8. ASSUME ~ r.had_error PROVE Exprs(q.out \o r.out, n + 1)
  <2>1. ~ q.had_error
    BY <1>6, <1>8 DEF Follows
  <2>2. Exprs(q.out, n) /\ Exprs(r.out, 1)
    BY <1>4, <1>8, <2>1 DEF Holds
  <2> QED BY <2>2, OneMoreExpr
<1>9. Holds(p, Give(r, q.out \o r.out), n + 1)
  BY <1>6, <1>7, <1>8, HoldsGiven
<1> QED BY <1>5, <1>9

\* A register path takes at least one token.
LEMMA PathPartGood ==
  ASSUME NEW p, State(p)
  PROVE  Follows(p, PathPart(p))
<1>1. CASE ~ (Is(p, ".") /\ TokenType(Peek(p, 1)) = "IDENT")
  BY <1>1, StateFields DEF PathPart
<1>2. CASE Is(p, ".") /\ TokenType(Peek(p, 1)) = "IDENT"
  <2> DEFINE q == Advance(p)
             r == Advance(q)
             chain == Append(r.out, Peek(p, 1))
  <2>1. PathPart(p) = Give(r, chain)
    BY <1>2 DEF PathPart, Give
  <2>2. Follows(p, q) /\ State(q)
    BY Advanced DEF Follows
  <2> HIDE DEF q
  <2>3. Follows(q, r) /\ State(r)
    BY <2>2, Advanced DEF Follows
  <2> HIDE DEF r, chain
  <2>4. Follows(r, Give(r, chain))
    BY <2>3, Given
  <2>5. Follows(p, r)
    BY <2>2, <2>3, FollowsTrans
  <2> QED BY <2>1, <2>4, <2>5, FollowsTrans
<1> QED BY <1>1, <1>2

LEMMA RegisterPathGood ==
  ASSUME NEW p, State(p), Cur(p) # "EOF"
  PROVE  Holds(p, RegisterPath(p), 1)
<1> DEFINE q0 == Give(Advance(p), <<Cur(p)>>)
           q1 == PathPart(q0)
           q2 == PathPart(q1)
           q3 == PathPart(q2)
           node == IF Len(q3.out) > 1 THEN RegPath(q3.out) ELSE Ident(q3.out[1])
<1>1. RegisterPath(p) = Give(q3, <<node>>)
  BY DEF RegisterPath
<1>2. node.type \in ExprTypes \ {"BINOP", "UNOP", "READ"}
  BY DEF RegPath, Ident, ExprTypes
<1> HIDE DEF node
<1>3. Follows(p, q0) /\ Ready(q0) /\ State(q0)
  BY Begun, GivenTo DEF Follows
<1> HIDE DEF q0
<1>4. Follows(q0, q1) /\ State(q1)
  BY <1>3, PathPartGood DEF Follows
<1> HIDE DEF q1
<1>5. Follows(q1, q2) /\ State(q2)
  BY <1>4, PathPartGood DEF Follows
<1> HIDE DEF q2
<1>6. Follows(q2, q3) /\ State(q3)
  BY <1>5, PathPartGood DEF Follows
<1> HIDE DEF q3
<1>7. Follows(q0, q3)
  BY <1>3, <1>4, <1>5, <1>6, FollowsTrans
<1>8. Follows(p, q3) /\ Ready(q3)
  BY <1>3, <1>7, FollowsTrans, ReadyKept
<1>9. Exprs(<<node>>, 1)
  BY <1>2, LeafExpr
<1> QED BY <1>1, <1>8, <1>9, HoldsGiven

\* parse_primary: one expression, or an error; a token is taken but at the end.
LEMMA PrimaryGood ==
  ASSUME NEW p, State(p)
  PROVE  /\ Follows(p, Primary(p))
         /\ ~ Primary(p).had_error => Exprs(Primary(p).out, 1)
         /\ Cur(p) # "EOF" => Ready(Primary(p))
<1> DEFINE goal == /\ Follows(p, Primary(p))
                   /\ ~ Primary(p).had_error => Exprs(Primary(p).out, 1)
                   /\ Cur(p) # "EOF" => Ready(Primary(p))
<1>0. Holds(p, Primary(p), 1) => goal
  BY DEF Holds
<1>1. CASE Is(p, "INT")
  <2> DEFINE node == IntLiteral(IntValue[Cur(p)])
  <2>1. Primary(p) = Give(Advance(p), <<node>>)
    BY <1>1 DEF Primary, Is
  <2>2. Exprs(<<node>>, 1)
    <3>1. node.type \in ExprTypes \ {"BINOP", "UNOP", "READ"}
      BY DEF IntLiteral, ExprTypes
    <3> HIDE DEF node
    <3> QED BY <3>1, LeafExpr
  <2>3. Cur(p) # "EOF"
    BY <1>1, NotEof
  <2> HIDE DEF node
  <2>4. Holds(p, Give(Advance(p), <<node>>), 1)
    BY <2>2, <2>3, Begun, HoldsGiven
  <2> QED BY <1>0, <2>1, <2>4
<1>2. CASE ~ Is(p, "INT") /\ TokenType(Cur(p)) \in {"true", "false"}
  <2> DEFINE node == BoolLiteral(Cur(p) = "true")
  <2>1. Primary(p) = Give(Advance(p), <<node>>)
    BY <1>2 DEF Primary, Is
  <2>2. Exprs(<<node>>, 1)
    <3>1. node.type \in ExprTypes \ {"BINOP", "UNOP", "READ"}
      BY DEF BoolLiteral, ExprTypes
    <3> HIDE DEF node
    <3> QED BY <3>1, LeafExpr
  <2>3. Cur(p) # "EOF"
    BY <1>2, NotEof DEF Is
  <2> HIDE DEF node
  <2>4. Holds(p, Give(Advance(p), <<node>>), 1)
    BY <2>2, <2>3, Begun, HoldsGiven
  <2> QED BY <1>0, <2>1, <2>4
<1> DEFINE literal == Is(p, "INT") \/ TokenType(Cur(p)) \in {"true", "false"}
<1>3. CASE ~ literal /\ Is(p, "STRING")
  <2>1. Primary(p) = Give(Advance(p), <<StrLiteral>>)
    BY <1>3 DEF Primary, Is
  <2>2. Exprs(<<StrLiteral>>, 1)
    <3>1. StrLiteral.type \in ExprTypes \ {"BINOP", "UNOP", "READ"}
      BY DEF StrLiteral, ExprTypes
    <3> QED BY <3>1, LeafExpr
  <2>3. Cur(p) # "EOF"
    BY <1>3, NotEof
  <2>4. Holds(p, Give(Advance(p), <<StrLiteral>>), 1)
    BY <2>2, <2>3, Begun, HoldsGiven
  <2> QED BY <1>0, <2>1, <2>4
<1>4. CASE ~ literal /\ ~ Is(p, "STRING") /\ Is(p, "read")
  <2> DEFINE q == Expect(Advance(p), "(")
             r == Expr(q)
             s == Give(r, <<ReadExpr(r.out)>>)
  <2>1. Primary(p) = Expect([r EXCEPT !.out = <<ReadExpr(@)>>], ")")
    BY <1>4 DEF Primary, Is
  <2>2. [r EXCEPT !.out = <<ReadExpr(@)>>] = s
    BY DEF Give
  <2>3. Cur(p) # "EOF"
    BY <1>4, NotEof
  <2>4. Follows(p, q) /\ Ready(q)
    <3>1. Follows(Advance(p), q)
      BY <2>3, Begun, Expected
    <3> QED BY <2>3, <3>1, Begun, FollowsTrans, ReadyKept
  <2> HIDE DEF q
  <2>5. Holds(p, r, 1)
    <3>1. 1 \in 1 .. 11
      BY SMT
    <3> QED BY <2>4, <3>1, ExprReturned DEF Expr
  <2> HIDE DEF r
  <2>6. Holds(p, s, 1)
    BY <2>5, ReadWhole, HoldsGiven DEF Holds
  <2> HIDE DEF s
  <2>7. Holds(p, Expect(s, ")"), 1)
    BY <2>6, HoldsExpect
  <2> QED BY <1>0, <2>1, <2>2, <2>7
<1> DEFINE first == literal \/ Is(p, "STRING") \/ Is(p, "read")
<1>5. CASE ~ first /\ Is(p, "IDENT")
  <2>1. Primary(p) = RegisterPath(p)
    BY <1>5 DEF Primary, Is
  <2>2. Cur(p) # "EOF"
    BY <1>5, NotEof
  <2> QED BY <1>0, <2>1, <2>2, RegisterPathGood
<1>6. CASE ~ first /\ ~ Is(p, "IDENT") /\ Is(p, "(")
  <2>1. Primary(p) = Expect(Expr(Advance(p)), ")")
    BY <1>6 DEF Primary, Is
  <2>2. Cur(p) # "EOF"
    BY <1>6, NotEof
  <2>3. Holds(p, Expr(Advance(p)), 1)
    <3>1. 1 \in 1 .. 11
      BY SMT
    <3> QED BY <2>2, <3>1, Begun, ExprReturned DEF Expr
  <2>4. Holds(p, Expect(Expr(Advance(p)), ")"), 1)
    BY <2>3, HoldsExpect
  <2> QED BY <1>0, <2>1, <2>4
<1> DEFINE second == first \/ Is(p, "IDENT") \/ Is(p, "(")
<1>7. CASE ~ second /\ TokenType(Cur(p)) \in {"-", "!", "~"}
  <2> DEFINE r == ExprPrec(Advance(p), 11)
             s == Give(r, <<UnOp(Cur(p), r.out)>>)
  <2>1. Primary(p) = [r EXCEPT !.out = <<UnOp(Cur(p), @)>>]
    BY <1>7 DEF Primary, Is
  <2>2. [r EXCEPT !.out = <<UnOp(Cur(p), @)>>] = s
    BY DEF Give
  <2>3. Cur(p) # "EOF"
    BY <1>7, NotEof DEF Is
  <2>4. Holds(p, r, 1)
    <3>1. 11 \in 1 .. 11
      BY SMT
    <3> QED BY <2>3, <3>1, Begun, ExprReturned
  <2> HIDE DEF r
  <2>5. Holds(p, s, 1)
    BY <2>4, UnOpWhole, HoldsGiven DEF Holds
  <2> QED BY <1>0, <2>1, <2>2, <2>5
<1>8. CASE ~ second /\ TokenType(Cur(p)) \notin {"-", "!", "~"}
  <2> DEFINE q == Fail(p)
  <2>1. Primary(p) = Advance(q)
    BY <1>8 DEF Primary, Is
  <2>2. Follows(p, q) /\ State(q) /\ q.had_error = TRUE /\ q.pos = p.pos /\ q.tokens = p.tokens
    BY Failed DEF Follows
  <2> HIDE DEF q
  <2>3. /\ Follows(q, Advance(q)) /\ Advance(q).had_error = TRUE
        /\ Cur(q) # "EOF" => Ready(Advance(q))
    BY <2>2, Advanced
  <2>4. Cur(q) = Cur(p)
    BY <2>2 DEF Cur
  <2> QED BY <2>1, <2>2, <2>3, <2>4, FollowsTrans
<1> QED BY <1>1, <1>2, <1>3, <1>4, <1>5, <1>6, <1>7, <1>8

LEMMA Precedences ==
  ASSUME NEW type
  PROVE  BinaryPrecedence(type) \in 0 .. 10 /\ (BinaryPrecedence(type) >= 1 => type # "EOF")
<1>1. BinaryPrecedence(type) \in {0, 1, 2, 3, 4, 5, 6, 7, 8, 9, 10}
  BY DEF BinaryPrecedence
<1>2. BinaryPrecedence("EOF") = 0
  BY DEF BinaryPrecedence
<1> QED BY <1>1, <1>2, SMT

\* What the turns of the loop keep: the left operand is an expression.
ClimbInv(p, c) == Follows(p, c.p) /\ (~ c.p.had_error => Exprs(c.lhs, 1))

LEMMA ClimbTurnGood ==
  ASSUME NEW p, State(p), NEW c, ClimbInv(p, c), NEW m \in 1 .. 11
  PROVE  ClimbInv(p, ClimbTurn(c, m))
<1>1. CASE ~ Turns(c, m)
  BY <1>1 DEF ClimbTurn
<1>2. CASE Turns(c, m)
  <2> DEFINE prec == BinaryPrecedence(Cur(c.p))
             q == c.p
             r == ExprPrec(Advance(q), prec + 1)
             lhs == IF r.out = <<>> THEN c.lhs ELSE <<BinOp(Cur(q), c.lhs, r.out)>>
  <2>1. State(q) /\ Follows(p, q)
    BY DEF ClimbInv, Follows
  <2>2. prec >= m
    BY <1>2 DEF Turns
  <2>3. prec \in 0 .. 10
    BY Precedences
  <2>4. prec + 1 \in 1 .. 11 /\ prec >= 1
    <3> HIDE DEF prec
    <3> QED BY <2>2, <2>3, SMT
  <2>5. Cur(q) # "EOF"
    BY <2>4, Precedences
  <2>6. ClimbTurn(c, m) = [p |-> r, lhs |-> lhs]
    BY <1>2 DEF ClimbTurn, Operation
  <2> HIDE DEF prec
  <2>7. Holds(q, r, 1)
    <3> HIDE DEF q
    <3>1. Follows(q, Advance(q)) /\ Ready(Advance(q))
      BY <2>1, <2>5, Begun
    <3> QED BY <2>1, <2>4, <3>1, ExprReturned
  <2> HIDE DEF r
  <2>8. Follows(p, r)
    BY <2>1, <2>7, FollowsTrans DEF Holds
  <2>9. ASSUME ~ r.had_error PROVE Exprs(lhs, 1)
    <3>1. Exprs(r.out, 1) /\ Exprs(c.lhs, 1)
      BY <2>7, <2>9 DEF Holds, Follows, ClimbInv
    <3>2. r.out # <<>>
      BY <3>1, EmptySeq DEF Exprs
    <3> QED BY <3>1, <3>2, BinOpWhole
  <2> HIDE DEF q, lhs
  <2> QED BY <2>6, <2>8, <2>9 DEF ClimbInv
<1> QED BY <1>1, <1>2

\* parse_expr_prec behind its first operand.
LEMMA ClimbGood ==
  ASSUME NEW p, State(p), ~ p.had_error => Exprs(p.out, 1), NEW m \in 1 .. 11
  PROVE  /\ Follows(p, Climb(p, m))
         /\ ~ Climb(p, m).had_error => Exprs(Climb(p, m).out, 1)
<1> DEFINE n == Cardinality(OperatorsFrom(p))
           start == [p |-> p, lhs |-> p.out]
           G(h, t) == [k \in 0 .. t |-> IF k = 0 THEN start ELSE ClimbTurn(h[k - 1], m)]
           after == CHOOSE h : h = G(h, n)
           good == {t \in 0 .. n : \E h : h = G(h, t)}
<1>1. n \in Nat
  <2>1. OperatorsFrom(p) \in SUBSET (p.pos .. Len(p.tokens))
    BY DEF OperatorsFrom
  <2>2. IsFiniteSet(p.pos .. Len(p.tokens))
    BY StateFields, FS_Interval, SMT
  <2>3. IsFiniteSet(OperatorsFrom(p))
    BY <2>1, <2>2, FS_Subset
  <2> QED BY <2>3, FS_CardinalityType
<1> HIDE DEF n, start
<1>2. \E h : h = G(h, n)
  <2>1. 0 \in good
    <3> DEFINE h == [k \in 0 .. 0 |-> start]
    <3>1. h = G(h, 0)
      BY SMT
    <3>2. 0 \in 0 .. n
      BY <1>1, SMT
    <3> HIDE DEF h, G
    <3> QED BY <3>1, <3>2
  <2>2. ASSUME NEW t \in 0 + 1 .. n, t - 1 \in good PROVE t \in good
    <3>1. PICK h : h = G(h, t - 1)
      BY <2>2
    <3> DEFINE g == [k \in 0 .. t |-> IF k = t THEN ClimbTurn(h[t - 1], m) ELSE h[k]]
    <3>2. /\ t \in 0 .. n /\ t # 0 /\ t - 1 \in 0 .. t - 1
          /\ \A k \in 0 .. t : k # t => k \in 0 .. t - 1
          /\ \A k \in 0 .. t : k # 0 => k - 1 \in 0 .. t /\ k - 1 # t
      BY <1>1, SMT
    <3>3. \A k \in 0 .. t - 1 : h[k] = IF k = 0 THEN start ELSE ClimbTurn(h[k - 1], m)
      BY <3>1, Zenon
    <3>4. \A k \in 0 .. t : g[k] = IF k = 0 THEN start ELSE ClimbTurn(g[k - 1], m)
      <4> SUFFICES ASSUME NEW k \in 0 .. t
                   PROVE  g[k] = IF k = 0 THEN start ELSE ClimbTurn(g[k - 1], m)
        OBVIOUS
      <4>1. CASE k = 0
        BY <3>2, <3>3, <4>1
      <4>2. CASE k # 0
        <5>1. g[k - 1] = h[k - 1]
          BY <3>2, <4>2
        <5>2. CASE k = t
          BY <3>2, <5>1, <5>2
        <5>3. CASE k # t
          BY <3>2, <3>3, <4>2, <5>1, <5>3
        <5> QED BY <5>2, <5>3
      <4> QED BY <4>1, <4>2
    <3>5. g = G(g, t)
      BY <3>4
    <3> HIDE DEF g, G
    <3> QED BY <3>2, <3>5
  <2> HIDE DEF good
  <2>3. \A t \in 0 .. n : t \in good
    BY <1>1, <2>1, <2>2, Upwards
  <2>4. n \in good
    BY <1>1, <2>3, SMT
  <2> HIDE DEF G
  <2> QED BY <2>4 DEF good
<1>3. after = G(after, n)
  <2> HIDE DEF G
  <2> QED BY <1>2, Zenon
<1>4. Climb(p, m) = Give(after[n].p, after[n].lhs)
  BY Zenon DEF Climb, n, start
<1>5. \A k \in 0 .. n : after[k] = IF k = 0 THEN start ELSE ClimbTurn(after[k - 1], m)
  <2> HIDE DEF after
  <2> QED BY <1>3, Zenon
<1> HIDE DEF after
<1>6. ClimbInv(p, after[n])
  <2> DEFINE fine == {k \in 0 .. n : ClimbInv(p, after[k])}
  <2>1. 0 \in fine
    <3>1. 0 \in 0 .. n
      BY <1>1, SMT
    <3>2. after[0] = start
      BY <1>5, <3>1
    <3> QED BY <3>1, <3>2, StateFields DEF ClimbInv, start
  <2>2. ASSUME NEW k \in 0 + 1 .. n, k - 1 \in fine PROVE k \in fine
    <3>1. k \in 0 .. n /\ k # 0
      BY SMT
    <3> QED BY <1>5, <2>2, <3>1, ClimbTurnGood
  <2> HIDE DEF fine
  <2>3. \A k \in 0 .. n : k \in fine
    BY <1>1, <2>1, <2>2, Upwards
  <2>4. n \in fine
    BY <1>1, <2>3, SMT
  <2> QED BY <2>4 DEF fine
<1> DEFINE c == after[n]
<1>7. Follows(p, c.p) /\ State(c.p) /\ (~ c.p.had_error => Exprs(c.lhs, 1))
  BY <1>6 DEF ClimbInv, Follows
<1> HIDE DEF c
<1>8. /\ Follows(c.p, Give(c.p, c.lhs)) /\ Give(c.p, c.lhs).out = c.lhs
      /\ Give(c.p, c.lhs).had_error = c.p.had_error
  BY <1>7, Given
<1>9. Follows(p, Give(c.p, c.lhs))
  BY <1>7, <1>8, FollowsTrans
<1> QED BY <1>4, <1>7, <1>8, <1>9 DEF c

\* parse_expr_prec.
LEMMA ExprGood ==
  ASSUME NEW p, State(p), NEW m \in 1 .. 11
  PROVE  LET q == Climb(Primary(p), m) IN
           /\ Follows(p, q)
           /\ ~ q.had_error => Exprs(q.out, 1)
           /\ Cur(p) # "EOF" => Ready(q)
<1> DEFINE r == Primary(p)
           q == Climb(r, m)
<1>1. /\ Follows(p, r) /\ State(r)
      /\ ~ r.had_error => Exprs(r.out, 1)
      /\ Cur(p) # "EOF" => Ready(r)
  BY PrimaryGood DEF Follows
<1> HIDE DEF r
<1>2. Follows(r, q) /\ (~ q.had_error => Exprs(q.out, 1))
  BY <1>1, ClimbGood
<1> HIDE DEF q
<1>3. Follows(p, q) /\ (Ready(r) => Ready(q))
  BY <1>1, <1>2, FollowsTrans, ReadyKept
<1> QED BY <1>1, <1>2, <1>3 DEF q, r

-----------------------------------------------------------------------------
(* Statements. *)

\* A later state with a chain without holes, unless an error was reported.
Built(p, q) == Follows(p, q) /\ Ready(q) /\ (~ q.had_error => Solid(q.out))

\* The statements whose children are expressions only, and how many.
ExprStatement(type, n) ==
  \/ type \in {"LET", "ASSIGN", "REG_WRITE", "WAIT", "ARM"} /\ n = 2
  \/ type = "CANCEL" /\ n = 1
  \/ type = "EMIT" /\ n \in {1, 2}
  \/ type = "RETURN" /\ n \in {0, 1}
  \/ type = "LOG" /\ n >= 1

LEMMA ExprStatementSolid ==
  ASSUME NEW type, NEW n \in Nat, ExprStatement(type, n), NEW child, Exprs(child, n)
  PROVE  Solid(<<Node(type, child)>>)
<1> DEFINE node == Node(type, child)
<1>1. node.type = type /\ node.child = child
  BY DEF Node
<1>2. Solid(child) /\ Len(child) = n /\ \A k \in 1 .. n : child[k].type \in ExprTypes
  BY DEF Exprs
<1>3. type \notin ExprTypes /\ type # "IF" /\ type # "FOR"
  BY DEF ExprStatement, ExprTypes
<1> HIDE DEF node
<1>4. Operands(node) = n
  BY <1>1, <1>2, <1>3 DEF Operands
<1>5. n \in Arity(node)
  <2>1. CASE type = "LOG" /\ n >= 1
    <3>1. Arity(node) = 1 .. n
      BY <1>1, <1>2, <2>1 DEF Arity
    <3> QED BY <2>1, <3>1, SMT
  <2>2. CASE type # "LOG"
    BY <1>1, <2>2 DEF Arity, ExprStatement
  <2> QED BY <2>1, <2>2 DEF ExprStatement
<1> QED BY <1>2, <1>3, <1>4, <1>5, SolidStatement DEF node

LEMMA HoldsWrap ==
  ASSUME NEW p, State(p), NEW n \in Nat, NEW q, Holds(p, q, n),
         NEW type, ExprStatement(type, n)
  PROVE  Built(p, Wrap(q, type))
<1> DEFINE chain == <<Node(type, q.out)>>
<1>1. Wrap(q, type) = Give(q, chain)
  BY DEF Wrap
<1>2. ~ q.had_error => Solid(chain)
  BY ExprStatementSolid DEF Holds
<1> HIDE DEF chain
<1> QED BY <1>1, <1>2, HoldsState, GivenTo DEF Built

\* A statement that could not be read.
LEMMA FailBuilt ==
  ASSUME NEW p, State(p), NEW q, Follows(p, q), Ready(q)
  PROVE  Built(p, Fail(q))
<1>1. Follows(q, Fail(q)) /\ Fail(q).had_error = TRUE
  BY Failed DEF Follows
<1>2. Follows(p, Fail(q)) /\ Ready(Fail(q))
  BY <1>1, FollowsTrans, ReadyKept DEF Follows
<1> QED BY <1>1, <1>2 DEF Built

LEMMA OpenGood ==
  ASSUME NEW p, State(p), Cur(p) # "EOF"
  PROVE  Holds(p, Open(p), 0)
<1> DEFINE q == Give(Advance(p), <<>>)
<1>1. Holds(p, q, 0)
  BY Begun, SolidEmpty, HoldsGiven
<1>2. Open(p) = Expect(q, "(")
  BY DEF Open
<1> HIDE DEF q
<1> QED BY <1>1, <1>2, HoldsExpect

LEMMA CloseGood ==
  ASSUME NEW p, State(p), NEW q, NEW n, Holds(p, q, n)
  PROVE  Holds(p, Close(q), n)
<1>1. Holds(p, Expect(q, ")"), n)
  BY HoldsExpect
<1> QED BY <1>1, HoldsExpect DEF Close

LEMMA TakeNameGood ==
  ASSUME NEW p, State(p), NEW q, Follows(p, q), Ready(q)
  PROVE  Holds(p, TakeName(q), 1)
<1> DEFINE node == Ident(Cur(q))
<1>1. Exprs(<<node>>, 1)
  <2>1. node.type \in ExprTypes \ {"BINOP", "UNOP", "READ"}
    BY DEF Ident, ExprTypes
  <2> HIDE DEF node
  <2> QED BY <2>1, LeafExpr
<1>2. Follows(p, Advance(q)) /\ Ready(Advance(q))
  <2>1. State(q) /\ Follows(q, Advance(q))
    BY Advanced DEF Follows
  <2> QED BY <2>1, FollowsTrans, ReadyKept
<1>3. TakeName(q) = Give(Advance(q), <<node>>)
  BY DEF TakeName
<1> HIDE DEF node
<1> QED BY <1>1, <1>2, <1>3, HoldsGiven

LEMMA LetGood ==
  ASSUME NEW p, State(p), Cur(p) # "EOF"
  PROVE  Built(p, LetStatement(p))
<1> DEFINE a == Advance(p)
           q1 == TakeName(a)
           q2 == TypeAnnotation(q1)
           q3 == Expect(q2, "=")
           q4 == AddExpr(q3)
           q5 == Expect(q4, ";")
<1>1. Follows(p, a) /\ Ready(a)
  BY Begun
<1>2. CASE ~ Is(a, "IDENT")
  <2>1. LetStatement(p) = Fail(a)
    BY <1>2 DEF LetStatement
  <2> HIDE DEF a
  <2> QED BY <1>1, <2>1, FailBuilt
<1>3. CASE Is(a, "IDENT")
  <2>1. LetStatement(p) = Wrap(q5, "LET")
    BY <1>3 DEF LetStatement
  <2> HIDE DEF a
  <2>2. Holds(p, q1, 1)
    BY <1>1, TakeNameGood
  <2> HIDE DEF q1
  <2>3. Holds(p, q2, 1)
    <3>1. Holds(p, Advance(q1), 1)
      BY <2>2, HoldsAdvance
    <3>2. Holds(p, Advance(Advance(q1)), 1)
      BY <3>1, HoldsAdvance
    <3> QED BY <2>2, <3>2 DEF TypeAnnotation
  <2> HIDE DEF q2
  <2>4. Holds(p, q3, 1)
    BY <2>3, HoldsExpect
  <2> HIDE DEF q3
  <2>5. Holds(p, q4, 2)
    BY <2>4, HoldsAddExpr
  <2> HIDE DEF q4
  <2>6. Holds(p, q5, 2)
    BY <2>5, HoldsExpect
  <2> HIDE DEF q5
  <2>7. ExprStatement("LET", 2)
    BY DEF ExprStatement
  <2> QED BY <2>1, <2>6, <2>7, HoldsWrap
<1> QED BY <1>2, <1>3

LEMMA TwoArgumentsGood ==
  ASSUME NEW p, State(p), Cur(p) # "EOF", NEW type \in {"REG_WRITE", "WAIT", "ARM"}
  PROVE  Built(p, TwoArguments(p, type))
<1> DEFINE q1 == AddExpr(Open(p))
           q2 == Expect(q1, ",")
           q3 == AddExpr(q2)
           q4 == Close(q3)
<1>1. Holds(p, q1, 1)
  BY OpenGood, HoldsAddExpr
<1>2. TwoArguments(p, type) = Wrap(q4, type)
  BY DEF TwoArguments
<1> HIDE DEF q1
<1>3. Holds(p, q2, 1)
  BY <1>1, HoldsExpect
<1> HIDE DEF q2
<1>4. Holds(p, q3, 2)
  BY <1>3, HoldsAddExpr
<1> HIDE DEF q3
<1>5. Holds(p, q4, 2)
  BY <1>4, CloseGood
<1> HIDE DEF q4
<1>6. ExprStatement(type, 2)
  BY DEF ExprStatement
<1> QED BY <1>2, <1>5, <1>6, HoldsWrap

LEMMA EmitGood ==
  ASSUME NEW p, State(p), Cur(p) # "EOF"
  PROVE  Built(p, EmitStatement(p))
<1> DEFINE q1 == AddExpr(Open(p))
           q2 == SecondArgument(q1)
           q3 == Close(q2)
<1>1. Holds(p, q1, 1)
  BY OpenGood, HoldsAddExpr
<1>2. EmitStatement(p) = Wrap(q3, "EMIT")
  BY DEF EmitStatement
<1> HIDE DEF q1
<1>3. PICK n \in {1, 2} : Holds(p, q2, n)
  <2>1. CASE Is(q1, ",")
    <3>1. Holds(p, Advance(q1), 1)
      BY <1>1, HoldsAdvance
    <3>2. Holds(p, AddExpr(Advance(q1)), 2)
      BY <3>1, HoldsAddExpr
    <3>3. q2 = AddExpr(Advance(q1))
      BY <2>1 DEF SecondArgument
    <3> HIDE DEF q2
    <3> QED BY <3>2, <3>3
  <2>2. CASE ~ Is(q1, ",")
    <3>1. q2 = q1
      BY <2>2 DEF SecondArgument
    <3> HIDE DEF q2
    <3> QED BY <1>1, <3>1
  <2> QED BY <2>1, <2>2
<1> HIDE DEF q2
<1>4. Holds(p, q3, n)
  BY <1>3, CloseGood
<1> HIDE DEF q3
<1>5. ExprStatement("EMIT", n) /\ n \in Nat
  BY DEF ExprStatement
<1> QED BY <1>2, <1>4, <1>5, HoldsWrap

LEMMA CancelGood ==
  ASSUME NEW p, State(p), Cur(p) # "EOF"
  PROVE  Built(p, CancelStatement(p))
<1> DEFINE q1 == AddExpr(Open(p))
           q2 == Close(q1)
<1>1. Holds(p, q1, 1)
  BY OpenGood, HoldsAddExpr
<1>2. CancelStatement(p) = Wrap(q2, "CANCEL")
  BY DEF CancelStatement
<1> HIDE DEF q1
<1>3. Holds(p, q2, 1)
  BY <1>1, CloseGood
<1> HIDE DEF q2
<1>4. ExprStatement("CANCEL", 1)
  BY DEF ExprStatement
<1> QED BY <1>2, <1>3, <1>4, HoldsWrap

LEMMA ReturnGood ==
  ASSUME NEW p, State(p), Cur(p) # "EOF"
  PROVE  Built(p, ReturnStatement(p))
<1> DEFINE q1 == Give(Advance(p), <<>>)
           q2 == ReturnValue(q1)
           q3 == Expect(q2, ";")
<1>1. Holds(p, q1, 0)
  BY Begun, SolidEmpty, HoldsGiven
<1>2. ReturnStatement(p) = Wrap(q3, "RETURN")
  BY DEF ReturnStatement
<1> HIDE DEF q1
<1>3. PICK n \in {0, 1} : Holds(p, q2, n)
  <2>1. CASE Is(q1, ";")
    <3>1. q2 = q1
      BY <2>1 DEF ReturnValue
    <3> HIDE DEF q2
    <3> QED BY <1>1, <3>1
  <2>2. CASE ~ Is(q1, ";")
    <3>1. q2 = AddExpr(q1)
      BY <2>2 DEF ReturnValue
    <3> HIDE DEF q2
    <3>2. Holds(p, AddExpr(q1), 1)
      BY <1>1, HoldsAddExpr
    <3> QED BY <3>1, <3>2
  <2> QED BY <2>1, <2>2
<1> HIDE DEF q2
<1>4. Holds(p, q3, n)
  BY <1>3, HoldsExpect
<1> HIDE DEF q3
<1>5. ExprStatement("RETURN", n) /\ n \in Nat
  BY DEF ExprStatement
<1> QED BY <1>2, <1>4, <1>5, HoldsWrap

\* The arguments of log behind the first.
LEMMA AfterArgumentGood ==
  ASSUME NEW p, State(p), NEW b, b.out = <<>>, NEW q, Holds(p, q, 1)
  PROVE  \E n \in Nat : n >= 1 /\ Holds(p, AfterArgument(b, q), n)
<1> DEFINE c == <<"args">>
           r == Then(q, c)
<1>1. State(q) /\ Ready(q) /\ Follows(p, q)
  BY HoldsState
<1>2. 1 \in Nat /\ 1 >= 1
  BY SMT
<1>3. CASE q.out = <<>>
  <2>1. AfterArgument(b, q) = q
    BY <1>3 DEF AfterArgument
  <2> QED BY <1>2, <2>1
<1>4. CASE q.out # <<>>
  <2>1. AfterArgument(b, q) = r
    BY <1>4 DEF AfterArgument
  <2>2. c \in Calls /\ c[1] = "args"
    BY DEF Calls
  <2> HIDE DEF c
  <2>3. Follows(q, r) /\ (~ r.had_error => ~ q.had_error /\ \E o : Delivers(c, o) /\ r.out = q.out \o o)
    BY <1>1, <2>2, ThenGood
  <2> HIDE DEF r
  <2>4. Follows(p, r) /\ Ready(r)
    BY <1>1, <2>3, FollowsTrans, ReadyKept
  <2>5. CASE r.had_error
    <3>1. Holds(p, r, 1)
      BY <2>4, <2>5 DEF Holds
    <3> QED BY <1>2, <2>1, <3>1
  <2>6. CASE ~ r.had_error
    <3>1. PICK o : Delivers(c, o) /\ r.out = q.out \o o
      BY <2>3, <2>6
    <3>2. PICK m \in Nat : Exprs(o, m)
      BY <2>2, <3>1 DEF Delivers
    <3>3. Exprs(q.out, 1)
      BY <2>3, <2>6 DEF Holds
    <3>4. Exprs(r.out, 1 + m)
      BY <1>2, <3>1, <3>2, <3>3, MoreExprs
    <3>5. Holds(p, r, 1 + m) /\ 1 + m \in Nat /\ 1 + m >= 1
      BY <2>4, <3>4, SMT DEF Holds
    <3> QED BY <2>1, <3>5
  <2> QED BY <2>5, <2>6
<1> QED BY <1>3, <1>4

LEMMA LogGood ==
  ASSUME NEW p, State(p), Cur(p) # "EOF"
  PROVE  Built(p, LogStatement(p))
<1> DEFINE b == Give(p, <<>>)
           q1 == AddExpr(Open(p))
           q2 == AfterArgument(b, q1)
           q3 == Close(q2)
<1>1. Holds(p, q1, 1)
  BY OpenGood, HoldsAddExpr
<1>2. b.out = <<>>
  BY Given
<1>3. LogStatement(p) = Wrap(q3, "LOG")
  BY DEF LogStatement
<1> HIDE DEF q1, b
<1>4. PICK n \in Nat : n >= 1 /\ Holds(p, q2, n)
  BY <1>1, <1>2, AfterArgumentGood
<1> HIDE DEF q2
<1>5. Holds(p, q3, n)
  BY <1>4, CloseGood
<1> HIDE DEF q3
<1>6. ExprStatement("LOG", n)
  BY <1>4 DEF ExprStatement
<1> QED BY <1>3, <1>5, <1>6, HoldsWrap

\* An expression at the place where the statement begins.
LEMMA AssignmentGood ==
  ASSUME NEW p, State(p), Cur(p) # "EOF"
  PROVE  Built(p, AssignmentStatement(p))
<1> DEFINE q1 == Climb(Primary(p), 1)
           q2 == AddExpr(Advance(q1))
           q3 == Expect(q2, ";")
<1>1. Holds(p, q1, 1)
  <2>1. 1 \in 1 .. 11
    BY SMT
  <2> QED BY <2>1, ExprGood DEF Holds
<1>2. AssignmentStatement(p) = AssignmentTo(q1)
  BY DEF AssignmentStatement
<1> HIDE DEF q1
<1>3. CASE Is(q1, "=")
  <2>1. AssignmentTo(q1) = Wrap(q3, "ASSIGN")
    BY <1>3 DEF AssignmentTo
  <2>2. Holds(p, Advance(q1), 1)
    BY <1>1, HoldsAdvance
  <2>3. Holds(p, q2, 2)
    BY <2>2, HoldsAddExpr
  <2> HIDE DEF q2
  <2>4. Holds(p, q3, 2)
    BY <2>3, HoldsExpect
  <2> HIDE DEF q3
  <2>5. ExprStatement("ASSIGN", 2)
    BY DEF ExprStatement
  <2> QED BY <1>2, <2>1, <2>4, <2>5, HoldsWrap
<1>4. CASE ~ Is(q1, "=")
  <2>1. AssignmentTo(q1) = Fail(q1)
    BY <1>4 DEF AssignmentTo
  <2> QED BY <1>1, <1>2, <2>1, FailBuilt DEF Holds
<1> QED BY <1>3, <1>4

\* A later state with a chain of at least n nodes, the first k of them expressions.
HeadHolds(p, q, k, n) ==
  Follows(p, q) /\ Ready(q) /\ (~ q.had_error => Headed(q.out, k, n))

LEMMA HoldsHead ==
  ASSUME NEW p, NEW q, NEW n \in Nat, Holds(p, q, n)
  PROVE  HeadHolds(p, q, n, n)
<1>1. n >= n
  BY SMT
<1> QED BY <1>1 DEF Holds, HeadHolds, Exprs, Headed

\* A solid chain behind the chain at hand.
LEMMA HeadAppend ==
  ASSUME NEW p, State(p), NEW q, NEW k \in Nat, NEW n \in Nat, HeadHolds(p, q, k, n), k <= n,
         NEW r, Follows(q, r), Ready(r), NEW chain, NEW m \in Nat,
         ~ r.had_error => Solid(chain) /\ Len(chain) >= m
  PROVE  HeadHolds(p, Give(r, q.out \o chain), k, n + m)
<1> DEFINE s == Give(r, q.out \o chain)
<1>1. Follows(p, r)
  BY FollowsTrans DEF HeadHolds
<1>2. Follows(p, s) /\ Ready(s) /\ s.had_error = r.had_error /\ s.out = q.out \o chain
  <2> DEFINE longer == q.out \o chain
  <2> HIDE DEF longer
  <2>1. /\ Follows(p, Give(r, longer)) /\ Ready(Give(r, longer))
        /\ Give(r, longer).had_error = r.had_error /\ Give(r, longer).out = longer
    BY <1>1, GivenTo
  <2> QED BY <2>1 DEF longer
<1>3. ASSUME ~ r.had_error PROVE Headed(q.out \o chain, k, n + m)
  <2>1. Headed(q.out, k, n)
    BY <1>3 DEF Follows, HeadHolds
  <2> QED BY <1>3, <2>1, HeadedConcat
<1> HIDE DEF s
<1> QED BY <1>2, <1>3 DEF HeadHolds, s

LEMMA BlockGood ==
  ASSUME NEW p, State(p), NEW q, Follows(p, q), Ready(q)
  PROVE  Built(p, Block(q)) /\ Follows(q, Block(q))
<1> DEFINE c == <<"list">>
           q1 == Expect(q, "{")
           q2 == Returned(q1, c)
           q3 == Expect(q2, "}")
<1>1. c \in Calls /\ c[1] = "list"
  BY DEF Calls
<1>2. Block(q) = q3
  BY DEF Block
<1> HIDE DEF c
<1>3. State(q) /\ Follows(q, q1) /\ State(q1)
  BY Expected DEF Follows
<1>4. Ready(q1)
  BY <1>3, ReadyKept
<1> HIDE DEF q1
<1>5. Follows(q1, q2) /\ State(q2) /\ (~ q2.had_error => Solid(q2.out))
  BY <1>1, <1>3, <1>4, ReturnedGood DEF Delivers, Follows
<1> HIDE DEF q2
<1>6. Follows(q2, q3) /\ q3.out = q2.out
  BY <1>5, Expected
<1> HIDE DEF q3
<1>7. Follows(q, q3)
  BY <1>3, <1>5, <1>6, FollowsTrans
<1>8. Follows(p, q3) /\ Ready(q3)
  BY <1>3, <1>7, FollowsTrans, ReadyKept
<1>9. ~ q3.had_error => ~ q2.had_error
  BY <1>6 DEF Follows
<1> QED BY <1>2, <1>5, <1>6, <1>7, <1>8, <1>9 DEF Built

\* An empty body leaves a node too.
LEMMA BodyChainSolid ==
  ASSUME NEW chain, Solid(chain)
  PROVE  Solid(BodyChain(chain)) /\ Len(BodyChain(chain)) >= 1
<1>1. CASE chain = <<>>
  <2> DEFINE node == Node("INVALID", <<>>)
  <2>1. node.type = "INVALID" /\ node.child = <<>>
    BY DEF Node
  <2>2. Len(<<>>) \in Arity(node) /\ Operands(node) = 0
    BY <2>1, EmptySeq DEF Arity, Operands
  <2>3. 1 .. 0 = {} /\ "INVALID" \notin ExprTypes
    BY SMT DEF ExprTypes
  <2>4. Solid(<<node>>)
    BY <2>2, <2>3, SolidEmpty, SolidStatement
  <2>5. BodyChain(chain) = <<node>>
    BY <1>1 DEF BodyChain
  <2>6. Len(<<node>>) >= 1
    BY SMT
  <2> QED BY <2>4, <2>5, <2>6
<1>2. CASE chain # <<>>
  <2>1. BodyChain(chain) = chain
    BY <1>2 DEF BodyChain
  <2>2. Len(chain) \in Nat /\ Len(chain) # 0
    BY <1>2, SolidLen
  <2>3. Len(chain) >= 1
    BY <2>2, SMT
  <2> QED BY <2>1, <2>3
<1> QED BY <1>1, <1>2

LEMMA AddBodyGood ==
  ASSUME NEW p, State(p), NEW q, NEW k \in Nat, NEW n \in Nat, HeadHolds(p, q, k, n), k <= n
  PROVE  HeadHolds(p, AddBody(q), k, n + 1)
<1> DEFINE r == Block(q)
<1>1. AddBody(q) = Give(r, q.out \o BodyChain(r.out))
  BY DEF AddBody, Give
<1>2. State(q) /\ Follows(q, q) /\ Ready(q)
  BY StateFields DEF HeadHolds, Follows
<1>3. Built(q, r)
  BY <1>2, BlockGood
<1> HIDE DEF r
<1>4. ~ r.had_error => Solid(BodyChain(r.out)) /\ Len(BodyChain(r.out)) >= 1
  BY <1>3, BodyChainSolid DEF Built
<1>5. 1 \in Nat
  BY SMT
<1> QED BY <1>1, <1>3, <1>4, <1>5, HeadAppend DEF Built

LEMMA LoopBodyGood ==
  ASSUME NEW p, State(p), NEW q, NEW k \in Nat, NEW n \in Nat, HeadHolds(p, q, k, n), k <= n
  PROVE  HeadHolds(p, LoopBody(q), k, n + 0)
<1> DEFINE r == Block(q)
<1>1. LoopBody(q) = Give(r, q.out \o r.out)
  BY DEF LoopBody, Give
<1>2. State(q) /\ Follows(q, q) /\ Ready(q)
  BY StateFields DEF HeadHolds, Follows
<1>3. Built(q, r)
  BY <1>2, BlockGood
<1> HIDE DEF r
<1>4. ~ r.had_error => Solid(r.out) /\ Len(r.out) >= 0
  <2>1. ~ r.had_error => Solid(r.out) /\ Len(r.out) \in Nat
    BY <1>3, SolidLen DEF Built
  <2> QED BY <2>1, SMT
<1>5. 0 \in Nat
  BY SMT
<1> QED BY <1>1, <1>3, <1>4, <1>5, HeadAppend DEF Built

\* if ( expr ) { ... }, and the same after elif.
LEMMA BranchGood ==
  ASSUME NEW p, State(p), p.out = <<>>, Cur(p) # "EOF"
  PROVE  HeadHolds(p, Branch(p), 1, 2)
<1> DEFINE q0 == Advance(p)
           q1 == Expect(q0, "(")
           q2 == AddExpr(q1)
           q3 == Expect(q2, ")")
<1>1. Holds(p, q0, 0)
  BY Begun, Advanced, SolidEmpty DEF Holds
<1>2. Branch(p) = AddBody(q3)
  BY DEF Branch
<1> HIDE DEF q0
<1>3. Holds(p, q1, 0)
  BY <1>1, HoldsExpect
<1> HIDE DEF q1
<1>4. Holds(p, q2, 1)
  BY <1>3, HoldsAddExpr
<1> HIDE DEF q2
<1>5. Holds(p, q3, 1)
  BY <1>4, HoldsExpect
<1> HIDE DEF q3
<1>6. HeadHolds(p, q3, 1, 1)
  BY <1>5, HoldsHead
<1>7. HeadHolds(p, AddBody(q3), 1, 1 + 1)
  BY <1>6, AddBodyGood
<1> QED BY <1>2, <1>7

\* The branches that follow a branch.
LEMMA ElifsGood ==
  ASSUME NEW p, State(p), NEW q, NEW n \in Nat, HeadHolds(p, q, 1, n), 1 <= n
  PROVE  HeadHolds(p, Then(q, <<"elif">>), 1, n)
<1> DEFINE c == <<"elif">>
           r == Then(q, c)
<1>1. c \in Calls /\ c[1] = "elif"
  BY DEF Calls
<1>2. State(q) /\ Ready(q) /\ Follows(p, q)
  BY DEF HeadHolds, Follows
<1> HIDE DEF c
<1>3. Follows(q, r) /\ (~ r.had_error => ~ q.had_error /\ \E o : Delivers(c, o) /\ r.out = q.out \o o)
  BY <1>1, <1>2, ThenGood
<1> HIDE DEF r
<1>4. Follows(p, r) /\ Ready(r)
  BY <1>2, <1>3, FollowsTrans, ReadyKept
<1>5. ASSUME ~ r.had_error PROVE Headed(r.out, 1, n)
  <2>1. PICK o : Delivers(c, o) /\ r.out = q.out \o o
    BY <1>3, <1>5
  <2>2. Solid(o) /\ Headed(q.out, 1, n)
    BY <1>1, <1>3, <1>5, <2>1 DEF Delivers, HeadHolds
  <2>3. Len(o) >= 0 /\ 0 \in Nat /\ 1 \in Nat
    BY <2>2, SolidLen, SMT
  <2>4. Headed(q.out \o o, 1, n + 0)
    BY <2>2, <2>3, HeadedConcat
  <2> QED BY <2>1, <2>4
<1> QED BY <1>4, <1>5 DEF HeadHolds, r, c

\* The two statements with bodies.
LEMMA BodiesSolid ==
  ASSUME NEW chain, NEW type,
         \/ type = "IF" /\ Headed(chain, 1, 2)
         \/ type = "FOR" /\ Headed(chain, 3, 3)
  PROVE  Solid(<<Node(type, chain)>>)
<1> DEFINE node == Node(type, chain)
<1>1. node.type = type /\ node.child = chain
  BY DEF Node
<1>2. Solid(chain) /\ Len(chain) \in Nat
  BY SolidLen DEF Headed
<1>3. type \notin ExprTypes
  BY DEF ExprTypes
<1> HIDE DEF node
<1>4. CASE type = "IF" /\ Headed(chain, 1, 2)
  <2>1. Arity(node) = 2 .. Len(chain) /\ Operands(node) = 1
    BY <1>1, <1>4 DEF Arity, Operands
  <2>2. Len(chain) \in 2 .. Len(chain)
    BY <1>2, <1>4, SMT DEF Headed
  <2> QED BY <1>2, <1>3, <1>4, <2>1, <2>2, SolidStatement DEF Headed, node
<1>5. CASE type = "FOR" /\ Headed(chain, 3, 3)
  <2>1. Arity(node) = 3 .. Len(chain) /\ Operands(node) = 3
    BY <1>1, <1>5 DEF Arity, Operands
  <2>2. Len(chain) \in 3 .. Len(chain)
    BY <1>2, <1>5, SMT DEF Headed
  <2> QED BY <1>2, <1>3, <1>5, <2>1, <2>2, SolidStatement DEF Headed, node
<1> QED BY <1>4, <1>5

LEMMA HeadWrap ==
  ASSUME NEW p, State(p), NEW q, NEW type,
         \/ type = "IF" /\ HeadHolds(p, q, 1, 2)
         \/ type = "FOR" /\ HeadHolds(p, q, 3, 3)
  PROVE  Built(p, Wrap(q, type))
<1> DEFINE chain == <<Node(type, q.out)>>
<1>1. Wrap(q, type) = Give(q, chain)
  BY DEF Wrap
<1>2. ~ q.had_error => Solid(chain)
  BY BodiesSolid DEF HeadHolds
<1>3. Follows(p, q) /\ Ready(q)
  BY DEF HeadHolds
<1> HIDE DEF chain
<1> QED BY <1>1, <1>2, <1>3, GivenTo DEF Built

LEMMA BuiltFollows ==
  ASSUME NEW p, State(p), NEW q, Follows(p, q), NEW r, Built(q, r)
  PROVE  Built(p, r)
BY FollowsTrans DEF Built

LEMMA IfGood ==
  ASSUME NEW p, State(p), Cur(p) # "EOF"
  PROVE  Built(p, IfStatement(p))
<1> DEFINE g == Give(p, <<>>)
           q1 == Branch(g)
           q2 == Then(q1, <<"elif">>)
           q3 == ElseBranch(q2)
<1>1. /\ Follows(p, g) /\ State(g) /\ g.out = <<>> /\ g.pos = p.pos /\ g.tokens = p.tokens
  BY Given DEF Follows
<1>2. IfStatement(p) = Wrap(q3, "IF")
  BY DEF IfStatement
<1> HIDE DEF g
<1>3. Cur(g) # "EOF"
  BY <1>1 DEF Cur
<1>4. HeadHolds(g, q1, 1, 2)
  BY <1>1, <1>3, BranchGood
<1> HIDE DEF q1
<1>5. HeadHolds(g, q2, 1, 2)
  <2>1. 2 \in Nat /\ 1 <= 2
    BY SMT
  <2> QED BY <1>1, <1>4, <2>1, ElifsGood
<1> HIDE DEF q2
<1>6. HeadHolds(g, q3, 1, 2)
  <2>1. CASE ~ Is(q2, "else")
    <3>1. q3 = q2
      BY <2>1 DEF ElseBranch
    <3> HIDE DEF q3
    <3> QED BY <1>5, <3>1
  <2>2. CASE Is(q2, "else")
    <3> DEFINE a == Advance(q2)
    <3>1. q3 = AddBody(a)
      BY <2>2 DEF ElseBranch
    <3>2. HeadHolds(g, a, 1, 2)
      <4>1. State(q2) /\ Follows(q2, a) /\ a.out = q2.out /\ a.had_error = q2.had_error
        BY <1>5, Advanced DEF HeadHolds, Follows
      <4> HIDE DEF a
      <4>2. Follows(g, a) /\ Ready(a)
        BY <1>1, <1>5, <4>1, FollowsTrans, ReadyKept DEF HeadHolds
      <4> QED BY <1>5, <4>1, <4>2 DEF HeadHolds
    <3> HIDE DEF a, q3
    <3>3. 1 \in Nat /\ 2 \in Nat /\ 1 <= 2
      BY SMT
    <3>4. HeadHolds(g, AddBody(a), 1, 2 + 1)
      BY <1>1, <3>2, <3>3, AddBodyGood
    <3>5. Headed(q3.out, 1, 2 + 1) => Headed(q3.out, 1, 2)
      <4>1. Solid(q3.out) => Len(q3.out) \in Nat
        BY SolidLen
      <4> QED BY <4>1, SMT DEF Headed
    <3> QED BY <3>1, <3>4, <3>5 DEF HeadHolds
  <2> QED BY <2>1, <2>2
<1> HIDE DEF q3
<1>7. Built(g, Wrap(q3, "IF"))
  BY <1>1, <1>6, HeadWrap
<1> QED BY <1>1, <1>2, <1>7, BuiltFollows

LEMMA ForGood ==
  ASSUME NEW p, State(p), Cur(p) # "EOF"
  PROVE  Built(p, ForStatement(p))
<1> DEFINE q1 == TakeName(Advance(p))
           q2 == Expect(q1, "in")
           q3 == AddExpr(q2)
           q4 == Expect(q3, "..")
           q5 == AddExpr(q4)
           q6 == LoopBody(q5)
<1>1. Holds(p, q1, 1)
  BY Begun, TakeNameGood
<1>2. ForStatement(p) = Wrap(q6, "FOR")
  BY DEF ForStatement
<1> HIDE DEF q1
<1>3. Holds(p, q2, 1)
  BY <1>1, HoldsExpect
<1> HIDE DEF q2
<1>4. Holds(p, q3, 2)
  BY <1>3, HoldsAddExpr
<1> HIDE DEF q3
<1>5. Holds(p, q4, 2)
  BY <1>4, HoldsExpect
<1> HIDE DEF q4
<1>6. Holds(p, q5, 3)
  BY <1>5, HoldsAddExpr
<1> HIDE DEF q5
<1>7. HeadHolds(p, q5, 3, 3) /\ 3 \in Nat /\ 3 <= 3
  BY <1>6, HoldsHead, SMT
<1>8. HeadHolds(p, q6, 3, 3 + 0)
  BY <1>7, LoopBodyGood
<1> HIDE DEF q6
<1> QED BY <1>2, <1>8, HeadWrap

LEMMA StatementGood ==
  ASSUME NEW p, State(p), Cur(p) # "EOF"
  PROVE  Built(p, Statement(p))
<1> DEFINE words == {"let", "write", "emit", "wait", "arm", "cancel", "return", "log", "if", "for"}
<1>1. CASE Is(p, "let")
  <2>1. Statement(p) = LetStatement(p)
    BY <1>1 DEF Statement, Is
  <2> QED BY <2>1, LetGood
<1>2. CASE Is(p, "write")
  <2>1. Statement(p) = TwoArguments(p, "REG_WRITE")
    BY <1>2 DEF Statement, Is, WriteStatement
  <2> QED BY <2>1, TwoArgumentsGood
<1>3. CASE Is(p, "emit")
  <2>1. Statement(p) = EmitStatement(p)
    BY <1>3 DEF Statement, Is
  <2> QED BY <2>1, EmitGood
<1>4. CASE Is(p, "wait")
  <2>1. Statement(p) = TwoArguments(p, "WAIT")
    BY <1>4 DEF Statement, Is, WaitStatement
  <2> QED BY <2>1, TwoArgumentsGood
<1>5. CASE Is(p, "arm")
  <2>1. Statement(p) = TwoArguments(p, "ARM")
    BY <1>5 DEF Statement, Is, ArmStatement
  <2> QED BY <2>1, TwoArgumentsGood
<1>6. CASE Is(p, "cancel")
  <2>1. Statement(p) = CancelStatement(p)
    BY <1>6 DEF Statement, Is
  <2> QED BY <2>1, CancelGood
<1>7. CASE Is(p, "return")
  <2>1. Statement(p) = ReturnStatement(p)
    BY <1>7 DEF Statement, Is
  <2> QED BY <2>1, ReturnGood
<1>8. CASE Is(p, "log")
  <2>1. Statement(p) = LogStatement(p)
    BY <1>8 DEF Statement, Is
  <2> QED BY <2>1, LogGood
<1>9. CASE Is(p, "if")
  <2>1. Statement(p) = IfStatement(p)
    BY <1>9 DEF Statement, Is
  <2> QED BY <2>1, IfGood
<1>10. CASE Is(p, "for")
  <2>1. Statement(p) = ForStatement(p)
    BY <1>10 DEF Statement, Is
  <2> QED BY <2>1, ForGood
<1>11. CASE TokenType(Cur(p)) \notin words
  <2>1. Statement(p) = AssignmentStatement(p)
    BY <1>11 DEF Statement, Is
  <2> QED BY <2>1, AssignmentGood
<1> QED BY <1>1, <1>2, <1>3, <1>4, <1>5, <1>6, <1>7, <1>8, <1>9, <1>10, <1>11 DEF Is

\* One more statement of a list that has none yet.
LEMMA AddStatementGood ==
  ASSUME NEW p, State(p), p.out = <<>>, Cur(p) # "EOF"
  PROVE  Built(p, AddStatement(p, Statement(p)))
<1> DEFINE s == Statement(p)
<1>1. Built(p, s)
  BY StatementGood
<1> HIDE DEF s
<1>2. State(s) /\ Follows(p, s) /\ Ready(s)
  BY <1>1 DEF Built, Follows
<1>3. CASE s.out = <<>>
  <2> DEFINE a == Advance(s)
  <2>1. AddStatement(p, s) = Give(a, <<>>)
    BY <1>3 DEF AddStatement
  <2>2. Follows(p, a) /\ Ready(a)
    BY <1>2, Advanced, FollowsTrans, ReadyKept
  <2> HIDE DEF a
  <2> QED BY <2>1, <2>2, SolidEmpty, GivenTo DEF Built, s
<1>4. CASE s.out # <<>>
  <2>1. AddStatement(p, s) = Give(s, <<>> \o s.out)
    BY <1>4 DEF AddStatement
  <2>2. ~ s.had_error => Solid(<<>> \o s.out)
    BY <1>1, SolidEmpty, SolidConcat DEF Built
  <2> QED BY <1>2, <2>1, <2>2, GivenTo DEF Built, s
<1> QED BY <1>3, <1>4

-----------------------------------------------------------------------------
(* The calls. *)

LEMMA ArgumentsGood ==
  ASSUME NEW p, State(p), p.out = <<>>
  PROVE  /\ Follows(p, Arguments(p))
         /\ ~ Arguments(p).had_error => \E n \in Nat : Exprs(Arguments(p).out, n)
<1>1. CASE Is(p, ",")
  <2> DEFINE q == AddExpr(Advance(p))
  <2>1. Cur(p) # "EOF"
    BY <1>1, NotEof
  <2>2. Holds(p, Advance(p), 0)
    BY <2>1, Begun, Advanced, SolidEmpty DEF Holds
  <2>3. Holds(p, q, 1)
    BY <2>2, HoldsAddExpr
  <2>4. Arguments(p) = AfterArgument(p, q)
    BY <1>1 DEF Arguments
  <2> HIDE DEF q
  <2>5. PICK n \in Nat : n >= 1 /\ Holds(p, AfterArgument(p, q), n)
    BY <2>3, AfterArgumentGood
  <2> QED BY <2>4, <2>5 DEF Holds
<1>2. CASE ~ Is(p, ",")
  <2>1. Arguments(p) = p
    BY <1>2 DEF Arguments
  <2>2. 0 \in Nat
    BY SMT
  <2> QED BY <2>1, <2>2, StateFields, SolidEmpty
<1> QED BY <1>1, <1>2

LEMMA ElifBranchesGood ==
  ASSUME NEW p, State(p), p.out = <<>>
  PROVE  /\ Follows(p, ElifBranches(p))
         /\ ~ ElifBranches(p).had_error => Solid(ElifBranches(p).out)
<1>1. CASE Is(p, "elif")
  <2> DEFINE q == Branch(p)
  <2>1. Cur(p) # "EOF"
    BY <1>1, NotEof
  <2>2. HeadHolds(p, q, 1, 2)
    BY <2>1, BranchGood
  <2>3. ElifBranches(p) = Then(q, <<"elif">>)
    BY <1>1 DEF ElifBranches
  <2> HIDE DEF q
  <2>4. 2 \in Nat /\ 1 <= 2
    BY SMT
  <2>5. HeadHolds(p, Then(q, <<"elif">>), 1, 2)
    BY <2>2, <2>4, ElifsGood
  <2> QED BY <2>3, <2>5 DEF HeadHolds, Headed
<1>2. CASE ~ Is(p, "elif")
  <2>1. ElifBranches(p) = p
    BY <1>2 DEF ElifBranches
  <2> QED BY <2>1, StateFields, SolidEmpty
<1> QED BY <1>1, <1>2

LEMMA StatementListGood ==
  ASSUME NEW p, State(p), p.out = <<>>
  PROVE  /\ Follows(p, StatementList(p))
         /\ ~ StatementList(p).had_error => Solid(StatementList(p).out)
<1>1. CASE Cur(p) \in {"}", "EOF"}
  <2>1. StatementList(p) = p
    BY <1>1 DEF StatementList
  <2> QED BY <2>1, StateFields, SolidEmpty
<1>2. CASE Cur(p) \notin {"}", "EOF"}
  <2> DEFINE c == <<"list">>
             q == AddStatement(p, Statement(p))
             r == Then(q, c)
  <2>1. StatementList(p) = r
    BY <1>2 DEF StatementList
  <2>2. Built(p, q)
    BY <1>2, AddStatementGood
  <2>3. c \in Calls /\ c[1] = "list"
    BY DEF Calls
  <2> HIDE DEF c, q
  <2>4. State(q) /\ Ready(q) /\ Follows(p, q)
    BY <2>2 DEF Built, Follows
  <2>5. Follows(q, r) /\ (~ r.had_error => ~ q.had_error /\ \E o : Delivers(c, o) /\ r.out = q.out \o o)
    BY <2>3, <2>4, ThenGood
  <2> HIDE DEF r
  <2>6. ASSUME ~ r.had_error PROVE Solid(r.out)
    <3>1. PICK o : Delivers(c, o) /\ r.out = q.out \o o
      BY <2>5, <2>6
    <3>2. Solid(o) /\ Solid(q.out)
      BY <2>2, <2>3, <2>5, <2>6, <3>1 DEF Delivers, Built
    <3> QED BY <3>1, <3>2, SolidConcat
  <2> QED BY <2>1, <2>4, <2>5, <2>6, FollowsTrans
<1> QED BY <1>1, <1>2

LEMMA QualifiedNameGood ==
  ASSUME NEW p, State(p)
  PROVE  Follows(p, QualifiedName(p))
<1>1. CASE ~ Is(p, ".")
  BY <1>1, StateFields DEF QualifiedName
<1>2. CASE Is(p, ".")
  <2> DEFINE c == <<"name">>
             q == IF TokenType(Peek(p, 1)) = "IDENT" THEN Advance(Advance(p)) ELSE Advance(p)
  <2>1. QualifiedName(p) = Then(q, c)
    BY <1>2 DEF QualifiedName
  <2>2. c \in Calls
    BY DEF Calls
  <2>3. Follows(p, q) /\ Ready(q) /\ State(q)
    <3>1. Follows(p, Advance(p)) /\ Ready(Advance(p)) /\ State(Advance(p))
      BY <1>2, NotEof, Begun
    <3>2. Follows(Advance(p), Advance(Advance(p)))
      BY <3>1, Advanced
    <3>3. Follows(p, Advance(Advance(p))) /\ Ready(Advance(Advance(p)))
      BY <3>1, <3>2, FollowsTrans, ReadyKept
    <3> QED BY <3>1, <3>2, <3>3 DEF Follows
  <2> HIDE DEF q, c
  <2>4. Follows(q, Then(q, c))
    BY <2>2, <2>3, ThenGood
  <2> QED BY <2>1, <2>3, <2>4, FollowsTrans
<1> QED BY <1>1, <1>2

LEMMA ForClassGood ==
  ASSUME NEW p, State(p)
  PROVE  Follows(p, ForClass(p))
<1>1. CASE Is(p, "for")
  <2> DEFINE q1 == Advance(p)
             q2 == Advance(q1)
  <2>1. Follows(p, q1) /\ State(q1)
    BY Advanced DEF Follows
  <2> HIDE DEF q1
  <2>2. Follows(q1, q2) /\ State(q2)
    BY <2>1, Advanced DEF Follows
  <2> HIDE DEF q2
  <2>3. Follows(q2, QualifiedName(q2))
    BY <2>2, QualifiedNameGood
  <2>4. ForClass(p) = QualifiedName(q2)
    BY <1>1 DEF ForClass, q1, q2
  <2>5. Follows(p, q2)
    BY <2>1, <2>2, FollowsTrans
  <2> QED BY <2>3, <2>4, <2>5, FollowsTrans
<1>2. CASE ~ Is(p, "for")
  BY <1>2, StateFields DEF ForClass
<1> QED BY <1>1, <1>2

LEMMA SkipUntilGood ==
  ASSUME NEW p, State(p), NEW type \in {")", "}"}
  PROVE  Follows(p, SkipUntil(p, type))
<1>1. CASE Cur(p) \in {type, "EOF"}
  BY <1>1, StateFields DEF SkipUntil
<1>2. CASE Cur(p) \notin {type, "EOF"}
  <2> DEFINE c == <<"skip", type>>
             q == Advance(p)
  <2>1. SkipUntil(p, type) = Then(q, c)
    BY <1>2 DEF SkipUntil
  <2>2. c \in Calls
    BY DEF Calls
  <2>3. Follows(p, q) /\ Ready(q) /\ State(q)
    BY <1>2, Begun
  <2> HIDE DEF q, c
  <2>4. Follows(q, Then(q, c))
    BY <2>2, <2>3, ThenGood
  <2> QED BY <2>1, <2>3, <2>4, FollowsTrans
<1> QED BY <1>1, <1>2

-----------------------------------------------------------------------------
(* The driver block. *)

\* A later state with a driver record, unless an error was reported.
Drives(p, q) == Follows(p, q) /\ (~ q.had_error => GoodDriver(q.out))

LEMMA NoDriverGood == GoodDriver(NoDriver)
<1>1. <<>> \in Seq({})
  BY EmptySeq
<1>2. /\ NoDriver = [has |-> NoDriver.has, probe |-> NoDriver.probe,
                     remove |-> NoDriver.remove, handlers |-> NoDriver.handlers]
      /\ NoDriver.probe = <<>> /\ NoDriver.remove = <<>> /\ NoDriver.handlers = <<>>
  BY DEF NoDriver
<1>3. \E H : <<>> \in Seq(H) /\ \A h \in H : Solid(h.body)
  <2> DEFINE H == {}
  <2>1. <<>> \in Seq(H) /\ \A h \in H : Solid(h.body)
    BY <1>1
  <2> HIDE DEF H
  <2> QED BY <2>1
<1> QED BY <1>2, <1>3, SolidEmpty DEF GoodDriver

\* A driver record with another block.
LEMMA DriverWith ==
  ASSUME NEW d, GoodDriver(d), NEW chain, Solid(chain), NEW has
  PROVE  /\ GoodDriver([d EXCEPT !.probe = chain, !.has = has])
         /\ GoodDriver([d EXCEPT !.remove = chain, !.has = has])
<1> DEFINE has0 == d.has
           probe == d.probe
           remove == d.remove
           handlers == d.handlers
<1>1. /\ d = [has |-> has0, probe |-> probe, remove |-> remove, handlers |-> handlers]
      /\ Solid(probe) /\ Solid(remove)
      /\ \E H : handlers \in Seq(H) /\ \A h \in H : Solid(h.body)
  BY DEF GoodDriver
<1> HIDE DEF has0, probe, remove, handlers
<1> DEFINE e == [has |-> has, probe |-> chain, remove |-> remove, handlers |-> handlers]
           f == [has |-> has, probe |-> probe, remove |-> chain, handlers |-> handlers]
<1>2. [d EXCEPT !.probe = chain, !.has = has] = e
  <2> DEFINE g == [d EXCEPT !.probe = chain]
  <2>1. [d EXCEPT !.probe = chain, !.has = has] = [g EXCEPT !.has = has]
    OBVIOUS
  <2>2. g = [has |-> has0, probe |-> chain, remove |-> remove, handlers |-> handlers]
    BY <1>1
  <2> HIDE DEF g
  <2>3. [g EXCEPT !.has = has] = e
    BY <2>2
  <2> QED BY <2>1, <2>3
<1>3. [d EXCEPT !.remove = chain, !.has = has] = f
  <2> DEFINE g == [d EXCEPT !.remove = chain]
  <2>1. [d EXCEPT !.remove = chain, !.has = has] = [g EXCEPT !.has = has]
    OBVIOUS
  <2>2. g = [has |-> has0, probe |-> probe, remove |-> chain, handlers |-> handlers]
    BY <1>1
  <2> HIDE DEF g
  <2>3. [g EXCEPT !.has = has] = f
    BY <2>2
  <2> QED BY <2>1, <2>3
<1>4. /\ e = [has |-> e.has, probe |-> e.probe, remove |-> e.remove, handlers |-> e.handlers]
      /\ e.probe = chain /\ e.remove = remove /\ e.handlers = handlers
  OBVIOUS
<1>5. /\ f = [has |-> f.has, probe |-> f.probe, remove |-> f.remove, handlers |-> f.handlers]
      /\ f.probe = probe /\ f.remove = chain /\ f.handlers = handlers
  OBVIOUS
<1> HIDE DEF e, f
<1>6. GoodDriver(e) /\ GoodDriver(f)
  BY <1>1, <1>4, <1>5 DEF GoodDriver
<1> QED BY <1>2, <1>3, <1>6

LEMMA DriverWithHandler ==
  ASSUME NEW d, GoodDriver(d), NEW h, Solid(h.body)
  PROVE  GoodDriver([d EXCEPT !.handlers = <<h>> \o @])
<1> DEFINE has == d.has
           probe == d.probe
           remove == d.remove
           handlers == d.handlers
           more == <<h>> \o handlers
           e == [has |-> has, probe |-> probe, remove |-> remove, handlers |-> more]
<1>0. [d EXCEPT !.handlers = <<h>> \o @] = [d EXCEPT !.handlers = more]
  OBVIOUS
<1>1. /\ d = [has |-> has, probe |-> probe, remove |-> remove, handlers |-> handlers]
      /\ Solid(probe) /\ Solid(remove)
      /\ \E H : handlers \in Seq(H) /\ \A g \in H : Solid(g.body)
  BY DEF GoodDriver
<1> HIDE DEF has, probe, remove, handlers
<1>2. \E H : more \in Seq(H) /\ \A g \in H : Solid(g.body)
  <2>1. PICK H : handlers \in Seq(H) /\ \A g \in H : Solid(g.body)
    BY <1>1
  <2> DEFINE J == H \union {h}
  <2>2. handlers \in Seq(J)
    BY <2>1, SeqMonotonic
  <2>3. <<h>> \in Seq(J)
    BY SMT
  <2>4. \A g \in J : Solid(g.body)
    BY <2>1
  <2> HIDE DEF J
  <2>5. more \in Seq(J)
    BY <2>2, <2>3, ConcatProperties
  <2> QED BY <2>4, <2>5
<1> HIDE DEF more
<1>3. [d EXCEPT !.handlers = more] = e
  BY <1>1
<1>4. /\ e = [has |-> e.has, probe |-> e.probe, remove |-> e.remove, handlers |-> e.handlers]
      /\ e.probe = probe /\ e.remove = remove /\ e.handlers = more
  OBVIOUS
<1> HIDE DEF e
<1>5. GoodDriver(e)
  BY <1>1, <1>2, <1>4 DEF GoodDriver
<1> QED BY <1>0, <1>3, <1>5

LEMMA RestGood ==
  ASSUME NEW p, State(p), NEW q, Follows(p, q), Ready(q)
  PROVE  Drives(p, Rest(q)) /\ Follows(q, Rest(q))
<1> DEFINE c == <<"body">>
<1>1. c \in Calls /\ c[1] = "body" /\ Rest(q) = Returned(q, c) /\ State(q)
  BY DEF Calls, Rest, Follows
<1> HIDE DEF c
<1>2. Follows(q, Returned(q, c)) /\ (~ Returned(q, c).had_error => GoodDriver(Returned(q, c).out))
  BY <1>1, ReturnedGood DEF Delivers
<1> QED BY <1>1, <1>2, FollowsTrans DEF Drives

\* A driver record that is given to the state at the end of a driver block.
LEMMA DrivesGiven ==
  ASSUME NEW p, State(p), NEW q, Follows(p, q), NEW d, ~ q.had_error => GoodDriver(d)
  PROVE  Drives(p, Give(q, d))
<1>1. Follows(q, Give(q, d)) /\ Give(q, d).out = d /\ Give(q, d).had_error = q.had_error
  BY Given DEF Follows
<1> QED BY <1>1, FollowsTrans DEF Drives

LEMMA BlocksGood ==
  ASSUME NEW p, State(p), NEW b, Built(p, b), NEW rest, rest = Rest(b)
  PROVE  Drives(p, ProbeBlock(b, rest)) /\ Drives(p, RemoveBlock(b, rest))
<1>1. Drives(p, rest) /\ Follows(b, rest)
  BY RestGood DEF Built
<1> DEFINE d == rest.out
           h1 == d.has \union {"probe"}
           h2 == d.has \union {"remove"}
           d1 == [d EXCEPT !.probe = b.out, !.has = h1]
           d2 == [d EXCEPT !.remove = b.out, !.has = h2]
<1>2. ~ rest.had_error => Solid(b.out) /\ GoodDriver(d)
  BY <1>1 DEF Built, Drives, Follows
<1>3. ProbeBlock(b, rest) = IF "probe" \in d.has THEN rest ELSE Give(rest, d1)
  BY DEF ProbeBlock
<1>4. RemoveBlock(b, rest) = IF "remove" \in d.has THEN rest ELSE Give(rest, d2)
  BY DEF RemoveBlock
<1>5. ~ rest.had_error => GoodDriver(d1) /\ GoodDriver(d2)
  <2> HIDE DEF h1, h2, d
  <2> QED BY <1>2, DriverWith
<1> HIDE DEF d1, d2
<1>6. Drives(p, Give(rest, d1)) /\ Drives(p, Give(rest, d2))
  BY <1>1, <1>5, DrivesGiven DEF Drives
<1> QED BY <1>1, <1>3, <1>4, <1>6

LEMMA EventHandlerGood ==
  ASSUME NEW p, State(p), Cur(p) # "EOF"
  PROVE  /\ Follows(p, EventHandler(p)) /\ Ready(EventHandler(p))
         /\ ~ EventHandler(p).had_error =>
              \E h : EventHandler(p).out = <<h>> /\ Solid(h.body)
<1> DEFINE c == <<"skip", ")">>
           q0 == Advance(p)
           q1 == Give(Advance(q0), <<>>)
           q2 == Expect(q1, "(")
           q3 == Returned(q2, c)
           q4 == Expect(q3, ")")
           b == Block(q4)
           h == [type |-> "EVENT_HANDLER", evt |-> EventType(Peek(p, 1)), body |-> b.out]
<1>1. EventHandler(p) = Give(b, <<h>>)
  BY DEF EventHandler, Give, Open
<1>2. c \in Calls
  BY DEF Calls
<1>3. h.body = b.out
  OBVIOUS
<1>4. Follows(p, q0) /\ Ready(q0) /\ State(q0)
  BY Begun
<1> HIDE DEF c, q0, h
<1>5. Follows(p, q1) /\ Ready(q1) /\ State(q1)
  <2>1. Follows(q0, Advance(q0))
    BY <1>4, Advanced
  <2>2. Follows(p, Advance(q0)) /\ Ready(Advance(q0))
    BY <1>4, <2>1, FollowsTrans, ReadyKept
  <2> QED BY <2>2, GivenTo DEF Follows
<1> HIDE DEF q1
<1>6. Follows(p, q2) /\ Ready(q2) /\ State(q2)
  <2>1. Follows(q1, q2)
    BY <1>5, Expected
  <2> HIDE DEF q2
  <2> QED BY <1>5, <2>1, FollowsTrans, ReadyKept DEF Follows
<1> HIDE DEF q2
<1>7. Follows(p, q3) /\ Ready(q3) /\ State(q3)
  <2>1. Follows(q2, q3)
    BY <1>2, <1>6, ReturnedGood
  <2> HIDE DEF q3
  <2> QED BY <1>6, <2>1, FollowsTrans, ReadyKept DEF Follows
<1> HIDE DEF q3
<1>8. Follows(p, q4) /\ Ready(q4) /\ State(q4)
  <2>1. Follows(q3, q4)
    BY <1>7, Expected
  <2> HIDE DEF q4
  <2> QED BY <1>7, <2>1, FollowsTrans, ReadyKept DEF Follows
<1> HIDE DEF q4
<1>9. Built(p, b)
  BY <1>8, BlockGood
<1> HIDE DEF b
<1>10. /\ Follows(p, Give(b, <<h>>)) /\ Ready(Give(b, <<h>>))
       /\ Give(b, <<h>>).had_error = b.had_error /\ Give(b, <<h>>).out = <<h>>
  BY <1>9, GivenTo DEF Built
<1> QED BY <1>1, <1>3, <1>9, <1>10 DEF Built

LEMMA ConfigBlockGood ==
  ASSUME NEW p, State(p), Cur(p) # "EOF"
  PROVE  Follows(p, ConfigBlock(p)) /\ Ready(ConfigBlock(p))
<1> DEFINE c == <<"skip", "}">>
           q0 == Advance(p)
           q1 == Expect(q0, "{")
           q2 == Returned(q1, c)
           q3 == Expect(q2, "}")
<1>1. ConfigBlock(p) = q3
  BY DEF ConfigBlock
<1>2. c \in Calls
  BY DEF Calls
<1>3. Follows(p, q0) /\ Ready(q0) /\ State(q0)
  BY Begun
<1> HIDE DEF c, q0
<1>4. Follows(p, q1) /\ Ready(q1) /\ State(q1)
  <2>1. Follows(q0, q1)
    BY <1>3, Expected
  <2> HIDE DEF q1
  <2> QED BY <1>3, <2>1, FollowsTrans, ReadyKept DEF Follows
<1> HIDE DEF q1
<1>5. Follows(p, q2) /\ Ready(q2) /\ State(q2)
  <2>1. Follows(q1, q2)
    BY <1>2, <1>4, ReturnedGood
  <2> HIDE DEF q2
  <2> QED BY <1>4, <2>1, FollowsTrans, ReadyKept DEF Follows
<1> HIDE DEF q2
<1>6. Follows(p, q3) /\ Ready(q3)
  <2>1. Follows(q2, q3)
    BY <1>5, Expected
  <2> HIDE DEF q3
  <2> QED BY <1>5, <2>1, FollowsTrans, ReadyKept
<1> QED BY <1>1, <1>6

\* The loop over the members of the driver block.
LEMMA DriverBodyGood ==
  ASSUME NEW p, State(p)
  PROVE  Drives(p, DriverBody(p))
<1> DEFINE end == Cur(p) \in {"}", "EOF"}
<1>1. CASE end
  <2>1. TokenType(Cur(p)) \notin {"probe", "remove", "on", "config"}
    BY <1>1 DEF TokenType
  <2>2. DriverBody(p) = Give(p, NoDriver)
    BY <1>1, <2>1 DEF DriverBody, Is
  <2> QED BY <2>2, StateFields, NoDriverGood, DrivesGiven
<1>2. ASSUME ~ end PROVE Follows(p, Advance(p)) /\ Ready(Advance(p)) /\ Cur(p) # "EOF"
  BY <1>2, Begun
<1>3. CASE ~ end /\ Is(p, "probe")
  <2> DEFINE b == Block(Advance(p))
  <2>1. DriverBody(p) = ProbeBlock(b, Rest(b))
    BY <1>3 DEF DriverBody, Is
  <2>2. Built(p, b)
    BY <1>2, <1>3, BlockGood
  <2> HIDE DEF b
  <2> QED BY <2>1, <2>2, BlocksGood
<1>4. CASE ~ end /\ Is(p, "remove")
  <2> DEFINE b == Block(Advance(p))
  <2>1. DriverBody(p) = RemoveBlock(b, Rest(b))
    BY <1>4 DEF DriverBody, Is
  <2>2. Built(p, b)
    BY <1>2, <1>4, BlockGood
  <2> HIDE DEF b
  <2> QED BY <2>1, <2>2, BlocksGood
<1>5. CASE ~ end /\ Is(p, "on")
  <2> DEFINE h == EventHandler(p)
             rest == Rest(h)
             d == rest.out
             d1 == [d EXCEPT !.handlers = h.out \o @]
  <2>1. DriverBody(p) = Give(rest, d1)
    BY <1>5 DEF DriverBody, Is, AddHandler
  <2>2. /\ Follows(p, h) /\ Ready(h)
        /\ ~ h.had_error => \E e : h.out = <<e>> /\ Solid(e.body)
    BY <1>2, <1>5, EventHandlerGood
  <2> HIDE DEF h
  <2>3. Drives(p, rest) /\ Follows(h, rest)
    BY <2>2, RestGood
  <2> HIDE DEF rest
  <2>4. ~ rest.had_error => GoodDriver(d1)
    <3> SUFFICES ASSUME ~ rest.had_error PROVE GoodDriver(d1)
      OBVIOUS
    <3>1. PICK e : h.out = <<e>> /\ Solid(e.body)
      BY <2>2, <2>3 DEF Follows
    <3>2. GoodDriver(d)
      BY <2>3 DEF Drives
    <3> HIDE DEF d
    <3>3. GoodDriver([d EXCEPT !.handlers = <<e>> \o @])
      BY <3>1, <3>2, DriverWithHandler
    <3> QED BY <3>1, <3>3
  <2> HIDE DEF d1
  <2> QED BY <2>1, <2>3, <2>4, DrivesGiven DEF Drives
<1>6. CASE ~ end /\ Is(p, "config")
  <2>1. DriverBody(p) = Rest(ConfigBlock(p))
    BY <1>6 DEF DriverBody, Is
  <2> QED BY <1>2, <1>6, <2>1, ConfigBlockGood, RestGood
<1>7. CASE ~ end /\ TokenType(Cur(p)) \notin {"probe", "remove", "on", "config"}
  <2>1. DriverBody(p) = Rest(Advance(p))
    BY <1>7 DEF DriverBody, Is
  <2> QED BY <1>2, <1>7, <2>1, RestGood
<1> QED BY <1>1, <1>3, <1>4, <1>5, <1>6, <1>7 DEF Is

-----------------------------------------------------------------------------
(* All calls return as they should. *)

LEMMA CallGood ==
  ASSUME NEW p, State(p), p.out = <<>>, NEW c \in Calls
  PROVE  GoodReturn(p.tokens, p.pos, c, Call(p, c))
<1> DEFINE q == Call(p, c)
<1>1. Follows(p, q) /\ (~ q.had_error => Delivers(c, q.out))
  <2>1. ASSUME NEW m \in 1 .. 11, c = <<"expr", m>>
        PROVE  Follows(p, q) /\ (~ q.had_error => Delivers(c, q.out))
    <3>1. q = Climb(Primary(p), m) /\ c[1] = "expr"
      BY <2>1 DEF Call
    <3> HIDE DEF q
    <3> QED BY <3>1, ExprGood DEF Delivers
  <2>2. CASE c = <<"args">>
    <3>1. q = Arguments(p) /\ c[1] = "args"
      BY <2>2 DEF Call
    <3> HIDE DEF q
    <3> QED BY <3>1, ArgumentsGood DEF Delivers
  <2>3. CASE c = <<"elif">>
    <3>1. q = ElifBranches(p) /\ c[1] = "elif"
      BY <2>3 DEF Call
    <3> HIDE DEF q
    <3> QED BY <3>1, ElifBranchesGood DEF Delivers
  <2>4. CASE c = <<"list">>
    <3>1. q = StatementList(p) /\ c[1] = "list"
      BY <2>4 DEF Call
    <3> HIDE DEF q
    <3> QED BY <3>1, StatementListGood DEF Delivers
  <2>5. CASE c = <<"body">>
    <3>1. q = DriverBody(p) /\ c[1] = "body"
      BY <2>5 DEF Call
    <3> HIDE DEF q
    <3> QED BY <3>1, DriverBodyGood DEF Delivers, Drives
  <2>6. CASE c = <<"name">>
    <3>1. q = QualifiedName(p) /\ c[1] = "name"
      BY <2>6 DEF Call
    <3> HIDE DEF q
    <3> QED BY <3>1, QualifiedNameGood DEF Delivers
  <2>7. ASSUME NEW type \in {")", "}"}, c = <<"skip", type>>
        PROVE  Follows(p, q) /\ (~ q.had_error => Delivers(c, q.out))
    <3>1. q = SkipUntil(p, type) /\ c[1] = "skip"
      BY <2>7 DEF Call
    <3> HIDE DEF q
    <3> QED BY <3>1, SkipUntilGood DEF Delivers
  <2> HIDE DEF q
  <2> QED BY <2>1, <2>2, <2>3, <2>4, <2>5, <2>6, <2>7 DEF Calls
<1> HIDE DEF q
<1>2. q.pos \in p.pos .. Len(p.tokens) /\ q.had_error \in BOOLEAN
  <2>1. /\ q.pos \in 1 .. Len(p.tokens) /\ q.pos >= p.pos /\ p.pos \in Nat /\ Len(p.tokens) \in Nat
        /\ q.had_error \in BOOLEAN
    BY <1>1, StateFields DEF Follows
  <2> QED BY <2>1, SMT
<1> QED BY <1>1, <1>2 DEF GoodReturn, q

\* What the calls at position i make of those at the positions behind it.
CallsAt(tokens, i, later) == [c \in Calls |-> Call(ParserAt(tokens, i, later), c)]

\* Parses is the function that its definition says it is.
LEMMA ParsesEquation ==
  ASSUME NEW tokens, EndsWithEof(tokens)
  PROVE  LET n == Len(tokens) IN
           /\ Parses(tokens) = [i \in 1 .. n |->
                CallsAt(tokens, i, [j \in i + 1 .. n |-> Parses(tokens)[j]])]
<1> DEFINE n == Len(tokens)
           G(h, m) == [i \in n - m + 1 .. n |->
                         CallsAt(tokens, i, [j \in i + 1 .. n |-> h[j]])]
           F(h) == [i \in 1 .. n |-> CallsAt(tokens, i, [j \in i + 1 .. n |-> h[j]])]
           good == {m \in 0 .. n : \E h : h = G(h, m)}
           from == CHOOSE h : h = F(h)
<1>1. n \in Nat /\ DOMAIN tokens = 1 .. n
  BY FileEnd
<1>2. Parses(tokens) = from
  BY <1>1, Zenon DEF Parses, CallsAt
<1> HIDE DEF n
<1>3. \E h : h = F(h)
  <2>1. 0 \in good
    <3>1. 0 \in 0 .. n /\ n - 0 + 1 .. n = {}
      BY <1>1, SMT
    <3> DEFINE h == [i \in n - 0 + 1 .. n |-> 0]
    <3>2. h = G(h, 0)
      BY <3>1
    <3> HIDE DEF h, G
    <3> QED BY <3>1, <3>2
  <2>2. ASSUME NEW m \in 0 + 1 .. n, m - 1 \in good PROVE m \in good
    <3>1. PICK h : h = G(h, m - 1)
      BY <2>2
    <3> DEFINE first == n - m + 1
               g == [i \in first .. n |->
                       IF i = first THEN CallsAt(tokens, i, [j \in i + 1 .. n |-> h[j]]) ELSE h[i]]
    <3>2. /\ m \in 0 .. n /\ first \in Nat /\ n - (m - 1) + 1 = first + 1
          /\ \A i \in first .. n : i # first => i \in first + 1 .. n
          /\ \A i \in first .. n : \A j \in i + 1 .. n : j \in first .. n /\ j # first
      BY <1>1, SMT
    <3> HIDE DEF first
    <3>3. \A i \in first + 1 .. n : h[i] = CallsAt(tokens, i, [j \in i + 1 .. n |-> h[j]])
      BY <3>1, <3>2, Zenon
    <3>4. \A i \in first .. n : g[i] = CallsAt(tokens, i, [j \in i + 1 .. n |-> g[j]])
      <4> SUFFICES ASSUME NEW i \in first .. n
                   PROVE  g[i] = CallsAt(tokens, i, [j \in i + 1 .. n |-> g[j]])
        OBVIOUS
      <4>1. [j \in i + 1 .. n |-> g[j]] = [j \in i + 1 .. n |-> h[j]]
        BY <3>2
      <4>2. g[i] = CallsAt(tokens, i, [j \in i + 1 .. n |-> h[j]])
        <5>1. CASE i = first
          BY <5>1
        <5>2. CASE i # first
          BY <3>2, <3>3, <5>2
        <5> QED BY <5>1, <5>2
      <4> HIDE DEF g
      <4> QED BY <4>1, <4>2
    <3>5. g = G(g, m)
      <4>1. G(g, m) = [i \in first .. n |-> CallsAt(tokens, i, [j \in i + 1 .. n |-> g[j]])]
        BY DEF first
      <4>2. g = [i \in first .. n |-> g[i]]
        OBVIOUS
      <4> HIDE DEF g, G
      <4> QED BY <3>4, <4>1, <4>2
    <3> HIDE DEF g, G
    <3> QED BY <3>2, <3>5
  <2> HIDE DEF good
  <2>3. \A m \in 0 .. n : m \in good
    BY <1>1, <2>1, <2>2, Upwards
  <2>4. n \in good /\ n - n + 1 = 1
    BY <1>1, <2>3, SMT
  <2>5. \A h : G(h, n) = F(h)
    BY <2>4
  <2> HIDE DEF G, F
  <2> QED BY <2>4, <2>5 DEF good
<1>4. from = F(from)
  <2> HIDE DEF F
  <2> QED BY <1>3, Zenon
<1> QED BY <1>2, <1>4 DEF n

\* A state at the beginning of a call.
LEMMA ParserAtState ==
  ASSUME NEW tokens, EndsWithEof(tokens), NEW i \in 1 .. Len(tokens), NEW later,
         DOMAIN later \subseteq Nat, \A j \in i + 1 .. Len(tokens) : j \in DOMAIN later,
         GoodTable(tokens, later)
  PROVE  LET p == ParserAt(tokens, i, later) IN
           State(p) /\ p.out = <<>> /\ p.tokens = tokens /\ p.pos = i
<1> DEFINE p == ParserAt(tokens, i, later)
<1>1. /\ p.tokens = tokens /\ p.pos = i /\ p.had_error = FALSE /\ p.out = <<>> /\ p.later = later
      /\ p = [tokens |-> p.tokens, pos |-> p.pos, had_error |-> p.had_error, out |-> p.out,
              later |-> p.later]
  BY DEF ParserAt
<1> HIDE DEF p
<1>2. p \in [tokens : {p.tokens}, pos : 1 .. Len(p.tokens), had_error : BOOLEAN,
             out : {p.out}, later : {p.later}]
  <2> DEFINE out == p.out
  <2> HIDE DEF out
  <2>1. p = [tokens |-> p.tokens, pos |-> p.pos, had_error |-> p.had_error, out |-> out,
             later |-> p.later]
    BY <1>1 DEF out
  <2>2. p.pos \in 1 .. Len(p.tokens) /\ p.had_error \in BOOLEAN
    BY <1>1
  <2>3. p \in [tokens : {p.tokens}, pos : 1 .. Len(p.tokens), had_error : BOOLEAN,
               out : {out}, later : {p.later}]
    BY <2>1, <2>2
  <2> QED BY <2>3 DEF out
<1>3. State(p)
  BY <1>1, <1>2 DEF State
<1> QED BY <1>1, <1>3 DEF p

LEMMA ParsesGood ==
  ASSUME NEW tokens, EndsWithEof(tokens)
  PROVE  /\ DOMAIN Parses(tokens) = 1 .. Len(tokens)
         /\ GoodTable(tokens, Parses(tokens))
<1> DEFINE n == Len(tokens)
           from == Parses(tokens)
           Fine(i) == \A c \in Calls : GoodReturn(tokens, i, c, from[i][c])
           good == {m \in 0 .. n : \A i \in n - m + 1 .. n : Fine(i)}
<1>1. n \in Nat
  BY FileEnd
<1>2. from = [i \in 1 .. n |-> CallsAt(tokens, i, [j \in i + 1 .. n |-> from[j]])]
  BY ParsesEquation
<1> HIDE DEF from, n
<1>3. \A i \in 1 .. n : from[i] = CallsAt(tokens, i, [j \in i + 1 .. n |-> from[j]])
  BY <1>2, Zenon
<1>4. DOMAIN from = 1 .. n
  BY <1>2, Zenon
<1>5. \A m \in 0 .. n : m \in good
  <2>1. 0 \in good
    <3>1. 0 \in 0 .. n /\ n - 0 + 1 .. n = {}
      BY <1>1, SMT
    <3> HIDE DEF Fine
    <3> QED BY <3>1
  <2>2. ASSUME NEW m \in 0 + 1 .. n, m - 1 \in good PROVE m \in good
    <3> DEFINE first == n - m + 1
               later == [j \in first + 1 .. n |-> from[j]]
               p == ParserAt(tokens, first, later)
    <3>1. /\ m \in 0 .. n /\ first \in Nat /\ first \in 1 .. n /\ n - (m - 1) + 1 = first + 1
          /\ \A i \in first .. n : i # first => i \in first + 1 .. n
          /\ first + 1 .. n \subseteq Nat
      BY <1>1, SMT
    <3>2. \A i \in first + 1 .. n : Fine(i)
      <4> HIDE DEF Fine, first
      <4> QED BY <2>2, <3>1
    <3>3. from[first] = CallsAt(tokens, first, later)
      BY <1>3, <3>1
    <3> HIDE DEF first
    <3>4. DOMAIN later = first + 1 .. n /\ \A j \in first + 1 .. n : later[j] = from[j]
      OBVIOUS
    <3> HIDE DEF later
    <3>5. GoodTable(tokens, later)
      BY <3>2, <3>4 DEF GoodTable
    <3>6. State(p) /\ p.out = <<>> /\ p.tokens = tokens /\ p.pos = first
      BY <3>1, <3>4, <3>5, ParserAtState DEF n
    <3>7. Fine(first)
      <4> SUFFICES ASSUME NEW c \in Calls PROVE GoodReturn(tokens, first, c, from[first][c])
        OBVIOUS
      <4>1. from[first][c] = Call(p, c)
        BY <3>3 DEF CallsAt
      <4> HIDE DEF p
      <4>2. GoodReturn(p.tokens, p.pos, c, Call(p, c))
        BY <3>6, CallGood
      <4> QED BY <3>6, <4>1, <4>2
    <3> HIDE DEF Fine
    <3>8. \A i \in first .. n : Fine(i)
      BY <3>1, <3>2, <3>7
    <3> QED BY <3>1, <3>8 DEF first
  <2> HIDE DEF good
  <2> QED BY <1>1, <2>1, <2>2, Upwards
<1>6. \A i \in 1 .. n : Fine(i)
  <2>1. n \in 0 .. n /\ n - n + 1 = 1
    BY <1>1, SMT
  <2> HIDE DEF Fine
  <2> QED BY <1>5, <2>1
<1> QED BY <1>4, <1>6 DEF GoodTable, from, n

\* kdal_parse hands on a driver without holes.
LEMMA ParsedWhole ==
  ASSUME NEW tokens, EndsWithEof(tokens), ParseDriver(tokens).ok
  PROVE  GoodDriver(ParseDriver(tokens).driver)
<1> DEFINE s == Start(tokens)
           q1 == Advance(s)
           q2 == Advance(q1)
           q3 == ForClass(q2)
           q4 == Expect(q3, "{")
           b == DriverBody(q4)
           end == Expect(b, "}")
<1>1. ParseDriver(tokens) = EndOfDriver(b)
  BY DEF ParseDriver
<1>2. State(s)
  <2> DEFINE later == Parses(tokens)
  <2>1. Len(tokens) \in Nat /\ 1 \in 1 .. Len(tokens)
    BY FileEnd, SMT
  <2>2. DOMAIN later = 1 .. Len(tokens) /\ GoodTable(tokens, later)
    BY ParsesGood
  <2>3. 1 .. Len(tokens) \subseteq Nat /\ \A j \in 1 + 1 .. Len(tokens) : j \in 1 .. Len(tokens)
    BY <2>1, SMT
  <2>4. s = ParserAt(tokens, 1, later)
    BY DEF Start
  <2> HIDE DEF later
  <2> QED BY <2>1, <2>2, <2>3, <2>4, ParserAtState
<1> HIDE DEF s
<1>3. State(q1)
  BY <1>2, Advanced DEF Follows
<1> HIDE DEF q1
<1>4. State(q2)
  BY <1>3, Advanced DEF Follows
<1> HIDE DEF q2
<1>5. State(q3)
  BY <1>4, ForClassGood DEF Follows
<1> HIDE DEF q3
<1>6. State(q4)
  BY <1>5, Expected DEF Follows
<1> HIDE DEF q4
<1>7. Drives(q4, b) /\ State(b)
  BY <1>6, DriverBodyGood DEF Drives, Follows
<1> HIDE DEF b
<1>8. Follows(b, end)
  BY <1>7, Expected
<1>9. EndOfDriver(b).ok = ~ end.had_error /\ EndOfDriver(b).driver = b.out
  BY DEF EndOfDriver, ParseResult
<1> HIDE DEF end
<1> QED BY <1>1, <1>7, <1>8, <1>9 DEF Drives, Follows

-----------------------------------------------------------------------------
(* The driver. *)

\* What there is of the passes is what they made of the file.
DriverInv ==
  /\ IsFile(written)
  /\ tree # NotRun => tree = ParseDriver(written)
  /\ simulated # NotRun => IsSimulation(simulated)

LEMMA DriverKept == DriverSpec => []DriverInv
<1>1. DriverInit => DriverInv
  BY DEF DriverInit, DriverInv
<1>2. DriverInv /\ [DriverNext]_driverVars => DriverInv'
  <2> SUFFICES ASSUME DriverInv, [DriverNext]_driverVars PROVE DriverInv'
    OBVIOUS
  <2>1. CASE Rewrite
    BY <2>1 DEF DriverInv, Rewrite
  <2>2. CASE Parse
    BY <2>2 DEF DriverInv, Parse
  <2>3. CASE DryRun
    BY <2>3 DEF DriverInv, DryRun
  <2>4. CASE UNCHANGED driverVars
    BY <2>4 DEF DriverInv, driverVars
  <2> QED BY <2>1, <2>2, <2>3, <2>4 DEF DriverNext
<1> QED BY <1>1, <1>2, PTL DEF DriverSpec

\* Whatever the interpreter does with the tree: the table it ends with holds every
\* register once, at the value its trace wrote last, misses only registers that were
\* read when it was full, and every read of the trace returned what was written last
\* before it; this for names that fit into an entry and that none of the trace is cut
\* to.  A longer name is read as zero (simulate.c sim_reg_read, sim_reg_write).
THEOREM TableAlwaysMatches == DriverSpec => []TableMatchesTrace
<1>1. DriverInv => TableMatchesTrace
  BY SimulationMatches DEF DriverInv, TableMatchesTrace
<1> QED BY <1>1, DriverKept, PTL

\* What the parser accepts has no hole at any level, for every file: every production
\* that returns without an error has read what it expected, so the nodes of an accepted
\* tree make up a set that is closed under going down a level (parser.c kdal_parse).
THEOREM AcceptedAlwaysWhole == DriverSpec => []AcceptedIsWhole
<1>1. DriverInv => AcceptedIsWhole
  <2> SUFFICES ASSUME DriverInv, tree # NotRun, tree.ok
               PROVE  /\ WholeChain(tree.driver.probe)
                      /\ WholeChain(tree.driver.remove)
                      /\ \A k \in DOMAIN tree.driver.handlers :
                           WholeChain(tree.driver.handlers[k].body)
    BY DEF AcceptedIsWhole
  <2>1. GoodDriver(tree.driver)
    BY ParsedWhole DEF DriverInv, IsFile, EndsWithEof
  <2>2. Solid(tree.driver.probe) /\ Solid(tree.driver.remove)
    BY <2>1 DEF GoodDriver
  <2>3. ASSUME NEW k \in DOMAIN tree.driver.handlers
        PROVE  Solid(tree.driver.handlers[k].body)
    <3>1. PICK H : tree.driver.handlers \in Seq(H) /\ \A h \in H : Solid(h.body)
      BY <2>1 DEF GoodDriver
    <3>2. tree.driver.handlers[k] \in H
      BY <2>3, <3>1, ElementOfSeq, LenProperties
    <3> QED BY <3>1, <3>2
  <2> QED BY <2>2, <2>3, SolidWhole
<1> QED BY <1>1, DriverKept, PTL

-----------------------------------------------------------------------------
(* Headers. *)

\* A register as the analysis wants it, in the tokens it was made from.
GoodRegister(words, reg) == IsRegister(reg) /\ StandsIn(words, reg)

\* The bit ranges of a bitfield.
GoodMembers(chain) == \E S : chain \in Seq(S) /\ \A m \in S : {m.bit_lo, m.bit_hi} \subseteq Int

\* The declarations of a block.
Declared(words, kind, chain) ==
  \E S : chain \in Seq(S) /\ (kind = "registers" => \A r \in S : GoodRegister(words, r))

\* The parts of a device class.
GoodParts(words, chain) ==
  \E S : /\ chain \in Seq(S)
         /\ \A m \in S : m.field \in BlockKinds => Declared(words, m.field, m.value)

\* What a call of a header returns, an error reported or not.
Collected(words, c, out) ==
  /\ c[1] = "bits" => GoodMembers(out)
  /\ c[1] = "decls" => Declared(words, c[2], out)
  /\ c[1] = "parts" => GoodParts(words, out)

\* The return from a call c of a header at position j.
Collects(tokens, j, c, r) ==
  r.pos \in j .. Len(tokens) /\ r.had_error \in BOOLEAN /\ Collected(tokens, c, r.out)

HeaderTable(tokens, later) ==
  \A j \in DOMAIN later : \A c \in HeaderCalls : Collects(tokens, j, c, later[j][c])

HeaderState(p) == State(p) /\ HeaderTable(p.tokens, p.later)

\* A state that a parse function leads to from p, from where calls may be made.
Reads(p, q) == Follows(p, q) /\ Ready(q)

LEMMA ReadsStep ==
  ASSUME NEW p, State(p), NEW q, Reads(p, q), NEW r, Follows(q, r)
  PROVE  Reads(p, r)
<1>1. State(q) /\ Follows(p, r)
  BY FollowsTrans DEF Reads, Follows
<1> QED BY <1>1, ReadyKept DEF Reads

LEMMA ReadsState ==
  ASSUME NEW p, NEW q, Reads(p, q)
  PROVE  State(q) /\ Ready(q) /\ q.tokens = p.tokens /\ q.later = p.later
BY DEF Reads, Follows

LEMMA ReadsAdvance ==
  ASSUME NEW p, State(p), NEW q, Reads(p, q)
  PROVE  /\ Reads(p, Advance(q)) /\ Advance(q).out = q.out
         /\ Cur(q) # "EOF" => Advance(q).pos = q.pos + 1
<1>1. State(q)
  BY ReadsState
<1> QED BY <1>1, Advanced, ReadsStep

LEMMA ReadsExpect ==
  ASSUME NEW p, State(p), NEW q, Reads(p, q), NEW type
  PROVE  Reads(p, Expect(q, type)) /\ Expect(q, type).out = q.out
<1>1. State(q)
  BY ReadsState
<1> QED BY <1>1, Expected, ReadsStep

LEMMA ReadsGive ==
  ASSUME NEW p, State(p), NEW q, Reads(p, q), NEW o
  PROVE  /\ Reads(p, Give(q, o)) /\ Give(q, o).out = o /\ Give(q, o).pos = q.pos
         /\ Cur(Give(q, o)) = Cur(q)
<1>1. State(q)
  BY ReadsState
<1> QED BY <1>1, Given, ReadsStep DEF Cur

\* The first token of a declaration is taken, whatever chain was given.
LEMMA ReadsBegun ==
  ASSUME NEW p, State(p), Cur(p) # "EOF", NEW o
  PROVE  /\ Reads(p, Advance(p)) /\ Advance(p).out = p.out
         /\ Reads(p, Advance(Give(p, o))) /\ Advance(Give(p, o)).out = o
         /\ Advance(Give(p, o)).pos = p.pos + 1
<1> DEFINE q == Give(p, o)
<1>1. State(q) /\ Follows(p, q) /\ q.out = o /\ q.pos = p.pos /\ q.tokens = p.tokens
  BY Given DEF Follows
<1>2. Cur(q) # "EOF"
  BY <1>1 DEF Cur
<1> HIDE DEF q
<1>3. Reads(q, Advance(q)) /\ Advance(q).out = o /\ Advance(q).pos = p.pos + 1
  BY <1>1, <1>2, Advanced DEF Reads
<1>4. Reads(p, Advance(q))
  BY <1>1, <1>3, FollowsTrans DEF Reads
<1>5. Reads(p, Advance(p)) /\ Advance(p).out = p.out
  BY Advanced DEF Reads
<1> QED BY <1>3, <1>4, <1>5 DEF q

\* The return from any call that ends at or behind the cursor.
LEMMA ReturnedFollows ==
  ASSUME NEW p, State(p), NEW c,
         p.later[p.pos][c].pos \in p.pos .. Len(p.tokens), p.later[p.pos][c].had_error \in BOOLEAN
  PROVE  Follows(p, Returned(p, c)) /\ Returned(p, c).out = p.later[p.pos][c].out
<1> DEFINE r == p.later[p.pos][c]
           e == p.had_error \/ r.had_error
           q == [tokens |-> p.tokens, pos |-> r.pos, had_error |-> e, out |-> r.out,
                 later |-> p.later]
<1>1. Returned(p, c) = q
  <2> DEFINE f == [p EXCEPT !.pos = r.pos]
             g == [f EXCEPT !.had_error = e]
  <2>1. Returned(p, c) = [g EXCEPT !.out = r.out]
    BY DEF Returned
  <2> HIDE DEF r, e
  <2>2. f = [tokens |-> p.tokens, pos |-> r.pos, had_error |-> p.had_error, out |-> p.out,
             later |-> p.later]
    BY Record
  <2> HIDE DEF f
  <2>3. g = [tokens |-> p.tokens, pos |-> r.pos, had_error |-> e, out |-> p.out,
             later |-> p.later]
    BY <2>2
  <2> HIDE DEF g
  <2>4. [g EXCEPT !.out = r.out] = q
    BY <2>3
  <2> QED BY <2>1, <2>4
<1> HIDE DEF r
<1>2. r.pos \in p.pos .. Len(p.tokens) /\ e \in BOOLEAN /\ (p.had_error => e)
  BY StateFields DEF r
<1>3. Follows(p, q)
  <2> HIDE DEF e
  <2> QED BY <1>2, StateOf
<1>4. q.out = r.out
  OBVIOUS
<1> HIDE DEF q, e
<1> QED BY <1>1, <1>3, <1>4 DEF r

LEMMA ReadsCall ==
  ASSUME NEW p, State(p), NEW q, Reads(p, q), NEW c \in Calls
  PROVE  Reads(p, Returned(q, c))
<1>1. State(q) /\ Ready(q)
  BY ReadsState
<1> QED BY <1>1, ReturnedGood, ReadsStep

LEMMA ReadsHeaderCall ==
  ASSUME NEW p, HeaderState(p), NEW q, Reads(p, q), NEW c \in HeaderCalls
  PROVE  Reads(p, Returned(q, c)) /\ Collected(p.tokens, c, Returned(q, c).out)
<1>1. State(p) /\ State(q) /\ Ready(q) /\ q.tokens = p.tokens /\ q.later = p.later
  BY ReadsState DEF HeaderState
<1>2. Collects(q.tokens, q.pos, c, q.later[q.pos][c])
  BY <1>1 DEF HeaderState, HeaderTable, Ready
<1>3. Follows(q, Returned(q, c)) /\ Returned(q, c).out = q.later[q.pos][c].out
  BY <1>1, <1>2, ReturnedFollows DEF Collects
<1> QED BY <1>1, <1>2, <1>3, ReadsStep DEF Collects

LEMMA FirstCall == <<"expr", 1>> \in Calls
<1>1. 1 \in 1 .. 11
  BY SMT
<1> QED BY <1>1 DEF Calls

-----------------------------------------------------------------------------
(* Fields of a declaration. *)

With(r, f, v) == [r EXCEPT ![f] = v]

LEMMA FieldSet ==
  ASSUME NEW r, NEW f \in DOMAIN r, NEW v
  PROVE  LET t == With(r, f, v) IN
           /\ DOMAIN t = DOMAIN r /\ t[f] = v
           /\ \A g \in DOMAIN r : g # f => t[g] = r[g]
BY DEF With

LEMMA ReadsField ==
  ASSUME NEW p, State(p), NEW q, Reads(p, q), NEW f, NEW v
  PROVE  /\ Reads(p, Field(q, f, v)) /\ Field(q, f, v).out = With(q.out, f, v)
         /\ Field(q, f, v).pos = q.pos /\ Cur(Field(q, f, v)) = Cur(q)
BY ReadsGive DEF Field, With

LEMMA ReadsExprField ==
  ASSUME NEW p, State(p), NEW q, Reads(p, q), NEW f
  PROVE  /\ Reads(p, ExprField(q, f))
         /\ \E v : ExprField(q, f).out = With(q.out, f, v)
<1> DEFINE r == Returned(q, <<"expr", 1>>)
<1>1. Reads(p, r)
  BY FirstCall, ReadsCall
<1>2. ExprField(q, f) = Give(r, With(q.out, f, r.out))
  BY DEF ExprField, Into, With
<1> DEFINE o == With(q.out, f, r.out)
<1> HIDE DEF r, o
<1>3. Reads(p, Give(r, o)) /\ Give(r, o).out = o
  BY <1>1, ReadsGive
<1>4. ExprField(q, f) = Give(r, o)
  BY <1>2 DEF o
<1>5. \E v : o = With(q.out, f, v)
  BY Zenon DEF o
<1> QED BY <1>3, <1>4, <1>5

\* A number is a literal of the tokens, and its value an offset.
LEMMA ReadsNumber ==
  ASSUME NEW p, State(p), NEW q, Reads(p, q), NEW f
  PROVE  /\ Reads(p, NumberField(q, f))
         /\ IF IsNumber(q)
            THEN /\ NumberField(q, f).out = With(q.out, f, IntValue[Cur(q)])
                 /\ Cur(q) \in DOMAIN IntValue
                 /\ IntValue[Cur(q)] \in 0 .. OffsetModulus - 1
            ELSE NumberField(q, f) = q
<1>1. CASE IsNumber(q)
  <2> DEFINE r == Field(q, f, IntValue[Cur(q)])
  <2>1. Reads(p, r) /\ r.out = With(q.out, f, IntValue[Cur(q)])
    BY ReadsField
  <2>2. NumberField(q, f) = Advance(r)
    BY <1>1 DEF NumberField
  <2> HIDE DEF r
  <2>3. Reads(p, Advance(r)) /\ Advance(r).out = r.out
    BY <2>1, ReadsAdvance
  <2> QED BY <1>1, <2>1, <2>2, <2>3, LiteralsAssumption DEF IsNumber
<1>2. CASE ~ IsNumber(q)
  BY <1>2 DEF NumberField
<1> QED BY <1>1, <1>2

LEMMA ReadsAccess ==
  ASSUME NEW p, State(p), NEW q, Reads(p, q)
  PROVE  /\ Reads(p, Access(q))
         /\ \E v : Access(q).out = With(q.out, "access", v)
<1>1. CASE Cur(q) \in {"ro", "wo", "rw", "rc"}
  <2> DEFINE r == Field(q, "access", Cur(q))
  <2>1. Reads(p, r) /\ r.out = With(q.out, "access", Cur(q)) /\ Access(q) = Advance(r)
    BY <1>1, ReadsField DEF Access
  <2> HIDE DEF r
  <2>2. Reads(p, Advance(r)) /\ Advance(r).out = r.out
    BY <2>1, ReadsAdvance
  <2> QED BY <2>1, <2>2, Zenon
<1>2. CASE Cur(q) \notin {"ro", "wo", "rw", "rc"}
  BY <1>2, ReadsField DEF Access
<1> QED BY <1>1, <1>2

LEMMA ReadsReset ==
  ASSUME NEW p, State(p), NEW q, Reads(p, q)
  PROVE  /\ Reads(p, ResetValue(q))
         /\ \/ ResetValue(q).out = q.out
            \/ \E v : ResetValue(q).out = With(q.out, "reset_val", v)
<1>1. CASE Is(q, "=")
  <2> DEFINE r == Advance(q)
  <2>1. Reads(p, r) /\ r.out = q.out /\ ResetValue(q) = ExprField(r, "reset_val")
    BY <1>1, ReadsAdvance DEF ResetValue
  <2> HIDE DEF r
  <2>2. Reads(p, ExprField(r, "reset_val"))
        /\ \E v : ExprField(r, "reset_val").out = With(r.out, "reset_val", v)
    BY <2>1, ReadsExprField
  <2> QED BY <2>1, <2>2, Zenon
<1>2. CASE ~ Is(q, "=")
  BY <1>2 DEF ResetValue
<1> QED BY <1>1, <1>2

-----------------------------------------------------------------------------
(* Registers. *)

RegisterFields == {"name", "width", "bitfield", "offset", "access", "reset_val", "members"}

\* The offset of a register that is declared at position k.
PlacedAt(words, k, n) ==
  n \in 0 .. OffsetModulus - 1 /\ (n # NoOffset => DeclaresNumber(words, k, n))

\* A register under construction that is declared at position k.
Draft(words, k, r) ==
  /\ RegisterFields \subseteq DOMAIN r
  /\ k \in DOMAIN words /\ r.name = words[k]
  /\ IF r.bitfield THEN r.bitfield = TRUE /\ r.width = 0
     ELSE r.bitfield = FALSE /\ r.width \in {8, 16, 32, 64}
  /\ PlacedAt(words, k, r.offset)
  /\ GoodMembers(r.members)

LEMMA RegisterWith ==
  ASSUME NEW r, RegisterFields \subseteq DOMAIN r, NEW f \in RegisterFields, NEW v
  PROVE  LET t == With(r, f, v) IN
           /\ RegisterFields \subseteq DOMAIN t
           /\ t.name = IF f = "name" THEN v ELSE r.name
           /\ t.width = IF f = "width" THEN v ELSE r.width
           /\ t.bitfield = IF f = "bitfield" THEN v ELSE r.bitfield
           /\ t.offset = IF f = "offset" THEN v ELSE r.offset
           /\ t.members = IF f = "members" THEN v ELSE r.members
<1> DEFINE t == With(r, f, v)
<1>1. /\ f \in DOMAIN r
      /\ DOMAIN t = DOMAIN r /\ t[f] = v /\ \A g \in DOMAIN r : g # f => t[g] = r[g]
  BY FieldSet
<1> HIDE DEF t
<1>2. \A g \in RegisterFields : t[g] = IF f = g THEN v ELSE r[g]
  BY <1>1
<1> QED BY <1>1, <1>2 DEF RegisterFields, t

LEMMA OwnElements ==
  ASSUME NEW S, NEW s \in Seq(S)
  PROVE  IsSequence(s) /\ \A k \in DOMAIN s : s[k] \in S
<1> DEFINE T == {s[k] : k \in DOMAIN s}
<1>1. Len(s) \in Nat /\ DOMAIN s = 1 .. Len(s) /\ s \in [1 .. Len(s) -> S]
  BY LenProperties
<1>2. s \in [1 .. Len(s) -> T]
  BY <1>1
<1> HIDE DEF T
<1>3. s \in Seq(T)
  BY <1>1, <1>2, SeqDef
<1> QED BY <1>1, <1>3 DEF IsSequence, T

LEMMA DraftGood ==
  ASSUME NEW words, NEW k, NEW r, Draft(words, k, r)
  PROVE  GoodRegister(words, r)
<1>1. StandsIn(words, r)
  BY DEF Draft, PlacedAt, StandsIn
<1>2. PICK S : r.members \in Seq(S) /\ \A m \in S : {m.bit_lo, m.bit_hi} \subseteq Int
  BY DEF Draft, GoodMembers
<1> DEFINE s == r.members
<1>3. IsSequence(s) /\ \A j \in DOMAIN s : s[j] \in S
  <2> HIDE DEF s
  <2> QED BY <1>2, OwnElements DEF s
<1>4. IsSequence(r.members)
  BY <1>3
<1>5. \A j \in DOMAIN r.members : {r.members[j].bit_lo, r.members[j].bit_hi} \subseteq Int
  BY <1>2, <1>3
<1>6. r.width \in {0, 8, 16, 32, 64} /\ r.bitfield = (r.width = 0)
  <2>1. CASE r.bitfield
    BY <2>1 DEF Draft
  <2>2. CASE ~ r.bitfield
    <3>1. r.bitfield = FALSE /\ r.width \in {8, 16, 32, 64}
      BY <2>2 DEF Draft
    <3> DEFINE w == r.width
    <3> HIDE DEF w
    <3>2. w \in {8, 16, 32, 64} => w # 0 /\ w \in {0, 8, 16, 32, 64}
      BY SMT
    <3> QED BY <3>1, <3>2, Zenon DEF w
  <2> QED BY <2>1, <2>2
<1>7. r.offset \in 0 .. OffsetModulus - 1
  BY DEF Draft, PlacedAt
<1> QED BY <1>1, <1>4, <1>5, <1>6, <1>7 DEF GoodRegister, IsRegister

\* A later state with the register that is declared at position k.
Drafts(p, k, q) == Reads(p, q) /\ Draft(p.tokens, k, q.out)

LEMMA DraftsExpect ==
  ASSUME NEW p, State(p), NEW k, NEW q, Drafts(p, k, q), NEW type
  PROVE  Drafts(p, k, Expect(q, type))
BY ReadsExpect DEF Drafts

\* What is neither the place nor the shape of the register may change.
LEMMA DraftKept ==
  ASSUME NEW words, NEW k, NEW r, Draft(words, k, r), NEW f \in {"access", "reset_val"}, NEW v
  PROVE  Draft(words, k, With(r, f, v))
<1> DEFINE t == With(r, f, v)
<1>1. /\ RegisterFields \subseteq DOMAIN t /\ t.name = r.name /\ t.width = r.width
      /\ t.bitfield = r.bitfield /\ t.offset = r.offset /\ t.members = r.members
  <2>1. RegisterFields \subseteq DOMAIN r /\ f \in RegisterFields
    BY DEF Draft, RegisterFields
  <2> QED BY <2>1, RegisterWith
<1> HIDE DEF t
<1>2. Draft(words, k, t)
  BY <1>1 DEF Draft
<1> QED BY <1>2 DEF t

LEMMA DraftsAccess ==
  ASSUME NEW p, State(p), NEW k, NEW q, Drafts(p, k, q)
  PROVE  Drafts(p, k, Access(q))
<1>1. Reads(p, Access(q)) /\ \E v : Access(q).out = With(q.out, "access", v)
  BY ReadsAccess DEF Drafts
<1> QED BY <1>1, DraftKept DEF Drafts

LEMMA DraftsReset ==
  ASSUME NEW p, State(p), NEW k, NEW q, Drafts(p, k, q)
  PROVE  Drafts(p, k, ResetValue(q))
<1>1. Reads(p, ResetValue(q))
      /\ (ResetValue(q).out = q.out \/ \E v : ResetValue(q).out = With(q.out, "reset_val", v))
  BY ReadsReset DEF Drafts
<1> QED BY <1>1, DraftKept DEF Drafts

\* The offset has not been read yet, nor a semicolon.
Pending(p, k, q) ==
  /\ Drafts(p, k, q)
  /\ k < q.pos /\ \A i \in k .. q.pos - 1 : p.tokens[i] # ";"

LEMMA NatBelow ==
  ASSUME NEW n \in Nat, NEW k \in 1 .. n
  PROVE  k \in Nat
BY SMT

Between(k, j) ==
  /\ k < j + 1
  /\ \A i \in k .. (j + 1) - 1 : i = j \/ i \in k .. j - 1
  /\ \A i \in k .. j : i = j \/ i \in k .. j - 1

LEMMA OneFurther ==
  ASSUME NEW k \in Nat, NEW j \in Nat, k < j
  PROVE  Between(k, j)
BY SMT DEF Between

LEMMA PendingAdvance ==
  ASSUME NEW p, State(p), NEW k, NEW q, Pending(p, k, q), Cur(q) \notin {";", "EOF"}
  PROVE  Pending(p, k, Advance(q))
<1>1. Reads(p, q) /\ q.tokens = p.tokens /\ State(q)
  BY ReadsState DEF Pending, Drafts
<1>2. Reads(p, Advance(q)) /\ Advance(q).out = q.out /\ Advance(q).pos = q.pos + 1
  BY <1>1, ReadsAdvance
<1>3. k \in Nat /\ q.pos \in Nat /\ k < q.pos
  <2>1. k \in 1 .. Len(p.tokens) /\ Len(p.tokens) \in Nat
    BY FileEnd DEF Pending, Drafts, Draft, State
  <2>2. k \in Nat
    BY <2>1, NatBelow
  <2>3. k < q.pos
    BY Zenon DEF Pending
  <2> QED BY <1>1, <2>2, <2>3, StateFields
<1>4. Between(k, q.pos)
  BY <1>3, OneFurther
<1>5. \A i \in k .. (q.pos + 1) - 1 : p.tokens[i] # ";"
  <2> SUFFICES ASSUME NEW i \in k .. (q.pos + 1) - 1 PROVE p.tokens[i] # ";"
    OBVIOUS
  <2>1. i = q.pos \/ i \in k .. q.pos - 1
    BY <1>4 DEF Between
  <2>2. p.tokens[q.pos] # ";"
    BY <1>1 DEF Cur
  <2> QED BY <2>1, <2>2 DEF Pending
<1>6. k < q.pos + 1
  BY <1>4 DEF Between
<1> QED BY <1>2, <1>5, <1>6 DEF Pending, Drafts

LEMMA PendingNumber ==
  ASSUME NEW p, State(p), NEW k, NEW q, Pending(p, k, q)
  PROVE  Drafts(p, k, NumberField(q, "offset"))
<1> DEFINE r == NumberField(q, "offset")
           n == IntValue[Cur(q)]
<1>1. Reads(p, q) /\ q.tokens = p.tokens /\ State(q)
  BY ReadsState DEF Pending, Drafts
<1>2. /\ Reads(p, r)
      /\ IF IsNumber(q)
         THEN /\ r.out = With(q.out, "offset", n) /\ Cur(q) \in DOMAIN IntValue
              /\ n \in 0 .. OffsetModulus - 1
         ELSE r = q
  BY <1>1, ReadsNumber
<1>3. CASE ~ IsNumber(q)
  BY <1>2, <1>3 DEF Pending
<1>4. CASE IsNumber(q)
  <2>1. k \in 1 .. Len(p.tokens) /\ q.pos \in 1 .. Len(p.tokens) /\ Len(p.tokens) \in Nat /\ k < q.pos
    BY <1>1, FileEnd, StateFields DEF Pending, Drafts, Draft, State
  <2>2. q.pos \in k + 1 .. Len(p.tokens) /\ \A i \in k .. q.pos : i = q.pos \/ i \in k .. q.pos - 1
    BY <2>1, SMT
  <2>3. Cur(q) = p.tokens[q.pos] /\ Cur(q) # ";"
    BY <1>1, <1>2, <1>4, LiteralsAssumption DEF Cur
  <2>4. \A i \in k .. q.pos : p.tokens[i] # ";"
    BY <2>2, <2>3 DEF Pending
  <2>5. DeclaresNumber(p.tokens, k, n)
    BY <1>2, <1>4, <2>2, <2>3, <2>4 DEF DeclaresNumber
  <2> DEFINE o == q.out
             t == With(o, "offset", n)
  <2>6. Draft(p.tokens, k, o)
    BY DEF Pending, Drafts
  <2>7. /\ RegisterFields \subseteq DOMAIN t /\ t.name = o.name /\ t.width = o.width
        /\ t.bitfield = o.bitfield /\ t.offset = n /\ t.members = o.members
    <3>1. RegisterFields \subseteq DOMAIN o /\ "offset" \in RegisterFields
      BY <2>6 DEF Draft, RegisterFields
    <3> HIDE DEF n, o
    <3> QED BY <3>1, RegisterWith
  <2>8. PlacedAt(p.tokens, k, n)
    BY <1>2, <1>4, <2>5 DEF PlacedAt
  <2> HIDE DEF n, o, t
  <2>9. Draft(p.tokens, k, t)
    BY <2>6, <2>7, <2>8 DEF Draft
  <2> QED BY <1>2, <1>4, <2>9 DEF Drafts, t, o
<1> QED BY <1>3, <1>4

\* A token that is told by its type is that type.
LEMMA WordAtCursor ==
  ASSUME NEW p, NEW type, Is(p, type), type \notin {";", "EOF"}
  PROVE  Cur(p) \notin {";", "EOF"}
BY EofAssumption, LiteralsAssumption DEF Is, TokenType

LEMMA PendingAtOffset ==
  ASSUME NEW p, State(p), NEW k, NEW q, Pending(p, k, q)
  PROVE  Drafts(p, k, AtOffset(q))
<1>1. CASE Is(q, "@")
  <2>1. Cur(q) \notin {";", "EOF"}
    BY <1>1, WordAtCursor
  <2>2. Pending(p, k, Advance(q))
    BY <2>1, PendingAdvance
  <2> QED BY <1>1, <2>2, PendingNumber DEF AtOffset
<1>2. CASE ~ Is(q, "@")
  BY <1>2 DEF AtOffset, Pending
<1> QED BY <1>1, <1>2

-----------------------------------------------------------------------------

LEMMA NoMembers == GoodMembers(<<>>)
<1> DEFINE In(S) == <<>> \in Seq(S) /\ \A m \in S : {m.bit_lo, m.bit_hi} \subseteq Int
<1>1. In({})
  BY EmptySeq
<1>2. (\E S : In(S)) => GoodMembers(<<>>)
  BY Zenon DEF GoodMembers
<1> HIDE DEF In
<1> QED BY <1>1, <1>2

LEMMA NewDraft ==
  ASSUME NEW words, NEW k \in DOMAIN words
  PROVE  Draft(words, k, NewRegister(words[k]))
<1> DEFINE r == NewRegister(words[k])
<1>1. /\ RegisterFields \subseteq DOMAIN r /\ r.name = words[k] /\ r.width = 32
      /\ r.bitfield = FALSE /\ r.offset = NoOffset /\ r.members = <<>>
  BY DEF NewRegister, RegisterFields
<1>2. PlacedAt(words, k, NoOffset)
  BY OffsetsAssumption DEF PlacedAt
<1>3. GoodMembers(<<>>)
  BY NoMembers
<1> HIDE DEF r
<1>4. Draft(words, k, r)
  BY <1>1, <1>2, <1>3 DEF Draft
<1> QED BY <1>4 DEF r

LEMMA DraftWidth ==
  ASSUME NEW words, NEW k, NEW r, Draft(words, k, r), ~ r.bitfield, NEW v \in {8, 16, 32, 64}
  PROVE  Draft(words, k, With(r, "width", v))
<1> DEFINE t == With(r, "width", v)
<1>1. /\ RegisterFields \subseteq DOMAIN t /\ t.name = r.name /\ t.width = v
      /\ t.bitfield = r.bitfield /\ t.offset = r.offset /\ t.members = r.members
  <2>1. RegisterFields \subseteq DOMAIN r /\ "width" \in RegisterFields
    BY DEF Draft, RegisterFields
  <2> QED BY <2>1, RegisterWith
<1> HIDE DEF t
<1>2. Draft(words, k, t)
  BY <1>1 DEF Draft
<1> QED BY <1>2 DEF t

LEMMA DraftMembers ==
  ASSUME NEW words, NEW k, NEW r, Draft(words, k, r), NEW v, GoodMembers(v)
  PROVE  Draft(words, k, With(r, "members", v))
<1> DEFINE t == With(r, "members", v)
<1>1. /\ RegisterFields \subseteq DOMAIN t /\ t.name = r.name /\ t.width = r.width
      /\ t.bitfield = r.bitfield /\ t.offset = r.offset /\ t.members = v
  <2>1. RegisterFields \subseteq DOMAIN r /\ "members" \in RegisterFields
    BY DEF Draft, RegisterFields
  <2> QED BY <2>1, RegisterWith
<1> HIDE DEF t
<1>2. Draft(words, k, t)
  BY <1>1 DEF Draft
<1> QED BY <1>2 DEF t

\* A register becomes a bitfield in two assignments.
LEMMA DraftBitfield ==
  ASSUME NEW words, NEW k, NEW r, Draft(words, k, r)
  PROVE  Draft(words, k, With(With(r, "bitfield", TRUE), "width", 0))
<1> DEFINE s == With(r, "bitfield", TRUE)
           t == With(s, "width", 0)
<1>1. {"bitfield", "width"} \subseteq RegisterFields /\ RegisterFields \subseteq DOMAIN r
  BY DEF Draft, RegisterFields
<1>2. /\ RegisterFields \subseteq DOMAIN s /\ s.name = r.name
      /\ s.bitfield = TRUE /\ s.offset = r.offset /\ s.members = r.members
  <2> DEFINE v == TRUE
             u == With(r, "bitfield", v)
  <2> HIDE DEF v
  <2>1. /\ RegisterFields \subseteq DOMAIN u /\ u.name = r.name
        /\ u.bitfield = v /\ u.offset = r.offset /\ u.members = r.members
    BY <1>1, RegisterWith
  <2> QED BY <2>1 DEF v
<1> HIDE DEF s
<1>3. /\ RegisterFields \subseteq DOMAIN t /\ t.name = s.name /\ t.width = 0
      /\ t.bitfield = s.bitfield /\ t.offset = s.offset /\ t.members = s.members
  BY <1>1, <1>2, RegisterWith
<1> HIDE DEF t
<1>4. Draft(words, k, t)
  BY <1>2, <1>3 DEF Draft
<1> QED BY <1>4 DEF t, s

LEMMA ReadsError ==
  ASSUME NEW p, State(p), NEW q, Reads(p, q)
  PROVE  LET r == [q EXCEPT !.had_error = TRUE] IN
           Reads(p, r) /\ r.out = q.out /\ r.pos = q.pos
<1> DEFINE r == [tokens |-> q.tokens, pos |-> q.pos, had_error |-> TRUE, out |-> q.out,
                 later |-> q.later]
<1>1. State(q)
  BY ReadsState
<1>2. [q EXCEPT !.had_error = TRUE] = r
  BY <1>1, Record
<1>3. q.pos \in q.pos .. Len(q.tokens) /\ TRUE \in BOOLEAN
  BY <1>1, StateFields, SMT
<1>4. Follows(q, r)
  BY <1>1, <1>3, StateOf
<1>5. r.out = q.out /\ r.pos = q.pos
  OBVIOUS
<1> HIDE DEF r
<1> QED BY <1>2, <1>4, <1>5, ReadsStep

\* A field may be set before the offset is read.
LEMMA PendingField ==
  ASSUME NEW p, State(p), NEW k, NEW q, Pending(p, k, q), NEW f, NEW v,
         Draft(p.tokens, k, With(q.out, f, v))
  PROVE  Pending(p, k, Field(q, f, v)) /\ Cur(Field(q, f, v)) = Cur(q)
<1>0. Reads(p, q)
  BY DEF Pending, Drafts
<1>1. /\ Reads(p, Field(q, f, v)) /\ Field(q, f, v).out = With(q.out, f, v)
      /\ Field(q, f, v).pos = q.pos /\ Cur(Field(q, f, v)) = Cur(q)
  BY <1>0, ReadsField
<1> QED BY <1>1 DEF Pending, Drafts

LEMMA PendingWidth ==
  ASSUME NEW p, State(p), NEW k, NEW q, Pending(p, k, q), ~ q.out.bitfield
  PROVE  Pending(p, k, ScalarWidth(q))
<1>1. CASE Cur(q) \in DOMAIN WidthOf
  <2> DEFINE v == WidthOf[Cur(q)]
             r == Field(q, "width", v)
  <2>1. v \in {8, 16, 32, 64} /\ Cur(q) \notin {";", "EOF"}
    <3> DEFINE w == Cur(q)
    <3>1. w \in {"u8", "u16", "u32", "u64"}
      BY <1>1 DEF WidthOf
    <3> HIDE DEF w
    <3>2. WidthOf["u8"] = 8 /\ WidthOf["u16"] = 16 /\ WidthOf["u32"] = 32 /\ WidthOf["u64"] = 64
      BY DEF WidthOf
    <3>3. WidthOf[w] \in {8, 16, 32, 64} /\ w \notin {";", "EOF"}
      BY <3>1, <3>2
    <3> QED BY <3>3 DEF w
  <2>2. ScalarWidth(q) = Advance(r)
    BY <1>1 DEF ScalarWidth
  <2> HIDE DEF v
  <2>3. Draft(p.tokens, k, With(q.out, "width", v))
    <3> DEFINE o == q.out
    <3>1. Draft(p.tokens, k, o) /\ ~ o.bitfield
      BY DEF Pending, Drafts
    <3> HIDE DEF o
    <3>2. Draft(p.tokens, k, With(o, "width", v))
      BY <2>1, <3>1, DraftWidth
    <3> QED BY <3>2 DEF o
  <2>4. Pending(p, k, r) /\ Cur(r) = Cur(q)
    BY <2>3, PendingField
  <2> HIDE DEF r
  <2> QED BY <2>1, <2>2, <2>4, PendingAdvance
<1>2. CASE Cur(q) \notin DOMAIN WidthOf
  <2> DEFINE r == [q EXCEPT !.had_error = TRUE]
  <2>1. Reads(p, r) /\ r.out = q.out /\ r.pos = q.pos
    BY ReadsError DEF Pending, Drafts
  <2>2. ScalarWidth(q) = r
    BY <1>2 DEF ScalarWidth
  <2> HIDE DEF r
  <2> QED BY <2>1, <2>2 DEF Pending, Drafts
<1> QED BY <1>1, <1>2

LEMMA ScalarGood ==
  ASSUME NEW p, State(p), NEW k, NEW q, Pending(p, k, q), ~ q.out.bitfield
  PROVE  Drafts(p, k, Scalar(q))
<1>1. Drafts(p, k, AtOffset(ScalarWidth(q)))
  BY PendingWidth, PendingAtOffset
<1>2. Drafts(p, k, ResetValue(Access(AtOffset(ScalarWidth(q)))))
  BY <1>1, DraftsAccess, DraftsReset
<1> QED BY <1>2, DraftsExpect DEF Scalar

LEMMA CompactGood ==
  ASSUME NEW p, State(p), NEW k, NEW q, Pending(p, k, q)
  PROVE  Drafts(p, k, Compact(q))
<1>1. Drafts(p, k, Access(NumberField(q, "offset")))
  BY PendingNumber, DraftsAccess
<1> QED BY <1>1, DraftsExpect DEF Compact

LEMMA BitfieldGood ==
  ASSUME NEW p, HeaderState(p), NEW k, NEW q, Pending(p, k, q), Is(q, "bitfield")
  PROVE  Drafts(p, k, Bitfield(q))
<1>0. State(p)
  BY DEF HeaderState
<1> DEFINE a == Field(q, "bitfield", TRUE)
           b == Field(a, "width", 0)
           c == Expect(Access(AtOffset(Advance(b))), "{")
           d == Returned(c, <<"bits">>)
           e == Into(c, "members", <<"bits">>)
<1>1. Reads(p, a) /\ a.out = With(q.out, "bitfield", TRUE) /\ a.pos = q.pos /\ Cur(a) = Cur(q)
  <2>1. Reads(p, q)
    BY DEF Pending, Drafts
  <2> DEFINE v == TRUE
             u == Field(q, "bitfield", v)
  <2> HIDE DEF v
  <2>2. Reads(p, u) /\ u.out = With(q.out, "bitfield", v) /\ u.pos = q.pos /\ Cur(u) = Cur(q)
    BY <1>0, <2>1, ReadsField
  <2> QED BY <2>2 DEF v
<1>2. Reads(p, b) /\ b.out = With(a.out, "width", 0) /\ b.pos = a.pos /\ Cur(b) = Cur(a)
  <2> DEFINE v == 0
             u == Field(a, "width", v)
  <2> HIDE DEF a, v
  <2>1. Reads(p, a)
    BY <1>1
  <2>2. Reads(p, u) /\ u.out = With(a.out, "width", v) /\ u.pos = a.pos /\ Cur(u) = Cur(a)
    BY <1>0, <2>1, ReadsField
  <2> QED BY <2>2 DEF v
<1>3. Draft(p.tokens, k, b.out)
  BY <1>1, <1>2, DraftBitfield DEF Pending, Drafts
<1> HIDE DEF a
<1>4. Pending(p, k, b) /\ Cur(b) \notin {";", "EOF"}
  <2>1. Cur(q) \notin {";", "EOF"}
    BY WordAtCursor
  <2> HIDE DEF b
  <2> QED BY <1>1, <1>2, <1>3, <2>1 DEF Pending, Drafts
<1>5. Drafts(p, k, c)
  <2> HIDE DEF b
  <2>1. Pending(p, k, Advance(b))
    BY <1>0, <1>4, PendingAdvance
  <2>2. Drafts(p, k, Access(AtOffset(Advance(b))))
    BY <1>0, <2>1, PendingAtOffset, DraftsAccess
  <2> QED BY <1>0, <2>2, DraftsExpect
<1> HIDE DEF c
<1>6. Reads(p, d) /\ GoodMembers(d.out)
  <2>1. <<"bits">> \in HeaderCalls /\ <<"bits">>[1] = "bits"
    BY DEF HeaderCalls
  <2> QED BY <1>5, <2>1, ReadsHeaderCall DEF Drafts, Collected
<1>7. e = Give(d, With(c.out, "members", d.out))
  BY DEF Into, With
<1> HIDE DEF d
<1>8. Drafts(p, k, e)
  <2>1. Draft(p.tokens, k, With(c.out, "members", d.out))
    BY <1>5, <1>6, DraftMembers DEF Drafts
  <2> HIDE DEF e
  <2> QED BY <1>0, <1>6, <1>7, <2>1, ReadsGive DEF Drafts
<1>9. Bitfield(q) = Expect(Expect(e, "}"), ";")
  BY DEF Bitfield, c, b, a
<1> HIDE DEF e
<1>10. Drafts(p, k, Expect(e, "}"))
  BY <1>0, <1>8, DraftsExpect
<1> QED BY <1>0, <1>9, <1>10, DraftsExpect

LEMMA RegisterGood ==
  ASSUME NEW p, HeaderState(p), Is(p, "IDENT"), NEW simplified
  PROVE  /\ Reads(p, RegisterDecl(p, simplified))
         /\ GoodRegister(p.tokens, RegisterDecl(p, simplified).out)
<1>0. State(p)
  BY DEF HeaderState
<1> DEFINE k == p.pos
           r == NewRegister(Cur(p))
           q == Advance(Give(p, r))
           d == RegisterDecl(p, simplified)
<1>1. Cur(p) \notin {";", "EOF"}
  BY WordAtCursor
<1>2. Reads(p, q) /\ q.out = r /\ q.pos = k + 1
  BY <1>0, <1>1, ReadsBegun
<1>3. k \in DOMAIN p.tokens /\ k \in Nat /\ Cur(p) = p.tokens[k]
  BY <1>0, StateFields, FileEnd DEF State, Cur
<1>4. Draft(p.tokens, k, r) /\ ~ r.bitfield
  BY <1>3, NewDraft DEF NewRegister
<1>5. d = AfterName(q, simplified)
  BY DEF RegisterDecl
<1>6. Pending(p, k, q) /\ ~ q.out.bitfield
  <2> HIDE DEF r, q
  <2>1. k < k + 1 /\ \A i \in k .. (k + 1) - 1 : i = k
    <3> HIDE DEF k
    <3> QED BY <1>3, SMT
  <2>2. k < q.pos /\ \A i \in k .. q.pos - 1 : i = k
    BY <1>2, <2>1
  <2> QED BY <1>1, <1>2, <1>3, <1>4, <2>2 DEF Pending, Drafts
<1> HIDE DEF r, q, k
<1>7. Drafts(p, k, AfterName(q, simplified))
  <2>1. CASE simplified \/ ~ Is(q, ":")
    BY <1>0, <1>6, <2>1, CompactGood DEF AfterName
  <2>2. CASE ~ simplified /\ Is(q, ":")
    <3> DEFINE s == Advance(q)
    <3>1. Cur(q) \notin {";", "EOF"}
      BY <2>2, WordAtCursor
    <3>2. Pending(p, k, s)
      BY <1>0, <1>6, <3>1, PendingAdvance
    <3>3. s.out = q.out
      BY <1>0, <1>2, ReadsAdvance
    <3>4. AfterName(q, simplified) = Structured(s)
      BY <2>2 DEF AfterName
    <3> HIDE DEF s
    <3>5. CASE Is(s, "bitfield")
      BY <3>2, <3>4, <3>5, BitfieldGood DEF Structured
    <3>6. CASE ~ Is(s, "bitfield")
      BY <1>0, <1>6, <3>2, <3>3, <3>4, <3>6, ScalarGood DEF Structured
    <3> QED BY <3>5, <3>6
  <2> QED BY <2>1, <2>2
<1> HIDE DEF d
<1> QED BY <1>5, <1>7, DraftGood DEF Drafts, d

-----------------------------------------------------------------------------
(* Bit ranges. *)

\* A later state with a bit range under construction.
Ranged(p, q) ==
  /\ Reads(p, q)
  /\ {"bit_lo", "bit_hi"} \subseteq DOMAIN q.out
  /\ q.out.bit_lo \in Int /\ q.out.bit_hi \in Int

LEMMA RangedOf ==
  ASSUME NEW p, NEW q, NEW o, Reads(p, q), q.out = o,
         {"bit_lo", "bit_hi"} \subseteq DOMAIN o, o.bit_lo \in Int, o.bit_hi \in Int
  PROVE  Ranged(p, q)
BY DEF Ranged

LEMMA RangedExpect ==
  ASSUME NEW p, State(p), NEW q, Ranged(p, q), NEW type
  PROVE  Ranged(p, Expect(q, type))
BY ReadsExpect DEF Ranged

LEMMA RangedAdvance ==
  ASSUME NEW p, State(p), NEW q, Ranged(p, q)
  PROVE  Ranged(p, Advance(q))
BY ReadsAdvance DEF Ranged

LEMMA MemberWith ==
  ASSUME NEW r, {"bit_lo", "bit_hi"} \subseteq DOMAIN r, r.bit_lo \in Int, r.bit_hi \in Int,
         NEW f, NEW v, f \in {"bit_lo", "bit_hi"} => v \in Int
  PROVE  LET t == With(r, f, v) IN
           {"bit_lo", "bit_hi"} \subseteq DOMAIN t /\ t.bit_lo \in Int /\ t.bit_hi \in Int
<1> DEFINE t == With(r, f, v)
<1>1. DOMAIN t = DOMAIN r
  BY DEF With
<1>2. \A g \in {"bit_lo", "bit_hi"} : t[g] = IF f = g THEN v ELSE r[g]
  BY DEF With
<1> HIDE DEF t
<1> QED BY <1>1, <1>2 DEF t

LEMMA RangedField ==
  ASSUME NEW p, State(p), NEW q, Ranged(p, q), NEW f, NEW v, f \in {"bit_lo", "bit_hi"} => v \in Int
  PROVE  Ranged(p, Field(q, f, v)) /\ Cur(Field(q, f, v)) = Cur(q)
<1> DEFINE o == q.out
<1>1. /\ Reads(p, q) /\ {"bit_lo", "bit_hi"} \subseteq DOMAIN o
      /\ o.bit_lo \in Int /\ o.bit_hi \in Int
  BY DEF Ranged
<1>2. /\ Reads(p, Field(q, f, v)) /\ Field(q, f, v).out = With(o, f, v)
      /\ Cur(Field(q, f, v)) = Cur(q)
  BY <1>1, ReadsField
<1> HIDE DEF o
<1> QED BY <1>1, <1>2, MemberWith DEF Ranged

\* Numbers are in the range of an offset, which is one of integers.
LEMMA NumberInt ==
  ASSUME NEW q, IsNumber(q)
  PROVE  IntValue[Cur(q)] \in Int
<1> DEFINE v == IntValue[Cur(q)]
<1>1. v \in 0 .. OffsetModulus - 1
  BY LiteralsAssumption DEF IsNumber
<1> HIDE DEF v
<1>2. v \in Int
  BY <1>1, OffsetsAssumption, SMT
<1> QED BY <1>2 DEF v

LEMMA IntWraps == \A n \in Int : AsInt(n) \in Int
<1> SUFFICES ASSUME NEW n \in Int PROVE AsInt(n) \in Int
  OBVIOUS
<1>1. IntModulus \in Int /\ IntModulus > 0
  BY IntAssumption
<1>2. n % IntModulus \in Int
  BY <1>1, SMT
<1> QED BY <1>1, <1>2, SMT DEF AsInt

LEMMA RangedNumber ==
  ASSUME NEW p, State(p), NEW q, Ranged(p, q), NEW f
  PROVE  Ranged(p, BitNumber(q, f))
<1>1. CASE IsNumber(q)
  <2> DEFINE v == AsInt(IntValue[Cur(q)])
             r == Field(q, f, v)
  <2>1. v \in Int /\ BitNumber(q, f) = Advance(r)
    BY <1>1, NumberInt, IntWraps DEF BitNumber
  <2> HIDE DEF v
  <2>2. Ranged(p, r)
    BY <2>1, RangedField
  <2> HIDE DEF r
  <2> QED BY <2>1, <2>2, RangedAdvance
<1>2. CASE ~ IsNumber(q)
  BY <1>2 DEF BitNumber
<1> QED BY <1>1, <1>2

LEMMA RangedReset ==
  ASSUME NEW p, State(p), NEW q, Ranged(p, q)
  PROVE  Ranged(p, ResetValue(q))
<1> DEFINE o == q.out
           r == ResetValue(q)
<1>1. /\ Reads(p, q) /\ {"bit_lo", "bit_hi"} \subseteq DOMAIN o
      /\ o.bit_lo \in Int /\ o.bit_hi \in Int
  BY DEF Ranged
<1>2. Reads(p, r) /\ (r.out = o \/ \E v : r.out = With(o, "reset_val", v))
  BY <1>1, ReadsReset
<1> HIDE DEF o, r
<1>3. ASSUME r.out = o PROVE Ranged(p, r)
  <2>1. Reads(p, r)
    BY <1>2
  <2> QED BY <1>1, <1>3, <2>1, RangedOf
<1>4. ASSUME NEW v, r.out = With(o, "reset_val", v) PROVE Ranged(p, r)
  <2>1. "reset_val" \notin {"bit_lo", "bit_hi"}
    OBVIOUS
  <2> QED BY <1>1, <1>2, <1>4, <2>1, MemberWith DEF Ranged
<1> QED BY <1>2, <1>3, <1>4 DEF r

LEMMA BitHighGood ==
  ASSUME NEW p, State(p), NEW q, Ranged(p, q)
  PROVE  Ranged(p, BitHigh(q))
<1>1. CASE Is(q, "..")
  BY <1>1, RangedAdvance, RangedNumber DEF BitHigh
<1>2. CASE ~ Is(q, "..")
  BY <1>2 DEF BitHigh
<1> QED BY <1>1, <1>2

LEMMA BitRangeGood ==
  ASSUME NEW p, State(p), NEW q, Ranged(p, q)
  PROVE  Ranged(p, BitRange(q))
<1>1. CASE IsNumber(q)
  <2> DEFINE v == AsInt(IntValue[Cur(q)])
             r == Field(q, "bit_hi", v)
             s == BitNumber(r, "bit_lo")
  <2>1. v \in Int /\ BitRange(q) = BitHigh(s)
    BY <1>1, NumberInt, IntWraps DEF BitRange
  <2> HIDE DEF v
  <2>2. Ranged(p, r)
    BY <2>1, RangedField
  <2> HIDE DEF r
  <2>3. Ranged(p, s)
    BY <2>2, RangedNumber
  <2> HIDE DEF s
  <2> QED BY <2>1, <2>3, BitHighGood
<1>2. CASE ~ IsNumber(q)
  BY <1>2 DEF BitRange
<1> QED BY <1>1, <1>2

LEMMA BitMemberGood ==
  ASSUME NEW p, State(p), Cur(p) # "EOF"
  PROVE  /\ Reads(p, BitMember(p))
         /\ {BitMember(p).out.bit_lo, BitMember(p).out.bit_hi} \subseteq Int
<1> DEFINE m == NewMember(Cur(p))
           a == Advance(Give(p, m))
           b == Expect(a, ":")
           c == Expect(ResetValue(BitRange(b)), ";")
<1>1. {"bit_lo", "bit_hi"} \subseteq DOMAIN m /\ m.bit_lo = 0 /\ m.bit_hi = 0
  BY DEF NewMember
<1>2. Reads(p, a) /\ a.out = m
  BY ReadsBegun
<1>3. BitMember(p) = c
  BY DEF BitMember
<1> HIDE DEF m, a
<1>4. Ranged(p, a)
  BY <1>1, <1>2, RangedOf
<1>5. Ranged(p, b)
  BY <1>4, RangedExpect
<1> HIDE DEF b
<1>6. Ranged(p, c)
  BY <1>5, BitRangeGood, RangedReset, RangedExpect
<1> HIDE DEF c
<1> QED BY <1>3, <1>6 DEF Ranged

-----------------------------------------------------------------------------
(* The other declarations are only read. *)

LEMMA ReadsSet ==
  ASSUME NEW p, State(p), NEW q, Reads(p, q), NEW f, NEW v
  PROVE  Reads(p, Advance(Field(q, f, v)))
<1> DEFINE r == Field(q, f, v)
<1>1. Reads(p, r)
  BY ReadsField
<1> HIDE DEF r
<1>2. Reads(p, Advance(r))
  BY <1>1, ReadsAdvance
<1> QED BY <1>2 DEF r

LEMMA DirectionGood ==
  ASSUME NEW p, State(p), NEW q, Reads(p, q)
  PROVE  Reads(p, Direction(q))
<1>1. Direction(q) = q \/ \E v : Direction(q) = Advance(Field(q, "dir", v))
  BY DEF Direction
<1> QED BY <1>1, ReadsSet

LEMMA TriggerKindGood ==
  ASSUME NEW p, State(p), NEW q, Reads(p, q), NEW kinds
  PROVE  Reads(p, TriggerKind(q, kinds))
<1> DEFINE r == IF Cur(q) \in DOMAIN kinds THEN Field(q, "trigger", kinds[Cur(q)]) ELSE q
<1>1. Reads(p, r)
  BY ReadsField
<1>2. TriggerKind(q, kinds) = Expect(Advance(r), ")")
  BY DEF TriggerKind
<1> HIDE DEF r
<1> QED BY <1>1, <1>2, ReadsAdvance, ReadsExpect

LEMMA TriggerGood ==
  ASSUME NEW p, State(p), NEW q, Reads(p, q)
  PROVE  Reads(p, Trigger(q))
<1> DEFINE a == Expect(Advance(q), "(")
           b == Advance(Field(q, "trigger", "completion"))
           c == Advance(Field(q, "trigger", "timeout"))
           d == ExprField(Expect(c, "("), "arg")
<1>1. Reads(p, a)
  BY ReadsAdvance, ReadsExpect
<1>2. Reads(p, b) /\ Reads(p, c)
  BY ReadsSet
<1>3. \/ Trigger(q) = TriggerKind(a, EdgeKinds)
      \/ Trigger(q) = TriggerKind(a, LevelKinds)
      \/ Trigger(q) = b
      \/ Trigger(q) = Expect(d, ")")
      \/ Trigger(q) = q
  BY DEF Trigger
<1> HIDE DEF a, b, c
<1>4. Reads(p, d)
  BY <1>2, ReadsExpect, ReadsExprField
<1> HIDE DEF d
<1> QED BY <1>1, <1>2, <1>3, <1>4, TriggerKindGood, ReadsExpect

LEMMA SignalGood ==
  ASSUME NEW p, State(p), Cur(p) # "EOF"
  PROVE  Reads(p, SignalDecl(p))
<1> DEFINE a == Advance(Give(p, NewSignal(Cur(p))))
           t == Trigger(Direction(Advance(a)))
           s == IF Is(Advance(p), ":") THEN t ELSE a
<1>1. Reads(p, a)
  BY ReadsBegun
<1>2. SignalDecl(p) = Expect(s, ";")
  BY DEF SignalDecl
<1> HIDE DEF a
<1>3. Reads(p, t)
  BY <1>1, ReadsAdvance, DirectionGood, TriggerGood
<1> HIDE DEF t
<1>4. Reads(p, s)
  BY <1>1, <1>3
<1> HIDE DEF s
<1> QED BY <1>2, <1>4, ReadsExpect

LEMMA CapabilityGood ==
  ASSUME NEW p, State(p), Cur(p) # "EOF"
  PROVE  Reads(p, CapabilityDecl(p))
<1> DEFINE a == Advance(Give(p, [name |-> Cur(p), value |-> <<>>]))
           b == CapabilityValue(a)
<1>1. Reads(p, a)
  BY ReadsBegun
<1>2. CapabilityDecl(p) = Expect(b, ";")
  BY DEF CapabilityDecl
<1> HIDE DEF a
<1>3. Reads(p, b)
  <2>1. b = ExprField(Advance(a), "value") \/ b = a \/ b = ExprField(a, "value")
    BY DEF CapabilityValue
  <2> HIDE DEF b
  <2>2. Reads(p, Advance(a))
    BY <1>1, ReadsAdvance
  <2> QED BY <1>1, <2>1, <2>2, ReadsExprField
<1> HIDE DEF b
<1> QED BY <1>2, <1>3, ReadsExpect

LEMMA PowerStateGood ==
  ASSUME NEW p, State(p), Cur(p) # "EOF", NEW simplified
  PROVE  Reads(p, PowerStateDecl(p, simplified))
<1> DEFINE a == Advance(Give(p, [name |-> Cur(p), spec |-> "none"]))
           b == PowerSpec(a, simplified)
<1>1. Reads(p, a)
  BY ReadsBegun
<1>2. PowerStateDecl(p, simplified) = Expect(b, ";")
  BY DEF PowerStateDecl
<1> HIDE DEF a
<1>3. Reads(p, b)
  <2>1. b = a \/ b = Advance(Field(Advance(a), "spec", Peek(a, 1)))
    BY DEF PowerSpec
  <2> HIDE DEF b
  <2>2. Reads(p, Advance(a))
    BY <1>1, ReadsAdvance
  <2> QED BY <1>1, <2>1, <2>2, ReadsSet
<1> HIDE DEF b
<1> QED BY <1>2, <1>3, ReadsExpect

LEMMA ConfigFieldGood ==
  ASSUME NEW p, State(p), Cur(p) # "EOF"
  PROVE  Reads(p, ConfigField(p))
<1> DEFINE a == Advance(Give(p,
                  [name |-> Cur(p), type |-> "", default_val |-> <<>>, lo |-> <<>>, hi |-> <<>>]))
           b == Expect(a, ":")
           c == Advance(Field(b, "type", Cur(b)))
           d == DefaultValue(c)
           e == ConfigRange(d)
<1>1. Reads(p, a)
  BY ReadsBegun
<1>2. ConfigField(p) = Expect(e, ";")
  BY DEF ConfigField, ConfigType
<1> HIDE DEF a
<1>3. Reads(p, b)
  BY <1>1, ReadsExpect
<1> HIDE DEF b
<1>4. Reads(p, c)
  BY <1>3, ReadsSet
<1> HIDE DEF c
<1>5. Reads(p, d)
  BY <1>4, ReadsAdvance, ReadsExprField DEF DefaultValue
<1> HIDE DEF d
<1>6. Reads(p, e)
  <2> DEFINE f == ExprField(Advance(d), "lo")
  <2>1. e = d \/ e = ExprField(Expect(f, ".."), "hi")
    BY DEF ConfigRange
  <2> HIDE DEF e
  <2>2. Reads(p, f)
    BY <1>5, ReadsAdvance, ReadsExprField
  <2> HIDE DEF f
  <2>3. Reads(p, Expect(f, ".."))
    BY <2>2, ReadsExpect
  <2> QED BY <1>5, <2>1, <2>3, ReadsExprField
<1> HIDE DEF e
<1> QED BY <1>2, <1>6, ReadsExpect

LEMMA BeginsWord ==
  ASSUME NEW p, NEW kind, Begins(p, kind)
  PROVE  Cur(p) # "EOF"
<1>1. Is(p, "IDENT") => Cur(p) # "EOF"
  BY NotEof
<1> QED BY <1>1 DEF Begins, IsPowerStateName

LEMMA DeclarationGood ==
  ASSUME NEW p, HeaderState(p), NEW kind \in BlockKinds, Begins(p, kind), NEW simplified
  PROVE  LET q == Declaration(p, kind, simplified) IN
           Reads(p, q) /\ (kind = "registers" => GoodRegister(p.tokens, q.out))
<1>1. State(p) /\ Cur(p) # "EOF"
  BY BeginsWord DEF HeaderState
<1>2. CASE kind = "registers"
  <2>1. Is(p, "IDENT")
    BY <1>2 DEF Begins
  <2>2. Declaration(p, kind, simplified) = RegisterDecl(p, simplified)
    BY <1>2 DEF Declaration
  <2> QED BY <2>1, <2>2, RegisterGood
<1>3. CASE kind # "registers"
  <2>1. \/ Declaration(p, kind, simplified) = SignalDecl(p)
        \/ Declaration(p, kind, simplified) = CapabilityDecl(p)
        \/ Declaration(p, kind, simplified) = PowerStateDecl(p, simplified)
        \/ Declaration(p, kind, simplified) = ConfigField(p)
    BY <1>3 DEF Declaration, BlockKinds
  <2> QED BY <1>1, <1>3, <2>1, SignalGood, CapabilityGood, PowerStateGood, ConfigFieldGood
<1> QED BY <1>2, <1>3

-----------------------------------------------------------------------------
(* Chains of declarations. *)

LEMMA ConcatOver ==
  ASSUME NEW S, NEW T, NEW a \in Seq(S), NEW b \in Seq(T)
  PROVE  a \o b \in Seq(S \union T)
<1> DEFINE U == S \union T
<1>1. a \in Seq(U) /\ b \in Seq(U)
  BY SeqMonotonic
<1> HIDE DEF U
<1>2. a \o b \in Seq(U)
  BY <1>1, ConcatProperties
<1> QED BY <1>2 DEF U

LEMMA MembersGrow ==
  ASSUME NEW m, {m.bit_lo, m.bit_hi} \subseteq Int, NEW b, GoodMembers(b)
  PROVE  GoodMembers(<<m>> \o b)
<1>1. PICK S : b \in Seq(S) /\ \A r \in S : {r.bit_lo, r.bit_hi} \subseteq Int
  BY DEF GoodMembers
<1> DEFINE T == {m} \union S
<1>2. <<m>> \in Seq({m})
  BY SMT
<1>3. <<m>> \o b \in Seq(T)
  BY <1>1, <1>2, ConcatOver
<1>4. \A r \in T : {r.bit_lo, r.bit_hi} \subseteq Int
  BY <1>1
<1> HIDE DEF T
<1> QED BY <1>3, <1>4 DEF GoodMembers

LEMMA DeclaredGrow ==
  ASSUME NEW words, NEW kind, NEW d, kind = "registers" => GoodRegister(words, d),
         NEW b, Declared(words, kind, b)
  PROVE  Declared(words, kind, <<d>> \o b)
<1>1. PICK S : b \in Seq(S) /\ (kind = "registers" => \A r \in S : GoodRegister(words, r))
  BY DEF Declared
<1> DEFINE T == {d} \union S
<1>2. <<d>> \in Seq({d})
  BY SMT
<1>3. <<d>> \o b \in Seq(T)
  BY <1>1, <1>2, ConcatOver
<1>4. kind = "registers" => \A r \in T : GoodRegister(words, r)
  BY <1>1
<1> HIDE DEF T
<1> QED BY <1>3, <1>4 DEF Declared

LEMMA NoneDeclared ==
  ASSUME NEW words, NEW kind
  PROVE  Declared(words, kind, <<>>)
<1> DEFINE In(S) == <<>> \in Seq(S) /\ (kind = "registers" => \A r \in S : GoodRegister(words, r))
<1>1. In({})
  BY EmptySeq
<1>2. (\E S : In(S)) => Declared(words, kind, <<>>)
  BY Zenon DEF Declared
<1> HIDE DEF In
<1> QED BY <1>1, <1>2

LEMMA NoParts ==
  ASSUME NEW words
  PROVE  GoodParts(words, <<>>)
<1> DEFINE In(S) == /\ <<>> \in Seq(S)
                    /\ \A m \in S : m.field \in BlockKinds => Declared(words, m.field, m.value)
<1>1. In({})
  BY EmptySeq
<1>2. (\E S : In(S)) => GoodParts(words, <<>>)
  BY Zenon DEF GoodParts
<1> HIDE DEF In
<1> QED BY <1>1, <1>2

LEMMA OnePart ==
  ASSUME NEW words, NEW field, NEW value, field \in BlockKinds => Declared(words, field, value)
  PROVE  GoodParts(words, <<Part(field, value)>>)
<1> DEFINE m == Part(field, value)
           S == {m}
<1>1. m.field = field /\ m.value = value
  BY DEF Part
<1>2. <<m>> \in Seq(S)
  BY SMT
<1> HIDE DEF m
<1>3. \A r \in S : r.field \in BlockKinds => Declared(words, r.field, r.value)
  BY <1>1
<1> HIDE DEF S
<1>4. GoodParts(words, <<m>>)
  BY <1>2, <1>3 DEF GoodParts
<1> QED BY <1>4 DEF m

LEMMA PartsConcat ==
  ASSUME NEW words, NEW a, GoodParts(words, a), NEW b, GoodParts(words, b)
  PROVE  GoodParts(words, a \o b)
<1> DEFINE Fine(m) == m.field \in BlockKinds => Declared(words, m.field, m.value)
<1>1. PICK S : a \in Seq(S) /\ \A m \in S : Fine(m)
  BY DEF GoodParts
<1>2. PICK T : b \in Seq(T) /\ \A m \in T : Fine(m)
  BY DEF GoodParts
<1> DEFINE U == S \union T
<1>3. a \o b \in Seq(U)
  BY <1>1, <1>2, ConcatOver
<1>4. \A m \in U : Fine(m)
  BY <1>1, <1>2
<1> HIDE DEF U
<1> QED BY <1>3, <1>4 DEF GoodParts

-----------------------------------------------------------------------------
(* The calls. *)

LEMMA ReadsThen ==
  ASSUME NEW p, HeaderState(p), NEW q, Reads(p, q), NEW c \in HeaderCalls
  PROVE  /\ Reads(p, Then(q, c))
         /\ \E o : Collected(p.tokens, c, o) /\ Then(q, c).out = q.out \o o
<1> DEFINE r == Returned(q, c)
           chain == q.out \o r.out
<1>1. State(p)
  BY DEF HeaderState
<1>2. Reads(p, r) /\ Collected(p.tokens, c, r.out)
  BY ReadsHeaderCall
<1>3. Then(q, c) = Give(r, chain)
  BY DEF Then, Give
<1> DEFINE o == r.out
<1>4. chain = q.out \o o
  OBVIOUS
<1> HIDE DEF r, chain
<1>5. Reads(p, Give(r, chain)) /\ Give(r, chain).out = chain
  BY <1>1, <1>2, ReadsGive
<1>6. Collected(p.tokens, c, o)
  BY <1>2
<1> HIDE DEF o
<1> QED BY <1>3, <1>4, <1>5, <1>6, Zenon

LEMMA TuplesIn ==
  ASSUME NEW A, NEW B, NEW E, NEW a \in A, NEW b \in B
  PROVE  <<"decls", a, b>> \in E \union {<<"decls", k, s>> : k \in A, s \in B}
BY SMT

LEMMA HeaderCallsOf ==
  /\ {<<"bits">>, <<"parts">>, <<"imports">>, <<"options">>} \subseteq HeaderCalls
  /\ \A kind \in BlockKinds : \A simplified \in BOOLEAN :
       <<"decls", kind, simplified>> \in HeaderCalls
<1>1. {<<"bits">>, <<"parts">>, <<"imports">>, <<"options">>} \subseteq HeaderCalls
  BY DEF HeaderCalls
<1>2. ASSUME NEW kind \in BlockKinds, NEW simplified \in BOOLEAN
      PROVE  <<"decls", kind, simplified>> \in HeaderCalls
  <2> DEFINE B == BOOLEAN
             E == {<<"bits">>, <<"parts">>, <<"imports">>, <<"options">>}
             D == E \union {<<"decls", k, s>> : k \in BlockKinds, s \in B}
  <2>1. HeaderCalls = D /\ simplified \in B
    BY DEF HeaderCalls
  <2> HIDE DEF B, E
  <2>2. <<"decls", kind, simplified>> \in D
    BY <2>1, TuplesIn
  <2> HIDE DEF D
  <2> QED BY <2>1, <2>2
<1> QED BY <1>1, <1>2

\* The three cases of the loop over declarations.
LEMMA DeclarationsCases ==
  ASSUME NEW p, NEW kind, NEW simplified
  PROVE  LET c == <<"decls", kind, simplified>>
             e == Declarations(p, kind, simplified)
         IN  \/ e = p
             \/ Begins(p, kind) /\ e = Then(AsChain(Declaration(p, kind, simplified)), c)
             \/ Cur(p) # "EOF" /\ e = Returned(Advance(p), c)
<1>1. CASE Cur(p) \in {"}", "EOF"}
  BY <1>1 DEF Declarations
<1>2. CASE Cur(p) \notin {"}", "EOF"} /\ Begins(p, kind)
  BY <1>2 DEF Declarations
<1>3. CASE Cur(p) \notin {"}", "EOF"} /\ ~ Begins(p, kind)
  BY <1>3 DEF Declarations
<1> QED BY <1>1, <1>2, <1>3

\* What a call makes of a state at its beginning.
CallCollects(p, c, q) == Follows(p, q) /\ Collected(p.tokens, c, q.out)

LEMMA BitMembersGood ==
  ASSUME NEW p, HeaderState(p), p.out = <<>>
  PROVE  CallCollects(p, <<"bits">>, BitMembers(p))
<1> DEFINE c == <<"bits">>
           m == BitMember(p)
           a == AsChain(m)
           t == Then(a, c)
<1>1. State(p) /\ c \in HeaderCalls /\ c[1] = "bits"
  BY HeaderCallsOf DEF HeaderState
<1>2. CASE Is(p, "IDENT")
  <2>1. Reads(p, m) /\ {m.out.bit_lo, m.out.bit_hi} \subseteq Int
    BY <1>1, <1>2, NotEof, BitMemberGood
  <2>2. a = Give(m, <<m.out>>)
    BY DEF AsChain
  <2>3. BitMembers(p) = t
    BY <1>2 DEF BitMembers
  <2> HIDE DEF m, c
  <2>4. Reads(p, a) /\ a.out = <<m.out>>
    BY <1>1, <2>1, <2>2, ReadsGive
  <2> HIDE DEF a
  <2>5. Reads(p, t)
    BY <1>1, <2>4, ReadsThen
  <2>6. PICK o : Collected(p.tokens, c, o) /\ t.out = a.out \o o
    BY <1>1, <2>4, ReadsThen
  <2> HIDE DEF t
  <2>7. GoodMembers(<<m.out>> \o o)
    BY <1>1, <2>1, <2>6, MembersGrow DEF Collected
  <2>8. GoodMembers(t.out)
    BY <2>4, <2>6, <2>7
  <2>9. Collected(p.tokens, c, t.out)
    BY <1>1, <2>8 DEF Collected
  <2>10. CallCollects(p, c, t)
    BY <2>5, <2>9 DEF CallCollects, Reads
  <2> QED BY <2>3, <2>10 DEF c
<1>3. CASE ~ Is(p, "IDENT")
  <2>1. BitMembers(p) = p
    BY <1>3 DEF BitMembers
  <2>2. Collected(p.tokens, c, p.out)
    BY <1>1, NoMembers DEF Collected
  <2>3. Follows(p, p)
    BY <1>1, StateFields
  <2> QED BY <2>1, <2>2, <2>3 DEF CallCollects
<1> QED BY <1>2, <1>3

LEMMA DeclarationsGood ==
  ASSUME NEW p, HeaderState(p), p.out = <<>>, NEW kind \in BlockKinds, NEW simplified \in BOOLEAN
  PROVE  CallCollects(p, <<"decls", kind, simplified>>, Declarations(p, kind, simplified))
<1> DEFINE c == <<"decls", kind, simplified>>
           d == Declaration(p, kind, simplified)
           a == AsChain(d)
           t == Then(a, c)
           e == Declarations(p, kind, simplified)
<1>1. State(p) /\ c \in HeaderCalls
  BY HeaderCallsOf DEF HeaderState
<1>2. c[1] = "decls" /\ c[2] = kind
  OBVIOUS
<1>3. \A o : Collected(p.tokens, c, o) <=> Declared(p.tokens, kind, o)
  <2> HIDE DEF c
  <2> QED BY <1>2 DEF Collected
<1>0. \/ e = p
      \/ Begins(p, kind) /\ e = t
      \/ Cur(p) # "EOF" /\ e = Returned(Advance(p), c)
  BY DeclarationsCases
<1>4. CASE e = p
  <2>1. e = p
    BY <1>4
  <2>2. Declared(p.tokens, kind, p.out) /\ Follows(p, p)
    BY <1>1, NoneDeclared, StateFields
  <2> HIDE DEF c, e
  <2>3. CallCollects(p, c, e)
    BY <1>3, <2>1, <2>2 DEF CallCollects
  <2> QED BY <2>3 DEF c, e
<1>5. CASE Begins(p, kind) /\ e = t
  <2>1. Reads(p, d) /\ (kind = "registers" => GoodRegister(p.tokens, d.out))
    BY <1>5, DeclarationGood
  <2>2. a = Give(d, <<d.out>>)
    BY DEF AsChain
  <2>3. e = t
    BY <1>5
  <2> HIDE DEF d, c, e
  <2>4. Reads(p, a) /\ a.out = <<d.out>>
    BY <1>1, <2>1, <2>2, ReadsGive
  <2> HIDE DEF a
  <2>5. Reads(p, t)
    BY <1>1, <2>4, ReadsThen
  <2>6. PICK o : Collected(p.tokens, c, o) /\ t.out = a.out \o o
    BY <1>1, <2>4, ReadsThen
  <2> HIDE DEF t
  <2>7. Declared(p.tokens, kind, <<d.out>> \o o)
    BY <1>3, <2>1, <2>6, DeclaredGrow
  <2>8. Collected(p.tokens, c, t.out)
    BY <1>3, <2>4, <2>6, <2>7
  <2>9. CallCollects(p, c, e)
    BY <2>3, <2>5, <2>8 DEF CallCollects, Reads
  <2> QED BY <2>9 DEF c, e
<1>6. CASE Cur(p) # "EOF" /\ e = Returned(Advance(p), c)
  <2>1. e = Returned(Advance(p), c)
    BY <1>6
  <2>2. Reads(p, Advance(p))
    BY <1>1, <1>6, ReadsBegun
  <2> HIDE DEF c, e
  <2>3. Reads(p, e) /\ Collected(p.tokens, c, e.out)
    BY <1>1, <2>1, <2>2, ReadsHeaderCall
  <2>4. CallCollects(p, c, e)
    BY <2>3 DEF CallCollects, Reads
  <2> QED BY <2>4 DEF c, e
<1> QED BY <1>0, <1>4, <1>5, <1>6

\* A later state with parts of a device class.
Parted(p, q) == Reads(p, q) /\ GoodParts(p.tokens, q.out)

LEMMA PartedExpect ==
  ASSUME NEW p, State(p), NEW q, Parted(p, q), NEW type
  PROVE  Parted(p, Expect(q, type))
BY ReadsExpect DEF Parted

LEMMA PartedAdvance ==
  ASSUME NEW p, State(p), NEW q, Parted(p, q)
  PROVE  Parted(p, Advance(q))
BY ReadsAdvance DEF Parted

LEMMA BlockOfDeclarationsGood ==
  ASSUME NEW p, HeaderState(p), Cur(p) # "EOF", NEW kind \in BlockKinds, NEW simplified \in BOOLEAN
  PROVE  Parted(p, DeclarationBlock(p, kind, simplified))
<1> DEFINE c == <<"decls", kind, simplified>>
           a == Expect(Advance(p), "{")
           b == Returned(a, c)
           d == Give(b, <<Part(kind, b.out)>>)
<1>1. State(p) /\ c \in HeaderCalls
  BY HeaderCallsOf DEF HeaderState
<1>2. c[1] = "decls" /\ c[2] = kind
  OBVIOUS
<1>3. DeclarationBlock(p, kind, simplified) = Expect(d, "}")
  BY DEF DeclarationBlock, EndOfBlock
<1> HIDE DEF c
<1>4. Reads(p, a)
  <2>1. Reads(p, Advance(p))
    BY <1>1, ReadsBegun
  <2> QED BY <1>1, <2>1, ReadsExpect
<1> HIDE DEF a
<1>5. Reads(p, b) /\ Declared(p.tokens, kind, b.out)
  <2>1. Reads(p, b) /\ Collected(p.tokens, c, b.out)
    BY <1>1, <1>4, ReadsHeaderCall
  <2> HIDE DEF b
  <2> QED BY <1>2, <2>1 DEF Collected
<1> HIDE DEF b
<1>6. GoodParts(p.tokens, <<Part(kind, b.out)>>)
  BY <1>5, OnePart
<1>7. Parted(p, d)
  BY <1>1, <1>5, <1>6, ReadsGive DEF Parted
<1> HIDE DEF d
<1> QED BY <1>1, <1>3, <1>7, PartedExpect

\* A part that is one token, or is missing.
LEMMA TokenPartGood ==
  ASSUME NEW p, State(p), NEW q, Parted(p, q), NEW field, NEW value, field \notin BlockKinds
  PROVE  /\ Parted(p, Expect(Advance(Give(q, <<Part(field, value)>>)), ";"))
         /\ Parted(p, Expect(Advance(q), ";"))
<1> DEFINE r == Give(q, <<Part(field, value)>>)
<1>1. GoodParts(p.tokens, <<Part(field, value)>>)
  BY OnePart
<1>2. Parted(p, r)
  BY <1>1, ReadsGive DEF Parted
<1> HIDE DEF r
<1>3. Parted(p, Expect(Advance(r), ";"))
  BY <1>2, PartedAdvance, PartedExpect
<1>4. Parted(p, Expect(Advance(q), ";"))
  BY PartedAdvance, PartedExpect
<1> QED BY <1>3, <1>4 DEF r

LEMMA DeviceMemberGood ==
  ASSUME NEW p, HeaderState(p), p.out = <<>>, Cur(p) # "EOF"
  PROVE  Parted(p, DeviceMember(p))
<1> DEFINE q == Advance(p)
           d == DeviceMember(p)
<1>1. State(p)
  BY DEF HeaderState
<1>2. Parted(p, q)
  <2>1. Reads(p, q) /\ q.out = <<>>
    BY <1>1, ReadsBegun
  <2> HIDE DEF q
  <2> QED BY <2>1, NoParts DEF Parted
<1>3. \/ d = ClassType(q)
      \/ d = Compatible(q)
      \/ \E kind \in BlockKinds : \E simplified \in BOOLEAN : d = DeclarationBlock(p, kind, simplified)
      \/ d = q
  <2>1. /\ {"registers", "signals", "capabilities", "power", "config"} \subseteq BlockKinds
        /\ \A w : IsIdent(p, w) \in BOOLEAN
    BY DEF BlockKinds, IsIdent
  <2>2. \/ d = ClassType(q)
        \/ d = Compatible(q)
        \/ d = DeclarationBlock(p, "registers", IsIdent(p, "register_map"))
        \/ d = DeclarationBlock(p, "signals", FALSE)
        \/ d = DeclarationBlock(p, "capabilities", FALSE)
        \/ d = DeclarationBlock(p, "power", IsIdent(p, "power_states"))
        \/ d = DeclarationBlock(p, "config", FALSE)
        \/ d = q
    BY DEF DeviceMember, Is, IsIdent
  <2> HIDE DEF d
  <2> QED BY <2>1, <2>2, Zenon
<1> HIDE DEF d, q
<1>4. Parted(p, ClassType(q))
  <2>1. "class_type" \notin BlockKinds
    BY DEF BlockKinds
  <2>2. \/ ClassType(q) = Expect(Advance(Give(q, <<Part("class_type", Cur(q))>>)), ";")
        \/ ClassType(q) = Expect(Advance(q), ";")
    BY DEF ClassType
  <2> QED BY <1>1, <1>2, <2>1, <2>2, TokenPartGood, Zenon
<1>5. Parted(p, Compatible(q))
  <2>1. "compatible" \notin BlockKinds
    BY DEF BlockKinds
  <2>2. \/ Compatible(q) = Expect(Advance(Give(q, <<Part("compatible", TRUE)>>)), ";")
        \/ Compatible(q) = Expect(Advance(q), ";")
    BY DEF Compatible
  <2> QED BY <1>1, <1>2, <2>1, <2>2, TokenPartGood, Zenon
<1>6. Parted(p, d)
  BY <1>2, <1>3, <1>4, <1>5, BlockOfDeclarationsGood
<1> QED BY <1>6 DEF d

LEMMA DeviceBodyGood ==
  ASSUME NEW p, HeaderState(p), p.out = <<>>
  PROVE  CallCollects(p, <<"parts">>, DeviceBody(p))
<1> DEFINE c == <<"parts">>
           m == DeviceMember(p)
           t == Then(m, c)
           e == DeviceBody(p)
<1>1. State(p) /\ c \in HeaderCalls /\ c[1] = "parts"
  BY HeaderCallsOf DEF HeaderState
<1>2. \A o : Collected(p.tokens, c, o) <=> GoodParts(p.tokens, o)
  <2> HIDE DEF c
  <2> QED BY <1>1 DEF Collected
<1>3. CASE Cur(p) \in {"}", "EOF"}
  <2>1. e = p
    BY <1>3 DEF DeviceBody
  <2>2. GoodParts(p.tokens, p.out) /\ Follows(p, p)
    BY <1>1, NoParts, StateFields
  <2> HIDE DEF c, e
  <2>3. CallCollects(p, c, e)
    BY <1>2, <2>1, <2>2 DEF CallCollects
  <2> QED BY <2>3 DEF c, e
<1>4. CASE Cur(p) \notin {"}", "EOF"}
  <2>1. Parted(p, m)
    BY <1>4, DeviceMemberGood
  <2>2. e = t
    BY <1>4 DEF DeviceBody
  <2> HIDE DEF m, c, e
  <2>3. Reads(p, t)
    BY <1>1, <2>1, ReadsThen DEF Parted
  <2>4. PICK o : Collected(p.tokens, c, o) /\ t.out = m.out \o o
    BY <1>1, <2>1, ReadsThen DEF Parted
  <2> HIDE DEF t
  <2>5. GoodParts(p.tokens, m.out \o o)
    BY <1>2, <2>1, <2>4, PartsConcat DEF Parted
  <2>6. Collected(p.tokens, c, t.out)
    BY <1>2, <2>4, <2>5
  <2>7. CallCollects(p, c, e)
    BY <2>2, <2>3, <2>6 DEF CallCollects, Reads
  <2> QED BY <2>7 DEF c, e
<1> QED BY <1>3, <1>4

LEMMA AliasGood ==
  ASSUME NEW p, State(p), NEW q, Reads(p, q)
  PROVE  Reads(p, Alias(q))
<1>1. Alias(q) = q \/ Alias(q) = Advance(q) \/ Alias(q) = Advance(Advance(q))
  BY DEF Alias
<1>2. Reads(p, Advance(q))
  BY ReadsAdvance
<1>3. Reads(p, Advance(Advance(q)))
  BY <1>2, ReadsAdvance
<1> QED BY <1>1, <1>2, <1>3

LEMMA ImportDeclsGood ==
  ASSUME NEW p, HeaderState(p)
  PROVE  Follows(p, ImportDecls(p))
<1> DEFINE c == <<"imports">>
           a == Advance(Give(p, <<TokenType(Peek(p, 1)) = "STRING">>))
           b == OptionalString(a)
           d == Expect(Alias(b), ";")
<1>1. State(p) /\ c \in HeaderCalls
  BY HeaderCallsOf DEF HeaderState
<1>2. CASE ~ Is(p, "import")
  BY <1>1, <1>2, StateFields DEF ImportDecls
<1>3. CASE Is(p, "import")
  <2>1. ImportDecls(p) = Then(d, c)
    BY <1>3 DEF ImportDecls
  <2>2. Reads(p, a)
    BY <1>1, <1>3, NotEof, ReadsBegun
  <2> HIDE DEF a, c
  <2>3. Reads(p, b)
    BY <1>1, <2>2, ReadsAdvance DEF OptionalString
  <2> HIDE DEF b
  <2>4. Reads(p, d)
    BY <1>1, <2>3, AliasGood, ReadsExpect
  <2> HIDE DEF d
  <2> QED BY <1>1, <2>1, <2>4, ReadsThen DEF Reads
<1> QED BY <1>2, <1>3

LEMMA BackendOptionsGood ==
  ASSUME NEW p, HeaderState(p)
  PROVE  Follows(p, BackendOptions(p))
<1> DEFINE c == <<"options">>
           a == Expect(Advance(p), ":")
           b == Returned(a, <<"expr", 1>>)
           d == Expect(b, ";")
<1>1. State(p) /\ c \in HeaderCalls
  BY HeaderCallsOf DEF HeaderState
<1>2. CASE ~ Is(p, "IDENT")
  BY <1>1, <1>2, StateFields DEF BackendOptions
<1>3. CASE Is(p, "IDENT")
  <2>1. BackendOptions(p) = Returned(d, c)
    BY <1>3 DEF BackendOptions, Expr, ExprPrec
  <2> HIDE DEF c
  <2>2. Reads(p, Advance(p))
    BY <1>1, <1>3, NotEof, ReadsBegun
  <2>3. Reads(p, a)
    BY <1>1, <2>2, ReadsExpect
  <2> HIDE DEF a
  <2>4. Reads(p, b)
    BY <1>1, <2>3, FirstCall, ReadsCall
  <2> HIDE DEF b
  <2>5. Reads(p, d)
    BY <1>1, <2>4, ReadsExpect
  <2> HIDE DEF d
  <2> QED BY <1>1, <2>1, <2>5, ReadsHeaderCall DEF Reads
<1> QED BY <1>2, <1>3

LEMMA HeaderCallGood ==
  ASSUME NEW p, HeaderState(p), p.out = <<>>, NEW c \in HeaderCalls
  PROVE  CallCollects(p, c, HeaderCall(p, c))
<1>1. CASE c = <<"bits">>
  BY <1>1, BitMembersGood DEF HeaderCall
<1>2. CASE c = <<"parts">>
  BY <1>2, DeviceBodyGood DEF HeaderCall
<1>3. CASE c = <<"imports">>
  BY <1>3, ImportDeclsGood DEF HeaderCall, CallCollects, Collected
<1>4. CASE c = <<"options">>
  BY <1>4, BackendOptionsGood DEF HeaderCall, CallCollects, Collected
<1>5. ASSUME NEW kind \in BlockKinds, NEW simplified \in BOOLEAN, c = <<"decls", kind, simplified>>
      PROVE  CallCollects(p, c, HeaderCall(p, c))
  <2>1. HeaderCall(p, c) = Declarations(p, kind, simplified)
    BY <1>5 DEF HeaderCall
  <2> QED BY <1>5, <2>1, DeclarationsGood
<1> QED BY <1>1, <1>2, <1>3, <1>4, <1>5 DEF HeaderCalls

-----------------------------------------------------------------------------
(* All the calls of a header. *)

HeaderCallsAt(tokens, i, later) ==
  [c \in Calls \union HeaderCalls |->
     IF c \in Calls THEN Parses(tokens)[i][c] ELSE HeaderCall(ParserAt(tokens, i, later), c)]

\* FileParses is the function that its definition says it is.
LEMMA FileParsesEquation ==
  ASSUME NEW tokens, EndsWithEof(tokens)
  PROVE  LET n == Len(tokens) IN
           FileParses(tokens) = [i \in 1 .. n |->
             HeaderCallsAt(tokens, i, [j \in i + 1 .. n |-> FileParses(tokens)[j]])]
<1> DEFINE n == Len(tokens)
           G(h, m) == [i \in n - m + 1 .. n |->
                         HeaderCallsAt(tokens, i, [j \in i + 1 .. n |-> h[j]])]
           F(h) == [i \in 1 .. n |-> HeaderCallsAt(tokens, i, [j \in i + 1 .. n |-> h[j]])]
           good == {m \in 0 .. n : \E h : h = G(h, m)}
           from == CHOOSE h : h = F(h)
<1>1. n \in Nat /\ DOMAIN tokens = 1 .. n
  BY FileEnd
<1>2. FileParses(tokens) = from
  BY <1>1, Zenon DEF FileParses, HeaderCallsAt
<1> HIDE DEF n
<1>3. \E h : h = F(h)
  <2>1. 0 \in good
    <3>1. 0 \in 0 .. n /\ n - 0 + 1 .. n = {}
      BY <1>1, SMT
    <3> DEFINE h == [i \in n - 0 + 1 .. n |-> 0]
    <3>2. h = G(h, 0)
      BY <3>1
    <3> HIDE DEF h, G
    <3> QED BY <3>1, <3>2
  <2>2. ASSUME NEW m \in 0 + 1 .. n, m - 1 \in good PROVE m \in good
    <3>1. PICK h : h = G(h, m - 1)
      BY <2>2
    <3> DEFINE first == n - m + 1
               g == [i \in first .. n |->
                       IF i = first THEN HeaderCallsAt(tokens, i, [j \in i + 1 .. n |-> h[j]])
                       ELSE h[i]]
    <3>2. /\ m \in 0 .. n /\ first \in Nat /\ n - (m - 1) + 1 = first + 1
          /\ \A i \in first .. n : i # first => i \in first + 1 .. n
          /\ \A i \in first .. n : \A j \in i + 1 .. n : j \in first .. n /\ j # first
      BY <1>1, SMT
    <3> HIDE DEF first
    <3>3. \A i \in first + 1 .. n : h[i] = HeaderCallsAt(tokens, i, [j \in i + 1 .. n |-> h[j]])
      BY <3>1, <3>2, Zenon
    <3>4. \A i \in first .. n : g[i] = HeaderCallsAt(tokens, i, [j \in i + 1 .. n |-> g[j]])
      <4> SUFFICES ASSUME NEW i \in first .. n
                   PROVE  g[i] = HeaderCallsAt(tokens, i, [j \in i + 1 .. n |-> g[j]])
        OBVIOUS
      <4>1. [j \in i + 1 .. n |-> g[j]] = [j \in i + 1 .. n |-> h[j]]
        BY <3>2
      <4>2. g[i] = HeaderCallsAt(tokens, i, [j \in i + 1 .. n |-> h[j]])
        <5>1. CASE i = first
          BY <5>1
        <5>2. CASE i # first
          BY <3>2, <3>3, <5>2
        <5> QED BY <5>1, <5>2
      <4> HIDE DEF g
      <4> QED BY <4>1, <4>2
    <3>5. g = G(g, m)
      <4>1. G(g, m) = [i \in first .. n |-> HeaderCallsAt(tokens, i, [j \in i + 1 .. n |-> g[j]])]
        BY DEF first
      <4>2. g = [i \in first .. n |-> g[i]]
        OBVIOUS
      <4> HIDE DEF g, G
      <4> QED BY <3>4, <4>1, <4>2
    <3> HIDE DEF g, G
    <3> QED BY <3>2, <3>5
  <2> HIDE DEF good
  <2>3. \A m \in 0 .. n : m \in good
    BY <1>1, <2>1, <2>2, Upwards
  <2>4. n \in good /\ n - n + 1 = 1
    BY <1>1, <2>3, SMT
  <2>5. \A h : G(h, n) = F(h)
    BY <2>4
  <2> HIDE DEF G, F
  <2> QED BY <2>4, <2>5 DEF good
<1>4. from = F(from)
  <2> HIDE DEF F
  <2> QED BY <1>3, Zenon
<1> QED BY <1>2, <1>4 DEF n

LEMMA CallsApart == \A c \in HeaderCalls : c \notin Calls
<1> SUFFICES ASSUME NEW c \in HeaderCalls PROVE c \notin Calls
  OBVIOUS
<1> DEFINE words == {"bits", "parts", "imports", "options", "decls"}
<1>1. c[1] \in words
  BY DEF HeaderCalls
<1>2. \A d \in Calls : d[1] \notin words
  <2> DEFINE E == {<<"expr", m>> : m \in 1 .. 11}
             T == {<<"args">>, <<"elif">>, <<"list">>, <<"body">>, <<"name">>,
                   <<"skip", ")">>, <<"skip", "}">>}
  <2>1. \A d \in E : d[1] \notin words
    BY SMT
  <2>2. \A d \in T : d[1] \notin words
    <3>1. /\ <<"args">>[1] = "args" /\ <<"elif">>[1] = "elif" /\ <<"list">>[1] = "list"
          /\ <<"body">>[1] = "body" /\ <<"name">>[1] = "name"
          /\ <<"skip", ")">>[1] = "skip" /\ <<"skip", "}">>[1] = "skip"
      OBVIOUS
    <3>2. {"args", "elif", "list", "body", "name", "skip"} \intersect words = {}
      OBVIOUS
    <3> HIDE DEF words
    <3> QED BY <3>1, <3>2, Zenon
  <2>3. Calls = E \union T
    BY DEF Calls
  <2> HIDE DEF E, T, words
  <2> QED BY <2>1, <2>2, <2>3
<1> QED BY <1>1, <1>2

LEMMA FileParsesGood ==
  ASSUME NEW tokens, EndsWithEof(tokens)
  PROVE  /\ DOMAIN FileParses(tokens) = 1 .. Len(tokens)
         /\ GoodTable(tokens, FileParses(tokens))
         /\ HeaderTable(tokens, FileParses(tokens))
<1> DEFINE n == Len(tokens)
           from == FileParses(tokens)
           Fine(i) == \A c \in HeaderCalls : Collects(tokens, i, c, from[i][c])
           good == {m \in 0 .. n : \A i \in n - m + 1 .. n : Fine(i)}
<1>1. n \in Nat
  BY FileEnd
<1>2. from = [i \in 1 .. n |-> HeaderCallsAt(tokens, i, [j \in i + 1 .. n |-> from[j]])]
  BY FileParsesEquation
<1>0. DOMAIN Parses(tokens) = 1 .. n /\ GoodTable(tokens, Parses(tokens))
  BY ParsesGood
<1> HIDE DEF from, n
<1>3. \A i \in 1 .. n : from[i] = HeaderCallsAt(tokens, i, [j \in i + 1 .. n |-> from[j]])
  BY <1>2, Zenon
<1>4. DOMAIN from = 1 .. n
  BY <1>2, Zenon
<1>5. \A i \in 1 .. n : \A c \in Calls : from[i][c] = Parses(tokens)[i][c]
  <2> SUFFICES ASSUME NEW i \in 1 .. n, NEW c \in Calls PROVE from[i][c] = Parses(tokens)[i][c]
    OBVIOUS
  <2> DEFINE later == [j \in i + 1 .. n |-> from[j]]
  <2>1. from[i] = HeaderCallsAt(tokens, i, later)
    BY <1>3
  <2> HIDE DEF later
  <2> QED BY <2>1 DEF HeaderCallsAt
<1>6. \A i \in 1 .. n : \A c \in Calls : GoodReturn(tokens, i, c, from[i][c])
  BY <1>0, <1>5 DEF GoodTable
<1>7. \A m \in 0 .. n : m \in good
  <2>1. 0 \in good
    <3>1. 0 \in 0 .. n /\ n - 0 + 1 .. n = {}
      BY <1>1, SMT
    <3> HIDE DEF Fine
    <3> QED BY <3>1
  <2>2. ASSUME NEW m \in 0 + 1 .. n, m - 1 \in good PROVE m \in good
    <3> DEFINE first == n - m + 1
               later == [j \in first + 1 .. n |-> from[j]]
               p == ParserAt(tokens, first, later)
    <3>1. /\ m \in 0 .. n /\ first \in Nat /\ first \in 1 .. n /\ n - (m - 1) + 1 = first + 1
          /\ \A i \in first .. n : i # first => i \in first + 1 .. n
          /\ first + 1 .. n \subseteq Nat /\ first + 1 .. n \subseteq 1 .. n
      BY <1>1, SMT
    <3>2. \A i \in first + 1 .. n : Fine(i)
      <4> HIDE DEF Fine, first
      <4> QED BY <2>2, <3>1
    <3>3. from[first] = HeaderCallsAt(tokens, first, later)
      BY <1>3, <3>1
    <3> HIDE DEF first
    <3>4. DOMAIN later = first + 1 .. n /\ \A j \in first + 1 .. n : later[j] = from[j]
      OBVIOUS
    <3> HIDE DEF later
    <3>5. GoodTable(tokens, later) /\ HeaderTable(tokens, later)
      BY <1>6, <3>1, <3>2, <3>4 DEF GoodTable, HeaderTable
    <3>6. State(p) /\ p.out = <<>> /\ p.tokens = tokens /\ p.pos = first
      BY <3>1, <3>4, <3>5, ParserAtState DEF n
    <3>7. HeaderState(p)
      <4>1. p.later = later
        BY DEF ParserAt
      <4> HIDE DEF p
      <4> QED BY <3>5, <3>6, <4>1 DEF HeaderState
    <3>8. Fine(first)
      <4> SUFFICES ASSUME NEW c \in HeaderCalls PROVE Collects(tokens, first, c, from[first][c])
        OBVIOUS
      <4> DEFINE q == HeaderCall(p, c)
      <4>1. from[first][c] = q
        BY <3>3, CallsApart DEF HeaderCallsAt
      <4> HIDE DEF p
      <4>2. CallCollects(p, c, q)
        BY <3>6, <3>7, HeaderCallGood
      <4> HIDE DEF q
      <4>3. Follows(p, q) /\ Collected(tokens, c, q.out)
        BY <3>6, <4>2 DEF CallCollects
      <4>4. q.pos \in first .. n /\ q.had_error \in BOOLEAN
        <5>1. /\ q.pos \in 1 .. n /\ q.pos \in Nat /\ q.had_error \in BOOLEAN /\ q.pos >= first
          BY <3>6, <4>3, StateFields DEF Follows, n
        <5> QED BY <1>1, <3>1, <5>1, SMT
      <4> QED BY <4>1, <4>3, <4>4 DEF Collects, n
    <3> HIDE DEF Fine
    <3>9. \A i \in first .. n : Fine(i)
      BY <3>1, <3>2, <3>8
    <3> QED BY <3>1, <3>9 DEF first
  <2> HIDE DEF good
  <2> QED BY <1>1, <2>1, <2>2, Upwards
<1>8. \A i \in 1 .. n : Fine(i)
  <2>1. n \in 0 .. n /\ n - n + 1 = 1
    BY <1>1, SMT
  <2> HIDE DEF Fine
  <2> QED BY <1>7, <2>1
<1> QED BY <1>4, <1>6, <1>8 DEF GoodTable, HeaderTable, from, n


-----------------------------------------------------------------------------
(* Files. *)

\* A device with the declarations of its blocks.
GoodDevice(words, dev) == \A kind \in BlockKinds : Declared(words, kind, dev[kind])

\* The file under construction, with a device or without.
GoodFile(words, file) ==
  /\ "device" \in DOMAIN file
  /\ file.device = <<>> \/ \E dev : file.device = <<dev>> /\ GoodDevice(words, dev)

\* A later state with a file under construction.
Filed(s, q) == Reads(s, q) /\ GoodFile(s.tokens, q.out)

LEMMA FileWith ==
  ASSUME NEW words, NEW file, GoodFile(words, file), NEW f, NEW v, f # "device"
  PROVE  GoodFile(words, With(file, f, v))
<1>1. "device" \in DOMAIN With(file, f, v) /\ With(file, f, v).device = file.device
  BY DEF GoodFile, With
<1> QED BY <1>1 DEF GoodFile

LEMMA FileWithDevice ==
  ASSUME NEW words, NEW file, GoodFile(words, file), NEW dev, GoodDevice(words, dev)
  PROVE  GoodFile(words, With(file, "device", <<dev>>))
<1>1. "device" \in DOMAIN With(file, "device", <<dev>>) /\ With(file, "device", <<dev>>).device = <<dev>>
  BY DEF GoodFile, With
<1> QED BY <1>1 DEF GoodFile

LEMMA FiledAdvance ==
  ASSUME NEW s, State(s), NEW q, Filed(s, q)
  PROVE  Filed(s, Advance(q))
BY ReadsAdvance DEF Filed

LEMMA FiledExpect ==
  ASSUME NEW s, State(s), NEW q, Filed(s, q), NEW type
  PROVE  Filed(s, Expect(q, type))
BY ReadsExpect DEF Filed

LEMMA FiledField ==
  ASSUME NEW s, State(s), NEW q, Filed(s, q), NEW f, NEW v, f # "device"
  PROVE  Filed(s, Field(q, f, v))
BY ReadsField, FileWith DEF Filed

LEMMA FileStartGood ==
  ASSUME NEW tokens, EndsWithEof(tokens)
  PROVE  LET s == FileStart(tokens) IN
           HeaderState(s) /\ Filed(s, s) /\ s.tokens = tokens /\ s.had_error = FALSE
<1> DEFINE later == FileParses(tokens)
           p == ParserAt(tokens, 1, later)
           s == Give(p, NoFile)
<1>1. Len(tokens) \in Nat /\ 1 \in 1 .. Len(tokens)
  BY FileEnd, SMT
<1>2. /\ DOMAIN later = 1 .. Len(tokens) /\ GoodTable(tokens, later)
      /\ HeaderTable(tokens, later)
  BY FileParsesGood
<1>3. 1 .. Len(tokens) \subseteq Nat /\ \A j \in 1 + 1 .. Len(tokens) : j \in 1 .. Len(tokens)
  BY <1>1, SMT
<1>4. p.later = later /\ p.had_error = FALSE
  BY DEF ParserAt
<1> HIDE DEF later
<1>5. State(p) /\ p.tokens = tokens /\ p.pos = 1
  BY <1>1, <1>2, <1>3, ParserAtState
<1> HIDE DEF p
<1>6. Follows(p, s) /\ s.out = NoFile /\ s.pos = 1 /\ s.tokens = tokens /\ s.had_error = FALSE
  BY <1>4, <1>5, Given
<1>7. FileStart(tokens) = s
  BY DEF FileStart, s, p, later
<1> HIDE DEF s
<1>8. State(s) /\ s.later = later
  BY <1>4, <1>6 DEF Follows
<1>9. HeaderState(s) /\ Reads(s, s)
  BY <1>1, <1>2, <1>6, <1>8, StateFields DEF HeaderState, Reads, Ready
<1>10. GoodFile(s.tokens, NoFile)
  BY DEF GoodFile, NoFile
<1> QED BY <1>6, <1>7, <1>9, <1>10 DEF Filed

LEMMA VersionGood ==
  ASSUME NEW s, State(s), NEW q, Filed(s, q)
  PROVE  Filed(s, VersionDecl(q))
<1>1. CASE Is(q, "kdal_version")
  <2> DEFINE a == Expect(Advance(q), ":")
  <2>1. VersionDecl(q) = VersionText(a)
    BY <1>1 DEF VersionDecl
  <2>2. Filed(s, a)
    BY FiledAdvance, FiledExpect
  <2> HIDE DEF a
  <2>3. CASE Is(a, "STRING")
    <3> DEFINE b == Field(a, "version", TRUE)
               d == Advance(b)
    <3>1. VersionText(a) = Expect(d, ";")
      BY <2>3 DEF VersionText
    <3>2. Filed(s, b)
      BY <2>2, FiledField
    <3> HIDE DEF b
    <3>3. Filed(s, d)
      BY <3>2, FiledAdvance
    <3> HIDE DEF d
    <3>4. Filed(s, Expect(d, ";"))
      BY <3>3, FiledExpect
    <3> QED BY <2>1, <3>1, <3>4
  <2>4. CASE ~ Is(a, "STRING")
    <3>1. VersionText(a) = Expect(a, ";")
      BY <2>4 DEF VersionText
    <3> QED BY <2>1, <2>2, <3>1, FiledExpect
  <2> QED BY <2>3, <2>4
<1>2. CASE ~ Is(q, "kdal_version")
  BY <1>2 DEF VersionDecl
<1> QED BY <1>1, <1>2

LEMMA ImportsGood ==
  ASSUME NEW s, HeaderState(s), NEW q, Filed(s, q)
  PROVE  Filed(s, Into(q, "imports", <<"imports">>))
<1> DEFINE c == <<"imports">>
           r == Returned(q, c)
<1>1. State(s) /\ c \in HeaderCalls
  BY HeaderCallsOf DEF HeaderState
<1>2. Into(q, "imports", c) = Give(r, With(q.out, "imports", r.out))
  BY DEF Into, With
<1> HIDE DEF c
<1>3. Reads(s, r)
  BY <1>1, ReadsHeaderCall DEF Filed
<1> HIDE DEF r
<1>4. GoodFile(s.tokens, With(q.out, "imports", r.out))
  BY FileWith DEF Filed
<1>5. Filed(s, Give(r, With(q.out, "imports", r.out)))
  BY <1>1, <1>3, <1>4, ReadsGive DEF Filed
<1> QED BY <1>2, <1>5 DEF c

LEMMA OptionBlockGood ==
  ASSUME NEW s, HeaderState(s), NEW q, Filed(s, q)
  PROVE  Filed(s, OptionBlock(q))
<1> DEFINE c == <<"options">>
           r == Returned(Advance(q), c)
           d == Give(r, q.out)
<1>1. State(s) /\ c \in HeaderCalls
  BY HeaderCallsOf DEF HeaderState
<1>2. CASE Is(q, "{")
  <2>1. OptionBlock(q) = Expect(d, "}")
    BY <1>2 DEF OptionBlock
  <2> HIDE DEF c
  <2>2. Reads(s, r)
    BY <1>1, ReadsAdvance, ReadsHeaderCall DEF Filed
  <2> HIDE DEF r
  <2>3. Filed(s, d)
    BY <1>1, <2>2, ReadsGive DEF Filed
  <2> HIDE DEF d
  <2> QED BY <1>1, <2>1, <2>3, FiledExpect
<1>3. CASE ~ Is(q, "{")
  BY <1>3 DEF OptionBlock
<1> QED BY <1>2, <1>3

LEMMA BackendGood ==
  ASSUME NEW s, HeaderState(s), NEW q, Filed(s, q)
  PROVE  Filed(s, BackendDecl(q))
<1>1. State(s)
  BY DEF HeaderState
<1>2. CASE Is(q, "backend")
  <2> DEFINE a == Field(q, "backend", <<Peek(q, 1)>>)
             b == Advance(Advance(a))
  <2>1. BackendDecl(q) = OptionBlock(b)
    BY <1>2 DEF BackendDecl
  <2>2. Filed(s, a)
    BY <1>1, FiledField
  <2> HIDE DEF a
  <2>3. Filed(s, b)
    BY <1>1, <2>2, FiledAdvance
  <2> HIDE DEF b
  <2> QED BY <2>1, <2>3, OptionBlockGood
<1>3. CASE ~ Is(q, "backend")
  BY <1>3 DEF BackendDecl
<1> QED BY <1>2, <1>3

LEMMA Greatest ==
  ASSUME NEW n \in Nat, NEW W, W \subseteq 1 .. n, W # {}
  PROVE  \E k \in W : \A j \in W : j <= k
<1> DEFINE D == {n - k : k \in W}
<1>1. D \subseteq Nat /\ D # {}
  <2>1. \A k \in W : n - k \in Nat
    BY SMT
  <2> QED BY <2>1
<1>2. PICK d \in D : \A m \in D : d <= m
  BY <1>1, LeastNat
<1>3. PICK k \in W : d = n - k
  OBVIOUS
<1>4. \A j \in W : n - k <= n - j
  BY <1>2, <1>3
<1>5. \A j \in W : j <= k
  BY <1>4, SMT
<1> QED BY <1>5

\* The last part of a kind is taken, and a kind without a part is empty.
LEMMA WithPartsGood ==
  ASSUME NEW words, NEW name, NEW parts, GoodParts(words, parts)
  PROVE  GoodDevice(words, WithParts(NewDevice(name), parts))
<1> DEFINE dev == NewDevice(name)
           all == WithParts(dev, parts)
<1> SUFFICES ASSUME NEW kind \in BlockKinds PROVE Declared(words, kind, all[kind])
  BY DEF GoodDevice
<1>1. kind \in DOMAIN dev /\ dev[kind] = <<>>
  <2>1. /\ dev.registers = <<>> /\ dev.signals = <<>> /\ dev.capabilities = <<>>
        /\ dev.power = <<>> /\ dev.config = <<>>
    BY DEF NewDevice
  <2>2. BlockKinds \subseteq DOMAIN dev
    BY DEF NewDevice, BlockKinds
  <2> HIDE DEF dev
  <2> QED BY <2>1, <2>2 DEF BlockKinds
<1> HIDE DEF dev
<1> DEFINE W == PartsFor(parts, kind)
           k == CHOOSE k \in W : \A j \in W : j <= k
<1>2. all[kind] = IF W = {} THEN dev[kind] ELSE parts[k].value
  BY <1>1 DEF WithParts
<1> HIDE DEF all
<1>3. CASE W = {}
  BY <1>1, <1>2, <1>3, NoneDeclared
<1>4. CASE W # {}
  <2>1. PICK S : /\ parts \in Seq(S)
                 /\ \A m \in S : m.field \in BlockKinds => Declared(words, m.field, m.value)
    BY DEF GoodParts
  <2>2. Len(parts) \in Nat /\ DOMAIN parts = 1 .. Len(parts) /\ \A j \in DOMAIN parts : parts[j] \in S
    BY <2>1, LenProperties, ElementOfSeq
  <2>3. W \subseteq 1 .. Len(parts) /\ \A j \in W : j \in DOMAIN parts /\ parts[j].field = kind
    BY <2>2 DEF PartsFor
  <2> HIDE DEF W
  <2>4. \E i \in W : \A j \in W : j <= i
    BY <1>4, <2>2, <2>3, Greatest
  <2>5. k \in W
    BY <2>4, Zenon
  <2> HIDE DEF k
  <2>6. parts[k] \in S /\ parts[k].field = kind
    BY <2>2, <2>3, <2>5
  <2>7. Declared(words, kind, parts[k].value)
    BY <2>1, <2>6
  <2> QED BY <1>2, <1>4, <2>7
<1> QED BY <1>3, <1>4

LEMMA DeviceAtGood ==
  ASSUME NEW s, HeaderState(s), NEW q, Filed(s, q), NEW name, Reads(s, name)
  PROVE  Filed(s, DeviceAt(q, name))
<1> DEFINE c == <<"parts">>
           dev == NewDevice(Cur(name))
           a == Expect(Advance(name), "{")
           b == Returned(a, c)
           d == Give(b, With(q.out, "device", <<WithParts(dev, b.out)>>))
<1>1. State(s) /\ c \in HeaderCalls /\ c[1] = "parts"
  BY HeaderCallsOf DEF HeaderState
<1>2. DeviceAt(q, name) = Expect(d, "}")
  BY DEF DeviceAt, EndOfDevice, With
<1> HIDE DEF c
<1>3. Reads(s, a)
  BY <1>1, ReadsAdvance, ReadsExpect
<1> HIDE DEF a
<1>4. Reads(s, b) /\ Collected(s.tokens, c, b.out)
  BY <1>1, <1>3, ReadsHeaderCall
<1> HIDE DEF b
<1>5. GoodParts(s.tokens, b.out)
  BY <1>1, <1>4 DEF Collected
<1>6. GoodDevice(s.tokens, WithParts(dev, b.out))
  BY <1>5, WithPartsGood
<1> HIDE DEF dev
<1>7. GoodFile(s.tokens, With(q.out, "device", <<WithParts(dev, b.out)>>))
  BY <1>6, FileWithDevice DEF Filed
<1>8. Filed(s, d)
  BY <1>1, <1>4, <1>7, ReadsGive DEF Filed
<1> HIDE DEF d
<1> QED BY <1>1, <1>2, <1>8, FiledExpect

\* A driver leaves the device as it is.
LEMMA DriverAtGood ==
  ASSUME NEW s, HeaderState(s), NEW q, Filed(s, q)
  PROVE  GoodFile(s.tokens, DriverAt(q).out)
<1> DEFINE q1 == Advance(q)
           q2 == Advance(q1)
           q3 == ForClass(q2)
           q4 == Expect(q3, "{")
           b == DriverBody(q4)
           file == With(q.out, "driver", <<b.out>>)
           d == Give(b, file)
<1>1. DriverAt(q) = Expect(d, "}")
  BY DEF DriverAt, EndOfDriverAt, With
<1>2. State(q)
  BY ReadsState DEF Filed, HeaderState
<1>3. State(q1)
  BY <1>2, Advanced DEF Follows
<1> HIDE DEF q1
<1>4. State(q2)
  BY <1>3, Advanced DEF Follows
<1> HIDE DEF q2
<1>5. State(q3)
  BY <1>4, ForClassGood DEF Follows
<1> HIDE DEF q3
<1>6. State(q4)
  BY <1>5, Expected DEF Follows
<1> HIDE DEF q4
<1>7. State(b)
  BY <1>6, DriverBodyGood DEF Drives, Follows
<1> HIDE DEF b
<1>8. GoodFile(s.tokens, file)
  BY FileWith DEF Filed
<1> HIDE DEF file
<1>9. State(d) /\ d.out = file
  BY <1>7, Given DEF Follows
<1> HIDE DEF d
<1>10. Expect(d, "}").out = file
  BY <1>9, Expected
<1> QED BY <1>1, <1>8, <1>10

LEMMA DefinitionGood ==
  ASSUME NEW s, HeaderState(s), NEW q, Filed(s, q)
  PROVE  GoodFile(s.tokens, Definition(q).out)
<1>1. State(s)
  BY DEF HeaderState
<1>2. CASE Is(q, "device")
  <2> DEFINE a == Advance(q)
             name == DeviceName(a)
  <2>1. Definition(q) = DeviceAt(q, name)
    BY <1>2 DEF Definition, Is
  <2>2. Reads(s, a)
    BY <1>1, ReadsAdvance DEF Filed
  <2> HIDE DEF a
  <2>3. Reads(s, name)
    <3>1. CASE Is(a, "class")
      BY <1>1, <2>2, <3>1, ReadsAdvance DEF DeviceName
    <3>2. CASE ~ Is(a, "class")
      BY <2>2, <3>2 DEF DeviceName
    <3> QED BY <3>1, <3>2
  <2> HIDE DEF name
  <2> QED BY <2>1, <2>3, DeviceAtGood DEF Filed
<1>3. CASE Is(q, "driver")
  <2>1. Definition(q) = DriverAt(q)
    BY <1>3 DEF Definition, Is
  <2> QED BY <2>1, DriverAtGood
<1>4. CASE ~ Is(q, "device") /\ ~ Is(q, "driver")
  <2>1. Definition(q) = q
    BY <1>4 DEF Definition
  <2> QED BY <2>1 DEF Filed
<1> QED BY <1>2, <1>3, <1>4

LEMMA ParseFileGood ==
  ASSUME NEW tokens, EndsWithEof(tokens)
  PROVE  GoodFile(tokens, ParseFile(tokens).file)
<1> DEFINE s == FileStart(tokens)
           a == VersionDecl(s)
           b == Into(a, "imports", <<"imports">>)
           d == BackendDecl(b)
           e == Definition(d)
<1>1. ParseFile(tokens) = EndOfFile(e)
  BY DEF ParseFile
<1>2. HeaderState(s) /\ State(s) /\ Filed(s, s) /\ s.tokens = tokens
  BY FileStartGood DEF HeaderState
<1> HIDE DEF s
<1>3. Filed(s, a)
  BY <1>2, VersionGood
<1> HIDE DEF a
<1>4. Filed(s, b)
  BY <1>2, <1>3, ImportsGood
<1> HIDE DEF b
<1>5. Filed(s, d)
  BY <1>2, <1>4, BackendGood
<1> HIDE DEF d
<1>6. GoodFile(tokens, e.out)
  BY <1>2, <1>5, DefinitionGood
<1> HIDE DEF e
<1>7. EndOfFile(e).file = e.out
  BY DEF EndOfFile
<1> QED BY <1>1, <1>6, <1>7

\* The device of a file is as the analysis wants it, and its registers are
\* written in the text.
LEMMA GoodFileDevice ==
  ASSUME NEW words, NEW file, GoodFile(words, file)
  PROVE  /\ IsSequence(file.device)
         /\ \A k \in DOMAIN file.device :
              /\ IsDevice(file.device[k])
              /\ \A r \in DOMAIN file.device[k].registers :
                   StandsIn(words, file.device[k].registers[r])
<1>1. CASE file.device = <<>>
  <2>1. <<>> \in Seq({}) /\ DOMAIN <<>> = {}
    BY EmptySeq
  <2>2. IsSequence(<<>>)
    BY <2>1, OwnElements
  <2> QED BY <1>1, <2>1, <2>2
<1>2. ASSUME NEW dev, file.device = <<dev>>, GoodDevice(words, dev)
      PROVE  /\ IsSequence(file.device)
             /\ \A k \in DOMAIN file.device :
                  /\ IsDevice(file.device[k])
                  /\ \A r \in DOMAIN file.device[k].registers :
                       StandsIn(words, file.device[k].registers[r])
  <2> DEFINE one == <<dev>>
  <2>1. one \in Seq({dev})
    OBVIOUS
  <2> HIDE DEF one
  <2>2. IsSequence(one) /\ \A k \in DOMAIN one : one[k] = dev
    BY <2>1, OwnElements
  <2>3. ASSUME NEW kind \in BlockKinds
        PROVE  /\ IsSequence(dev[kind])
               /\ kind = "registers" =>
                    \A k \in DOMAIN dev[kind] : GoodRegister(words, dev[kind][k])
    <3>1. PICK S : /\ dev[kind] \in Seq(S)
                   /\ kind = "registers" => \A r \in S : GoodRegister(words, r)
      BY <1>2 DEF GoodDevice, Declared
    <3> DEFINE decls == dev[kind]
    <3>2. IsSequence(decls) /\ \A k \in DOMAIN decls : decls[k] \in S
      <4> HIDE DEF decls
      <4>1. decls \in Seq(S)
        BY <3>1 DEF decls
      <4> QED BY <4>1, OwnElements
    <3> QED BY <3>1, <3>2
  <2>4. {"registers", "signals", "capabilities", "config"} \subseteq BlockKinds
    BY DEF BlockKinds
  <2>5. /\ IsSequence(dev.registers) /\ IsSequence(dev.signals)
        /\ IsSequence(dev.capabilities) /\ IsSequence(dev.config)
        /\ \A k \in DOMAIN dev.registers : GoodRegister(words, dev.registers[k])
    BY <2>3, <2>4
  <2>6. IsDevice(dev) /\ \A r \in DOMAIN dev.registers : StandsIn(words, dev.registers[r])
    BY <2>5, Zenon DEF IsDevice, GoodRegister
  <2>7. file.device = one
    BY <1>2 DEF one
  <2> QED BY <2>2, <2>6, <2>7
<1> QED BY <1>1, <1>2 DEF GoodFile

\* The text of a file that is lexed is a sequence of words that ends with EOF.
LEMMA SpellingsEnd ==
  ASSUME NEW src \in Seq(STRING), ~ Lex(src).had_error
  PROVE  EndsWithEof(Spellings(src, Lex(src).tokens))
<1> DEFINE tokens == Lex(src).tokens
           n == Len(tokens)
           Piece(k) == Spelling(tokens[k].type, SubSeq(src, tokens[k].first, tokens[k].last))
           words == [k \in 1 .. n |-> Piece(k)]
<1>1. tokens \in Seq(Tokens) /\ Tile(src, tokens)
  BY LexedTiles
<1> HIDE DEF tokens
<1>2. n \in Nat /\ n # 0 /\ DOMAIN tokens = 1 .. n
  BY <1>1, LenProperties, EmptySeq DEF Tile
<1>3. Spellings(src, tokens) = words
  BY <1>2, Zenon DEF Spellings
<1>4. tokens[n].type = "EOF"
  BY <1>1, <1>2 DEF Tile
<1>5. Piece(n) = "EOF"
  BY <1>4, Zenon DEF Spelling
<1> HIDE DEF Piece, n
<1>6. n \in 1 .. n /\ n \in Nat
  BY <1>2, SMT
<1> DEFINE S == {Piece(k) : k \in 1 .. n}
<1>7. words \in [1 .. n -> S]
  OBVIOUS
<1>8. words[n] = "EOF"
  BY <1>5, <1>6
<1> HIDE DEF words, S
<1>9. words \in Seq(S)
  BY <1>6, <1>7, SeqDef
<1>10. Len(words) = n
  <2> DEFINE m == Len(words)
  <2>1. m \in Nat /\ 1 .. m = 1 .. n
    BY <1>7, <1>9, LenProperties
  <2> HIDE DEF m
  <2>2. n <= m /\ m # 0
    BY <1>6, <2>1, SMT
  <2>3. m \in 1 .. m
    BY <2>1, <2>2, SMT
  <2>4. m = n
    BY <1>6, <2>1, <2>2, <2>3, SMT
  <2> QED BY <2>4 DEF m
<1>11. words # <<>>
  BY <1>2, <1>10, EmptySeq
<1> QED BY <1>3, <1>8, <1>9, <1>10, <1>11 DEF EndsWithEof, tokens

\* What there is of the tree and the tokens is what the parser and the lexer made
\* of the text.
HeaderInv ==
  /\ text \in Seq(STRING)
  /\ lexed # NoResult => lexed = Result(Lex(text))
  /\ analysis # NoResult => lexed # NoResult /\ parsed = Parsed(text, lexed)

LEMMA HeaderInvKept == HeaderSpec => []HeaderInv
<1>1. FrontEndInit => HeaderInv
  BY DEF FrontEndInit, HeaderInv
<1>2. HeaderInv /\ [HeaderNext]_frontEndVars => HeaderInv'
  <2> SUFFICES ASSUME HeaderInv, [HeaderNext]_frontEndVars PROVE HeaderInv'
    OBVIOUS
  <2>1. CASE Write
    BY <2>1 DEF HeaderInv, Write
  <2>2. CASE Tokenise
    BY <2>2 DEF HeaderInv, Tokenise
  <2>3. CASE ParseFileAndAnalyse
    BY <2>3 DEF HeaderInv, ParseFileAndAnalyse
  <2>4. CASE UNCHANGED frontEndVars
    BY <2>4 DEF HeaderInv, frontEndVars
  <2> QED BY <2>1, <2>2, <2>3, <2>4 DEF HeaderNext
<1> QED BY <1>1, <1>2, PTL DEF HeaderSpec

\* The tree of a text that is accepted.
LEMMA ParsedGood ==
  ASSUME NEW src \in Seq(STRING), NEW lx, lx = Result(Lex(src)), Parsed(src, lx).ok
  PROVE  LET file == Parsed(src, lx).file IN
           /\ IsSequence(file.device)
           /\ \A k \in DOMAIN file.device :
                /\ IsDevice(file.device[k])
                /\ \A r \in DOMAIN file.device[k].registers :
                     StandsIn(Spellings(src, lx.tokens), file.device[k].registers[r])
<1>1. lx.had_error = Lex(src).had_error /\ lx.tokens = Lex(src).tokens
  BY DEF Result
<1>2. ~ Lex(src).had_error
  BY <1>1 DEF Parsed, NoTree
<1> DEFINE words == Spellings(src, lx.tokens)
<1>3. EndsWithEof(words)
  BY <1>1, <1>2, SpellingsEnd
<1>4. Parsed(src, lx) = ParseFile(words)
  BY <1>1, <1>2 DEF Parsed
<1> HIDE DEF words
<1>5. GoodFile(words, ParseFile(words).file)
  BY <1>3, ParseFileGood
<1>6. GoodFile(words, Parsed(src, lx).file)
  BY <1>4, <1>5
<1> QED BY <1>6, GoodFileDevice DEF words

\* Whatever the text: the parser makes trees that are as the analysis relies on, each
\* list of declarations whole, each width one of those there are, each offset one that
\* the address space has (parser.c kdal_parse).  So what FrontEndSpec promises of every
\* tree holds of those that kdalc makes of headers.
THEOREM ParserImplements == HeaderSpec => FrontEndSpec
<1>1. HeaderInv /\ [HeaderNext]_frontEndVars => [FrontEndNext]_frontEndVars
  <2> SUFFICES ASSUME HeaderInv, [HeaderNext]_frontEndVars PROVE [FrontEndNext]_frontEndVars
    OBVIOUS
  <2>1. CASE Write \/ Tokenise
    BY <2>1 DEF FrontEndNext
  <2>2. CASE ParseFileAndAnalyse
    <3>1. text \in Seq(STRING) /\ lexed = Result(Lex(text)) /\ parsed' = Parsed(text, lexed)
      BY <2>2 DEF HeaderInv, ParseFileAndAnalyse
    <3>2. IsResult(parsed')
      BY <3>1, ParsedGood DEF IsResult
    <3> QED BY <2>2, <3>2 DEF ParseFileAndAnalyse, Analyse, FrontEndNext
  <2>3. CASE UNCHANGED frontEndVars
    BY <2>3
  <2> QED BY <2>1, <2>2, <2>3 DEF HeaderNext
<1> QED BY <1>1, HeaderInvKept, PTL DEF HeaderSpec, FrontEndSpec

\* So kdalc prints an error about a header exactly if a name is taken or a bit range
\* inverted, and its warnings are exactly the overlaps, whatever the text: the tree is
\* not assumed any more, and the names need not fit in the symbol table.  It accepts
\* the header in any case (sema.c sema_populate_device, kdal_sema).
THEOREM HeadersAnalysed == HeaderSpec => []NamesDistinct /\ []OverlapsWarned
BY ParserImplements, NamesAlwaysDistinct, OverlapsAlwaysWarned, PTL

\* Whatever the text and wherever it is mistyped: a register of a header that is accepted
\* stands in the text, and the offset it is given is a number of its own declaration
\* (parser.c parse_register_decl, parse_registers_block).
THEOREM OffsetsAlwaysWritten == HeaderSpec => []OffsetsWritten
<1>1. HeaderInv => OffsetsWritten
  <2> SUFFICES ASSUME HeaderInv, HasDevice,
                      NEW r \in DOMAIN parsed.file.device[1].registers
               PROVE  StandsIn(Spellings(text, lexed.tokens), parsed.file.device[1].registers[r])
    BY DEF OffsetsWritten
  <2>1. /\ text \in Seq(STRING) /\ lexed = Result(Lex(text)) /\ parsed = Parsed(text, lexed)
        /\ parsed.ok /\ parsed.file.device # <<>>
    BY DEF HeaderInv, HasDevice
  <2> DEFINE devices == parsed.file.device
  <2>2. IsSequence(devices) /\ devices # <<>>
    BY <2>1, ParsedGood
  <2>3. 1 \in DOMAIN devices
    <3> HIDE DEF devices
    <3>1. Len(devices) \in Nat /\ Len(devices) # 0 /\ DOMAIN devices = 1 .. Len(devices)
      BY <2>2, LenProperties, EmptySeq DEF IsSequence
    <3>2. 1 \in 1 .. Len(devices)
      BY <3>1, SMT
    <3> QED BY <3>1, <3>2
  <2> QED BY <2>1, <2>3, ParsedGood
<1> QED BY <1>1, HeaderInvKept, PTL

=============================================================================
