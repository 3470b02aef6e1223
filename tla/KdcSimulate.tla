----------------------------- MODULE KdcSimulate -----------------------------
(***************************************************************************)
(* The dry-run interpreter of kdality (src/tools/kdality/simulate.c): it   *)
(* walks the syntax tree itself, over the table of KdcRegisterTable.       *)
(***************************************************************************)
EXTENDS KdcParser, KdcRegisterTable

LOCAL INSTANCE Bitwise

CONSTANTS
  MaxIterations,  \* the largest distance between the first and last value of
                  \* a loop variable, 10000 in the code
  ULongModulus    \* 2^64, where an unsigned long wraps

\* expr_reg_name
RegName(chain) ==
  CASE chain = <<>> -> "?"
    [] chain # <<>> /\ chain[1].type = "REG_PATH" ->
         chain[1].parts[Len(chain[1].parts)]
    [] chain # <<>> /\ chain[1].type = "IDENT" -> chain[1].sval
    [] OTHER -> "?"

AsNumber(b) == IF b THEN 1 ELSE 0

\* The operators on two values; both have been evaluated.
Apply(op, l, r) ==
  CASE op = "+" -> (l + r) % ULongModulus
    [] op = "-" -> (l - r) % ULongModulus
    [] op = "*" -> (l * r) % ULongModulus
    [] op = "/" -> IF r = 0 THEN 0 ELSE l \div r
    [] op = "%" -> IF r = 0 THEN 0 ELSE l % r
    \* A shift by the width of an unsigned long or more is undefined in C.
    [] op = "<<" -> (l * 2^r) % ULongModulus
    [] op = ">>" -> l \div 2^r
    [] op = "&" -> l & r
    [] op = "|" -> l | r
    [] op = "^" -> l ^^ r
    [] op = "==" -> AsNumber(l = r)
    [] op = "!=" -> AsNumber(l # r)
    [] op = "<" -> AsNumber(l < r)
    [] op = "<=" -> AsNumber(l <= r)
    [] op = ">" -> AsNumber(l > r)
    [] op = ">=" -> AsNumber(l >= r)
    [] op = "&&" -> AsNumber(l # 0 /\ r # 0)
    [] op = "||" -> AsNumber(l # 0 \/ r # 0)

ApplyUnary(op, v) ==
  CASE op = "-" -> (0 - v) % ULongModulus
    [] op = "!" -> AsNumber(v = 0)
    [] op = "~" -> ULongModulus - 1 - v

\* sim_eval: NULL and what is not an expression evaluate to zero.
RECURSIVE SimEval(_, _)
SimEval(s, chain) ==
  IF chain = <<>> THEN [s EXCEPT !.v = 0]
  ELSE LET e == chain[1] IN
    CASE e.type = "LITERAL_INT" -> [s EXCEPT !.v = e.ival]
      [] e.type = "LITERAL_BOOL" -> [s EXCEPT !.v = AsNumber(e.bval)]
      [] e.type \in {"REG_PATH", "IDENT"} -> SimRegRead(s, RegName(chain))
      [] e.type = "READ" -> SimRegRead(s, RegName(e.read_path))
      [] e.type = "BINOP" ->
           LET l == SimEval(s, e.lhs)
               r == SimEval(l, e.rhs)
           IN  [r EXCEPT !.v = Apply(e.op, l.v, r.v)]
      [] e.type = "UNOP" ->
           LET o == SimEval(s, e.operand) IN [o EXCEPT !.v = ApplyUnary(e.op, o.v)]
      [] OTHER -> [s EXCEPT !.v = 0]

RECURSIVE SimExec(_, _), SimIf(_, _), SimFor(_, _, _, _, _)

\* The chain from child k of a node on.
From(node, k) == SubSeq(node.child, k, Len(node.child))

\* The loop of the if case: the first child is a condition, the second a body,
\* and the body runs to the end of its chain.
SimIf(s, c) ==
  IF c = <<>> THEN s
  ELSE LET cond == SimEval(s, c)
       IN  IF cond.v # 0 /\ Len(c) > 1 THEN SimExec(cond, Tail(c))
           ELSE SimIf(cond, SubSeq(c, 3, Len(c)))

\* The values of the loop variable from i on, hi among them; i and the sum that
\* bounds it wrap.
SimFor(s, i, lo, hi, body) ==
  IF i <= hi /\ i <= (lo + MaxIterations) % ULongModulus
  THEN SimFor(SimExec(Step(s, <<"for", i>>), body), (i + 1) % ULongModulus, lo, hi, body)
  ELSE s

\* Assignment to a register of the table itself.
AssignmentUntraced(s, node) ==
  LET val  == SimEval(s, From(node, 2))
      name == RegName(node.child)
  IN  IF Entries(val, name) = {} THEN SimRegWrite(val, name, val.v)
      ELSE [val EXCEPT !.regs[FirstEntry(val, name)].value = val.v]

Assignment(s, node) ==
  LET val == SimEval(s, From(node, 2)) IN SimRegWrite(val, RegName(node.child), val.v)

SimStatement(s, node) ==
  CASE node.type \in {"REG_WRITE", "ASSIGN"} -> Assignment(s, node)
    [] node.type = "LET" ->
         LET val == SimEval(s, From(node, 2))
         IN  Step(val, <<"let", RegName(node.child), val.v>>)
    [] node.type \in {"LOG", "EMIT", "WAIT", "ARM", "CANCEL", "RETURN"} ->
         Step(s, <<node.type>>)
    [] node.type = "IF" -> SimIf(s, node.child)
    [] node.type = "FOR" ->
         LET lo == SimEval(s, From(node, 2))
             hi == SimEval(lo, From(node, 3))
         IN  SimFor(hi, lo.v, lo.v, hi.v, From(node, 4))
    [] OTHER ->
         IF "child" \in DOMAIN node THEN SimExec(s, node.child) ELSE s

\* SimExec that only prints a return.
SimExecThroughReturn(s, chain) ==
  IF chain = <<>> THEN s ELSE SimExec(SimStatement(s, chain[1]), Tail(chain))

\* sim_exec: a return ends the list it stands in.
SimExec(s, chain) ==
  IF chain = <<>> THEN s
  ELSE LET after == SimStatement(s, chain[1])
       IN  IF chain[1].type = "RETURN" THEN after ELSE SimExec(after, Tail(chain))

\* simulate_file without --event: probe, remove and the handlers over one table.
RECURSIVE SimHandlers(_, _)
SimHandlers(s, handlers) ==
  IF handlers = <<>> THEN s
  ELSE SimHandlers(SimExec(s, handlers[1].body), Tail(handlers))

SimDriver(driver) ==
  SimHandlers(SimExec(SimExec(SimStart, driver.probe), driver.remove), driver.handlers)

\* What a simulation writes, in order.
SimWrites(s) ==
  LET Writing(event) == event[1] = "write"
      writes == SelectSeq(s.trace, Writing)
  IN  [k \in DOMAIN writes |-> <<writes[k][2], writes[k][3]>>]

=============================================================================
