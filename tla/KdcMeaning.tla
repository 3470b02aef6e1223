----------------------------- MODULE KdcMeaning -----------------------------
(***************************************************************************)
(* What a handler of the driver language means, as its documentation       *)
(* (src/lang/spec.md, src/lang/grammar/kdc.ebnf) describes it: structured  *)
(* statements over the registers of a device that behaves like memory.     *)
(* The generated C is a structured program of the same kind, with the for  *)
(* statement of C.                                                         *)
(***************************************************************************)
EXTENDS KdcParser, TLC

LOCAL INSTANCE Bitwise

CONSTANTS
  Registers,    \* the registers of the device
  WordModulus,  \* 2^64, where the value of a register wraps
  MaxSteps      \* bound: the statements that a run executes before it is cut off

Write(reg, e)        == [s |-> "write", reg |-> reg, e |-> e]
Let(x, e)            == [s |-> "let", x |-> x, e |-> e]
Set(x, e)            == [s |-> "set", x |-> x, e |-> e]
Return               == [s |-> "return"]
If(arms, orelse)     == [s |-> "if", arms |-> arms, orelse |-> orelse]
For(x, lo, hi, body) == [s |-> "for", x |-> x, lo |-> lo, hi |-> hi, body |-> body]
CFor(x, lo, hi, body) == [s |-> "cfor", x |-> x, lo |-> lo, hi |-> hi, body |-> body]
Skip                 == [s |-> "skip"]
Arm(cond, body)      == [cond |-> cond, body |-> body]

-----------------------------------------------------------------------------
(* The text of a program. *)

RECURSIVE Dotted(_)
Dotted(parts) ==
  IF Len(parts) = 1 THEN parts ELSE <<parts[1], ".">> \o Dotted(Tail(parts))

IntToken(n) == CHOOSE t \in DOMAIN IntValue : IntValue[t] = n

\* The operators of C from the loosest to the tightest, which the language takes
\* over; all group to the left.
COperators ==
  <<{"||"}, {"&&"}, {"|"}, {"^"}, {"&"}, {"==", "!="}, {"<", "<=", ">", ">="},
    {"<<", ">>"}, {"+", "-"}, {"*", "/", "%"}>>

Tightness(op) == CHOOSE k \in DOMAIN COperators : op \in COperators[k]

RECURSIVE ExprTokens(_), OperandTokens(_, _)

\* An operand is put between parentheses when it binds less tightly than needed.
OperandTokens(e, tightness) ==
  IF e.type = "BINOP" /\ Tightness(e.op) < tightness
  THEN <<"(">> \o ExprTokens(e) \o <<")">>
  ELSE ExprTokens(e)

ExprTokens(e) ==
  CASE e.type = "LITERAL_INT" -> <<IntToken(e.ival)>>
    [] e.type = "LITERAL_BOOL" -> <<IF e.bval THEN "true" ELSE "false">>
    [] e.type = "IDENT" -> <<e.sval>>
    [] e.type = "REG_PATH" -> Dotted(e.parts)
    [] e.type = "READ" -> <<"read", "(">> \o ExprTokens(e.read_path[1]) \o <<")">>
    [] e.type = "UNOP" -> <<e.op>> \o OperandTokens(e.operand[1], 11)
    [] e.type = "BINOP" ->
         OperandTokens(e.lhs[1], Tightness(e.op)) \o <<e.op>>
           \o OperandTokens(e.rhs[1], Tightness(e.op) + 1)

RECURSIVE Tokens(_), StatementTokens(_), ArmTokens(_, _)

Braced(stmts) == <<"{">> \o Tokens(stmts) \o <<"}">>

ArmTokens(arms, word) ==
  IF arms = <<>> THEN <<>>
  ELSE <<word, "(">> \o ExprTokens(arms[1].cond) \o <<")">> \o Braced(arms[1].body)
         \o ArmTokens(Tail(arms), "elif")

StatementTokens(st) ==
  CASE st.s = "write" ->
         <<"write", "(">> \o ExprTokens(st.reg) \o <<",">> \o ExprTokens(st.e) \o <<")", ";">>
    [] st.s = "let" -> <<"let", st.x, "=">> \o ExprTokens(st.e) \o <<";">>
    [] st.s = "set" -> <<st.x, "=">> \o ExprTokens(st.e) \o <<";">>
    [] st.s = "return" -> <<"return", ";">>
    [] st.s = "if" ->
         ArmTokens(st.arms, "if")
           \o (IF st.orelse = <<>> THEN <<>> ELSE <<"else">> \o Braced(st.orelse))
    [] st.s = "for" ->
         <<"for", st.x, "in">> \o ExprTokens(st.lo) \o <<"..">> \o ExprTokens(st.hi)
           \o Braced(st.body)

Tokens(stmts) ==
  IF stmts = <<>> THEN <<>> ELSE StatementTokens(stmts[1]) \o Tokens(Tail(stmts))

-----------------------------------------------------------------------------
(* The run of a program.                                                   *)

\* A machine before the handler runs.
PowerOn ==
  [regs |-> [r \in Registers |-> 0], vars |-> <<>>, writes |-> <<>>,
   returned |-> FALSE, steps |-> 0]

\* The register a path designates: its last component.
Register(path) == path.parts[Len(path.parts)]

Truth(b) == IF b THEN 1 ELSE 0

Meaning(op, l, r) ==
  CASE op = "||" -> Truth(l > 0 \/ r > 0)
    [] op = "&&" -> Truth(l > 0 /\ r > 0)
    [] op = "|" -> l | r
    [] op = "^" -> l ^^ r
    [] op = "&" -> l & r
    [] op = "==" -> Truth(l = r)
    [] op = "<" -> Truth(l < r)
    [] op = "+" -> (l + r) % WordModulus
    [] op = "-" -> (WordModulus + l - r) % WordModulus
    [] op = "*" -> (l * r) % WordModulus

RECURSIVE Eval(_, _)
Eval(e, m) ==
  CASE e.type = "LITERAL_INT" -> e.ival
    [] e.type = "LITERAL_BOOL" -> Truth(e.bval)
    [] e.type = "IDENT" -> m.vars[e.sval]
    [] e.type = "REG_PATH" -> m.regs[Register(e)]
    [] e.type = "READ" -> m.regs[Register(e.read_path[1])]
    [] e.type = "UNOP" /\ e.op = "!" -> Truth(Eval(e.operand[1], m) = 0)
    [] e.type = "UNOP" /\ e.op = "-" -> Meaning("-", 0, Eval(e.operand[1], m))
    [] e.type = "BINOP" -> Meaning(e.op, Eval(e.lhs[1], m), Eval(e.rhs[1], m))
    [] OTHER -> 0

Assign(m, x, v) == [m EXCEPT !.vars = (x :> v) @@ @]

CutOff(m) == m.steps >= MaxSteps

RECURSIVE Run(_, _), RunFor(_, _, _, _), RunCFor(_, _)

RunStatement(st, m) ==
  CASE st.s = "write" ->
         LET v == Eval(st.e, m)
         IN  [m EXCEPT !.regs[Register(st.reg)] = v,
                       !.writes = Append(@, <<Register(st.reg), v>>)]
    [] st.s \in {"let", "set"} -> Assign(m, st.x, Eval(st.e, m))
    [] st.s = "return" -> [m EXCEPT !.returned = TRUE]
    [] st.s = "if" ->
         LET taken == {k \in DOMAIN st.arms : Eval(st.arms[k].cond, m) # 0}
         IN  IF taken = {} THEN Run(st.orelse, m)
             ELSE Run(st.arms[CHOOSE k \in taken : \A j \in taken : k <= j].body, m)
    [] st.s = "for" -> RunFor(st, Eval(st.lo, m), Eval(st.hi, m), m)
    [] st.s = "cfor" -> RunCFor(st, Assign(m, st.x, Eval(st.lo, m)))
    [] OTHER -> m

\* The range is bounded: hi is not part of it, and the body cannot change it.
RunFor(st, i, hi, m) ==
  IF i >= hi \/ m.returned \/ CutOff(m) THEN m
  ELSE RunFor(st, i + 1, hi, Run(st.body, Assign(m, st.x, i)))

\* for (x = lo; x < hi; x++) body
RunCFor(st, m) ==
  IF m.vars[st.x] >= Eval(st.hi, m) \/ m.returned \/ CutOff(m) THEN m
  ELSE LET after == Run(st.body, [m EXCEPT !.steps = @ + 1])
       IN  RunCFor(st, Assign(after, st.x, after.vars[st.x] + 1))

Run(stmts, m) ==
  IF stmts = <<>> \/ m.returned \/ CutOff(m) THEN m
  ELSE Run(Tail(stmts), RunStatement(stmts[1], [m EXCEPT !.steps = @ + 1]))

\* What a run does to the device.
Writes(stmts) == Run(stmts, PowerOn).writes

=============================================================================
