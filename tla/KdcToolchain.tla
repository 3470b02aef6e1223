---------------------------- MODULE KdcToolchain ----------------------------
(***************************************************************************)
(* A .kdc file on its way through kdalc and kdality: it is written,        *)
(* perhaps mistyped, parsed, compiled to C (kdal_compile_file) and         *)
(* simulated (simulate_file).  kdal_sema is left out: it knows no register *)
(* when a file holds a driver, and then reports no error.                  *)
(***************************************************************************)
EXTENDS KdcDriver, KdcCodeGen, KdcSimulate

CONSTANTS
  Sources,     \* the drivers that are written
  Mistyped,    \* those of them that slips are made in
  MaxEdits,    \* bound: how often the text is changed
  EditTokens   \* what a change may put into the text

VARIABLES
  source,     \* the driver its author has in mind
  edits,      \* how often the text was changed
  generated   \* the C program, when kdalc has written it

vars == <<source, edits, generated, driverVars>>

\* A source: the bodies of probe and remove, and the handlers in order.
RECURSIVE HandlerTokens(_)
HandlerTokens(handlers) ==
  IF handlers = <<>> THEN <<>>
  ELSE <<"on", handlers[1].evt, "(", ")">> \o Braced(handlers[1].body)
         \o HandlerTokens(Tail(handlers))

DriverTokens(src) ==
  <<"driver", "D", "{", "probe">> \o Braced(src.probe)
    \o <<"remove">> \o Braced(src.remove)
    \o HandlerTokens(src.on) \o <<"}", "EOF">>

Init ==
  /\ source \in Sources
  /\ written = DriverTokens(source)
  /\ edits = 0
  /\ tree = NotRun /\ generated = NotRun /\ simulated = NotRun

\* What follows the body of probe, its brace included.
AfterProbe == Len(DriverTokens(source)) - 5 - Len(Tokens(source.probe))

\* A slip of the author in the body of probe: a token lost or one too many.
Edit ==
  /\ tree = NotRun
  /\ source \in Mistyped /\ edits < MaxEdits
  /\ edits' = edits + 1
  /\ \E k \in 6 .. Len(written) - AfterProbe + 1 :
       \/ written' = SubSeq(written, 1, k - 1) \o SubSeq(written, k + 1, Len(written))
       \/ \E t \in EditTokens :
            written' = SubSeq(written, 1, k - 1) \o <<t>> \o SubSeq(written, k, Len(written))
  /\ UNCHANGED <<source, tree, generated, simulated>>

Parsing == Parse /\ UNCHANGED <<source, edits, generated>>

\* Both tools stop at a syntax error.
Generate ==
  /\ tree # NotRun /\ tree.ok
  /\ generated = NotRun
  /\ generated' = EmitDriver(tree.driver)
  /\ UNCHANGED <<source, written, edits, tree, simulated>>

Simulate ==
  /\ tree # NotRun /\ tree.ok
  /\ simulated = NotRun
  /\ simulated' = SimDriver(tree.driver)
  /\ UNCHANGED <<source, written, edits, tree, generated>>

Next == Edit \/ Parsing \/ Generate \/ Simulate

Spec == Init /\ [][Next]_vars

-----------------------------------------------------------------------------
(* The parser.                                                             *)

\* The words that only give a text its shape.
Shape == {"(", ")", "{", "}", "if", "elif", "else", ";", ",", "=", "..", "in", ".", "EOF"}

Significant(tokens) ==
  LET IsSignificant(t) == t \notin Shape IN SelectSeq(tokens, IsSignificant)

RECURSIVE NodeTokens(_), ChainTokens(_)

\* The significant tokens of a syntax tree, in the order of its nodes.
NodeTokens(node) ==
  CASE node.type \in ExprTypes -> Significant(ExprTokens(node))
    [] node.type = "REG_WRITE" -> <<"write">> \o ChainTokens(node.child)
    [] node.type = "ASSIGN" -> ChainTokens(node.child)
    [] node.type = "LET" -> <<"let">> \o ChainTokens(node.child)
    [] node.type = "RETURN" -> <<"return">> \o ChainTokens(node.child)
    [] node.type = "FOR" -> <<"for">> \o ChainTokens(node.child)
    [] OTHER -> IF node.child = <<>> THEN <<>> ELSE ChainTokens(node.child)

ChainTokens(chain) ==
  IF chain = <<>> THEN <<>> ELSE NodeTokens(chain[1]) \o ChainTokens(Tail(chain))

RECURSIVE HandlerChains(_)
HandlerChains(handlers) ==
  IF handlers = <<>> THEN <<>>
  ELSE <<"on", handlers[1].evt>> \o ChainTokens(handlers[1].body)
         \o HandlerChains(Tail(handlers))

\* The braces of a kind from the one that opens the body of probe on.  Any token
\* is taken for the variable of a loop, a brace too (parser.c:620).
Braces(t, k) == Cardinality({j \in 5 .. k : written[j] = t /\ written[j - 1] # "for"})

\* The brace that closes the body of probe.
ProbeEnd ==
  CHOOSE k \in 6 .. Len(written) :
    /\ Braces("{", k) = Braces("}", k)
    /\ \A j \in 6 .. k - 1 : Braces("{", j) # Braces("}", j)

RemoveStart == CHOOSE k \in DOMAIN written : written[k] = "remove"

\* What kdal_parse accepts, and reads to the end of the file, holds each body as it
\* stands between its braces, no statement skipped and none read twice, although
\* parse_statement_list and parse_primary skip tokens to recover from errors.
\* What stands between the end of one body and the next member is skipped without
\* an error, so it is left out here (parser.c:1353), and so is what follows the
\* brace that closes the driver, which is never looked at.
NothingDropped ==
  tree # NotRun /\ tree.ok /\ tree.pos = Len(written) =>
    /\ Significant(SubSeq(written, 1, ProbeEnd)) =
         <<"driver", "D", "probe">> \o ChainTokens(tree.driver.probe)
    /\ Significant(SubSeq(written, RemoveStart, Len(written))) =
         <<"remove">> \o ChainTokens(tree.driver.remove)
           \o HandlerChains(tree.driver.handlers)

\* An expression is read with the precedence of the operators of C, operators of
\* one level grouping to the left (parse_expr_prec, p_binop_prec).
ExpressionsKept ==
  edits = 0 /\ tree # NotRun =>
    \A k \in DOMAIN source.probe :
      LET st == source.probe[k]
      IN  st.s = "write" =>
            tree.ok /\ tree.driver.probe[k].child = <<st.reg, st.e>>

\* The bodies that kdal_parse accepts are those in the file, all of each, and what
\* it reads of an expression is what its author wrote.
ReadAsWritten == NothingDropped /\ ExpressionsKept

-----------------------------------------------------------------------------
(* The compiler and the simulator, against the meaning of the source.      *)

RECURSIVE Statements(_)

\* All statements of a body, nested ones included.
Nested(st) ==
  CASE st.s = "if" ->
         UNION {Statements(st.arms[k].body) : k \in DOMAIN st.arms}
           \union Statements(st.orelse)
    [] st.s = "for" -> Statements(st.body)
    [] OTHER -> {}

Statements(stmts) ==
  UNION {{stmts[k]} \union Nested(stmts[k]) : k \in DOMAIN stmts}

Only(kinds, stmts) == \A st \in Statements(stmts) : st.s \in kinds

\* One condition, one statement and no else: what the chain of an if can hold.
Simple(stmts) ==
  \A st \in Statements(stmts) :
    st.s = "if" => Len(st.arms) = 1 /\ Len(st.arms[1].body) <= 1 /\ st.orelse = <<>>

\* Every if has one condition and no else; its body may be of any length.
SingleArmed(stmts) ==
  \A st \in Statements(stmts) :
    st.s = "if" => Len(st.arms) = 1 /\ st.orelse = <<>>

\* The body of a loop leaves its variable alone.
LoopVariablesKept(stmts) ==
  \A st \in Statements(stmts) :
    st.s = "for" => Set(st.x, Zero) \notin {[b EXCEPT !.e = Zero] :
                      b \in {c \in Statements(st.body) : c.s = "set"}}

\* A return stands at the end of the handler's own list.
ReturnsOnTop(stmts) ==
  \A st \in Statements(stmts) : Return \notin Nested(st)

Generated == edits = 0 /\ generated # NotRun
Simulated == edits = 0 /\ simulated # NotRun

\* kdalc preserves the meaning of a handler: the generated C writes the same
\* values to the same registers in the same order, for every handler whose ifs
\* have one branch of one statement and whose loops keep their variable
\* (emit_stmt, emit_stmts, emit_expr).
GeneratedKeepsMeaning ==
  Generated /\ Simple(source.probe) /\ LoopVariablesKept(source.probe) =>
    Writes(generated.probe) = Writes(source.probe)

\* No register of the file has a name that the simulator cuts.
NamesFit == \A k \in DOMAIN written : written[k] \notin DOMAIN Cut

\* kdality simulate shows what the driver does to the device, for handlers of
\* writes and ifs with one branch whose register names fit into the table
\* (sim_exec, sim_eval, sim_reg_write).
SimulatedKeepsMeaning ==
  Simulated /\ NamesFit /\ SingleArmed(source.probe) /\ ReturnsOnTop(source.probe)
    /\ Only({"write", "if", "return"}, source.probe) =>
      SimWrites(SimExec(SimStart, tree.driver.probe)) = Writes(source.probe)

-----------------------------------------------------------------------------
(* What the documentation says and the code does not do.                   *)

\* Of the bodies of an if, the generated C runs one at most.
BranchesExclusive ==
  Generated /\ LoopVariablesKept(source.probe) =>
    Writes(generated.probe) = Writes(source.probe)

\* The dry run of a driver does what the generated driver does.
DryRunMatchesDriver ==
  Simulated /\ NamesFit /\ Simple(source.probe) /\ LoopVariablesKept(source.probe)
    /\ generated # NotRun /\ Only({"write", "for"}, source.probe) =>
    SimWrites(SimExec(SimStart, tree.driver.probe)) = Writes(generated.probe)

=============================================================================
