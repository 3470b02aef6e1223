------------------------------- MODULE KdcSema -------------------------------
(***************************************************************************)
(* The semantic analysis of kdalc (src/compiler/sema.c): the direction of  *)
(* the accesses of a driver, and the errors of a file.  The symbols of a   *)
(* device class are in KdcSymbols.                                         *)
(***************************************************************************)
EXTENDS KdhParser, KdcSymbols

-----------------------------------------------------------------------------
(* Expressions and statements: the number of errors in them.               *)

\* The symbol a register path means: its last component, or its second one.
PathSymbol(globals, parts) ==
  IF Known(globals, parts[Len(parts)]) \/ Len(parts) < 2
  THEN Find(globals, parts[Len(parts)]) ELSE Find(globals, parts[2])

Forbidden(sym, writable) ==
  sym.kind = "register" /\ sym.access = (IF writable THEN "ro" ELSE "wo")

One(b) == IF b THEN 1 ELSE 0

\* sema_check_expr of the expression at the head of a chain.
RECURSIVE ExprErrors(_, _, _)
ExprErrors(globals, chain, writable) ==
  CASE chain = <<>> -> 0
    [] chain # <<>> /\ chain[1].type = "REG_PATH" ->
         One(Forbidden(PathSymbol(globals, chain[1].parts), writable))
    [] chain # <<>> /\ chain[1].type = "BINOP" ->
         ExprErrors(globals, chain[1].lhs, FALSE) + ExprErrors(globals, chain[1].rhs, FALSE)
    [] chain # <<>> /\ chain[1].type = "UNOP" -> ExprErrors(globals, chain[1].operand, FALSE)
    [] chain # <<>> /\ chain[1].type = "READ" -> ExprErrors(globals, chain[1].read_path, FALSE)
    [] OTHER -> 0

ChildOf(node) == IF "child" \in DOMAIN node THEN node.child ELSE <<>>

\* The chain that begins k links after its head.
After(chain, k) == SubSeq(chain, k + 1, Len(chain))

RECURSIVE StmtsErrors(_, _), PairErrors(_, _)

\* The children of an if, a condition and what follows it at a time.
PairErrors(globals, c) ==
  IF c = <<>> THEN 0
  ELSE ExprErrors(globals, c, FALSE) + StmtsErrors(globals, After(c, 1))
         + PairErrors(globals, After(c, 2))

StmtErrors(globals, node) ==
  CASE node.type \in {"REG_WRITE", "ASSIGN"} ->
         ExprErrors(globals, node.child, TRUE)
           + ExprErrors(globals, After(node.child, 1), FALSE)
    [] node.type = "WAIT" -> 0
    [] node.type = "FOR" -> StmtsErrors(globals, After(node.child, 3))
    [] node.type = "IF" -> PairErrors(globals, node.child)
    [] OTHER -> StmtsErrors(globals, ChildOf(node))

\* sema_check_stmts.
StmtsErrors(globals, chain) ==
  IF chain = <<>> THEN 0
  ELSE StmtErrors(globals, chain[1]) + StmtsErrors(globals, Tail(chain))

RECURSIVE HandlersErrors(_, _)
HandlersErrors(globals, handlers) ==
  IF handlers = <<>> THEN 0
  ELSE StmtsErrors(globals, handlers[1].body) + HandlersErrors(globals, Tail(handlers))

DriverErrors(globals, drv) ==
  StmtsErrors(globals, drv.probe) + StmtsErrors(globals, drv.remove)
    + HandlersErrors(globals, drv.handlers)

\* kdal_sema: 0, or minus the number of errors.  Without a driver it is 0.
Sema(file) ==
  IF file.driver = <<>> THEN 0
  ELSE -(Analysis(file).errors + DriverErrors(Analysis(file).globals, file.driver[1]))

=============================================================================
