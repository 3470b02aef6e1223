------------------------------ MODULE KdcCodeGen ------------------------------
(***************************************************************************)
(* The statement emitter of kdalc (src/compiler/codegen.c): from the chain *)
(* of statements of a handler to the structured C program it prints, with  *)
(* the wording of the C text left out.  ctx->regs.X stands for register X. *)
(***************************************************************************)
EXTENDS KdcMeaning

Zero == IntLiteral(0)

\* emit_expr: NULL and what is not an expression become the constant 0; the
\* parentheses it prints keep the shape of the rest.
EmitExpr(chain) ==
  IF chain # <<>> /\ chain[1].type \in ExprTypes THEN chain[1] ELSE Zero

RECURSIVE EmitStmts(_), EmitArms(_)

\* The head of a node's chain of children and what follows it.
Children(node, k) == SubSeq(node.child, k, Len(node.child))

\* EmitArms that takes the body of a branch for its condition.
EmitArmsShifted(c) ==
  IF Len(c) < 2 THEN <<>>
  ELSE <<Arm(EmitExpr(Tail(c)), EmitStmts(Tail(c)))>> \o EmitArms(SubSeq(c, 3, Len(c)))

\* The loop of the if case: c is the condition, and the body is emitted from
\* c->next to the end of the chain.
EmitArms(c) ==
  IF Len(c) < 2 THEN <<>>
  ELSE <<Arm(EmitExpr(c), EmitStmts(Tail(c)))>> \o EmitArms(SubSeq(c, 3, Len(c)))

\* The child that is left over is the body of the else.
EmitElse(c) ==
  IF Len(c) % 2 = 1 THEN EmitStmts(SubSeq(c, Len(c), Len(c))) ELSE <<>>

\* The calls without an effect on the registers, and what the emitter does not
\* know, leave nothing to run.
EmitStmt(node) ==
  CASE node.type = "LET" -> Let(node.child[1].sval, EmitExpr(Children(node, 2)))
    [] node.type = "ASSIGN" ->
         IF node.child[1].type = "IDENT"
         THEN Set(node.child[1].sval, EmitExpr(Children(node, 2)))
         ELSE Write(node.child[1], EmitExpr(Children(node, 2)))
    [] node.type = "REG_WRITE" -> Write(node.child[1], EmitExpr(Children(node, 2)))
    [] node.type = "RETURN" -> Return
    [] node.type = "IF" -> If(EmitArms(node.child), EmitElse(node.child))
    [] node.type = "FOR" ->
         CFor(node.child[1].sval, EmitExpr(Children(node, 2)),
              EmitExpr(Children(node, 3)), EmitStmts(Children(node, 4)))
    [] OTHER -> Skip

EmitStmts(chain) == [k \in DOMAIN chain |-> EmitStmt(chain[k])]

\* emit_c_file: the bodies of the handlers, the probe and the remove function.
EmitDriver(driver) ==
  [probe    |-> EmitStmts(driver.probe),
   remove   |-> EmitStmts(driver.remove),
   handlers |-> [k \in DOMAIN driver.handlers |-> EmitStmts(driver.handlers[k].body)]]

=============================================================================
