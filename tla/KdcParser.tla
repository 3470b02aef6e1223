------------------------------ MODULE KdcParser ------------------------------
(***************************************************************************)
(* The recursive-descent parser of kdalc (src/compiler/parser.c): from the *)
(* tokens of a .kdc file to the syntax tree of its driver.                 *)
(*                                                                         *)
(* A token is a string: a keyword, a punctuator, an identifier of Idents   *)
(* or a literal of the domain of IntValue.  A kdal_ast_t pointer is the    *)
(* chain of nodes it reaches through `next', a sequence; NULL is the empty *)
(* chain.  The `child' of a node is such a chain too, which is all that    *)
(* relates the conditions and the bodies of an `if'.  Lines, columns and   *)
(* the wording of the diagnostics are left out.                            *)
(*                                                                         *)
(* A recursive call of a parse function always begins behind the token its *)
(* caller began at.  So the calls are a recursive function of the position *)
(* (Parses), and a parser state has, as `later', those at the positions    *)
(* behind the one that its own call began at.                              *)
(***************************************************************************)
EXTENDS Integers, Sequences, FiniteSets

CONSTANTS
  Idents,    \* the tokens that are identifiers
  IntValue   \* the integer literals among the tokens, with their values

ASSUME EofAssumption == "EOF" \notin Idents \union DOMAIN IntValue

-----------------------------------------------------------------------------
(* The token cursor.  A parser state has the position, whether an error    *)
(* was reported, and the chain that the last parse function returned.      *)

TokenType(t) ==
  IF t \in Idents THEN "IDENT" ELSE IF t \in DOMAIN IntValue THEN "INT" ELSE t

\* A parse function called at position i; the tokens, from kdal_lex, end with EOF.
ParserAt(tokens, i, later) ==
  [tokens |-> tokens, pos |-> i, had_error |-> FALSE, out |-> <<>>, later |-> later]

Cur(p) == p.tokens[p.pos]

\* p_peek: past the end it is the last token.
Peek(p, ahead) ==
  p.tokens[IF p.pos + ahead <= Len(p.tokens) THEN p.pos + ahead ELSE Len(p.tokens)]

Is(p, type) == TokenType(Cur(p)) = type

Advance(p) == [p EXCEPT !.pos = IF @ < Len(p.tokens) THEN @ + 1 ELSE @]

\* Fail that reports the error but does not set had_error.
FailReportsOnly(p) == [p EXCEPT !.out = <<>>]

Fail(p) == [p EXCEPT !.had_error = TRUE, !.out = <<>>]

\* p_expect: on a mismatch the cursor stays.
Expect(p, type) ==
  IF Is(p, type) THEN Advance(p) ELSE [p EXCEPT !.had_error = TRUE]

Give(p, chain) == [p EXCEPT !.out = chain]

\* The return from a call c at the cursor, and a call whose chain follows p.out.
Returned(p, c) ==
  LET r == p.later[p.pos][c]
  IN  [p EXCEPT !.pos = r.pos, !.had_error = @ \/ r.had_error, !.out = r.out]

Then(p, c) == [Returned(p, c) EXCEPT !.out = p.out \o @]

-----------------------------------------------------------------------------
(* Expressions. *)

BinaryPrecedence(type) ==
  CASE type = "||" -> 1
    [] type = "&&" -> 2
    [] type = "|" -> 3
    [] type = "^" -> 4
    [] type = "&" -> 5
    [] type \in {"==", "!="} -> 6
    [] type \in {"<", "<=", ">", ">="} -> 7
    [] type \in {"<<", ">>"} -> 8
    [] type \in {"+", "-"} -> 9
    [] type \in {"*", "/", "%"} -> 10
    [] OTHER -> 0

\* The nodes of expressions.
ExprTypes ==
  {"LITERAL_INT", "LITERAL_BOOL", "LITERAL_STR", "IDENT", "REG_PATH", "READ",
   "BINOP", "UNOP"}

IntLiteral(n) == [type |-> "LITERAL_INT", ival |-> n]
BoolLiteral(b) == [type |-> "LITERAL_BOOL", bval |-> b]
StrLiteral == [type |-> "LITERAL_STR"]
Ident(name) == [type |-> "IDENT", sval |-> name]
RegPath(parts) == [type |-> "REG_PATH", parts |-> parts]
ReadExpr(path) == [type |-> "READ", read_path |-> path]
UnOp(op, operand) == [type |-> "UNOP", op |-> op, operand |-> operand]
BinOp(op, lhs, rhs) == [type |-> "BINOP", op |-> op, lhs |-> lhs, rhs |-> rhs]

\* One further component of a register path.
PathPart(p) ==
  IF Is(p, ".") /\ TokenType(Peek(p, 1)) = "IDENT"
  THEN [Advance(Advance(p)) EXCEPT !.out = Append(@, Peek(p, 1))]
  ELSE p

\* A path has at most four components.
RegisterPath(p) ==
  LET q == PathPart(PathPart(PathPart(Give(Advance(p), <<Cur(p)>>))))
  IN  Give(q, <<IF Len(q.out) > 1 THEN RegPath(q.out) ELSE Ident(q.out[1])>>)

ExprPrec(p, min_prec) == Returned(p, <<"expr", min_prec>>)

Expr(p) == ExprPrec(p, 1)

\* The operand of a unary operator is a primary: no operator has precedence 11.
Primary(p) ==
  CASE Is(p, "INT") -> Give(Advance(p), <<IntLiteral(IntValue[Cur(p)])>>)
    [] TokenType(Cur(p)) \in {"true", "false"} ->
         Give(Advance(p), <<BoolLiteral(Cur(p) = "true")>>)
    [] Is(p, "STRING") -> Give(Advance(p), <<StrLiteral>>)
    [] Is(p, "read") ->
         Expect([Expr(Expect(Advance(p), "(")) EXCEPT !.out = <<ReadExpr(@)>>], ")")
    [] Is(p, "IDENT") -> RegisterPath(p)
    [] Is(p, "(") -> Expect(Expr(Advance(p)), ")")
    [] TokenType(Cur(p)) \in {"-", "!", "~"} ->
         [ExprPrec(Advance(p), 11) EXCEPT !.out = <<UnOp(Cur(p), @)>>]
    [] OTHER -> Advance(Fail(p))

\* lhs op rhs, c.p being at the operator: without rhs the lhs is kept.
Operation(c, rhs) ==
  [p |-> rhs,
   lhs |-> IF rhs.out = <<>> THEN c.lhs ELSE <<BinOp(Cur(c.p), c.lhs, rhs.out)>>]

\* One turn of the loop of parse_expr_prec, c.p.out being the operand read last:
\* an operator that binds at least as tightly as min_prec is taken.
Turns(c, min_prec) == c.p.out # <<>> /\ BinaryPrecedence(Cur(c.p)) >= min_prec

\* ClimbTurn whose right operand takes operators of the same precedence.
ClimbTurnRight(c, min_prec) ==
  IF Turns(c, min_prec)
  THEN Operation(c, ExprPrec(Advance(c.p), BinaryPrecedence(Cur(c.p)))) ELSE c

ClimbTurn(c, min_prec) ==
  IF Turns(c, min_prec)
  THEN Operation(c, ExprPrec(Advance(c.p), BinaryPrecedence(Cur(c.p)) + 1)) ELSE c

\* The operators from the cursor on; every turn takes one.
OperatorsFrom(p) == {k \in p.pos .. Len(p.tokens) : BinaryPrecedence(p.tokens[k]) > 0}

\* The loop of parse_expr_prec, p.out being the first operand.
Climb(p, min_prec) ==
  LET turns == Cardinality(OperatorsFrom(p))
      after[k \in 0 .. turns] ==
        IF k = 0 THEN [p |-> p, lhs |-> p.out] ELSE ClimbTurn(after[k - 1], min_prec)
      end == after[turns]
  IN  Give(end.p, end.lhs)

-----------------------------------------------------------------------------
(* Statements.  A statement collects the chain of its children in `out':   *)
(* kdal_ast_add_child appends a chain to it, and adding NULL adds nothing. *)

Node(type, child) == [type |-> type, child |-> child]

Wrap(p, type) == Give(p, <<Node(type, p.out)>>)

\* The expression at the cursor as one more child.
AddExpr(p) == [Expr(p) EXCEPT !.out = p.out \o @]

\* word (
Open(p) == Expect(Give(Advance(p), <<>>), "(")

\* ) ;
Close(p) == Expect(Expect(p, ")"), ";")

TypeAnnotation(p) == IF Is(p, ":") THEN Advance(Advance(p)) ELSE p

\* Any token is taken for the name of a variable.
TakeName(p) == Give(Advance(p), <<Ident(Cur(p))>>)

LetStatement(p) ==
  IF ~Is(Advance(p), "IDENT") THEN Fail(Advance(p))
  ELSE Wrap(Expect(AddExpr(Expect(TypeAnnotation(TakeName(Advance(p))), "=")), ";"), "LET")

\* word ( expr , expr ) ;
TwoArguments(p, type) ==
  Wrap(Close(AddExpr(Expect(AddExpr(Open(p)), ","))), type)

WriteStatement(p) == TwoArguments(p, "REG_WRITE")
WaitStatement(p)  == TwoArguments(p, "WAIT")
ArmStatement(p)   == TwoArguments(p, "ARM")

SecondArgument(p) == IF Is(p, ",") THEN AddExpr(Advance(p)) ELSE p

EmitStatement(p) == Wrap(Close(SecondArgument(AddExpr(Open(p)))), "EMIT")

CancelStatement(p) == Wrap(Close(AddExpr(Open(p))), "CANCEL")

ReturnValue(p) == IF Is(p, ";") THEN p ELSE AddExpr(p)

ReturnStatement(p) ==
  Wrap(Expect(ReturnValue(Give(Advance(p), <<>>)), ";"), "RETURN")

\* The arguments of log that follow q, which has one more than p if it could be read.
AfterArgument(p, q) == IF q.out = p.out THEN q ELSE Then(q, <<"args">>)

Arguments(p) == IF Is(p, ",") THEN AfterArgument(p, AddExpr(Advance(p))) ELSE p

LogStatement(p) == Wrap(Close(AfterArgument(Give(p, <<>>), AddExpr(Open(p)))), "LOG")

AssignmentTo(lval) ==
  IF Is(lval, "=") THEN Wrap(Expect(AddExpr(Advance(lval)), ";"), "ASSIGN")
  ELSE Fail(lval)

\* An expression at the place where the statement begins.
AssignmentStatement(p) == AssignmentTo(Climb(Primary(p), 1))

Block(p) == Expect(Returned(Expect(p, "{"), <<"list">>), "}")

\* An empty body leaves a node of its own in the chain.
BodyChain(chain) == IF chain = <<>> THEN <<Node("INVALID", <<>>)>> ELSE chain

AddBody(p) == [Block(p) EXCEPT !.out = p.out \o BodyChain(@)]

\* if ( expr ) { ... }, and the same after elif.
Branch(p) == AddBody(Expect(AddExpr(Expect(Advance(p), "(")), ")"))

ElifBranches(p) == IF Is(p, "elif") THEN Then(Branch(p), <<"elif">>) ELSE p

\* ElseBranch that reads an else block and drops it.
ElseBranchDropped(p) == IF Is(p, "else") THEN Give(Block(Advance(p)), p.out) ELSE p

ElseBranch(p) == IF Is(p, "else") THEN AddBody(Advance(p)) ELSE p

IfStatement(p) == Wrap(ElseBranch(Then(Branch(Give(p, <<>>)), <<"elif">>)), "IF")

LoopBody(p) == [Block(p) EXCEPT !.out = p.out \o @]

ForStatement(p) ==
  Wrap(LoopBody(AddExpr(Expect(AddExpr(Expect(TakeName(Advance(p)), "in")), ".."))), "FOR")

Statement(p) ==
  CASE Is(p, "let") -> LetStatement(p)
    [] Is(p, "write") -> WriteStatement(p)
    [] Is(p, "emit") -> EmitStatement(p)
    [] Is(p, "wait") -> WaitStatement(p)
    [] Is(p, "arm") -> ArmStatement(p)
    [] Is(p, "cancel") -> CancelStatement(p)
    [] Is(p, "return") -> ReturnStatement(p)
    [] Is(p, "log") -> LogStatement(p)
    [] Is(p, "if") -> IfStatement(p)
    [] Is(p, "for") -> ForStatement(p)
    [] OTHER -> AssignmentStatement(p)

\* After a statement that could not be read one more token is skipped.
AddStatement(p, s) ==
  IF s.out = <<>> THEN Give(Advance(s), p.out) ELSE Give(s, p.out \o s.out)

StatementList(p) ==
  IF Cur(p) \in {"}", "EOF"} THEN p
  ELSE Then(AddStatement(p, Statement(p)), <<"list">>)

-----------------------------------------------------------------------------
(* The driver block of a file. *)

SkipUntil(p, type) ==
  IF Cur(p) \in {type, "EOF"} THEN p ELSE Then(Advance(p), <<"skip", type>>)

QualifiedName(p) ==
  IF ~Is(p, ".") THEN p
  ELSE Then(IF TokenType(Peek(p, 1)) = "IDENT" THEN Advance(Advance(p)) ELSE Advance(p),
            <<"name">>)

\* has: which of the two blocks there are.
NoDriver == [has |-> {}, probe |-> <<>>, remove |-> <<>>, handlers |-> <<>>]

\* Another word leaves evt_type at its zero, KDAL_EVT_READ.
EventType(t) == IF t \in {"read", "write", "signal", "power", "timeout"} THEN t ELSE "read"

\* on event ( ... ) { ... }; what stands between the parentheses is skipped.
EventHandler(p) ==
  [Block(Expect(Returned(Open(Advance(p)), <<"skip", ")">>), ")"))
     EXCEPT !.out = <<[type |-> "EVENT_HANDLER", evt |-> EventType(Peek(p, 1)), body |-> @]>>]

ConfigBlock(p) == Expect(Returned(Expect(Advance(p), "{"), <<"skip", "}">>), "}")

\* The rest of the driver block behind a member: a later block of the kind replaces
\* the one at hand.
Rest(p) == Returned(p, <<"body">>)

ProbeBlock(b, rest) ==
  IF "probe" \in rest.out.has THEN rest
  ELSE Give(rest, [rest.out EXCEPT !.probe = b.out, !.has = @ \union {"probe"}])

RemoveBlock(b, rest) ==
  IF "remove" \in rest.out.has THEN rest
  ELSE Give(rest, [rest.out EXCEPT !.remove = b.out, !.has = @ \union {"remove"}])

AddHandler(h, rest) == Give(rest, [rest.out EXCEPT !.handlers = h.out \o @])

\* The loop over the members of the driver block; what begins none is skipped.
DriverBody(p) ==
  CASE Cur(p) \in {"}", "EOF"} -> Give(p, NoDriver)
    [] Is(p, "probe") -> LET b == Block(Advance(p)) IN ProbeBlock(b, Rest(b))
    [] Is(p, "remove") -> LET b == Block(Advance(p)) IN RemoveBlock(b, Rest(b))
    [] Is(p, "on") -> LET h == EventHandler(p) IN AddHandler(h, Rest(h))
    [] Is(p, "config") -> Rest(ConfigBlock(p))
    [] OTHER -> Rest(Advance(p))

ForClass(p) == IF Is(p, "for") THEN QualifiedName(Advance(Advance(p))) ELSE p

\* The calls that are made of a later position.
Calls ==
  {<<"expr", m>> : m \in 1 .. 11}
    \union {<<"args">>, <<"elif">>, <<"list">>, <<"body">>, <<"name">>,
             <<"skip", ")">>, <<"skip", "}">>}

Call(p, c) ==
  CASE c[1] = "expr" -> Climb(Primary(p), c[2])
    [] c[1] = "args" -> Arguments(p)
    [] c[1] = "elif" -> ElifBranches(p)
    [] c[1] = "list" -> StatementList(p)
    [] c[1] = "body" -> DriverBody(p)
    [] c[1] = "name" -> QualifiedName(p)
    [] c[1] = "skip" -> SkipUntil(p, c[2])

\* What each call makes of the tokens from each position on.
Parses(tokens) ==
  LET from[i \in DOMAIN tokens] ==
        [c \in Calls |-> Call(ParserAt(tokens, i, [j \in i + 1 .. Len(tokens) |-> from[j]]), c)]
  IN  from

\* kdal_parse at the first token.
Start(tokens) == ParserAt(tokens, 1, Parses(tokens))

ParseResult(end, driver) == [ok |-> ~end.had_error, driver |-> driver, pos |-> end.pos]

EndOfDriver(body) == ParseResult(Expect(body, "}"), body.out)

\* kdal_parse of a file that starts with its driver block.
ParseDriver(tokens) ==
  EndOfDriver(DriverBody(Expect(ForClass(Advance(Advance(Start(tokens)))), "{")))

=============================================================================
