--------------------------- MODULE MCKdcToolchain ---------------------------
(***************************************************************************)
(* Small drivers for KdcToolchain: two registers A and B in the namespace  *)
(* U, literals up to 2, bodies of at most two statements under every if    *)
(* and for.  In a few drivers there is a register L too, whose name the    *)
(* simulator cuts to B.                                                    *)
(***************************************************************************)
EXTENDS KdcToolchain

MCIdents == {"D", "U", "A", "B", "L", "x", "i"}

MCIntValue == ("0" :> 0) @@ ("1" :> 1) @@ ("2" :> 2)

MCCut == "L" :> "B"

A == RegPath(<<"U", "A">>)
B == RegPath(<<"U", "B">>)
L == RegPath(<<"U", "L">>)
One == IntLiteral(1)
Two == IntLiteral(2)

Count == BinOp("+", <<ReadExpr(<<B>>)>>, <<One>>)

Base == {Write(A, Two), Write(B, Count), Return}

UpTo2(S) == {<<>>} \union {<<s>> : s \in S} \union {<<s, t>> : s, t \in S}

Conds == {ReadExpr(<<A>>),
          BinOp("&&", <<One>>, <<BinOp("==", <<ReadExpr(<<B>>)>>, <<IntLiteral(0)>>)>>)}

Ifs ==
  {If(<<Arm(c, b)>>, e) : c \in Conds, b \in UpTo2(Base), e \in UpTo2(Base \ {Return})}
    \union {If(<<Arm(c, <<b>>), Arm(One, <<d>>)>>, <<e>>) : c \in Conds, b, d, e \in Base}

LoopBase == {Write(A, Ident("i")), Write(B, Count), Set("i", IntLiteral(0)), Return}

Loops == {For("i", IntLiteral(0), hi, b) : hi \in {One, Two}, b \in UpTo2(LoopBase)}
  \union {For("i", One, Two, <<If(<<Arm(ReadExpr(<<A>>), <<b>>)>>, <<>>)>>) : b \in LoopBase}

Prefixes == {<<>>, <<Write(A, One)>>, <<Let("x", Two), Write(B, Ident("x"))>>}

Bodies ==
  {p \o <<st>> \o q : p \in Prefixes, st \in Ifs \union Loops, q \in {<<Write(B, Count)>>, <<Return, Write(B, Count)>>}}

Driver(body) == [probe |-> body, remove |-> <<Write(B, Two)>>, on |-> <<>>]

MCPrograms == {Driver(b) : b \in Bodies}

\* Expressions of up to three operators, of nine of the ten levels.
Operators == {"||", "&&", "|", "^", "&", "==", "<", "+", "-", "*"}

Leaves == {One, ReadExpr(<<A>>)}

Pairs == {<<One, ReadExpr(<<A>>)>>, <<ReadExpr(<<A>>), Two>>}

Small == Leaves \union {UnOp("!", <<e>>) : e \in Leaves}
  \union {BinOp(op, <<lr[1]>>, <<lr[2]>>) : op \in Operators, lr \in Pairs}

MCExpressions ==
  {Driver(<<Write(A, e)>>) :
     e \in {BinOp(op, <<l>>, <<r>>) : op \in Operators, l, r \in Small}}

\* Sentences of every shape, to be mistyped.
MCSentences ==
  {Driver(b) : b \in
    {<<Write(A, Count)>>,
     <<Let("x", UnOp("-", <<One>>)), Set("x", BinOp("*", <<Ident("x")>>, <<Two>>)), Return>>,
     <<If(<<Arm(ReadExpr(<<A>>), <<Write(B, One)>>), Arm(One, <<>>)>>, <<Return>>)>>,
     <<For("i", IntLiteral(0), Two, <<Write(A, Ident("i"))>>)>>}}

\* Drivers that write and read the register with the long name, before and after
\* the one that its name is cut to.
LongNameBodies ==
  LET base == {Write(L, Two), Write(A, ReadExpr(<<L>>)), Write(B, Count), Write(L, ReadExpr(<<B>>))}
  IN  {<<s, t, u>> : s, t, u \in base}

MCLongNames == {Driver(b) : b \in LongNameBodies}

MCDrivers == MCPrograms \union MCExpressions \union MCSentences \union MCLongNames

MCEditTokens == {"write", "(", ")", "+", "=", ";", "1", ".", "else", "{", "}"}

=============================================================================
