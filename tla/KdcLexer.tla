------------------------------ MODULE KdcLexer ------------------------------
(***************************************************************************)
(* The lexer of kdalc (src/compiler/lexer.c): from the text of a file to   *)
(* its tokens.                                                             *)
(*                                                                         *)
(* A text is a sequence of pieces.  A piece is a character, or a word that *)
(* stands for its letters: no rule of the lexer looks inside a run of      *)
(* letters, and a blank stands between a number and a word of letters that *)
(* are digits too.  Columns are left out; memory for the tokens never ends.*)
(***************************************************************************)
EXTENDS Integers, Sequences, FiniteSetsExt, SequencesExt

CONSTANTS
  Words,       \* the words of the texts that are no keywords
  DigitValue,  \* the hexadecimal digits among the pieces, with their values
  LongMax      \* LLONG_MAX

ASSUME LongMaxAssumption == LongMax \in Nat

\* kw_table
Keywords ==
  {"kdal_version", "import", "as", "device", "class", "registers", "signals",
   "capabilities", "power", "config", "bitfield", "ro", "wo", "rw", "rc", "in", "edge",
   "level", "rising", "falling", "any", "high", "low", "completion", "allowed",
   "forbidden", "default", "on", "off", "suspend", "backend", "driver", "for", "probe",
   "remove", "read", "write", "signal", "timeout", "emit", "wait", "arm", "cancel", "let",
   "return", "log", "if", "elif", "else", "true", "false", "u8", "u16", "u32", "u64",
   "i8", "i16", "i32", "i64", "bool", "str", "buf"}

Blanks   == {" ", "\n"}
Decimals == DOMAIN DigitValue \ {"b"}

\* Of the letters only b is a digit here, and what is a blank, a sign or the x
\* of a prefix is none.
ASSUME DigitsAssumption ==
  /\ \A d \in DOMAIN DigitValue : DigitValue[d] \in 0 .. 15
  /\ \A d \in Decimals : DigitValue[d] < 10
  /\ DOMAIN DigitValue \intersect (Blanks \union {"+", "-", "x", "NUL"}) = {}

Letters  == Keywords \union Words \union {"b", "x", "_"}
IdentChars == Letters \union Decimals

Pairs == {<<"=", "=">>, <<"!", "=">>, <<"<", "=">>, <<">", "=">>, <<"<", "<">>,
          <<">", ">">>, <<"&", "&">>, <<"|", "|">>, <<".", ".">>, <<"-", ">">>}

Singles == {"{", "}", "(", ")", "[", "]", ";", ":", ",", ".", "@", "=", "<", ">",
            "+", "-", "*", "/", "%", "&", "|", "^", "~", "!"}

Lesser(m, n) == IF m < n THEN m ELSE n

\* lexer_t: pos is 1 at the start.
LexStart(src) == [src |-> src, pos |-> 1, line |-> 1, tokens |-> <<>>, had_error |-> FALSE]

\* lx_cur and lx_peek: past the end there is '\0'.
At(src, k) == IF k <= Len(src) THEN src[k] ELSE "NUL"

AtEnd(lx) == lx.pos > Len(lx.src)

Newlines(src, first, last) == Cardinality({k \in first .. last : src[k] = "\n"})

\* lx_advance, until the position is k.
MoveTo(lx, k) ==
  [lx EXCEPT !.pos = k, !.line = @ + Newlines(lx.src, lx.pos, k - 1)]

TokenTypes == {"KEYWORD", "IDENT", "HEX", "BINLIT", "INT", "STRING", "PUNCT", "EOF"}

\* kdal_token_t: the text of a token is that from its first piece to its last.
Tokens == [type : TokenTypes, first : Nat, last : Nat, line : Nat, value : Int]

\* lx_emit of the token that begins at the position and ends before k.
Emit(lx, k, type, value) ==
  MoveTo([lx EXCEPT !.tokens = Append(@,
            [type |-> type, first |-> lx.pos, last |-> k - 1, line |-> lx.line,
             value |-> value])], k)

Slice(lx, k, type) == Emit(lx, k, type, 0)

Reject(lx, k) == [MoveTo(lx, k) EXCEPT !.had_error = TRUE]

\* The first position from k on where P holds; past the end, if there is none.
First(src, k, P(_)) ==
  CHOOSE j \in k .. Len(src) + 1 :
    /\ j = Len(src) + 1 \/ P(j)
    /\ \A i \in k .. j - 1 : ~P(i)

\* Where the run of pieces of S ends that begins at k.
SkipOver(src, k, S) == First(src, k, LAMBDA j : src[j] \notin S)

\* The first piece of S from k on.
SkipTo(src, k, S) == First(src, k, LAMBDA j : src[j] \in S)

-----------------------------------------------------------------------------
(* Comments, words, numbers and strings.                                   *)

\* Where the comment ends whose text begins at k; past the end, if nowhere.
CommentEnd(src, k) ==
  First(src, k, LAMBDA j : src[j] = "*" /\ At(src, j + 1) = "/")

\* BlockComment that ends at the first star.
BlockCommentToStar(lx) ==
  IF SkipTo(lx.src, lx.pos + 2, {"*"}) > Len(lx.src) THEN Reject(lx, Len(lx.src) + 1)
  ELSE MoveTo(lx, Lesser(Len(lx.src) + 1, SkipTo(lx.src, lx.pos + 2, {"*"}) + 2))

BlockComment(lx) ==
  IF CommentEnd(lx.src, lx.pos + 2) > Len(lx.src) THEN Reject(lx, Len(lx.src) + 1)
  ELSE MoveTo(lx, CommentEnd(lx.src, lx.pos + 2) + 2)

LineComment(lx) == MoveTo(lx, SkipTo(lx.src, lx.pos + 2, {"\n"}))

\* lx_classify_ident
Classify(word) == IF Len(word) = 1 /\ word[1] \in Keywords THEN "KEYWORD" ELSE "IDENT"

\* A word that ends before k.
WordTo(lx, k) == Slice(lx, k, Classify(SubSeq(lx.src, lx.pos, k - 1)))

\* isalnum or '_': the rest of a word.
Word(lx) == WordTo(lx, SkipOver(lx.src, lx.pos, IdentChars))

DigitsOf(base) == {d \in DOMAIN DigitValue : DigitValue[d] < base}

\* LONG_MAX where the value does not fit.
Saturating(n) == Lesser(n, LongMax)

\* The value of the digits that begin at k, up to each of them.
DigitsRead(src, k, base) ==
  LET read[j \in k - 1 .. SkipOver(src, k, DigitsOf(base)) - 1] ==
        IF j = k - 1 THEN 0 ELSE Saturating(read[j - 1] * base + DigitValue[src[j]])
  IN  read

DigitsAt(src, k, base) ==
  DigitsRead(src, k, base)[SkipOver(src, k, DigitsOf(base)) - 1]

\* The prefix that strtoll passes over in base 16.
AfterPrefix(src, k, base) ==
  IF base = 16 /\ At(src, k) = "0" /\ At(src, k + 1) = "x" THEN k + 2 ELSE k

SignedAt(src, k, base) ==
  CASE At(src, k) = "-" -> -DigitsAt(src, AfterPrefix(src, k + 1, base), base)
    [] At(src, k) = "+" -> DigitsAt(src, AfterPrefix(src, k + 1, base), base)
    [] OTHER -> DigitsAt(src, AfterPrefix(src, k, base), base)

\* strtoll from k on: it knows nothing of the end of the token.
StrToLL(src, k, base) == SignedAt(src, SkipOver(src, k, Blanks), base)

\* Literal that takes all hexadecimal digits into every token.
LiteralAnyDigit(lx, k, base, type) ==
  Emit(lx, SkipOver(lx.src, k, DigitsOf(16)), type, StrToLL(lx.src, k, base))

\* A literal whose digits begin at k.
Literal(lx, k, base, type) ==
  Emit(lx, SkipOver(lx.src, k, DigitsOf(base)), type, StrToLL(lx.src, k, base))

Number(lx) ==
  CASE At(lx.src, lx.pos) = "0" /\ At(lx.src, lx.pos + 1) = "x" ->
         Literal(lx, lx.pos + 2, 16, "HEX")
    [] At(lx.src, lx.pos) = "0" /\ At(lx.src, lx.pos + 1) = "b" ->
         Literal(lx, lx.pos + 2, 2, "BINLIT")
    [] OTHER -> Literal(lx, lx.pos, 10, "INT")

\* Where a string stops whose text goes on at k: at its closing quote, at the
\* end of the line, or past the end of the text.
StringStops(src) ==
  LET stop[k \in 1 .. Len(src) + 2] ==
        CASE k > Len(src) -> Len(src) + 1
          [] k <= Len(src) /\ src[k] \in {"\"", "\n"} -> k
          [] k <= Len(src) /\ src[k] = "\\" -> stop[k + 2]
          [] OTHER -> stop[k + 1]
  IN  stop

StringStop(src, k) == StringStops(src)[k]

\* A string that the text ends in is a string too.
StringTo(lx, stop) ==
  IF At(lx.src, stop) = "\n" THEN Reject(lx, stop)
  ELSE Emit(lx, Lesser(stop, Len(lx.src)) + 1, "STRING", 0)

StringLiteral(lx) == StringTo(lx, StringStop(lx.src, lx.pos + 1))

-----------------------------------------------------------------------------
(* kdal_lex.                                                               *)

PunctLength(c, c1) == IF <<c, c1>> \in Pairs THEN 2 ELSE 1

\* What begins with c and is no comment.
Token(lx, c, c1) ==
  CASE c \in Letters -> Word(lx)
    [] c \in Decimals -> Number(lx)
    [] c = "\"" -> StringLiteral(lx)
    [] c \in Singles -> Slice(lx, lx.pos + PunctLength(c, c1), "PUNCT")
    [] OTHER -> Reject(lx, lx.pos + 1)

\* One turn of its loop, c and c1 being the next two pieces.
LexTurn(lx, c, c1) ==
  CASE c \in Blanks -> MoveTo(lx, lx.pos + 1)
    [] <<c, c1>> = <<"/", "/">> -> LineComment(lx)
    [] <<c, c1>> = <<"/", "*">> -> BlockComment(lx)
    [] OTHER -> Token(lx, c, c1)

Lexers(src) ==
  [src : {src}, pos : 1 .. Len(src) + 1, line : Nat, tokens : Seq(Tokens),
   had_error : BOOLEAN]

\* Its loop, from each state of the lexer to the end of the text.
Loop(src) ==
  LET after[lx \in Lexers(src)] ==
        IF AtEnd(lx) THEN lx
        ELSE after[LexTurn(lx, At(src, lx.pos), At(src, lx.pos + 1))]
  IN  after

Lex(src) == Emit(Loop(src)[LexStart(src)], Len(src) + 1, "EOF", 0)

\* What the parser sees of a token: its text, or that it is a string.
Spelling(type, pieces) ==
  IF type \in {"STRING", "EOF"} THEN type
  ELSE FoldLeft(LAMBDA s, piece : s \o piece, "", pieces)

Spellings(src, tokens) ==
  [k \in DOMAIN tokens |->
     Spelling(tokens[k].type, SubSeq(src, tokens[k].first, tokens[k].last))]

=============================================================================
