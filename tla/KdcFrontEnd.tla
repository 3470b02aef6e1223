----------------------------- MODULE KdcFrontEnd -----------------------------
(***************************************************************************)
(* The front end of kdalc on one file (src/compiler/codegen.c,             *)
(* kdal_compile_file): the text is read, kdal_lex makes its tokens,        *)
(* kdal_parse a tree, of which only what every tree is like is said here,  *)
(* and kdal_sema analyses the device in it.                                *)
(* KdhFrontEnd has the parser itself, and implements this specification.   *)
(***************************************************************************)
EXTENDS KdcLexer, KdcSymbols

CONSTANT NoResult

VARIABLES
  text,      \* the text of the file
  lexed,     \* what kdal_lex made of it
  parsed,    \* what kdal_parse made of the tokens
  analysis   \* what kdal_sema found about the device

frontEndVars == <<text, lexed, parsed, analysis>>

FrontEndInit ==
  /\ text \in Seq(STRING)
  /\ lexed = NoResult /\ parsed = NoResult /\ analysis = NoResult

\* The file is written anew, before it is read.
Write ==
  /\ lexed = NoResult
  /\ text' \in Seq(STRING)
  /\ UNCHANGED <<lexed, parsed, analysis>>

Result(lx) == [tokens |-> lx.tokens, had_error |-> lx.had_error]

\* kdal_lex.
Tokenise ==
  /\ lexed = NoResult
  /\ lexed' = Result(Lex(text))
  /\ UNCHANGED <<text, parsed, analysis>>

\* kdal_sema, as far as it is about the device, of a tree without errors.
Populate(result) ==
  analysis' = IF result.ok THEN Analysis(result.file) ELSE NoAnalysis

\* kdal_parse, whatever tree it makes, and kdal_sema.
Analyse ==
  /\ lexed # NoResult /\ parsed = NoResult
  /\ parsed' # NoResult /\ IsResult(parsed') /\ Populate(parsed')
  /\ UNCHANGED <<text, lexed>>

FrontEndNext == Write \/ Tokenise \/ Analyse

FrontEndSpec == FrontEndInit /\ [][FrontEndNext]_frontEndVars

-----------------------------------------------------------------------------
(* The lexer.                                                              *)

NoNewline(src, i, j) == \A k \in i .. j : src[k] # "\n"

\* A comment from i to e.
Comment(src, i, e) ==
  \/ /\ At(src, i + 1) = "/" /\ e > i /\ NoNewline(src, i, e)
     /\ e < Len(src) => src[e + 1] = "\n"
  \/ /\ At(src, i + 1) = "*"
     /\ e >= i + 3 /\ <<src[e - 1], src[e]>> = <<"*", "/">>
     /\ \A k \in i + 3 .. e - 1 : <<src[k - 1], src[k]>> # <<"*", "/">>

\* Whether there are only blanks and whole comments from i to each position.
Gaps(src, i) ==
  LET gap[j \in i - 1 .. Len(src)] ==
        \/ j = i - 1
        \/ j >= i /\ src[j] \in Blanks /\ gap[j - 1]
        \/ \E b \in i .. j - 1 : src[b] = "/" /\ Comment(src, b, j) /\ gap[b - 1]
  IN  gap

\* Where the token in front of the k-th one ends.
EndBefore(tokens, k) == IF k = 1 THEN 0 ELSE tokens[k - 1].last

\* The tokens stand in the text one behind the other, each on its line, with only
\* blanks and comments between them, and the last one at its end.
Tile(src, tokens) ==
  /\ tokens # <<>> /\ tokens[Len(tokens)].first = Len(src) + 1
  /\ \A k \in DOMAIN tokens :
       /\ tokens[k].first > EndBefore(tokens, k)
       /\ IF k = Len(tokens) THEN tokens[k].type = "EOF"
          ELSE tokens[k].last \in tokens[k].first .. Len(src)
       /\ tokens[k].line = 1 + Newlines(src, 1, tokens[k].first - 1)
       /\ Gaps(src, EndBefore(tokens, k) + 1)[tokens[k].first - 1]

\* The tokens of a text that is accepted make up all of it but its blanks and
\* comments, each on the line it stands on, although comments, strings with
\* escapes and words each move the position on their own (lexer.c kdal_lex,
\* lx_skip_block_comment, lx_lex_string, lx_advance).
TokensTileText == lexed # NoResult /\ ~lexed.had_error => Tile(text, lexed.tokens)

BaseOf(type) == CASE type = "HEX" -> 16 [] type = "BINLIT" -> 2 [] OTHER -> 10

\* Where the digits of a number token begin, behind its prefix.
DigitsFrom(token) == IF token.type = "INT" THEN token.first ELSE token.first + 2

\* What the digits from k to last are worth, up to each of them.
Values(src, k, last, base) ==
  LET value[j \in k - 1 .. last] ==
        IF j = k - 1 THEN 0 ELSE value[j - 1] * base + DigitValue[src[j]]
  IN  value

ValueOf(src, token) ==
  Values(src, DigitsFrom(token), token.last, BaseOf(token.type))[token.last]

NumberRead(src, token) ==
  \/ DigitsFrom(token) > token.last
  \/ At(src, token.last + 1) = "x"
  \/ token.value = Lesser(ValueOf(src, token), LongMax)

\* A number is worth what its own digits say, although strtoll reads the text
\* and not the token (lx_lex_number).  Without digits, or before an x, it is not.
NumbersRead ==
  lexed # NoResult =>
    \A k \in DOMAIN lexed.tokens :
      lexed.tokens[k].type \in {"INT", "HEX", "BINLIT"} => NumberRead(text, lexed.tokens[k])

-----------------------------------------------------------------------------
(* Devices.                                                                *)

\* What is entered in the symbol table, in this order.
TableEntries(dev) == dev.registers \o dev.signals \o dev.capabilities \o dev.config

\* Where the capabilities are in it.
CapabilityPlaces(dev) ==
  {Len(dev.registers) + Len(dev.signals) + c : c \in DOMAIN dev.capabilities}

\* A name that stands in front, where the table had room for it.
Taken(decls, k) == \E j \in 1 .. k - 1 : j <= SymtabMax /\ decls[j].name = decls[k].name

BitsInOrder(dev) ==
  \A r \in DOMAIN dev.registers : \A m \in DOMAIN dev.registers[r].members :
    dev.registers[r].members[m].bit_lo <= dev.registers[r].members[m].bit_hi

HasDevice == analysis # NoResult /\ parsed.ok /\ parsed.file.device # <<>>

\* kdalc prints an error about a device class exactly if a register, a signal or a
\* config field has the name of a declaration in front of it, whatever that is, or
\* a bit range is inverted.  The names behind the first SYMTAB_MAX declarations
\* are dropped without a word, so one that stands there twice is not noticed
\* (sema.c sema_populate_device, symtab_push, symtab_find).  The errors decide
\* nothing: a file with a device class has no driver, so kdal_sema returns 0
\* (sema.c:336).
NamesDistinct ==
  HasDevice =>
    LET dev == parsed.file.device[1]
        decls == TableEntries(dev)
    IN  analysis.errors = 0 <=>
          /\ BitsInOrder(dev)
          /\ \A k \in DOMAIN decls : Taken(decls, k) => k \in CapabilityPlaces(dev)

BytesOf(reg) ==
  reg.offset .. reg.offset + (IF reg.bitfield THEN 4 ELSE reg.width \div 8) - 1

\* The registers end before the address space of the device does.
InSpace(regs) ==
  \A k \in DOMAIN regs :
    regs[k].offset = NoOffset \/ \A b \in BytesOf(regs[k]) : b + 1 < OffsetModulus

ShareByte(r, s) ==
  NoOffset \notin {r.offset, s.offset} /\ BytesOf(r) \intersect BytesOf(s) # {}

FirstOfName(regs, k) == \A i \in 1 .. k - 1 : regs[i].name # regs[k].name

\* kdalc warns of two registers exactly when they share a byte of the device, the
\* widths counted in bytes and a bitfield as four of them; a register whose name
\* was used before is compared with none in front of it (sema.c
\* sema_populate_device).
OverlapsWarned ==
  HasDevice =>
    LET regs == parsed.file.device[1].registers
    IN  Len(regs) <= SymtabMax /\ InSpace(regs) =>
          analysis.overlaps =
            {jk \in (DOMAIN regs) \X (DOMAIN regs) :
               /\ jk[1] < jk[2] /\ FirstOfName(regs, jk[2])
               /\ ShareByte(regs[jk[1]], regs[jk[2]])}

=============================================================================
