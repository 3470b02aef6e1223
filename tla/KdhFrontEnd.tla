----------------------------- MODULE KdhFrontEnd -----------------------------
(***************************************************************************)
(* The front end of kdalc with the parser itself (src/compiler/codegen.c,  *)
(* kdal_compile_file): what KdcFrontEnd says of every tree is shown for    *)
(* those that kdal_parse makes.                                            *)
(***************************************************************************)
EXTENDS KdcFrontEnd, KdhParser

NoTree == [ok |-> FALSE, file |-> NoFile, pos |-> 0]

\* The syntax tree of lexed text, as kdalc and lint_parse_file make it.
Parsed(src, lx) ==
  IF lx.had_error THEN NoTree ELSE ParseFile(Spellings(src, lx.tokens))

\* kdal_parse, and kdal_sema as far as it is about the device.
ParseFileAndAnalyse ==
  /\ lexed # NoResult /\ parsed = NoResult
  /\ parsed' = Parsed(text, lexed) /\ parsed' # NoResult
  /\ Populate(parsed')
  /\ UNCHANGED <<text, lexed>>

HeaderNext == Write \/ Tokenise \/ ParseFileAndAnalyse

HeaderSpec == FrontEndInit /\ [][HeaderNext]_frontEndVars

-----------------------------------------------------------------------------
(* Registers.                                                              *)

\* From its name at k on, up to the next semicolon, a declaration has a number.
DeclaresNumber(words, k, n) ==
  \E j \in k + 1 .. Len(words) :
    /\ words[j] \in DOMAIN IntValue /\ IntValue[words[j]] = n
    /\ \A i \in k .. j : words[i] # ";"

\* A register stands in the text with the offset it is given.
StandsIn(words, reg) ==
  \E k \in DOMAIN words :
    /\ words[k] = reg.name
    /\ reg.offset # NoOffset => DeclaresNumber(words, k, reg.offset)

\* A register of a header that is accepted stands in its text with the offset
\* that kdalc and the tools take it to have, however the text was mistyped:
\* recovering from a slip never gives a register the offset of another one, or
\* one of nobody (parser.c parse_register_decl, parse_registers_block).
OffsetsWritten ==
  HasDevice =>
    LET regs == parsed.file.device[1].registers
    IN  \A r \in DOMAIN regs : StandsIn(Spellings(text, lexed.tokens), regs[r])

=============================================================================
