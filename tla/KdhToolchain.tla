---------------------------- MODULE KdhToolchain ----------------------------
(***************************************************************************)
(* The text of a .kdh or a .kdc file on its way through kdalc's front end  *)
(* (kdal_lex, kdal_parse, kdal_sema) and through kdality's lint, dt-gen    *)
(* and test-gen.  A file is written by its author, perhaps mistyped, and   *)
(* then each tool may be run on it.                                        *)
(***************************************************************************)
EXTENDS KdhFrontEnd, KdalityGen, KdalityLint

CONSTANTS
  Sources,     \* what the authors have in mind
  Mistyped,    \* those of them that slips are made in
  MaxEdits,    \* bound: how often the text is changed
  EditTokens,  \* what a change may put into the text
  Glyphs       \* the pieces of the tokens that are more than one

VARIABLES
  source,      \* the file its author has in mind
  lines,       \* the lines of the file, sequences of tokens
  edits,       \* how often the text was changed
  sema,        \* what kdal_sema returned
  linted,      \* what kdality lint found
  generated    \* what dt-gen or test-gen found

vars == <<source, lines, edits, frontEndVars, sema, linted, generated>>

-----------------------------------------------------------------------------
(* Writing.  A source is a scrap of text, a device class or a driver.      *)

NumberToken(n) == CHOOSE t \in DOMAIN IntValue \ BinLits : IntValue[t] = n

Maybe(b, tokens) == IF b THEN tokens ELSE <<>>

Initial(word, chain) == Maybe(chain # <<>>, <<word, NumberToken(chain[1].ival)>>)

Offset(reg) == Maybe(reg.offset # NoOffset, <<NumberToken(reg.offset)>>)

AtOffsetTokens(reg) == Maybe(reg.offset # NoOffset, <<"@">>) \o Offset(reg)

MemberTokens(m) ==
  <<m.name, ":", NumberToken(m.bit_lo)>>
    \o Maybe(m.bit_hi # m.bit_lo, <<"..", NumberToken(m.bit_hi)>>)
    \o Initial("=", m.reset_val) \o <<";">>

WidthToken(w) == CHOOSE t \in DOMAIN WidthOf : WidthOf[t] = w

RegisterTokens(reg, simplified) ==
  <<reg.name>> \o
    CASE simplified -> Offset(reg) \o <<reg.access, ";">>
      [] ~simplified /\ reg.bitfield ->
           <<":", "bitfield">> \o AtOffsetTokens(reg) \o <<reg.access, "{">>
             \o FlattenSeq([k \in DOMAIN reg.members |-> MemberTokens(reg.members[k])])
             \o <<"}", ";">>
      [] OTHER ->
           <<":", WidthToken(reg.width)>> \o AtOffsetTokens(reg) \o <<reg.access>>
             \o Initial("=", reg.reset_val) \o <<";">>

KindWord(kinds, trigger) == CHOOSE w \in DOMAIN kinds : kinds[w] = trigger

TriggerTokens(sig) ==
  CASE \E w \in DOMAIN EdgeKinds : EdgeKinds[w] = sig.trigger ->
         <<"edge", "(", KindWord(EdgeKinds, sig.trigger), ")">>
    [] \E w \in DOMAIN LevelKinds : LevelKinds[w] = sig.trigger ->
         <<"level", "(", KindWord(LevelKinds, sig.trigger), ")">>
    [] sig.trigger = "timeout" -> <<"timeout", "(", NumberToken(sig.arg[1].ival), ")">>
    [] OTHER -> <<"completion">>

SignalTokens(sig) == <<sig.name, ":", sig.dir>> \o TriggerTokens(sig) \o <<";">>

ConfigTokens(f) ==
  <<f.name, ":", f.type>> \o Initial("=", f.default_val) \o Initial("in", f.lo)
    \o Initial("..", f.hi) \o <<";">>

DeclTokens(decl, kind, simplified) ==
  CASE kind = "registers" -> RegisterTokens(decl, simplified)
    [] kind = "signals" -> SignalTokens(decl)
    [] kind = "capabilities" -> <<decl.name>> \o Initial("=", decl.value) \o <<";">>
    [] kind = "power" ->
         <<decl.name>> \o Maybe(decl.spec # "none", <<":", decl.spec>>) \o <<";">>
    [] kind = "config" -> ConfigTokens(decl)

BlockWord(kind, simplified) ==
  CASE simplified /\ kind = "registers" -> "register_map"
    [] simplified /\ kind = "power" -> "power_states"
    [] OTHER -> kind

BlockLines(dev, kind, simplified) ==
  IF dev[kind] = <<>> THEN <<>>
  ELSE <<<<BlockWord(kind, simplified), "{">>>>
         \o [k \in DOMAIN dev[kind] |-> DeclTokens(dev[kind][k], kind, simplified)]
         \o <<<<"}">>>>

BlockOrder == <<"registers", "signals", "capabilities", "power", "config">>

\* The compact form has a device and a compatible string, the other one a device
\* class.
HeaderLines(dev, simplified) ==
  <<IF simplified THEN <<"device", dev.name, "{">> ELSE <<"device", "class", dev.name, "{">>>>
    \o Maybe(simplified, <<<<"//", "signals">>>>)
    \o Maybe(dev.class_type # "", <<<<"class", dev.class_type, ";">>>>)
    \o Maybe(dev.compatible, <<<<"compatible", "STRING", ";">>>>)
    \o FlattenSeq([k \in DOMAIN BlockOrder |-> BlockLines(dev, BlockOrder[k], simplified)])
    \o <<<<"}">>>>

Path(reg) == <<"U", ".", reg>>

ReadTokens(reg) == <<"read", "(">> \o Path(reg) \o <<")">>

\* A statement of a driver, by its accesses.
StatementTokens(st) ==
  CASE st.op = "write" -> <<"write", "(">> \o Path(st.to) \o <<",", NumberToken(1), ")", ";">>
    [] st.op = "assign" -> Path(st.to) \o <<"=", NumberToken(1), ";">>
    [] st.op = "read" -> <<"let", "x", "=">> \o ReadTokens(st.from) \o <<";">>
    [] st.op = "copy" ->
         <<"write", "(">> \o Path(st.to) \o <<",">> \o ReadTokens(st.from) \o <<")", ";">>
    [] st.op = "guard" ->
         <<"if", "(">> \o ReadTokens(st.from) \o <<")", "{", "write", "(">> \o Path(st.to)
           \o <<",", NumberToken(1), ")", ";", "}">>

BlockHead(b) ==
  IF b.word \in {"probe", "remove"} THEN <<b.word, "{">> ELSE <<"on", b.word, "(", ")", "{">>

DriverBlock(b) ==
  <<BlockHead(b)>> \o [k \in DOMAIN b.body |-> StatementTokens(b.body[k])] \o <<<<"}">>>>

DriverLines(src) ==
  Maybe(src.import, <<<<"import", "STRING", "as", "U", ";">>>>)
    \o <<<<"driver", "D", "for", "U", "{">>>>
    \o FlattenSeq([k \in DOMAIN src.blocks |-> DriverBlock(src.blocks[k])])
    \o <<<<"}">>>>

FileLines(src) ==
  CASE src.kind = "scrap" -> <<src.text>>
    [] src.kind = "header" -> HeaderLines(src.device, src.simplified)
    [] src.kind = "driver" -> DriverLines(src)

GlyphsOf(token) == IF token \in DOMAIN Glyphs THEN Glyphs[token] ELSE <<token>>

\* No blank stands before or behind some punctuators.
Joined(t, u) == u \in {"(", ")", ";", ".", ","} \/ t \in {"(", "."}

LinePieces(line) ==
  FlattenSeq([k \in DOMAIN line |->
    Maybe(k > 1 /\ ~Joined(line[k - 1], line[k]), <<" ">>) \o GlyphsOf(line[k])])

\* The text of a file; a scrap is text already.
TextOf(src, tokenlines) ==
  IF src.kind = "scrap" THEN src.text
  ELSE FlattenSeq([k \in DOMAIN tokenlines |-> LinePieces(tokenlines[k]) \o <<"\n">>])

-----------------------------------------------------------------------------
(* The tools.                                                              *)

ParsedText(src) == Parsed(src, Lex(src))

Init ==
  /\ source \in Sources
  /\ lines = FileLines(source)
  /\ edits = 0
  /\ text = TextOf(source, lines)
  /\ lexed = NoResult /\ parsed = NoResult /\ analysis = NoResult /\ sema = NoResult
  /\ linted = NoResult /\ generated = NoResult

Unread == {lexed, linted, generated} = {NoResult}

\* A slip of the author: a token lost, or one too many.
Edit ==
  /\ Unread
  /\ source \in Mistyped /\ edits < MaxEdits
  /\ edits' = edits + 1
  /\ \E j \in DOMAIN lines : \E k \in DOMAIN lines[j] :
       \/ lines' = [lines EXCEPT ![j] = RemoveAt(@, k)]
       \/ \E t \in EditTokens : lines' = [lines EXCEPT ![j] = InsertAt(@, k, t)]
  /\ text' = TextOf(source, lines')
  /\ UNCHANGED <<source, lexed, parsed, analysis, sema, linted, generated>>

\* kdal_compile_file: the tokens.
Lexer == Tokenise /\ UNCHANGED <<source, lines, edits, sema, linted, generated>>

\* kdal_compile_file up to code generation.  Scraps are for the lexer alone.
Compile ==
  /\ source.kind # "scrap"
  /\ ParseFileAndAnalyse
  /\ sema' = IF parsed'.ok THEN Sema(parsed'.file) ELSE -1
  /\ UNCHANGED <<source, lines, edits, linted, generated>>

\* The header that the driver imports.
ImportedHeader(src) ==
  ParsedText(TextOf([kind |-> "header"], HeaderLines(src.device, src.simplified)))

Lint ==
  /\ linted = NoResult
  /\ \/ /\ source.kind = "header"
        /\ \E tree \in {ParsedText(text)} : linted' = LintKdh(NoLint, tree)
     \/ /\ source.kind = "driver"
        /\ \E tree \in {ParsedText(text)}, header \in {ImportedHeader(source)} :
             linted' = LintKdc(tree, header)
  /\ UNCHANGED <<source, lines, edits, frontEndVars, sema, generated>>

Generate ==
  /\ generated = NoResult
  /\ \/ /\ source.kind = "header"
        /\ generated' = ScanHeader(text)
     \/ /\ source.kind = "driver"
        /\ generated' = ScanDriver(text)
  /\ UNCHANGED <<source, lines, edits, frontEndVars, sema, linted>>

Next == Edit \/ Lexer \/ Compile \/ Lint \/ Generate

Spec == Init /\ [][Next]_vars

-----------------------------------------------------------------------------
(* Headers.                                                                *)

IsHeader == source.kind = "header"

RangesFit(reg) ==
  \A k \in DOMAIN reg.members :
    LET m == reg.members[k] IN AsInt(m.bit_lo) = m.bit_lo /\ AsInt(m.bit_hi) = m.bit_hi

\* kdalc reads the device that its author wrote: every register, bit range,
\* signal, capability, power state and config field, in both forms of a header,
\* when the bounds of its bit ranges fit into an int (parser.c
\* parse_device_class_body and what it calls).
HeaderKept ==
  /\ IsHeader /\ edits = 0 /\ parsed # NoResult
  /\ \A k \in DOMAIN source.device.registers : RangesFit(source.device.registers[k])
  => parsed.ok /\ parsed.file.device = <<source.device>>

AtMost(n, s) == SubSeq(s, 1, Lesser(n, Len(s)))

\* The line scanner of dt-gen and the parser of kdalc agree on the registers and
\* the signals of a header in the compact form, up to the sizes of the scanner's
\* tables (dtgen.c parse_kdh).
ScannedAsParsed ==
  IsHeader /\ edits = 0 /\ source.simplified /\ generated # NoResult =>
    LET placed == SelectSeq(source.device.registers, LAMBDA r : r.offset # NoOffset)
    IN  /\ generated.regs =
             AtMost(MaxRegs, [k \in DOMAIN placed |->
               [name |-> <<placed[k].name>>, offset |-> placed[k].offset]])
        /\ generated.signals =
             AtMost(MaxSignals, [k \in DOMAIN source.device.signals |->
               <<source.device.signals[k].name>>])

-----------------------------------------------------------------------------
(* Drivers.                                                                *)

IsDriver == source.kind = "driver"

Statements == UNION {ToSet(source.blocks[k].body) : k \in DOMAIN source.blocks}

\* The registers that the driver means to write, those of them that it writes with
\* write(), and the ones it means to read.
Written == {st.to : st \in {t \in Statements : t.op # "read"}}
Called  == {st.to : st \in {t \in Statements : t.op \notin {"read", "assign"}}}
ReadOf  == {st.from : st \in {t \in Statements : t.op \notin {"write", "assign"}}}

RegistersOf(accesses) ==
  {r.name : r \in {q \in ToSet(source.device.registers) : q.access \in accesses}}

\* lint knows the registers of the imported header, as many as its table holds, and
\* of their names as much as fits.
Loaded == IF source.import THEN AtMost(LintRegs, source.device.registers) ELSE <<>>

StoredNames(regs) == {StoredName(r.name) : r \in regs}

ReadOnly == StoredNames({r \in ToSet(Loaded) : r.access = "ro"})

\* lint names no register as one that is read only and written by write() that is
\* not in its table as one; and while there is room for warnings it names all of
\* them, under an if too, and every register that the driver does not touch at all.
\* A register is what its name is cut to, and an assignment to a register, which
\* kdal_sema takes for a write too (sema.c:183), is not looked at (lint.c
\* lint_walk_stmts, lint_kdc).
LintFindsWrites ==
  IsDriver /\ linted # NoResult =>
    LET warned(code) == {w[2] : w \in {v \in ToSet(linted.warnings) : v[1] = code}}
    IN  /\ warned("W003") \subseteq ReadOnly \intersect Called
        /\ Len(linted.warnings) < MaxWarns =>
             /\ ReadOnly \intersect Called \subseteq warned("W003")
             /\ StoredNames(ToSet(Loaded)) \ (Written \union ReadOf) \subseteq warned("W007")

\* The tests that test-gen writes stubs for are those of the handlers that kdalc
\* generates code for, in their order, up to the size of its table (testgen.c
\* parse_kdc, parser.c parse_event_handler).
TestsMatchHandlers ==
  IsDriver /\ edits = 0 /\ generated # NoResult /\ parsed # NoResult =>
    [k \in DOMAIN generated.handlers |-> generated.handlers[k][1]] =
      AtMost(MaxHandlers, [k \in DOMAIN parsed.file.driver[1].handlers |->
                             parsed.file.driver[1].handlers[k].evt])

-----------------------------------------------------------------------------
(* What the documentation says and the code does not do.                   *)

\* A read() or a write() against the direction its register is declared with is
\* reported by kdalc, or by lint that knows the header.
AccessReported ==
  IsDriver /\ source.import /\ sema # NoResult /\ linted # NoResult =>
    \/ sema < 0
    \/ {<<"W003", r>> : r \in Called \intersect RegistersOf({"ro"})}
         \union {<<"W004", r>> : r \in ReadOf \intersect RegistersOf({"wo"})}
       \subseteq ToSet(linted.warnings)

\* dt-gen writes an overlay for a header it has read.
OverlayWritten ==
  IsHeader /\ edits = 0 /\ source.simplified /\ generated # NoResult =>
    DtGen(generated) # {}

=============================================================================
