------------------------------ MODULE KdalityGen ------------------------------
(***************************************************************************)
(* The two generators of kdality that do not parse: dt-gen and test-gen    *)
(* (src/tools/kdality/dtgen.c, testgen.c) scan a file line by line.  A     *)
(* line is a sequence of pieces, as in KdcLexer; no word contains another. *)
(* Lines and names are short enough for their buffers, and no number has a *)
(* sign or a blank in it.                                                  *)
(***************************************************************************)
EXTENDS KdcLexer

CONSTANTS
  MaxRegs,       \* MAX_REGS of dtgen.c
  MaxSignals,    \* MAX_SIGNALS
  MaxHandlers,   \* MAX_HANDLERS of testgen.c
  DefaultRegion  \* 0x100

RECURSIVE LinesFrom(_, _)
LinesFrom(src, k) ==
  IF k > Len(src) THEN <<>>
  ELSE <<SubSeq(src, k, SkipTo(src, k, {"\n"}) - 1)>>
         \o LinesFrom(src, SkipTo(src, k, {"\n"}) + 1)

\* fgets, until the file ends: the lines without their newlines.
LinesOf(src) == LinesFrom(src, 1)

\* The rest of a line from the first piece on, from k on, that is not in S.
From(line, k, S) == SubSeq(line, SkipOver(line, k, S), Len(line))

Trim(line) == From(line, 1, {" "})

\* The pieces from k on up to one of S.
UpTo(line, k, S) == SubSeq(line, k, SkipTo(line, k, S) - 1)

Mentions(line, words) == \E k \in DOMAIN line : line[k] \in words

BeginsWith(line, prefix) == IsPrefix(prefix, line)

\* Comments and empty lines.
Ignored(line) == line = <<>> \/ line[1] = "/"

SafeComponent(name) == name # <<>> /\ \A k \in DOMAIN name : name[k] \in IdentChars \union {"-"}

-----------------------------------------------------------------------------
(* dt-gen.                                                                 *)

NoInfo == [device |-> <<>>, class |-> <<>>, compatible |-> FALSE, regs |-> <<>>,
           signals |-> <<>>, section |-> "none"]

\* "%63s 0x%lx": a word, and behind blanks a number in hexadecimal.
AddEntry(info, name, rest) ==
  IF /\ BeginsWith(rest, <<"0", "x">>)
     /\ At(rest, 3) \in DigitsOf(16) /\ Len(info.regs) < MaxRegs
  THEN [info EXCEPT !.regs =
          Append(@, [name |-> name, offset |-> DigitsAt(rest, 3, 16)])]
  ELSE info

RegisterEntry(info, line, name) == AddEntry(info, name, From(line, Len(name) + 1, {" "}))

SignalEntry(info, name) ==
  IF name # <<>> /\ Len(info.signals) < MaxSignals
  THEN [info EXCEPT !.signals = Append(@, name)] ELSE info

Entry(info, line) ==
  CASE info.section = "registers" -> RegisterEntry(info, line, UpTo(line, 1, {" "}))
    [] info.section = "signals" -> SignalEntry(info, UpTo(line, 1, {" ", ";"}))
    [] OTHER -> info

\* A line outside of what the sections hold.
ScanHeadLine(info, line) ==
  CASE BeginsWith(line, <<"device", " ">>) ->
         [info EXCEPT !.device = UpTo(line, 3, {" ", "{"})]
    [] BeginsWith(line, <<"class", " ">>) -> [info EXCEPT !.class = UpTo(line, 3, {";"})]
    [] BeginsWith(line, <<"compatible", " ">>) ->
         [info EXCEPT !.compatible = @ \/ Cardinality({k \in DOMAIN line : line[k] = "\""}) > 1]
    [] OTHER -> Entry(info, line)

\* ScanLine that does not notice the end of a section.
ScanLineThroughBraces(info, line) ==
  CASE Ignored(line) -> info
    [] Mentions(line, {"register_map"}) -> [info EXCEPT !.section = "registers"]
    [] Mentions(line, {"signals"}) -> [info EXCEPT !.section = "signals"]
    [] OTHER -> ScanHeadLine(info, line)

\* One turn of the loop of parse_kdh: sections are told by their words.
ScanLine(info, line) ==
  CASE Ignored(line) -> info
    [] ~Ignored(line) /\ Mentions(line, {"register_map"}) ->
         [info EXCEPT !.section = "registers"]
    [] ~Ignored(line) /\ ~Mentions(line, {"register_map"}) /\ Mentions(line, {"signals"}) ->
         [info EXCEPT !.section = "signals"]
    [] ~Ignored(line) /\ ~Mentions(line, {"register_map", "signals"})
         /\ (Mentions(line, {"capabilities", "power_states"}) \/ line[1] = "}") ->
         [info EXCEPT !.section = "none"]
    [] OTHER -> ScanHeadLine(info, line)

ScanHeader(src) == FoldLeft(LAMBDA i, l : ScanLine(i, Trim(l)), NoInfo, LinesOf(src))

\* From the highest offset, at least the default.
RegionSize(info) ==
  Max({info.regs[k].offset + 4 : k \in DOMAIN info.regs} \union {DefaultRegion})

\* open_output_in_dir: the name of the file must be a safe component.
OpenOutput(filename) == SafeComponent(filename)

\* What kdality dt-gen writes: at most one overlay.
DtGen(info) ==
  IF SafeComponent(info.device) /\ OpenOutput(info.device \o <<".", "dtso">>)
  THEN {[compatible |-> info.compatible, regs |-> info.regs, size |-> RegionSize(info)]}
  ELSE {}

-----------------------------------------------------------------------------
(* test-gen.                                                               *)

\* The label of a handler: its event, and what follows behind a blank.
HandlerLabel(event, extra) == IF extra = <<>> THEN event ELSE event \o <<"_">> \o extra

LabelOf(line, event) ==
  HandlerLabel(event, UpTo(From(line, Len(event) + 1, {" "}), 1, {" ", "{"}))

\* DriverLine that takes every line with an event for a handler.
DriverLineAnywhere(info, line) ==
  CASE Ignored(line) -> info
    [] BeginsWith(line, <<"driver", " ">>) -> [info EXCEPT !.driver = UpTo(line, 3, {" "})]
    [] Mentions(line, {"on", "write"}) /\ Len(info.handlers) < MaxHandlers ->
         [info EXCEPT !.handlers = Append(@, LabelOf(From(line, 3, {" "}),
                                                     UpTo(From(line, 3, {" "}), 1, {" "})))]
    [] OTHER -> info

\* One turn of the loop of parse_kdc.
DriverLine(info, line) ==
  CASE Ignored(line) -> info
    [] BeginsWith(line, <<"driver", " ">>) -> [info EXCEPT !.driver = UpTo(line, 3, {" "})]
    [] BeginsWith(line, <<"on", " ">>) /\ Len(info.handlers) < MaxHandlers ->
         [info EXCEPT !.handlers = Append(@, LabelOf(From(line, 3, {" "}),
                                                     UpTo(From(line, 3, {" "}), 1, {" "})))]
    [] OTHER -> info

ScanDriver(src) ==
  FoldLeft(LAMBDA i, l : DriverLine(i, Trim(l)), [driver |-> <<>>, handlers |-> <<>>],
           LinesOf(src))

\* is_safe_filename_component of testgen.c
SafeDriverName(name) ==
  /\ name # <<>> /\ ~Mentions(name, {"/", "\\"})
  /\ \A k \in 1 .. Len(name) - 1 : name[k] # "." \/ name[k + 1] # "."

\* What kdality test-gen writes: a test for each handler, in order.
TestGen(info) == IF SafeDriverName(info.driver) THEN {info.handlers} ELSE {}

=============================================================================
