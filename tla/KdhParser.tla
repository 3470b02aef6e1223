------------------------------ MODULE KdhParser ------------------------------
(***************************************************************************)
(* The rest of the parser of kdalc (src/compiler/parser.c): whole files,   *)
(* and the device class of a .kdh file.  A declaration under construction  *)
(* is the record in `out', its list of children a sequence in the record.  *)
(***************************************************************************)
EXTENDS KdcParser, KdcTree

CONSTANTS
  BinLits,    \* the binary literals: numbers, but not where an offset is read
  IntModulus  \* 2^32, where an int wraps

ASSUME IntAssumption == IntModulus \in Nat \ {0}

\* A semicolon is itself.  A number is worth what its own digits say, but for the
\* exceptions that NumbersRead makes, and LLONG_MAX is below 2^64.
ASSUME LiteralsAssumption ==
  /\ ";" \notin Idents \union DOMAIN IntValue
  /\ \A t \in DOMAIN IntValue \ BinLits : IntValue[t] \in 0 .. OffsetModulus - 1

\* A name with a meaning that is not a keyword: p_is_ident.
IsIdent(p, name) == Is(p, "IDENT") /\ Cur(p) = name

\* What a HEX or an INT token may stand for.
IsNumber(p) == Is(p, "INT") /\ Cur(p) \in DOMAIN IntValue \ BinLits

Field(p, f, v) == Give(p, [p.out EXCEPT ![f] = v])

\* The chain that a call at the cursor returns, as field f.
Into(p, f, c) == LET q == Returned(p, c) IN Give(q, [p.out EXCEPT ![f] = q.out])

ExprField(p, f) == Into(p, f, <<"expr", 1>>)

\* The number at the cursor, if there is one, as field f.
NumberField(p, f) == IF IsNumber(p) THEN Advance(Field(p, f, IntValue[Cur(p)])) ELSE p

\* A chain of the one declaration that was read.
AsChain(p) == Give(p, <<p.out>>)

-----------------------------------------------------------------------------
(* Registers.                                                              *)

\* parse_access: rw, when there is no qualifier.
Access(p) ==
  IF Cur(p) \in {"ro", "wo", "rw", "rc"} THEN Advance(Field(p, "access", Cur(p)))
  ELSE Field(p, "access", "rw")

ResetValue(p) == IF Is(p, "=") THEN ExprField(Advance(p), "reset_val") ELSE p

AtOffset(p) == IF Is(p, "@") THEN NumberField(Advance(p), "offset") ELSE p

\* (int) of a number.
AsInt(n) ==
  LET low == n % IntModulus IN IF 2 * low < IntModulus THEN low ELSE low - IntModulus

BitNumber(p, f) ==
  IF IsNumber(p) THEN Advance(Field(p, f, AsInt(IntValue[Cur(p)]))) ELSE p

\* The second bound of a bit range.
BitHigh(p) == IF Is(p, "..") THEN BitNumber(Advance(p), "bit_hi") ELSE p

\* BitRange that leaves the upper bound of a single bit at 0.
BitRangeLow(p) == IF IsNumber(p) THEN BitHigh(BitNumber(p, "bit_lo")) ELSE p

\* A single bit, or a range of bits.
BitRange(p) ==
  IF IsNumber(p)
  THEN BitHigh(BitNumber(Field(p, "bit_hi", AsInt(IntValue[Cur(p)])), "bit_lo"))
  ELSE p

BitMember(p) ==
  Expect(ResetValue(BitRange(Expect(Advance(Give(p, NewMember(Cur(p)))), ":"))), ";")

BitMembers(p) == IF Is(p, "IDENT") THEN Then(AsChain(BitMember(p)), <<"bits">>) ELSE p

\* Bitfield that keeps the width of a scalar.
BitfieldOfWidth(p) ==
  Expect(Expect(Into(Expect(Access(AtOffset(Advance(
    Field(p, "bitfield", TRUE)))), "{"), "members", <<"bits">>), "}"), ";")

Bitfield(p) ==
  Expect(Expect(Into(Expect(Access(AtOffset(Advance(
    Field(Field(p, "bitfield", TRUE), "width", 0)))), "{"), "members", <<"bits">>), "}"), ";")

WidthOf == [u8 |-> 8, u16 |-> 16, u32 |-> 32, u64 |-> 64]

ScalarWidth(p) ==
  IF Cur(p) \in DOMAIN WidthOf THEN Advance(Field(p, "width", WidthOf[Cur(p)]))
  ELSE [p EXCEPT !.had_error = TRUE]

Scalar(p) == Expect(ResetValue(Access(AtOffset(ScalarWidth(p)))), ";")

Structured(p) == IF Is(p, "bitfield") THEN Bitfield(p) ELSE Scalar(p)

Compact(p) == Expect(Access(NumberField(p, "offset")), ";")

\* The declaration behind its name.
AfterName(p, simplified) ==
  IF simplified \/ ~Is(p, ":") THEN Compact(p) ELSE Structured(Advance(p))

RegisterDecl(p, simplified) ==
  AfterName(Advance(Give(p, NewRegister(Cur(p)))), simplified)

-----------------------------------------------------------------------------
(* Signals, capabilities, power states and config fields.                  *)

Direction(p) ==
  CASE Is(p, "in") -> Advance(Field(p, "dir", "in"))
    [] IsIdent(p, "out") -> Advance(Field(p, "dir", "out"))
    [] IsIdent(p, "inout") -> Advance(Field(p, "dir", "inout"))
    [] OTHER -> p

\* word ( kind ): a kind that is not known leaves the trigger as it is.
TriggerKind(p, kinds) ==
  Expect(Advance(IF Cur(p) \in DOMAIN kinds THEN Field(p, "trigger", kinds[Cur(p)])
                 ELSE p), ")")

EdgeKinds  == [rising |-> "edge_rising", falling |-> "edge_falling", any |-> "edge_any"]
LevelKinds == [high |-> "level_high", low |-> "level_low"]

Trigger(p) ==
  CASE Is(p, "edge") -> TriggerKind(Expect(Advance(p), "("), EdgeKinds)
    [] Is(p, "level") -> TriggerKind(Expect(Advance(p), "("), LevelKinds)
    [] Is(p, "completion") -> Advance(Field(p, "trigger", "completion"))
    [] Is(p, "timeout") ->
         Expect(ExprField(Expect(Advance(Field(p, "trigger", "timeout")), "("), "arg"), ")")
    [] OTHER -> p

SignalDecl(p) ==
  Expect(IF Is(Advance(p), ":")
         THEN Trigger(Direction(Advance(Advance(Give(p, NewSignal(Cur(p)))))))
         ELSE Advance(Give(p, NewSignal(Cur(p)))), ";")

CapabilityValue(p) ==
  CASE Is(p, "=") -> ExprField(Advance(p), "value")
    [] Is(p, ";") -> p
    [] OTHER -> ExprField(p, "value")

CapabilityDecl(p) ==
  Expect(CapabilityValue(Advance(Give(p, [name |-> Cur(p), value |-> <<>>]))), ";")

IsPowerStateName(p) == Cur(p) \in {"on", "off", "suspend", "default"} \/ Is(p, "IDENT")

PowerSpec(p, simplified) ==
  IF ~simplified /\ Is(p, ":") THEN Advance(Field(Advance(p), "spec", Peek(p, 1))) ELSE p

PowerStateDecl(p, simplified) ==
  Expect(PowerSpec(Advance(Give(p, [name |-> Cur(p), spec |-> "none"])), simplified), ";")

\* Any token is taken for the type.
ConfigType(p) == Advance(Field(Expect(p, ":"), "type", Cur(Expect(p, ":"))))

DefaultValue(p) == IF Is(p, "=") THEN ExprField(Advance(p), "default_val") ELSE p

ConfigRange(p) ==
  IF Is(p, "in") THEN ExprField(Expect(ExprField(Advance(p), "lo"), ".."), "hi") ELSE p

ConfigField(p) ==
  Expect(ConfigRange(DefaultValue(ConfigType(Advance(Give(p,
    [name |-> Cur(p), type |-> "", default_val |-> <<>>, lo |-> <<>>, hi |-> <<>>]))))), ";")

-----------------------------------------------------------------------------
(* The body of a device class: blocks of declarations.                     *)

BlockKinds == {"registers", "signals", "capabilities", "power", "config"}

\* Whether a declaration of a block begins at the cursor.
Begins(p, kind) == IF kind = "power" THEN IsPowerStateName(p) ELSE Is(p, "IDENT")

Declaration(p, kind, simplified) ==
  CASE kind = "registers" -> RegisterDecl(p, simplified)
    [] kind = "signals" -> SignalDecl(p)
    [] kind = "capabilities" -> CapabilityDecl(p)
    [] kind = "power" -> PowerStateDecl(p, simplified)
    [] kind = "config" -> ConfigField(p)

\* The declarations up to the closing brace; what is none is skipped token by
\* token, without an error.
Declarations(p, kind, simplified) ==
  CASE Cur(p) \in {"}", "EOF"} -> p
    [] Cur(p) \notin {"}", "EOF"} /\ Begins(p, kind) ->
         Then(AsChain(Declaration(p, kind, simplified)), <<"decls", kind, simplified>>)
    [] OTHER -> Returned(Advance(p), <<"decls", kind, simplified>>)

Part(field, value) == [field |-> field, value |-> value]

\* The declarations that end at p, as a part.
EndOfBlock(p, kind) == Expect(Give(p, <<Part(kind, p.out)>>), "}")

\* word { declarations }
DeclarationBlock(p, kind, simplified) ==
  EndOfBlock(Returned(Expect(Advance(p), "{"), <<"decls", kind, simplified>>), kind)

\* class type;
ClassType(p) ==
  Expect(Advance(IF Is(p, "IDENT") THEN Give(p, <<Part("class_type", Cur(p))>>) ELSE p), ";")

\* compatible "...";
Compatible(p) ==
  Expect(Advance(IF Is(p, "STRING") THEN Give(p, <<Part("compatible", TRUE)>>) ELSE p), ";")

\* One member of the body, or a token that is skipped.
DeviceMember(p) ==
  CASE Is(p, "class") -> ClassType(Advance(p))
    [] IsIdent(p, "compatible") -> Compatible(Advance(p))
    [] Is(p, "registers") \/ IsIdent(p, "register_map") ->
         DeclarationBlock(p, "registers", IsIdent(p, "register_map"))
    [] Is(p, "signals") -> DeclarationBlock(p, "signals", FALSE)
    [] Is(p, "capabilities") -> DeclarationBlock(p, "capabilities", FALSE)
    [] Is(p, "power") \/ IsIdent(p, "power_states") ->
         DeclarationBlock(p, "power", IsIdent(p, "power_states"))
    [] Is(p, "config") -> DeclarationBlock(p, "config", FALSE)
    [] OTHER -> Advance(p)

\* parse_device_class_body.
DeviceBody(p) ==
  IF Cur(p) \in {"}", "EOF"} THEN p ELSE Then(DeviceMember(p), <<"parts">>)

PartsFor(parts, f) == {k \in DOMAIN parts : parts[k].field = f}

\* The device with its parts: a later one replaces an earlier one.
WithParts(dev, parts) ==
  [f \in DOMAIN dev |->
     IF PartsFor(parts, f) = {} THEN dev[f]
     ELSE LET k == CHOOSE k \in PartsFor(parts, f) :
                     \A j \in PartsFor(parts, f) : j <= k
          IN  parts[k].value]

-----------------------------------------------------------------------------
(* Whole files: kdal_parse.                                                *)

VersionText(p) ==
  Expect(IF Is(p, "STRING") THEN Advance(Field(p, "version", TRUE)) ELSE p, ";")

\* kdal_version : "...";
VersionDecl(p) ==
  IF Is(p, "kdal_version") THEN VersionText(Expect(Advance(p), ":")) ELSE p

OptionalString(p) == IF Is(p, "STRING") THEN Advance(p) ELSE p

\* as name
Alias(p) ==
  CASE ~Is(p, "as") -> p
    [] Is(p, "as") /\ TokenType(Peek(p, 1)) = "IDENT" -> Advance(Advance(p))
    [] OTHER -> Advance(p)

\* import "..." as name;
ImportDecls(p) ==
  IF ~Is(p, "import") THEN p
  ELSE Then(Expect(Alias(OptionalString(Advance(
              Give(p, <<TokenType(Peek(p, 1)) = "STRING">>)))), ";"), <<"imports">>)

\* key : expr ;
BackendOptions(p) ==
  IF ~Is(p, "IDENT") THEN p
  ELSE Returned(Expect(Expr(Expect(Advance(p), ":")), ";"), <<"options">>)

OptionBlock(p) ==
  IF Is(p, "{") THEN Expect(Give(Returned(Advance(p), <<"options">>), p.out), "}") ELSE p

\* backend name { options }
BackendDecl(p) ==
  IF ~Is(p, "backend") THEN p
  ELSE OptionBlock(Advance(Advance(Field(p, "backend", <<Peek(p, 1)>>))))

DeviceName(p) == IF Is(p, "class") THEN Advance(p) ELSE p

EndOfDevice(dev, body, file) ==
  Expect(Give(body, [file EXCEPT !.device = <<WithParts(dev, body.out)>>]), "}")

\* device [class] name { body }, p.out being the file.
DeviceAt(p, name) ==
  EndOfDevice(NewDevice(Cur(name)),
              Returned(Expect(Advance(name), "{"), <<"parts">>), p.out)

EndOfDriverAt(body, file) ==
  Expect(Give(body, [file EXCEPT !.driver = <<body.out>>]), "}")

\* driver name for class { body }
DriverAt(p) ==
  EndOfDriverAt(DriverBody(Expect(ForClass(Advance(Advance(p))), "{")), p.out)

\* A device, a driver or neither; nothing behind it is looked at.
Definition(p) ==
  CASE Is(p, "device") -> DeviceAt(p, DeviceName(Advance(p)))
    [] Is(p, "driver") -> DriverAt(p)
    [] OTHER -> p

\* The calls of a header that are made of a later position.
HeaderCalls ==
  {<<"bits">>, <<"parts">>, <<"imports">>, <<"options">>}
    \union {<<"decls", kind, simplified>> : kind \in BlockKinds, simplified \in BOOLEAN}

HeaderCall(p, c) ==
  CASE c[1] = "bits" -> BitMembers(p)
    [] c[1] = "decls" -> Declarations(p, c[2], c[3])
    [] c[1] = "parts" -> DeviceBody(p)
    [] c[1] = "imports" -> ImportDecls(p)
    [] c[1] = "options" -> BackendOptions(p)

\* What each call makes of the tokens from each position on.
FileParses(tokens) ==
  LET from[i \in DOMAIN tokens] ==
        [c \in Calls \union HeaderCalls |->
           IF c \in Calls THEN Parses(tokens)[i][c]
           ELSE HeaderCall(ParserAt(tokens, i, [j \in i + 1 .. Len(tokens) |-> from[j]]), c)]
  IN  from

FileStart(tokens) == Give(ParserAt(tokens, 1, FileParses(tokens)), NoFile)

EndOfFile(p) == [ok |-> ~p.had_error, file |-> p.out, pos |-> p.pos]

ParseFile(tokens) ==
  EndOfFile(Definition(BackendDecl(
    Into(VersionDecl(FileStart(tokens)), "imports", <<"imports">>))))

=============================================================================
