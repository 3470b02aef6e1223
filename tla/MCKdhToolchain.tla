--------------------------- MODULE MCKdhToolchain ---------------------------
(***************************************************************************)
(* Small headers and drivers for KdhToolchain, and every text of up to     *)
(* four pieces for the lexer.  LONG_MAX is 127, UINT64_MAX 255 and INT_MAX *)
(* 3; the tables hold two to five entries, so that they overflow.  Lint    *)
(* cuts the name L to B.                                                   *)
(***************************************************************************)
EXTENDS KdhToolchain

MCDigitValue == ("0" :> 0) @@ ("1" :> 1) @@ ("2" :> 2) @@ ("3" :> 3) @@ ("4" :> 4)
                  @@ ("6" :> 6) @@ ("8" :> 8) @@ ("b" :> 11)

MCIntValue == ("0x0" :> 0) @@ ("0x1" :> 1) @@ ("0x2" :> 2) @@ ("0x4" :> 4) @@ ("0x6" :> 6)
                @@ ("0x8" :> 8) @@ ("3" :> 3) @@ ("0b1" :> 1)

MCCut == "L" :> "B"

MCBinLits == {"0b1"}

MCWords == {"D", "U", "A", "B", "C", "L", "S", "T", "out", "inout", "register_map", "power_states",
            "compatible", "dtso", "gpio", "s"}

\* out, register_map and others are words that the parser knows by their text.
MCIdents == (MCWords \ {"dtso", "s"}) \union {"x"}

Hex(d) == <<"0", "x", d>>

MCGlyphs ==
  ("0x0" :> Hex("0")) @@ ("0x1" :> Hex("1")) @@ ("0x2" :> Hex("2")) @@ ("0x4" :> Hex("4"))
    @@ ("0x6" :> Hex("6")) @@ ("0x8" :> Hex("8")) @@ ("0b1" :> <<"0", "b", "1">>)
    @@ ("STRING" :> <<"\"", "s", "\"">>) @@ (".." :> <<".", ".">>)
    @@ ("//" :> <<"/", "/">>) @@ ("/*" :> <<"/", "*">>) @@ ("*/" :> <<"*", "/">>)

-----------------------------------------------------------------------------
(* Scraps.                                                                 *)

Scrap(pieces) == [kind |-> "scrap", text |-> pieces]

ScrapPieces == {"0", "1", "b", "x", "in", " ", "\n", "/", "*", "\"", "\\", "."}

\* Longer ones: comments, numbers that do not fit, and runs of punctuators.
LongScraps ==
  {<<"/", "*">> \o s \o <<"*", "/", "x">> : s \in [1 .. 3 -> {"*", "/", "\n"}]}
    \union {<<"0", "x">> \o s : s \in [1 .. 3 -> {"0", "8", "b"}]}
    \union {<<"0", "b">> \o s : s \in [1 .. 4 -> {"0", "1", "2"}]}
    \union {<<p, q, "=">> : p, q \in {"=", "!", "<", ">", "-", "&", "|", "."}}

MCScraps ==
  {Scrap(s) : s \in UNION {[1 .. n -> ScrapPieces] : n \in 1 .. 3} \union LongScraps}

-----------------------------------------------------------------------------
(* Headers.                                                                *)

Reg(name, offset, access) ==
  [NewRegister(name) EXCEPT !.offset = offset, !.access = access]

Lit(n) == <<IntLiteral(n)>>

Sig(name, dir, trigger, arg) ==
  [NewSignal(name) EXCEPT !.dir = dir, !.trigger = trigger, !.arg = arg]

Cap(name, value) == [name |-> name, value |-> value]
Power(name, spec) == [name |-> name, spec |-> spec]
Config(name, default, lo, hi) ==
  [name |-> name, type |-> "u8", default_val |-> default, lo |-> lo, hi |-> hi]

Device(regs, sigs, caps, power, config) ==
  [NewDevice("D") EXCEPT !.registers = regs, !.signals = sigs, !.capabilities = caps,
                         !.power = power, !.config = config]

Header(dev, simplified) == [kind |-> "header", device |-> dev, simplified |-> simplified]

Offsets == {NoOffset, 0, 2, 4}

\* Registers in the compact form, with signals behind them.
CompactHeaders ==
  {Header([Device(<<Reg("A", i, a), Reg("B", j, "wo"), Reg(c, 8, "rc")>>,
                  sigs, <<Cap("T", Lit(1))>>, <<Power("on", "none")>>, <<>>)
             EXCEPT !.compatible = com, !.class_type = "gpio"], TRUE) :
     i, j \in Offsets, a \in {"ro"}, c \in {"A", "C"}, com \in BOOLEAN,
     sigs \in {<<>>, <<Sig("S", "in", "edge_rising", <<>>)>>,
               <<Sig("S", "in", "level_high", <<>>), Sig("T", "out", "completion", <<>>),
                 Sig("U", "inout", "edge_any", <<>>)>>}}

Scalars(name) ==
  {[Reg(name, o, "rw") EXCEPT !.width = w, !.reset_val = r] :
     o \in {NoOffset, 0, 2}, w \in {8, 32, 64}, r \in {<<>>, Lit(1)}}

Member(name, lo, hi, reset) ==
  [NewMember(name) EXCEPT !.bit_lo = lo, !.bit_hi = hi, !.reset_val = reset]

Bitfields(name) ==
  {[Reg(name, o, "ro") EXCEPT !.bitfield = TRUE, !.width = 0, !.members = ms] :
     o \in {NoOffset, 0, 4},
     ms \in {<<>>, <<Member("S", 1, 1, <<>>), Member("T", 0, 3, Lit(1))>>,
             <<Member("S", 3, 0, <<>>)>>, <<Member("S", 0, 4, <<>>)>>}}

StructuredHeaders ==
  {Header(Device(<<r, q>>, <<>>, <<>>, <<>>, <<>>), FALSE) :
     r \in Scalars("A"), q \in Scalars("B") \union Bitfields("B")}
  \union
  {Header(Device(<<Reg("A", 0, "rw")>>, <<Sig("S", d, t[1], t[2])>>,
                 <<Cap("T", v)>>, <<Power("suspend", p)>>, <<Config(c, v, l, h)>>), FALSE) :
     d \in {"in", "out", "inout"}, p \in {"none", "allowed"}, v \in {<<>>, Lit(1)},
     t \in {<<"edge_falling", <<>>>>, <<"level_low", <<>>>>, <<"completion", <<>>>>,
            <<"timeout", Lit(4)>>},
     c \in {"A", "C", "S"}, l \in {Lit(0)}, h \in {Lit(8)}}

\* More names than the symbol table holds.
FullHeaders ==
  {Header(Device(<<Reg("A", 0, "ro"), Reg("B", 4, "rw")>>,
                 <<Sig("S", "in", "edge_any", <<>>), Sig("U", "in", "edge_any", <<>>)>>
                   \o more,
                 <<Cap("T", Lit(1)), Cap(c, Lit(1))>>, <<>>, <<Config(f, Lit(1), <<>>, <<>>)>>),
          FALSE) :
     more \in {<<>>, <<Sig("C", "out", "edge_any", <<>>)>>},
     c, f \in {"C", "D", "S", "T"}}

\* Headers to be mistyped.
SlipHeaders ==
  {Header(Device(<<Reg("A", 0, "ro"), Reg("B", NoOffset, "rw"), Reg("C", 4, "wo")>>,
                 <<Sig("S", "in", "edge_rising", <<>>)>>, <<>>, <<>>, <<>>), TRUE),
   Header(Device(<<[Reg("A", 0, "ro") EXCEPT !.width = 16],
                   [Reg("B", 2, "ro") EXCEPT !.bitfield = TRUE, !.width = 0,
                      !.members = <<Member("S", 0, 3, Lit(1))>>]>>,
                 <<>>, <<>>, <<>>, <<Config("A", Lit(1), <<>>, <<>>)>>), FALSE)}

MCEditTokens == {"{", "}", ";", ":", "@", "0x4", "0b1", "A", "B", "ro", "registers", "signals",
                 "//", "/*", "*/", "\""}

MCHeaders == CompactHeaders \union StructuredHeaders \union FullHeaders \union SlipHeaders

-----------------------------------------------------------------------------
(* Drivers.                                                                *)

DriverDevice(a, b, c) ==
  Device(<<Reg("A", 0, a), Reg("B", 4, b), Reg("C", 8, c)>>, <<>>, <<>>, <<>>, <<>>)

StatementsOf(S) ==
  {[op |-> o, to |-> r] : o \in {"write", "assign"}, r \in S}
    \union {[op |-> "read", from |-> r] : r \in S}
    \union {[op |-> o, to |-> rq[1], from |-> rq[2]] :
              o \in {"copy", "guard"}, rq \in {p \in S \X S : p[1] # p[2]}}

Block2(word, body) == [word |-> word, body |-> body]

MCBlocks ==
  {<<Block2("probe", <<s>>), Block2("write", <<t>>)>> :
     s, t \in StatementsOf({"A", "B"})}
  \union UNION {{<<Block2("remove", <<s>>), Block2("read", <<>>), Block2("power", <<>>),
                   Block2("timeout", <<s>>)>>,
                 <<Block2("remove", <<>>), Block2("signal", <<>>), Block2("power", <<s, s>>),
                   Block2("timeout", <<>>)>>} : s \in StatementsOf({"A", "C"})}

\* A read-only register with a long name, and one that its name is cut to.
LongNameDevice ==
  Device(<<Reg("A", 0, "wo"), Reg("L", 4, "ro"), Reg("B", 8, "rw")>>, <<>>, <<>>, <<>>, <<>>)

DriverOf(device, import, blocks) ==
  [kind |-> "driver", device |-> device, simplified |-> TRUE, import |-> import,
   blocks |-> blocks]

MCDrivers ==
  {DriverOf(DriverDevice(d[1], d[2], "wo"), d[3], bs) :
     d \in {<<"ro", "rw", TRUE>>, <<"wo", "ro", TRUE>>, <<"ro", "wo", FALSE>>}, bs \in MCBlocks}
  \union {DriverOf(LongNameDevice, TRUE, <<Block2("probe", <<s, t>>)>>) :
            s, t \in StatementsOf({"B", "L"})}

MCSources == MCScraps \union MCHeaders \union MCDrivers

=============================================================================
