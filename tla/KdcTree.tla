------------------------------- MODULE KdcTree -------------------------------
(***************************************************************************)
(* The syntax tree of a .kdh file (src/compiler/include/ast.h): what the   *)
(* parser of kdalc begins each declaration with, and what a declaration is *)
(* in the end.                                                             *)
(***************************************************************************)
EXTENDS Integers, Sequences

CONSTANTS
  NoOffset,      \* UINT64_MAX, the offset of a register without one
  OffsetModulus  \* 2^64, where uint64_t wraps

ASSUME OffsetsAssumption == OffsetModulus \in Nat \ {0} /\ NoOffset \in 0 .. OffsetModulus - 1

\* NewRegister at offset 0.
NewRegisterAtZero(name) ==
  [name |-> name, width |-> 32, bitfield |-> FALSE, offset |-> 0,
   access |-> "rw", reset_val |-> <<>>, members |-> <<>>]

NewRegister(name) ==
  [name |-> name, width |-> 32, bitfield |-> FALSE, offset |-> NoOffset,
   access |-> "rw", reset_val |-> <<>>, members |-> <<>>]

NewMember(name) == [name |-> name, bit_lo |-> 0, bit_hi |-> 0, reset_val |-> <<>>]

NewSignal(name) == [name |-> name, dir |-> "in", trigger |-> "edge_rising", arg |-> <<>>]

NewDevice(name) ==
  [name |-> name, compatible |-> FALSE, class_type |-> "", registers |-> <<>>,
   signals |-> <<>>, capabilities |-> <<>>, power |-> <<>>, config |-> <<>>]

NoFile == [version |-> FALSE, imports |-> <<>>, backend |-> <<>>, device |-> <<>>,
           driver |-> <<>>]

IsSequence(s) == s \in Seq({s[k] : k \in DOMAIN s})

\* The width of a register in bits; a bitfield has none.
IsRegister(reg) ==
  /\ reg.width \in {0, 8, 16, 32, 64}
  /\ reg.bitfield = (reg.width = 0)
  /\ reg.offset \in 0 .. OffsetModulus - 1
  /\ IsSequence(reg.members)
  /\ \A k \in DOMAIN reg.members : {reg.members[k].bit_lo, reg.members[k].bit_hi} \subseteq Int

\* What the analysis of a device relies on.
IsDevice(dev) ==
  /\ \A decls \in {dev.registers, dev.signals, dev.capabilities, dev.config} : IsSequence(decls)
  /\ \A k \in DOMAIN dev.registers : IsRegister(dev.registers[k])

\* What kdal_parse returns; only a tree it returns without an error is used.
IsResult(result) ==
  result.ok => /\ IsSequence(result.file.device)
               /\ \A k \in DOMAIN result.file.device : IsDevice(result.file.device[k])

=============================================================================
