----------------------------- MODULE KdcSymbols -----------------------------
(***************************************************************************)
(* The first half of the semantic analysis of kdalc (src/compiler/sema.c): *)
(* the symbol table of a device class, names, offsets and bit ranges.  A   *)
(* result is what is counted and what is warned of; where the diagnostics  *)
(* point to is left out.                                                   *)
(***************************************************************************)
EXTENDS KdcTree, FiniteSets

CONSTANT SymtabMax  \* SYMTAB_MAX

ASSUME SymtabAssumption == SymtabMax \in Nat

NoSymbol == [name |-> "", kind |-> "none", access |-> "rw"]

\* symtab_push: what does not fit is dropped.
Push(symtab, name, kind, access) ==
  IF Len(symtab) >= SymtabMax THEN symtab
  ELSE Append(symtab, [name |-> name, kind |-> kind, access |-> access])

\* symtab_find: the first entry of that name.
Find(symtab, name) ==
  IF \E k \in DOMAIN symtab : symtab[k].name = name
  THEN symtab[CHOOSE k \in DOMAIN symtab :
                /\ symtab[k].name = name
                /\ \A j \in 1 .. k - 1 : symtab[j].name # name]
  ELSE NoSymbol

Known(symtab, name) == Find(symtab, name) # NoSymbol

-----------------------------------------------------------------------------
(* sema_populate_device.                                                   *)

\* The analysis so far: the symbols, the errors, and the warnings of overlaps.
NoAnalysis == [globals |-> <<>>, errors |-> 0, overlaps |-> {}]

\* ByteWidth in bits.
BitWidth(reg) == IF reg.width = 0 THEN 4 ELSE reg.width

\* A register without a width of its own, a bitfield, counts as 32 bits.
ByteWidth(reg) == IF reg.width = 0 THEN 4 ELSE reg.width \div 8

EndOffset(reg) == (reg.offset + ByteWidth(reg)) % OffsetModulus

Overlap(r, s) ==
  /\ NoOffset \notin {r.offset, s.offset}
  /\ r.offset < EndOffset(s) /\ s.offset < EndOffset(r)

InvertedMembers(reg) ==
  Cardinality({k \in DOMAIN reg.members : reg.members[k].bit_lo > reg.members[k].bit_hi})

\* The k-th register: a name that is taken ends its analysis.
CheckRegister(a, regs, k) ==
  IF Known(a.globals, regs[k].name) THEN [a EXCEPT !.errors = @ + 1]
  ELSE [globals  |-> Push(a.globals, regs[k].name, "register", regs[k].access),
        errors   |-> a.errors + InvertedMembers(regs[k]),
        overlaps |-> a.overlaps
                       \union {<<j, k>> : j \in {i \in 1 .. k - 1 : Overlap(regs[k], regs[i])}}]

\* The analysis after so many registers.
RegistersChecked(a, regs) ==
  LET after[k \in 0 .. Len(regs)] ==
        IF k = 0 THEN a ELSE CheckRegister(after[k - 1], regs, k)
  IN  after

CheckRegisters(a, regs) == RegistersChecked(a, regs)[Len(regs)]

\* CheckName that compares names of one kind only.
CheckNameSameKind(a, name, kind) ==
  IF Find(a.globals, name).kind = kind THEN [a EXCEPT !.errors = @ + 1]
  ELSE [a EXCEPT !.globals = Push(@, name, kind, "rw")]

\* A signal or a config field.
CheckName(a, name, kind) ==
  IF Known(a.globals, name) THEN [a EXCEPT !.errors = @ + 1]
  ELSE [a EXCEPT !.globals = Push(@, name, kind, "rw")]

NamesChecked(a, decls, kind) ==
  LET after[k \in 0 .. Len(decls)] ==
        IF k = 0 THEN a ELSE CheckName(after[k - 1], decls[k].name, kind)
  IN  after

CheckNames(a, decls, kind) == NamesChecked(a, decls, kind)[Len(decls)]

\* Of a second capability of a name there is only a warning.
AddCapability(a, name) == [a EXCEPT !.globals = Push(@, name, "capability", "rw")]

CapabilitiesAdded(a, caps) ==
  LET after[k \in 0 .. Len(caps)] ==
        IF k = 0 THEN a ELSE AddCapability(after[k - 1], caps[k].name)
  IN  after

AddCapabilities(a, caps) == CapabilitiesAdded(a, caps)[Len(caps)]

PopulateDevice(dev) ==
  CheckNames(
    AddCapabilities(
      CheckNames(CheckRegisters(NoAnalysis, dev.registers), dev.signals, "signal"),
      dev.capabilities),
    dev.config, "config")

Analysis(file) == IF file.device = <<>> THEN NoAnalysis ELSE PopulateDevice(file.device[1])

=============================================================================
