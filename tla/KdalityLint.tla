----------------------------- MODULE KdalityLint -----------------------------
(***************************************************************************)
(* kdality lint (src/tools/kdality/lint.c) on a syntax tree of kdalc.      *)
(* A warning is its code and the name it is about; its line and wording    *)
(* are left out.  The names of the registers are stored cut, and compared  *)
(* with whole names (KdalityNames).                                        *)
(***************************************************************************)
EXTENDS KdcSema, KdalityNames, SequencesExt

CONSTANTS
  LintRegs,   \* MAX_REGS
  MaxWarns,   \* MAX_WARNS
  MagicMax,   \* 0xFF
  Strict      \* whether --strict is given

\* struct lint_ctx: the registers with their modes, and those marked as used.
NoLint == [warnings |-> <<>>, regs |-> <<>>, used |-> {}, rc |-> 0]

\* emit_warning: what does not fit is dropped.
Warn(ctx, code, name) ==
  IF Len(ctx.warnings) >= MaxWarns THEN ctx
  ELSE [ctx EXCEPT !.warnings = Append(@, <<code, name>>)]

WarnIf(cond, ctx, code, name) == IF cond THEN Warn(ctx, code, name) ELSE ctx

\* lint_parse_file gave no tree.
Unparsed(ctx) == [Warn(ctx, "E001", "") EXCEPT !.rc = -1]

-----------------------------------------------------------------------------
(* Headers.                                                                *)

Mode(reg) == IF reg.access \in {"ro", "wo"} THEN reg.access ELSE "rw"

LoadRegister(ctx, reg) ==
  IF Len(ctx.regs) >= LintRegs THEN ctx
  ELSE [ctx EXCEPT !.regs = Append(@, [name |-> StoredName(reg.name), mode |-> Mode(reg)])]

LoadDevice(ctx, dev) ==
  FoldLeft(LoadRegister, WarnIf(Strict /\ ~dev.compatible, ctx, "W010", ""), dev.registers)

\* lint_kdh; what kdal_sema reports goes to stderr and is not counted.
LintKdh(ctx, parsed) ==
  CASE ~parsed.ok -> Unparsed(ctx)
    [] parsed.ok /\ parsed.file.device = <<>> -> Warn(ctx, "E001", "")
    [] OTHER -> LoadDevice(ctx, parsed.file.device[1])

-----------------------------------------------------------------------------
(* Statements: lint_walk_stmts.                                            *)

\* LastPart that takes the namespace for the register.
FirstPart(expr) == expr.parts[1]

LastPart(expr) == expr.parts[Len(expr.parts)]

\* The registers of that name are used, and a warning for each in that mode.
Touch(ctx, name, mode, code) ==
  FoldLeftDomain(
    LAMBDA c, i :
      IF c.regs[i].name # name THEN c
      ELSE WarnIf(c.regs[i].mode = mode, [c EXCEPT !.used = @ \union {i}], code, name),
    ctx, ctx.regs)

IsPath(chain) == chain # <<>> /\ chain[1].type = "REG_PATH"

WriteCheck(ctx, child) ==
  IF IsPath(child) THEN Touch(ctx, LastPart(child[1]), "ro", "W003") ELSE ctx

\* A literal that is written.
MagicCheck(ctx, child) ==
  WarnIf(/\ Strict /\ Len(child) > 1
         /\ child[2].type = "LITERAL_INT" /\ child[2].ival > MagicMax, ctx, "W009", "")

RegWriteCheck(ctx, stmt) ==
  IF stmt.type # "REG_WRITE" THEN ctx
  ELSE MagicCheck(WriteCheck(ctx, stmt.child), stmt.child)

\* A read is looked for in the child of its node; the parser keeps its operand
\* elsewhere (u.read_path).
ReadCheck(ctx, node) ==
  IF node.type = "READ" /\ IsPath(ChildOf(node))
  THEN Touch(ctx, LastPart(ChildOf(node)[1]), "wo", "W004")
  ELSE ctx

RECURSIVE Walk(_, _)
Walk(ctx, chain) ==
  FoldLeft(LAMBDA c, stmt :
             Walk(FoldLeft(ReadCheck, RegWriteCheck(c, stmt), ChildOf(stmt)), ChildOf(stmt)),
           ctx, chain)

-----------------------------------------------------------------------------
(* Drivers.                                                                *)

MissingBlocks(ctx, file, drv) ==
  WarnIf("remove" \in drv.has /\ drv.remove = <<>>,
    WarnIf("probe" \in drv.has /\ drv.probe = <<>>,
      WarnIf("remove" \notin drv.has,
        WarnIf("probe" \notin drv.has,
          WarnIf(file.imports = <<>>, ctx, "W006", ""), "W001", ""), "W002", ""), "W005", ""),
    "W005", "")

HandlerCheck(ctx, h) == IF h.body = <<>> THEN Warn(ctx, "W005", "") ELSE Walk(ctx, h.body)

PowerCheck(ctx, handlers) ==
  WarnIf(Strict /\ \A k \in DOMAIN handlers : handlers[k].evt # "power", ctx, "W008", "")

UnusedRegisters(ctx) ==
  FoldLeftDomain(LAMBDA c, i : WarnIf(i \notin c.used, c, "W007", c.regs[i].name),
                 ctx, ctx.regs)

LintDriver(ctx, drv) ==
  UnusedRegisters(
    Walk(Walk(PowerCheck(FoldLeft(HandlerCheck, ctx, drv.handlers), drv.handlers),
              drv.probe), drv.remove))

\* The headers that are imported by a path; whether they could be read is ignored.
LoadImports(ctx, imports, header) ==
  [FoldLeft(LAMBDA c, has_path : IF has_path THEN LintKdh(c, header) ELSE c, ctx, imports)
     EXCEPT !.rc = 0]

\* lint_kdc of a file whose imports are all of one header.
LintKdc(parsed, header) ==
  CASE ~parsed.ok -> Unparsed(NoLint)
    [] parsed.ok /\ parsed.file.driver = <<>> ->
         Warn(LoadImports(NoLint, parsed.file.imports, header), "E001", "")
    [] OTHER ->
         LintDriver(MissingBlocks(LoadImports(NoLint, parsed.file.imports, header),
                                  parsed.file, parsed.file.driver[1]),
                    parsed.file.driver[1])

=============================================================================
