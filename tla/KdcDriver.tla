------------------------------ MODULE KdcDriver ------------------------------
(***************************************************************************)
(* The tokens of a driver on their way through kdal_parse and through the  *)
(* dry run of kdality, whatever they are and whatever the dry run does     *)
(* with the tree.  KdcToolchain has the interpreter itself, and implements *)
(* this specification.                                                     *)
(***************************************************************************)
EXTENDS KdcParser, KdcRegisterTable

CONSTANTS
  NotRun,  \* what there is of a pass that has not been run
  MaxDepth   \* bound: how many levels of a tree are looked at

ASSUME MaxDepthAssumption == MaxDepth \in Nat

VARIABLES
  written,    \* the tokens of the file
  tree,       \* what kdal_parse returned
  simulated   \* the end of the simulation

driverVars == <<written, tree, simulated>>

\* Files, as kdal_lex splits them up.
IsFile(tokens) ==
  /\ tokens \in Seq(STRING)
  /\ tokens # <<>> /\ tokens[Len(tokens)] = "EOF"

DriverInit == IsFile(written) /\ tree = NotRun /\ simulated = NotRun

\* The file is written anew, before it is read.
Rewrite ==
  /\ tree = NotRun
  /\ IsFile(written')
  /\ UNCHANGED <<tree, simulated>>

Parse ==
  /\ tree = NotRun
  /\ tree' = ParseDriver(written)
  /\ UNCHANGED <<written, simulated>>

\* simulate_file stops at a syntax error.
DryRun ==
  /\ tree # NotRun /\ tree.ok
  /\ simulated = NotRun
  /\ simulated' # NotRun /\ IsSimulation(simulated')
  /\ UNCHANGED <<written, tree>>

DriverNext == Rewrite \/ Parse \/ DryRun

DriverSpec == DriverInit /\ [][DriverNext]_driverVars

-----------------------------------------------------------------------------
(* Whole trees.                                                            *)

\* How many children a statement of each kind has.
Arity(node) ==
  CASE node.type \in {"LET", "ASSIGN", "REG_WRITE", "WAIT", "ARM"} -> {2}
    [] node.type = "CANCEL" -> {1}
    [] node.type = "EMIT" -> {1, 2}
    [] node.type = "RETURN" -> {0, 1}
    [] node.type = "INVALID" -> {0}
    [] node.type = "IF" -> 2 .. Len(node.child)
    [] node.type = "FOR" -> 3 .. Len(node.child)
    [] OTHER -> 1 .. Len(node.child)

\* How many of its children, from the first on, have to be expressions.
Operands(node) ==
  CASE node.type = "IF" -> 1
    [] node.type = "FOR" -> 3
    [] OTHER -> Len(node.child)

\* The chains in which a node holds on to other nodes.
Chains(node) ==
  CASE node.type = "BINOP" -> {node.lhs, node.rhs}
    [] node.type = "UNOP" -> {node.operand}
    [] node.type = "READ" -> {node.read_path}
    [] node.type \in ExprTypes \ {"BINOP", "UNOP", "READ"} -> {}
    [] OTHER -> {node.child}

Members(chain) == {chain[k] : k \in DOMAIN chain}

Below(nodes) == UNION {UNION {Members(c) : c \in Chains(node)} : node \in nodes}

\* An operand is one node, an expression.
Operand(chain) == Len(chain) = 1 /\ chain[1].type \in ExprTypes

\* Nothing is missing right below a node.
Whole(node) ==
  IF node.type \in ExprTypes THEN \A c \in Chains(node) : Operand(c)
  ELSE /\ Len(node.child) \in Arity(node)
       /\ \A k \in 1 .. Operands(node) : node.child[k].type \in ExprTypes

\* The nodes of a chain, those right below them and so on.
Levels(chain) ==
  LET level[d \in 0 .. MaxDepth] == IF d = 0 THEN Members(chain) ELSE Below(level[d - 1])
  IN  level

\* Nothing is missing in a chain at any level.
WholeChain(chain) == \A d \in 0 .. MaxDepth : \A node \in Levels(chain)[d] : Whole(node)

\* kdal_parse hands on no tree with a missing operand: the emitter prints the
\* constant 0 for one and the simulator computes with 0, so a mistyped line
\* would drive the hardware without a word (parser.c parse_primary, p_expect).
AcceptedIsWhole ==
  tree # NotRun /\ tree.ok =>
    /\ WholeChain(tree.driver.probe)
    /\ WholeChain(tree.driver.remove)
    /\ \A k \in DOMAIN tree.driver.handlers :
         WholeChain(tree.driver.handlers[k].body)

-----------------------------------------------------------------------------
(* Dry runs.                                                               *)

\* No two entries of the table are for one register, but for names that others
\* are cut to.
EntriesUnique(s) ==
  \A j, k \in DOMAIN s.regs :
    s.regs[j].name = s.regs[k].name /\ s.regs[k].name \notin CutsIn(s) => j = k

\* Every entry has the value written last, or zero.
EntriesOutcome(s) ==
  \A k \in DOMAIN s.regs :
    s.regs[k].name \notin CutsIn(s) => s.regs[k].value = Outcome(s, s.regs[k].name)

\* A register that is written has an entry, one that is read too if there is room.
EntriesThere(s) ==
  \A k \in AccessesIn(s) :
    \/ s.trace[k][1] = "read" /\ Len(s.regs) = MaxVRegs
    \/ Entries(s, StoredName(s.trace[k][2])) # {}

\* A read returns what was written last before it, or zero; it never finds a
\* register whose name is cut.
ReadsRight(s) ==
  \A k \in AccessesIn(s) :
    LET name == s.trace[k][2]
    IN  s.trace[k][1] = "read" /\ name \notin CutsIn(s) =>
          s.trace[k][3] = IF name \in DOMAIN Cut THEN 0
                          ELSE ValueAfter(s, {j \in WritesTo(s, name) : j < k})

\* The table the simulator prints at its end is the outcome of the trace it
\* printed, and its reads are in order: every register stands in it once, at the
\* value written last, and is missing only if it was read when the table was
\* full.  This is so for names that fit into an entry and that no longer one is
\* cut to; a longer name has an entry too, perhaps many, and is read as zero
\* whatever was written to it (sim_reg_read, sim_reg_write).
TableMatchesTrace ==
  simulated # NotRun =>
    /\ EntriesUnique(simulated) /\ EntriesOutcome(simulated)
    /\ EntriesThere(simulated) /\ ReadsRight(simulated)

=============================================================================
