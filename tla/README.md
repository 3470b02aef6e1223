# Formal models of KDAL

TLA+ models of the Kernel Device Abstraction Layer: modules, TLC
configurations that check them on small instances, and proofs checked by TLAPS
for every value of the constants. Paths are relative to the repository.
`PROJECT.json` lists, for machines, the components, the runs, the source lines
of every definition, the mutants that show each property can fail, the hazards
and the theorems.

## The system

KDAL is an out-of-tree Linux module (`src/core`, `src/backends`,
`src/drivers/example`, about 3000 lines of C) and a tool chain for driver
descriptions (`compiler/`, `tools/kdality/`, about 5700 lines of C).

    process --- read/write/ioctl ---> chardev.c ---> driver ops (uart, i2c, spi, gpu)
                                        |  |             |
                        select, list    |  | power.c     | backend ops
                                        v  v             v
                 kdal.c (init/exit)  registry.c       qemubackend.c (one ring per device)
                        |               ^  ^             platdev.c (device tree devices)
                        |               |  +-- devicetree.c, demand.c, debugfs.c
                        +-- event.c <---+---- every driver init/exit, power changes

| Component | State | Operations | Hard behaviour |
|---|---|---|---|
| Event log, `event.c` | 256 slots, wrapping write counter, unpolled count, mutex | emit, poll, shutdown | wrap of the array and of the 32-bit counter, overwriting when full, stale slots after a shutdown |
| Registry, `registry.c` | three circular lists embedded in the objects, mutex | register, unregister, find, iterate, snapshot | duplicate registration, objects never linked, memory freed by the owner |
| QEMU ring, `qemubackend.c` | per device: array, two wrapping counters, count, spinlock | alloc, free, read, write | several threads, several bytes per transfer, full and empty ring |
| Core lifecycle, `kdal.c`, `module.c`, `devicetree.c`, `socglue.c` | everything the module has acquired | ten init functions, a ladder of exit functions, rmmod | failure at any step, order of teardown, events per device |
| Device file, `chardev.c` | per open file: the selected device | open, release, select, read, write, set power, list, info | devices that appear and are attached while processes use the file |
| Power, `power.c` | `power_state` of a device | set power | three steps without a lock |
| Drivers, `drivers/example/*.c` | binding, private state, ring of one device each | probe, remove, read, write, ioctl, power, init, exit | copies to a process that fail half way, statistics without a lock |
| Debugfs, demand, platform backend, virtio helpers | directory; text; registration; a virtqueue | read-only files; formatting; I/O; submit and wait | truncation; completions of another transfer |
| kdalc: lexer, parser, sema, codegen | tokens, arena, AST, symbol table | one pass each | child chains of `if`, limits of tables, access checks |
| kdality: simulate, lint, kdalctl, init, test-gen, dt-gen | register file, rule tables | sub-commands | simulator and generated code must agree |

What makes the components correct, in one line each: the event log is a FIFO of
the most recent events; the registry is three ordered lists without duplicate
names; the ring is a byte stream whose transfers are indivisible; whatever
fails, initialisation gives back all it took, in reverse order; a device a
process has selected stays registered; no byte is lost or duplicated unless the
process's buffer faults; the compiler's passes agree on the shape of the tree
and the simulator with the generated code.

## Modules

| Module | Models | Checked by |
|---|---|---|
| `EventQueue` | abstract: bounded FIFO of unpolled events | |
| `EventLog` | `event.c`: `log`, `head`, `count` are its three static variables, `reply` what the last poll returned; one action per function and way out, since each function holds the mutex throughout | run `gpu_accel`, `EventLogProofs` |
| `GpuAccel` | the accelerator operations of `gpudriver.c` on top of the event log: `tracked` and `submits` are the counts of `struct gpu_state`, `live` what its callers hold; a submission is the load and the store of `submit_count++`, the second read after the backend's write, and the event | run `gpu_accel`, `EventLogProofs` |
| `RegistryLists` | abstract: ordered lists with unique names | |
| `Registry` | `registry.c` with the `next`/`prev` pointers of every node; the list primitives are those of `linux/list.h`; `status` is what the owner of an object believes, `fault` a NULL pointer followed | run `registry`, `RegistryProofs` |
| `ByteStream` | abstract: bounded byte stream with indivisible transfers | |
| `QemuRing` | `qemubackend.c`: one step per byte, one for the lock, one for the unlock and return | run `qemu_ring`, `QemuRingProofs` |
| `CoreLifecycle` | `kdal_core_init`, `kdal_core_exit` and the init and exit functions they call; `step` is the call of the present phase that is at hand, `at` the place in it, `ErrLabel` the gotos; `held` maps what is acquired to the time of its acquisition | runs `core_lifecycle`, `scan_failure`, `CoreLifecycleProofs` |
| `DeviceIO` | processes on the device file against the loader: `fd` is each file's selection, `pc`/`call`/`kbuf` the call it is in | run `device_io`, `DeviceIOProofs` |
| `KdcParser` | `parser.c` from the tokens to the tree of a driver block: `kdal_ast_t *` is the sequence of nodes reached through `next`; the calls of parse functions are a recursive function of the position they begin at | all runs of the tools, `KdcParserProofs` |
| `KdalityNames` | register names in the tables of `simulate.c` and `lint.c`: an entry keeps 63 characters of a name and is compared with whole names; `Cut` are the names that do not fit, with what is left of each | runs `kdc_toolchain`, `kdh_files`, `KdcParserProofs` |
| `KdcRegisterTable` | `sim_reg_read` and `sim_reg_write` of `simulate.c`: the table of virtual registers and the trace | runs `kdc_*`, `KdcParserProofs` |
| `KdcDriver` | abstract: any tokens through `kdal_parse` and any dry run over the register table; what a whole tree is | run `kdc_toolchain`, `KdcParserProofs` |
| `KdcMeaning` | abstract: what the statements of the language mean, and the text of a program | |
| `KdcCodeGen` | `codegen.c`: the structured C program a handler becomes, the functions of the file | runs `kdc_*` |
| `KdcSimulate` | `simulate.c`: the dry-run interpreter, which walks the tree over the table of registers | runs `kdc_*` |
| `KdcToolchain` | a driver that is written, perhaps mistyped, parsed, compiled and simulated | runs `kdc_toolchain`, `kdc_branches`, `kdc_dry_run` |
| `KdcLexer` | `lexer.c`: a text is a sequence of characters and words, a token its first and last piece, its line and its value | runs `kdh_*`, `kdc_access`, `KdcFrontEndProofs` |
| `KdcTree` | the nodes of a header's syntax tree (`ast.h`): their defaults, and what every tree the parser returns is like (`IsResult`) | as above |
| `KdcSymbols` | `sema_populate_device`: the symbol table, taken names, overlaps, bit ranges | as above, `KdcFrontEndProofs` |
| `KdcFrontEnd` | abstract: `kdal_compile_file` up to the analysis, with any text and any tree that `IsResult` allows | run `kdh_files`, `KdcFrontEndProofs` |
| `KdhFrontEnd` | the same with the parser itself: `HeaderSpec`, for any text | run `kdh_files`, `KdcParserProofs` |
| `KdhParser` | the rest of `parser.c`: files, imports, the device class with its blocks in both forms, the recovery in each of them | runs `kdh_*`, `kdc_access`, `KdcParserProofs` |
| `KdcSema` | the rest of `sema.c`: directions of accesses, the errors of a file | runs `kdh_*`, `kdc_access` |
| `KdalityLint` | `lint.c`: its ten rules on the trees of a driver and of its headers, with the caps of its tables | runs `kdh_*`, `kdc_access` |
| `KdalityGen` | the line scanners of `dtgen.c` and `testgen.c` and what the two tools write | runs `kdh_*` |
| `KdhToolchain` | the text of a header or of a driver on its way through all of these | runs `kdh_*`, `kdc_access` |
| `MC*` | the instances TLC checks | |
| `NatFacts` | lemmas about numbers: the least element of a set, induction on an interval, `%` with two moduli | tlapm |
| `EventLogProofs`, `RegistryProofs`, `QemuRingProofs`, `CoreLifecycleProofs`, `DeviceIOProofs`, `KdcFrontEndProofs`, `KdcParserProofs` | theorems about `EventLog` and `GpuAccel`, `Registry`, `QemuRing`, `CoreLifecycle`, `DeviceIO`, `KdcFrontEnd`, and `KdcDriver` with `KdhFrontEnd` | tlapm |

How they compose: `EventLog`, `Registry` and `QemuRing` each refine a small
abstract specification (`INSTANCE ... WITH` and the abstract `Spec` as a
property). `DeviceIO` uses the abstractions, not the details: its ring is the
indivisible stream `QemuRing` implements, its set of registered devices what
`Registry` implements, its event counter that of `EventLog`. `CoreLifecycle`
has one process and every failure; `DeviceIO` has many processes and loads that
succeed. `GpuAccel` extends the detailed `EventLog`, so the refinement to
`EventQueue` is checked with the log under its real users: the driver's own
events, those of other parts of the module, polls, and unloading.

In `DeviceIO` a byte is the number of its acceptance by the ring, so that order
and identity of bytes are visible; a call that is refused changes nothing.
`device->driver` is set before the probe and never cleared while a file is open,
so the checks at the start of a call are one step and the transfer, the copy to
the process and the three stores of a power change are steps of their own.
`rmmod` waits until no file is open (`.owner = THIS_MODULE`), and nobody can
open the file during it, so it is one action there.

`GpuAccel` assumes what the tests of the driver do (`tests/kunit/test_accel.c`):
one thread sets queues and buffers up and gives them back, in any order, while
any number of threads submit. The driver makes ids and addresses from its counts
alone. So they are distinct only while the youngest is given back first
(`stacked`); else the next queue shares the id of a live one. In the same way
completions are numbered one after the other only until two submissions overlap
(`overlap`): then two may load the same count, or one may report the number of
the other.

The tool chain is sequential: the lexer, the parser and the symbol table
are recursive functions, the other passes recursive operators, and
`KdcToolchain` and `KdhToolchain` have one action per pass plus `Edit`, the slip
of an author. `KdcToolchain` is about what drivers mean and starts from tokens;
its reference is `KdcMeaning`: a driver is drawn as a structured program, printed,
and everything the tools make of the text is compared with what the program
means, on a device whose registers behave like memory. Two abstractions matter.
`ctx->regs.X` in the generated text stands for register X (the generated context
has no such member yet). And `kdal_sema` is left out between parser and
generator there: a file with a driver block has no device block, so the pass knows
no register and finds nothing to report about a handler (`kdc_access`).

`KdhToolchain` is about what files say and starts from their characters. The
author has a device class, a driver, or just a scrap of text in mind; the file is
that, printed, and perhaps mistyped in one place; and what each reader of the
file finds is compared with it: `kdalc` with its full parser, `lint` with the same
parser, `dt-gen` and `test-gen` with their line scanners. A piece of text is a
character or a word, since no rule looks inside a run of letters; `strtoll`, which
does not know where a token ends, is modelled with the blanks, signs and second
prefix that it takes.

A parse function that calls another one, or itself, does so behind the token it began
at; the one exception is the first operand of an expression, which is `Primary` and
calls nothing at its own position. So `Parses` is a function of the position: what
each of the calls in `Calls` makes of the tokens from there on, given the later
positions (`later` in a parser state). A loop over tokens (`log`'s arguments, `elif`,
a statement list, the members of a driver) is a turn and the call of the rest; the loop
of `parse_expr_prec`, whose turns build on each other, is a function of the turn
(`Climb`), each of which takes an operator. A header adds the calls of `HeaderCalls`: the
declarations of each kind of block, the members of a bitfield, the members of a device
class, the imports and the options of a backend (`FileParses`). A loop that
collects a list returns the list from its position on. A member of a device class is returned as
a `Part`, and `WithParts` sets the fields of the device to the last part of each kind, which is
what the assignments of the C loop leave.

A token is its spelling, so the number it stands for is looked up by that (`IntValue`). What
this leaves out are the tokens for which `NumbersRead` makes its exceptions: `0x` and
`0b` without a digit, and a number in front of an `x`, for which `strtoll` reads what
comes behind the token.

`KdcDriver` is what `KdcToolchain` is about, less the author, the generator and the
interpreter: a file is any sequence of tokens that ends with `EOF`, and a dry run is
anything whose table and trace come about by `sim_reg_read`, `sim_reg_write` and steps
that touch no register (`IsSimulation`). `KdcToolchain` extends it, and run
`kdc_toolchain` checks that it implements `DriverSpec` with the real interpreter.

`KdcFrontEnd` is what `KdhToolchain` is for kdalc alone: a text, its tokens, a tree,
the analysis of the device in it. Its parser makes any tree at all of which
`IsResult` holds: widths are 0, 8, 16, 32 or 64, 0 exactly for a bitfield, offsets fit
in 64 bits, lists are lists. `KdhFrontEnd` has the real parser, its recovery included, and
implements `FrontEndSpec`, which is proved (`ParserImplements`). `KdhToolchain` extends
that with the author and the other tools, and run `kdh_files` checks that it implements
`FrontEndSpec` too: its passes are the actions `Tokenise` and `ParseFileAndAnalyse` of
`KdhFrontEnd`, and its steps of the author and of the tools change the text, if anything.

What the code does is right on a part of the language only, and the properties
say which: the bodies of a driver that is accepted are those in the file, but what
stands between two members is skipped in silence (`ReadAsWritten`); the generator keeps the meaning of handlers whose `if`s have one
branch of one statement and whose loops leave their variable alone
(`GeneratedKeepsMeaning`); the simulator that of handlers of writes, one-branch
`if`s of any length and returns at the top (`SimulatedKeepsMeaning`); both with names that
fit into the simulator's table (`NamesFit`), and what happens to longer ones is part of
`TableMatchesTrace`. The runs
that are expected to fail show what happens beyond.

## Runs

Each run takes between ten seconds and two and a half minutes with two workers.

- **gpu_accel** - a log of three slots and a counter that wraps at six (256 and
  2^32 in the code; the proofs assume only that the former divides the latter), two
  clients, two queues, one buffer, three submissions (`MaxSubmits`) whose numbers
  wrap at two in an event's data. The array wraps, the counter wraps, the log
  overflows and drops completions, events of others stand between them, and
  unloading leaves stale slots. `ImplementsQueue` is the refinement to
  `EventQueue`; `CompletionsInOrder` relates what waits in the log to the driver's
  count; `HandlesDistinct` the handles to what is live.
- **registry** - two backends (one incomplete, so that `-EINVAL` happens), two
  drivers of one class (so that the first match matters), three devices of
  which two share a name (so that registration is refused, retried, and the
  loser's memory is freed). `DoublyLinked` states agreement of the pointers of
  neighbours; `OwnersAgree` that the lists contain what the owners believe;
  `NoNullDeref` that `list_del_init` never meets the NULL pointers of a node
  that was never linked; `ImplementsLists` the refinement.
- **qemu_ring** - two threads, two slots, counters that wrap at four,
  transfers of up to two bytes of two values. `CountersAgree` relates the count
  to the distance of the counters at every byte; `ImplementsStream` says that
  each call takes effect at once, at its unlock; `CallsReturn` is checked under
  the fairness below.
- **core_lifecycle** - all ten init steps with every failure the code has, a
  device tree of three nodes: two of one name, one that is called `uart0`, with
  which the registration of the uart's device then collides. `NothingLeft`,
  `StackOrder` (docs/architecture.md: "Teardown in `kdal_core_exit()` reverses
  this order."), `DevicesHaveBackend`, `AnnouncedAttached`. One resource is
  beyond every exit function and named as such (`Stray`): `kdal_dt_demand` skips an
  interrupt specifier of fewer than two cells before its `of_node_put`
  (devicetree.c:74), and the reference on that controller is never put.
- **scan_failure** - expected violation. A scan that runs out of memory after
  its first device jumps to `err_platdev` (kdal.c:108), below
  `kdal_devicetree_cleanup()`, so the device stays registered and mapped,
  though the comment on `struct kdal_dt_entry` says that cleanup frees each
  device created during the scan. The properties of `core_lifecycle` except
  exactly these devices.
- **device_io** - two processes, one device tree device without a driver and
  the uart with a ring of two bytes, transfers of up to two bytes and three
  bytes in all (`MaxBytes`), power OFF, ON and an invalid value, one event
  counted (`LogSize`). Enough for a short read, a full ring, two reads in
  flight, a fault of one of them, and every interleaving with the probe. In the
  same run every call returns under the fairness below (`CallsReturn`).
- **kdc_toolchain** - four families of drivers. 1692 programs: a prefix (nothing,
  a write, a `let`), an `if` or a `for` with bodies of up to two statements, and
  an end, over two registers and three entries in the register table, so that it
  fills up; loops of at most three turns and 40 statements, which no loop
  reaches that ends. 5760 expressions of up to three operators, from nine of the
  ten levels of precedence, printed with the fewest parentheses. Four sentences
  with every kind of nesting, with two slips each at any place of the body: two
  are needed to get past a bracket that is expected, and two are enough to close a
  body early and be accepted all the same: a `}` more at its start and one less at its
  end leave statements between two members of the driver, where the parser skips them
  without an error (parser.c:1353). `ReadAsWritten` is about what stands between the
  braces of a body. 64 drivers access a register whose name is cut (`Cut`) before and after
  the one whose name is left of it. Trees are looked at down to
  six levels (`MaxDepth`), which is more than the text of any of them has.
  `DriverSpec` says that every dry run of the interpreter is one of `KdcDriver`:
  nothing it does to the table is missing from its trace, or does without the table's
  two operations.
- **kdc_branches**, **kdc_dry_run** - expected violations. The generated `if`
  runs the bodies of its other branches; the dry run makes one turn more than the
  driver. `PROJECT.json` quotes the documents under `findings`.
- **kdh_files** - about 2000 scraps of up to three of the characters that the lexer
  distinguishes, comments, numbers and runs of punctuators of more; headers in
  the compact form with three registers and up to three signals, in the structured form with
  every kind of register, bit range, signal and config field; headers with more names
  than the symbol table holds, some of them declared again in front of its end or
  behind it; two headers with one slip anywhere, of sixteen words; drivers with up to four
  blocks of writes, assignments and reads, some with a register whose name `lint` cuts. An
  int wraps at 8, so that a bit number does not fit. The symbol table holds five names, `lint` two registers and seven warnings, the
  scanners two registers, signals and handlers, so that each overflows; `LLONG_MAX` is
  127 and 2^64 is 256, so that numbers saturate. What goes wrong in a header goes
  wrong with two registers and a third to compare; a slip is a token
  dropped or inserted. `FrontEndSpec` says that each pass of the tool chain is one of
  `KdcFrontEnd`, and so that every tree the parser returns is as `IsResult` says.
  `NamesDistinct` is about the errors that kdalc prints, not about what it accepts:
  `kdal_sema` returns 0 for every file without a driver block (sema.c:336), so a header
  with errors compiles. `LintFindsWrites` is about `write()`, the only statement `lint`
  looks at for W003, and says of full tables that they only lose warnings.
- **kdc_access** - expected violation. Nobody reports a `read()` or a `write()` against
  the direction of its register: the compiler does not know the header, and `lint`
  looks for the register of a read where the parser does not put it.
- **kdh_overlay** - expected violation. `dt-gen` refuses the name of its own
  output file, which has a dot in it.

Met while modelling and not the subject of a run: `KDAL_IOCTL_POLL_EVENT` has no case in
`kdal_cdev_ioctl`, reaches the driver's ioctl and returns `-ENOTTY`, though
`docs/api_reference.md:114` documents it as "Pop oldest event"; a generated loop
whose body changes its variable or its bound need not end; what starts no
declaration inside a block of a header is skipped, so a slip may drop a register
in silence, and a second block of registers replaces the first; a full symbol
table or table of warnings drops the rest without a word; the labels of
`test-gen` need not be C identifiers. The generated file names `_read` and `_write` functions whether or not there are such handlers, and defines
one function twice for two handlers of one event (both `on power` of
`examples/kdc_hello/i2c_sensor.kdc`); what stands between the members of a driver
block and starts none is skipped without a word; an unknown event word becomes a
read handler; `kdal_sema` prints errors about a header and returns 0; an assignment to a
read-only register gets no W003 from `lint`, though `sema.c:183` takes it for a write; a
register name of 64 characters or more is entered into the simulator's table again by
every access and always read as 0, and `lint` neither warns of writes to it nor finds
it used.

Deadlock is checked in every run of the kernel module; a run of the tools ends, so
theirs do without. Every property of a passing run has a mutant
in `PROJECT.json`: a plausible mistake in a definition that makes TLC find that
property violated.

### Fairness

`QemuRing!FairSpec`: weak fairness of every step of a thread that holds the
lock (taken with interrupts off, so it is not preempted) and strong fairness of
taking the lock (the kernel's queued spinlocks serve waiters in turn).
`DeviceIO!FairSpec`: weak fairness of each process that is inside a call, and
of the loader; nobody is obliged to call, to close or to unload. The other
specifications are safety only.

## Proofs

`EventLogProofs` proves for every `LogSize >= 1`, every `CounterModulus` it
divides and every set of events:

- `EventLogTypeOK`: `Spec => []TypeOK`. `TypeOK` alone is not inductive, since
  a poll of an unwritten slot would return something that is not an event.
- `EventLogLiveSlots`: `Spec => []LiveSlotsWritten`. The inductive invariant is
  the conjunction of the two: an emit writes the slot just above the live ones
  and, when the log is full, onto the oldest; a poll shortens them.
- `EventLogImplementsQueue`: `Spec => Queue!Spec`, step by step, from that
  invariant: the sequence `Pending` is appended to, loses its head, or is
  emptied. The arithmetic is in `NatFacts`: reduction modulo the counter's
  width and then modulo the log's size is reduction modulo the log's size, and
  `LogSize` consecutive counters select different slots.

Its second half proves for any clients, any events of others and any bounds that
the two theorems about the log carry over to `GpuAccel` (`GpuLiveSlots`,
`GpuImplementsQueue`), since a step of the driver is a step of the log or leaves it
alone, and `GpuHandlesDistinct`: while the youngest is given back first, what is live
is what was made from the counts below the present one. `GpuCompletionsInOrder`
rests on `OrderInv`: while nothing has overlapped, at most one submission is under way
and it carries the count it has just made (`AloneInv`), and when the module is down the
log is empty and nothing is under way (`SubmitInv`). The property itself is stated by place in
the log, so an emit appends one place (`AppendOther`, `AppendNext`) and a poll or an
overflow shifts them all (`DropOldest`).

`QemuRingProofs` proves for every `RingSize >= 1`, every `CounterModulus` it
divides properly, any threads, and requests of any length up to `MaxLen`:

- `QemuRingTypeOK`: `Spec => []TypeOK`, and
- `QemuRingCountersAgree`: `Spec => []CountersAgree`, the count is the distance
  of the free-running counters. Both come from `QemuRingInvariant`. Moving a byte
  shifts the distance by one, and reduction modulo the counter's width does not
  show because the count stays within the ring, which is smaller than the width.
  The inductive invariant adds that the live slots hold bytes that were written
  (a read takes one into its reply), that a thread in a call has the arguments of
  a call, and that the loops run under the lock. The live slots need the size to
  divide the width: otherwise a wrap of the counter would skip slots.

The second half of the module proves `QemuRingImplementsStream`: `Spec => ImplementsStream`,
under the same assumptions and `ValuesAssumption` (the code's NULL, `-EIO` and "no
reply" are not data). The stream changes at the unlock only, so the mapping
undoes what the thread with the lock has moved so far: the bytes of a write are
taken off the end again, those of a read put back in front. The invariant added for this,
`Halfway`, says that what a write has moved are the first bytes of its data and the
last bytes of the ring, and that a read has not moved more than it asked for. Each
byte of a transfer is then a stutter, and the unlock the abstract transfer.

`RegistryProofs` proves for any objects, names and classes (`ObjectsAssumption`: the
kinds are disjoint, the three heads are three nodes, the objects finitely many)
`RegistryTypeOK`, `RegistryDoublyLinked`, `RegistryOwnersAgree`, `RegistryNoNullDeref`
and `RegistryImplementsLists`. None of the four invariants is inductive: neighbours
that agree may form a ring that no head reaches. The inductive invariant is that
there are three sequences `L` (`Shape`) such that the pointers of each head and its
objects are exactly those of the ring of `L` (`IsRing`), the names in it are unique, the
objects in it are `"on"`, and every other object has NULL pointers or points to
itself (`Loose`). `list_add_tail` is then `Append` (`RingAppend`), `list_del_init` the
removal of one place (`RingRemove`), and nothing outside the ring and the object
changes (`ShapeFrame`). That a walk yields the sequence (`WalkRing`, `ListOfRing`) is
shown by the least place at which it could differ, since the provers have no
induction: `LeastNat` is what stands for it. The refinement maps each kind to its
sequence; a look-up and the abstract one agree because both take the least place
that matches.

`CoreLifecycleProofs` proves the properties of `CoreLifecycle` for device trees of
any length, with any names in them (`DTNodesAssumption`): `CoreLifecycleTypeOK`,
`CoreLifecycleNothingLeft`, `CoreLifecycleDevicesHaveBackend`,
`CoreLifecycleAnnouncedAttached` and, as a property of steps, `CoreLifecycleStackOrder`.
The argument is about one number. The ten subsystems have a `Rank`, their place in
`kdal_core_init`; the ladder and `kdal_core_exit` run them backwards
(`InitRank`, `UnwindRank`, `ExitRank`), so phase and step amount to a `Level`: what
ranks below it is up, what ranks above it is down, and only the subsystem of that
rank is in between. A failure lowers the level by one wherever it happens, because
`ErrLabel[InitOrder[i]] = 11 - i`; that equation is where a wrong goto would show. The
inductive invariant `IInv` says so for each kind of resource: nothing held ranks above
the level (`BelowInv`), times of acquisition follow ranks (`AgeInv`), backends below the
level are registered (`BackendInv`), and a driver has exactly the parts its stage
calls for and its event (`DriverInv`, `PartsAt`). `StackOrder` follows: a release is by the
subsystem at hand, nothing younger belongs to another, and within a driver or the
SoC glue what is younger goes at the same step.

`DeviceIOProofs` proves the four invariants of `DeviceIO` for any processes, any
devices in any order (`DevicesAssumption`: each is created once, and NULL is
neither a device nor data), and any sizes:

- `DeviceIOSelectionAlive`: a selection is of a registered device, `Reload` is only
  possible when there is none.
- `DeviceIONoNullDeref` needs `InCall`, that a call past its checks has a driver and
  keeps it, and `LoaderOrder`, that the device being probed is bound and those after it
  have no ring: hence the probe cannot replace a ring under a transfer.
- `DeviceIOBytesConserved`: one `Ledger` per device, which a read moves bytes
  through (`LedgerTaken`, `LedgerSettled`), a write extends (`LedgerPut`), and every
  other step leaves alone (`LedgerKept`). The case that makes it more than counting is
  a read in flight while other processes read, write, fault or select.
- `DeviceIOTypeOK`, from the same invariant.

`KdcFrontEndProofs` proves of the front end of kdalc, for every text, every tree that `IsResult` allows, any words, any `LongMax` and any size of the
symbol table and of the address space:

- `TokensAlwaysTile`: `FrontEndSpec => []TokensTileText`. The loop of the lexer is a
  recursive function, of which the provers know only that it is chosen among the
  solutions of its equation. That there is one is shown once (`Recursion`): a body
  whose value depends on smaller arguments only has a solution. The measure of the loop
  is what is left of the text, so each of its turns must move the position on
  (`TurnAdvances`), which is also why kdalc ends on every text. The invariant of the loop
  is `LexInv`: the tokens so far tile the text up to the position but for blanks and
  whole comments, the line is one more than the newlines passed, and every number is
  worth its digits. Every turn keeps it (`TurnKeeps`), by one lemma for each kind of token
  and of comment that says where it ends and what it may have passed over.
- `NumbersAlwaysRead`: `FrontEndSpec => []NumbersRead`, from the same invariant. Saturating at
  every digit, as `strtoll` may, is saturating once (`SaturatingStep`); the digits it
  takes are those of the token (`DigitsAtRun`), except behind an `0x` that `Literal` has
  passed over, or in front of an `x`, which is where the property makes its exceptions.
- `OverlapsAlwaysWarned`: `FrontEndSpec => []OverlapsWarned`. After `k` registers the warnings
  are the overlapping pairs among the first `k` of which the later one has a new name
  (`CheckedRegisters`), and half-open intervals that do not wrap intersect exactly if each
  begins before the other ends (`OverlapShares`).
- `NamesAlwaysDistinct`: `FrontEndSpec => []NamesDistinct`, with no bound on the number of
  names. The declarations of a device are one sequence (`TableEntries`, `DeclaredParts`). As long as
  there is no error the table holds the first of their names, one entry for each, until it
  is full (`Analysed`), so the search of a name finds it exactly if one of the first
  `SYMTAB_MAX` declarations has it (`KnownIsNamed`, `TakenIsNamed`). Once there is an error the
  table no longer matters, and that is what makes the full table tractable: after an
  error its entries are not those of the declarations one by one. `CheckAnalysed` is the step of one
  declaration; signals and config fields, capabilities and registers differ in what they
  check (`NamesAnalysed`, `CapabilitiesAnalysed`, `RegistersAnalysed`), and `DeviceErrors` puts
  the four lists together.

Assumed: `LongMax` is a natural number (`LongMaxAssumption`), digits have the values
of digits and are neither blanks nor signs (`DigitsAssumption`), offsets are below
`OffsetModulus` (`OffsetsAssumption`), `SymtabMax` is a natural number.

`KdcParserProofs` proves of `KdcDriver`, for every file, any identifiers, literals and
depth, and any size of the register table (`EofAssumption`: the end of a file is neither
an identifier nor a literal; `MaxDepthAssumption`, `MaxVRegsAssumption`: natural numbers;
`CutAssumption`: what is left of a name that is cut fits into an entry):

- `AcceptedAlwaysWhole`: `DriverSpec => []AcceptedIsWhole`. After an error the parser goes
  on with operands missing, so what has to hold is that each of them left `had_error`
  behind. A chain is `Solid` if its nodes belong to a set in which nothing is missing and
  which is closed under going down a level (`Closed`); that is an invariant of
  building trees from below, where "whole at every level" is not. Every parse function
  moves from a state to a later one and keeps an error once it is there (`Follows`), and
  one that returns without an error returns what its caller expects (`Delivers`): one
  operand for an expression, a solid chain for a list, children of which the first are
  expressions for an `if` or a `for` (`Headed`). There is one lemma for each of them. They assume that the calls at later
  positions do the same (`Ready`), and `ParsesGood` removes that assumption: the table of
  calls is good from the last token backwards (`GoodTable`, by `Upwards`, since the provers
  have no induction), and so is the equation of the recursive function itself
  (`ParsesEquation`). The loop of `parse_expr_prec` keeps a good operand at its left
  (`ClimbGood`); that recursion of a fixed number of steps has a solution is shown once
  (`Iteration`). `ParsedWhole` is the outcome for a file, and `SolidWhole` goes down the
  levels of a solid chain.
- `TableAlwaysMatches`: `DriverSpec => []TableMatchesTrace`. `TableInv` is kept by every
  step of a trace (`ReadKept`, `WriteKept`, `TracedKept`), and so by the replay of all of
  it (`ReplayKept`). A read of a register in the table gives the value of its entry, which is
  what the trace wrote last (`TableOutcome`, `ReadsAppend`); a write to a full table leaves neither
  an entry nor a trace. A name that is cut has no entry at all, since what is left of a
  name fits and so is no cut name (`NamesStored`, `StoredFits`); its entries bear another name,
  and the properties of that one are lost (`CutsIn`), which is all that is lost
  (`RegisterAdded`).

Its last part proves of `KdhFrontEnd`, for every text, any words, identifiers, literals and
any size of the address space (`LiteralsAssumption`: a semicolon is neither an identifier
nor a literal, and a literal where an offset is read fits in the address space;
`IntAssumption`: an int has a width):

- `ParserImplements`: `HeaderSpec => FrontEndSpec`. The trees of `kdal_parse` are as
  `IsResult` says, so `TokensAlwaysTile`, `NumbersAlwaysRead`, `OverlapsAlwaysWarned` and
  `NamesAlwaysDistinct` hold of what kdalc makes of a text, and rest on no check of the
  parser. `HeadersAnalysed` says so of the last two: of the errors and of the warnings that
  kdalc prints about a header, which it accepts in any case.
- `OffsetsAlwaysWritten`: `HeaderSpec => []OffsetsWritten`.

Both come from one statement about the calls (`GoodRegister`): a register that
`parse_register_decl` returns, an error reported or not, is well formed and stands in the
text with its offset. While a register is read, it is a `Draft` made at some place; until the
cursor has passed a semicolon its offset may still be set (`Pending`), and the number it
is set to then stands in front of that semicolon (`PendingNumber`). `Drafts` is what is left
of that afterwards, when only other fields change. Well-formedness is not an invariant
of the steps of a declaration: a bitfield loses its width after it has become one, so the
two assignments are one step of the draft (`DraftBitfield`). Lists of declarations are collected from
behind (`DeclaredGrow`, `MembersGrow`, `PartsConcat`), the table of calls is good from the last token
backwards (`FileParsesGood`, as `ParsesGood`), a device takes the last part of each kind, which
is good like all the others (`WithPartsGood`), and nothing behind the device touches it (`GoodFile`,
`Filed`). That the text of a file ends with `EOF`, which is what keeps the parser within it, comes
from the lexer (`SpellingsEnd`).

Only model-checked: liveness (`CallsReturn`), and what rests on what a recursive
definition computes for every input, since the provers have neither induction over data
nor the recursive operators of the other passes: that the tree of a file is the one its
author wrote (`ReadAsWritten`, `HeaderKept`), `GeneratedKeepsMeaning`, `SimulatedKeepsMeaning`,
that the interpreter implements `DriverSpec`, `ScannedAsParsed`, `LintFindsWrites` and
`TestsMatchHandlers`. That `KdcToolchain` and `KdhToolchain` add nothing to `KdcDriver` and
`KdcFrontEnd` but the author and the other tools is checked there as well.

## Not modelled

- Loads that fail while a process has the device file open: the module loader
  does not wait for it, and `CoreLifecycle` and `DeviceIO` are not composed yet.
- The race of two processes that set the power of one device, and a request
  that precedes the probe: the code orders nothing and promises nothing.
- What a process sees within `kdal_attach_driver` and the probe of a driver: allocation
  of its state, the end of attach and the ADDED event are one step of `CoreLifecycle`
  (`ProbeState`), and `DeviceIO` has the register, the attach and the probe as steps.
- The statistics of the drivers (nothing reads them), the read-only ioctls and
  debugfs files, the I/O of the platform backend (no driver is ever attached to
  its devices).
- `demand.c`: a walk of the registry that prints text; the numbers
  `kdal_dt_demand` records for it.
- `virtioio.c` and `virtioaccel.c`: no function of the module calls the helpers and
  nothing creates the virtqueue they take, so there is no protocol of callers to
  check them under. `mmio.c`: accessors without state.
- Of the tool chain: columns, wording and layout of what the tools print, option
  parsing, the confinement of paths, memory that runs out, and names too long for the
  buffers of `dt-gen` and `test-gen`; `kdalctl` (one ioctl per
  sub-command), `init` (templates) and `compile` (one call).
- Headers, examples, tests, scripts, packaging and editor support: no state of
  the running system.

## What is left

- `LoadWithUsers`: the ladder of `CoreLifecycle` with open files.
- The interpreter and the generator as functions of the tree like the parser of the position, and with
  them the proof that every dry run is one of `KdcDriver`.
- That every turn of the loops of the ring driver leaves less to do, as an action property.
