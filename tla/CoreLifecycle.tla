--------------------------- MODULE CoreLifecycle ----------------------------
(***************************************************************************)
(* Loading and unloading of the kernel module (kdal_core_init and          *)
(* kdal_core_exit in src/core/kdal.c) with the init and exit functions it  *)
(* calls: the subsystems come up in order, any of them may fail, a failure *)
(* jumps into a ladder of exit functions, and rmmod runs another list of   *)
(* them.                                                                   *)
(*                                                                         *)
(* The state is what the module holds: every registration, reference and   *)
(* allocation, with the time at which it was made.  One process runs all   *)
(* of it; what other processes do to the devices meanwhile is left to      *)
(* DeviceIO.                                                               *)
(***************************************************************************)
EXTENDS Integers, Sequences, Functions

CONSTANTS
  DTNodes  \* the names of the "kdal,device" nodes of the device tree, in order

ASSUME DTNodesAssumption == DTNodes \in Seq(STRING)

VARIABLES
  phase,      \* "load", "unwind" after a failure, "live", "exit" or "gone"
  step,       \* which of the phase's calls is at hand
  at,         \* the position inside it
  scanned,    \* the device tree nodes the scan has seen
  scanOOM,    \* the scan ran out of memory
  held,       \* the resources of the module, with their times of acquisition
  clock,      \* the time of the next acquisition
  announced   \* DEVICE_ADDED less DEVICE_REMOVED events, per driver's device

vars == <<phase, step, at, scanned, scanOOM, held, clock, announced>>

Drivers == {"uart", "i2c", "spi", "gpu"}

DeviceName ==
  [d \in Drivers |-> CASE d = "uart" -> "uart0" [] d = "i2c" -> "i2c0"
                       [] d = "spi" -> "spi0"   [] d = "gpu" -> "gpu0"]

\* The calls of kdal_core_init in order.
InitOrder == <<"chardev", "debugfs", "qemu", "glue", "platdev", "dt",
               "uart", "i2c", "spi", "gpu">>

\* The ladder of exit functions at the end of kdal_core_init.
UnwindOrder == <<"spi", "i2c", "uart", "dt", "platdev", "glue", "qemu",
                 "debugfs", "chardev">>

\* ErrLabel whose spi failure jumps to the exit of spi itself.
ErrLabelRunsOwnExit ==
  [uart |-> 4, i2c |-> 3, spi |-> 1, gpu |-> 1, dt |-> 5, platdev |-> 6,
   glue |-> 7, qemu |-> 8, debugfs |-> 9, chardev |-> 10]

\* Where in the ladder the goto after each failed call lands.
ErrLabel ==
  [uart |-> 4, i2c |-> 3, spi |-> 2, gpu |-> 1, dt |-> 5, platdev |-> 6,
   glue |-> 7, qemu |-> 8, debugfs |-> 9, chardev |-> 10]

\* ExitOrder with the two backends exchanged.
ExitOrderQemuFirst == <<"gpu", "spi", "i2c", "qemu", "uart", "dt", "platdev",
                        "glue", "debugfs", "chardev", "events">>

\* ExitOrder with the generic backend and the SoC glue exchanged.
ExitOrderGlueFirst == <<"gpu", "spi", "i2c", "uart", "dt", "glue", "platdev",
                        "qemu", "debugfs", "chardev", "events">>

\* The calls of kdal_core_exit in order.
ExitOrder == <<"gpu", "spi", "i2c", "uart", "dt", "platdev", "glue", "qemu",
               "debugfs", "chardev", "events">>

-----------------------------------------------------------------------------
(* Resources: a kind and the name of their owner.                          *)

Resource(kind, name) == [kind |-> kind, name |-> name]

HeldSet == DOMAIN held

Holds(kind, name) == Resource(kind, name) \in HeldSet

Acquire(S) ==
  /\ held' = [r \in HeldSet \union S |-> IF r \in HeldSet THEN held[r] ELSE clock]
  /\ clock' = clock + 1

GiveBack(S) == held' = Restrict(held, HeldSet \ S) /\ UNCHANGED clock

GlueParts == {"node", "clk", "clk_enabled", "reset"}

Glue(kinds) == {Resource(k, "soc") : k \in kinds}

DriverParts(d) == {Resource(k, d) : k \in {"driver", "device", "ring", "state"}}

Entries == {r \in HeldSet : r.kind = "entry"}

\* The names in the registry's list of devices.
DeviceNames ==
  {r.name : r \in Entries}
    \union {DeviceName[d] : d \in {e \in Drivers : Holds("device", e)}}

Init ==
  /\ phase = "load" /\ step = 1 /\ at = "start"
  /\ scanned = 0
  /\ scanOOM = FALSE
  /\ held = <<>> /\ clock = 0
  /\ announced = [d \in Drivers |-> 0]

AtStep(order, s) == step \in DOMAIN order /\ order[step] = s

Loading(s) == phase = "load" /\ AtStep(InitOrder, s)

Leaving(s) ==
  \/ phase = "unwind" /\ AtStep(UnwindOrder, s)
  \/ phase = "exit" /\ AtStep(ExitOrder, s)

\* The init or exit function at hand has returned 0.
Done == step' = step + 1 /\ at' = "start" /\ UNCHANGED phase

\* The init function of s returns an error.
Fail(s) == phase' = "unwind" /\ step' = ErrLabel[s] /\ at' = "start"

-----------------------------------------------------------------------------
(* The init functions.                                                     *)

\* kdal_chardev_init: misc_register.
LoadChardev ==
  /\ Loading("chardev")
  /\ \/ Acquire({Resource("misc", "kdal")}) /\ Done
     \/ UNCHANGED <<held, clock>> /\ Fail("chardev")
  /\ UNCHANGED <<scanned, scanOOM, announced>>

\* kdal_debugfs_init goes on without a directory when there is no debugfs.
LoadDebugfs ==
  /\ Loading("debugfs")
  /\ Acquire({Resource("dir", "kdal")}) \/ UNCHANGED <<held, clock>>
  /\ Done
  /\ UNCHANGED <<scanned, scanOOM, announced>>

\* kdal_qemu_backend_init and kdal_generic_platdev_init: register_backend
\* refuses a name that is taken, init and enumerate cannot fail.
LoadBackend(s) ==
  /\ s \in {"qemu", "platdev"}
  /\ Loading(s)
  /\ IF Holds("backend", s)
       THEN UNCHANGED <<held, clock>> /\ Fail(s)
       ELSE Acquire({Resource("backend", s)}) /\ Done
  /\ UNCHANGED <<scanned, scanOOM, announced>>

\* kdal_soc_glue_init: no node, a clock that is missing or does not start,
\* and a reset line that is optional.
LoadGlue ==
  /\ Loading("glue")
  /\ \/ UNCHANGED <<held, clock>> /\ (Done \/ Fail("glue"))
     \/ Acquire(Glue(GlueParts \ {"reset"})) /\ Done
     \/ Acquire(Glue(GlueParts)) /\ Done
  /\ UNCHANGED <<scanned, scanOOM, announced>>

\* One round of the loop in kdal_devicetree_scan: a node without a usable
\* register range is skipped.  kdal_dt_demand puts back what it gets for each
\* interrupt of the node, except for one of fewer than two cells: the reference
\* on its controller is lost.  The entry of a node whose name is taken is freed.
ScanNode ==
  /\ Loading("dt")
  /\ scanned < Len(DTNodes)
  /\ scanned' = scanned + 1
  /\ LET name  == DTNodes[scanned + 1]
         entry == IF name \in DeviceNames THEN {} ELSE {Resource("entry", name)}
     IN  \/ UNCHANGED <<held, clock>>
         \/ Acquire(entry)
         \/ Acquire(entry \union {Resource("controller", name)})
  /\ UNCHANGED <<phase, step, at, scanOOM, announced>>

\* kzalloc fails in the middle of the scan.
ScanOOM ==
  /\ Loading("dt")
  /\ scanned < Len(DTNodes)
  /\ scanOOM' = TRUE
  /\ Fail("dt")
  /\ UNCHANGED <<scanned, held, clock, announced>>

ScanEnds ==
  /\ Loading("dt")
  /\ scanned = Len(DTNodes)
  /\ Done
  /\ UNCHANGED <<scanned, scanOOM, held, clock, announced>>

\* kdal_uart_driver_init and its three siblings: find the backend and register
\* the driver, register the device, attach, which runs the probe, announce.
LoadDriver(d) ==
  /\ Loading(d) /\ at = "start"
  /\ IF Holds("backend", "qemu") /\ ~Holds("driver", d)
       THEN /\ Acquire({Resource("driver", d)})
            /\ at' = "device"
            /\ UNCHANGED <<phase, step>>
       ELSE UNCHANGED <<held, clock>> /\ Fail(d)
  /\ UNCHANGED <<scanned, scanOOM, announced>>

LoadDevice(d) ==
  /\ Loading(d) /\ at = "device"
  /\ IF DeviceName[d] \in DeviceNames
       THEN GiveBack({Resource("driver", d)}) /\ Fail(d)
       ELSE /\ Acquire({Resource("device", d)})
            /\ at' = "probe"
            /\ UNCHANGED <<phase, step>>
  /\ UNCHANGED <<scanned, scanOOM, announced>>

\* The probe allocates the ring; when it fails nothing is attached and the
\* init function takes back both registrations.
ProbeRing(d) ==
  /\ Loading(d) /\ at = "probe"
  /\ \/ /\ Acquire({Resource("ring", d)})
        /\ at' = "state"
        /\ UNCHANGED <<phase, step>>
     \/ GiveBack(DriverParts(d)) /\ Fail(d)
  /\ UNCHANGED <<scanned, scanOOM, announced>>

\* ProbeState whose failing branch forgets the ring.
ProbeStateKeepsRing(d) ==
  /\ Loading(d) /\ at = "state"
  /\ \/ /\ Acquire({Resource("state", d)})
        /\ announced' = [announced EXCEPT ![d] = @ + 1]
        /\ Done
     \/ /\ GiveBack({Resource("driver", d), Resource("device", d)})
        /\ Fail(d)
        /\ UNCHANGED announced
  /\ UNCHANGED <<scanned, scanOOM>>

\* ProbeState with the event before the attachment.
ProbeStateAnnouncesFirst(d) ==
  /\ Loading(d) /\ at = "state"
  /\ \/ Acquire({Resource("state", d)}) /\ Done
     \/ GiveBack(DriverParts(d)) /\ Fail(d)
  /\ announced' = [announced EXCEPT ![d] = @ + 1]
  /\ UNCHANGED <<scanned, scanOOM>>

\* Then the driver's own state, the end of the attachment and the DEVICE_ADDED
\* event, in one step: what a process sees between them is not modelled here.
ProbeState(d) ==
  /\ Loading(d) /\ at = "state"
  /\ \/ /\ Acquire({Resource("state", d)})
        /\ announced' = [announced EXCEPT ![d] = @ + 1]
        /\ Done
     \/ GiveBack(DriverParts(d)) /\ Fail(d) /\ UNCHANGED announced
  /\ UNCHANGED <<scanned, scanOOM>>

\* kdal_core_init returns 0 and the module is live.
GoLive ==
  /\ phase = "load" /\ step > Len(InitOrder)
  /\ phase' = "live" /\ step' = 0
  /\ UNCHANGED <<at, scanned, scanOOM, held, clock, announced>>

-----------------------------------------------------------------------------
(* The exit functions.                                                     *)

\* rmmod, once no file of the module is open.
Rmmod ==
  /\ phase = "live"
  /\ phase' = "exit" /\ step' = 1
  /\ UNCHANGED <<at, scanned, scanOOM, held, clock, announced>>

\* kdal_uart_driver_exit and its siblings: the event, the removal by
\* kdal_detach_driver, the two registrations.
ExitAnnounce(d) ==
  /\ Leaving(d) /\ at = "start"
  /\ announced' = [announced EXCEPT ![d] = @ - 1]
  /\ at' = "remove"
  /\ UNCHANGED <<phase, step, scanned, scanOOM, held, clock>>

ExitDetach(d) ==
  /\ Leaving(d) /\ at = "remove"
  /\ GiveBack({Resource("ring", d), Resource("state", d)})
  /\ at' = "unregister"
  /\ UNCHANGED <<phase, step, scanned, scanOOM, announced>>

ExitUnregister(d) ==
  /\ Leaving(d) /\ at = "unregister"
  /\ GiveBack(DriverParts(d))
  /\ Done
  /\ UNCHANGED <<scanned, scanOOM, announced>>

\* kdal_devicetree_cleanup frees the entries one by one.
CleanupEntry ==
  /\ Leaving("dt")
  /\ \E first \in Entries :
       /\ \A r \in Entries : held[first] <= held[r]
       /\ GiveBack({first})
  /\ UNCHANGED <<phase, step, at, scanned, scanOOM, announced>>

CleanupEnds ==
  /\ Leaving("dt")
  /\ Entries = {}
  /\ Done
  /\ UNCHANGED <<scanned, scanOOM, held, clock, announced>>

\* The exit functions that release all they have in one go.
Released(s) ==
  CASE s \in {"qemu", "platdev"} -> {Resource("backend", s)}
    [] s = "glue"    -> Glue(GlueParts)
    [] s = "debugfs" -> {Resource("dir", "kdal")}
    [] s = "chardev" -> {Resource("misc", "kdal")}
    [] s = "events"  -> {}

ExitOther(s) ==
  /\ s \in {"qemu", "platdev", "glue", "debugfs", "chardev", "events"}
  /\ Leaving(s)
  /\ GiveBack(Released(s))
  /\ Done
  /\ UNCHANGED <<scanned, scanOOM, announced>>

Vanish ==
  /\ \/ phase = "unwind" /\ step > Len(UnwindOrder)
     \/ phase = "exit" /\ step > Len(ExitOrder)
  /\ phase' = "gone" /\ step' = 0
  /\ UNCHANGED <<at, scanned, scanOOM, held, clock, announced>>

\* insmod again, with the static data of a fresh image; what the last one
\* leaked is lost.
Insmod ==
  /\ phase = "gone"
  /\ phase' = "load" /\ step' = 1 /\ at' = "start"
  /\ scanned' = 0
  /\ scanOOM' = FALSE
  /\ held' = <<>> /\ clock' = 0
  /\ announced' = [d \in Drivers |-> 0]

DriverStep(d) ==
  \/ LoadDriver(d) \/ LoadDevice(d) \/ ProbeRing(d) \/ ProbeState(d)
  \/ ExitAnnounce(d) \/ ExitDetach(d) \/ ExitUnregister(d)

Next ==
  \/ LoadChardev \/ LoadDebugfs \/ LoadGlue
  \/ \E s \in Range(ExitOrder) : LoadBackend(s) \/ ExitOther(s)
  \/ ScanNode \/ ScanOOM \/ ScanEnds
  \/ \E d \in Drivers : DriverStep(d)
  \/ CleanupEntry \/ CleanupEnds
  \/ GoLive \/ Rmmod \/ Vanish \/ Insmod

Spec == Init /\ [][Next]_vars

-----------------------------------------------------------------------------
EntryNames == Range(DTNodes)

Resources ==
  (UNION {DriverParts(d) : d \in Drivers})
    \union {Resource("backend", s) : s \in {"qemu", "platdev"}}
    \union Glue(GlueParts)
    \union {Resource("misc", "kdal"), Resource("dir", "kdal")}
    \union {Resource(k, n) : k \in {"entry", "controller"}, n \in EntryNames}

TypeOK ==
  /\ phase \in {"load", "unwind", "live", "exit", "gone"}
  /\ step \in 0 .. Len(ExitOrder) + 1
  /\ at \in {"start", "device", "probe", "state", "remove", "unregister"}
  /\ scanned \in 0 .. Len(DTNodes)
  /\ scanOOM \in BOOLEAN
  /\ HeldSet \subseteq Resources
  /\ clock \in Nat
  /\ held \in [HeldSet -> 0 .. clock - 1]
  /\ announced \in [Drivers -> {0, 1}]

\* What no exit function gives back: a device that the ladder does not reach,
\* see EntriesFreed, and a reference that nothing in the module remembers.
Stray(r) == r.kind = "controller" \/ (scanOOM /\ r.kind = "entry")

\* Whatever failed and wherever, once the module is gone it has given back
\* every registration, reference and allocation, apart from the devices of a
\* scan that ran out of memory and what kdal_dt_demand loses (the goto ladder
\* of kdal_core_init and kdal_core_exit).
NothingLeft == phase = "gone" => \A r \in HeldSet : Stray(r)

\* Teardown reverses the order of acquisition: nothing is given back before
\* what was acquired after it, on the ladder, inside the init functions and in
\* rmmod alike.  The devices of the scan go oldest first (docs/architecture.md,
\* "Teardown in kdal_core_exit() reverses this order.").
StackOrder ==
  [][\A r, q \in HeldSet :
       (held[r] < held[q] /\ r \notin HeldSet') =>
          \/ q \notin HeldSet'
          \/ {r, q} \subseteq Entries
          \/ Stray(q)]_vars

\* A registered device can reach its transport at any moment a process may use
\* it: its backend is registered as long as the device is
\* (kdal_find_backend at init, device->backend afterwards).
DevicesHaveBackend ==
  \A r \in HeldSet :
    /\ r.kind = "device" => Holds("backend", "qemu")
    /\ r.kind = "entry" => Holds("backend", "platdev") \/ Stray(r)

\* What userspace has been told: a DEVICE_ADDED event is taken back exactly
\* once, and a device between its two events is registered and attached, except
\* while its own exit function runs.
AnnouncedAttached ==
  \A d \in Drivers :
    /\ announced[d] = 1 => DriverParts(d) \subseteq HeldSet
    /\ DriverParts(d) \subseteq HeldSet /\ announced[d] = 0 => Leaving(d)

\* Every device the scan created is unregistered, unmapped and freed before
\* the module is gone (comment on struct kdal_dt_entry in devicetree.c).
EntriesFreed == phase = "gone" => Entries = {}

=============================================================================
