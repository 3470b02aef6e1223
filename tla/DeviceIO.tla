------------------------------ MODULE DeviceIO ------------------------------
(***************************************************************************)
(* Processes that use /dev/kdal (src/core/chardev.c) while the module is   *)
(* loaded and unloaded around them: open and release, the selection of a   *)
(* device, read and write through the device's driver to the ring of the   *)
(* QEMU backend, changes of power, the events.  The four example drivers   *)
(* do the same on these paths; the uart stands for them.                   *)
(*                                                                         *)
(* The device file exists before the devices do, so a process can select   *)
(* a device before its driver is bound and probed.  The module loader      *)
(* refuses rmmod while a file is open and refuses to open a file once      *)
(* rmmod has begun.  Loads that fail are the subject of CoreLifecycle.     *)
(*                                                                         *)
(* A byte is the number of its acceptance by the ring: the data are what   *)
(* tells bytes apart.  The ring is the indivisible stream of ByteStream,   *)
(* which QemuRing implements.                                              *)
(***************************************************************************)
EXTENDS Integers, Sequences, FiniteSets

CONSTANTS
  Procs,      \* processes, each with at most one open file
  LoadOrder,  \* the devices in the order in which the module creates them
  Bare,       \* those of the device tree, which have no driver
  RingSize,
  MaxLen,     \* bound: the longest transfer
  MaxBytes,   \* bound: the bytes a device accepts
  LogSize,    \* KDAL_EVENT_LOG_SIZE
  PowerArgs,  \* what a process may pass to KDAL_IOCTL_SET_POWER
  NULL, CLOSED

Devices == {LoadOrder[i] : i \in DOMAIN LoadOrder}

\* Every device is created once.
ASSUME DevicesAssumption ==
  /\ LoadOrder \in Seq(Devices)
  /\ \A i, j \in DOMAIN LoadOrder : LoadOrder[i] = LoadOrder[j] => i = j
  /\ Bare \subseteq Devices
  /\ {NULL, CLOSED} \intersect Devices = {}
  /\ NULL \notin Seq(Nat)

ASSUME BoundsAssumption == {RingSize, MaxLen, MaxBytes, LogSize} \subseteq Nat

VARIABLES
  loader,      \* "load", "live": where the module loader is
  pending,     \* the devices it has still to create
  at,          \* the position inside the creation of the first of them
  registered,  \* the devices kdal_find_device finds
  driver,      \* device->driver is set
  state,       \* device->driver->priv is set
  ring,        \* what device->priv points to: the stream, or NULL
  power,       \* device->power_state
  events,      \* kdal_event_count: EventLog has the events themselves
  fd,          \* the selection of each process's file, or CLOSED
  pc, call, kbuf,            \* the call each process is in
  accepted, delivered, lost, \* the bytes each device has taken, the processes
                             \* have received, and copy_to_user has dropped
  fault        \* a NULL pointer was followed

loading == <<loader, pending, at, registered>>
attachment == <<driver, state>>
history == <<accepted, delivered, lost>>
process == <<fd, pc, call, kbuf>>
vars == <<loading, attachment, ring, power, events, process, history, fault>>

PowerStates == {"OFF", "ON", "SUSPEND"}

\* Emit without the saturation.
EmitUnsaturated == events' = events + 1

\* kdal_emit_event.
Emit == events' = IF events < LogSize THEN events + 1 ELSE events

Init ==
  /\ loader = "load" /\ pending = LoadOrder /\ at = "register"
  /\ registered = {}
  /\ driver = [d \in Devices |-> FALSE]
  /\ state = [d \in Devices |-> FALSE]
  /\ ring = [d \in Devices |-> NULL]
  /\ power = [d \in Devices |-> "OFF"]
  /\ events = 0
  /\ fd = [p \in Procs |-> CLOSED]
  /\ pc = [p \in Procs |-> "idle"]
  /\ call = [p \in Procs |-> NULL]
  /\ kbuf = [p \in Procs |-> <<>>]
  /\ accepted = [d \in Devices |-> 0]
  /\ delivered = [d \in Devices |-> {}]
  /\ lost = [d \in Devices |-> {}]
  /\ fault = FALSE

-----------------------------------------------------------------------------
(* The module loader.                                                      *)

Creating(d, where) ==
  /\ loader = "load" /\ pending # <<>> /\ pending[1] = d
  /\ at = where

\* A device becomes visible: kdal_register_device.
Register(d) ==
  /\ Creating(d, "register")
  /\ registered' = registered \union {d}
  /\ IF d \in Bare
       THEN pending' = Tail(pending) /\ UNCHANGED at
       ELSE at' = "bind" /\ UNCHANGED pending
  /\ UNCHANGED <<loader, attachment, ring, power, events, process, history, fault>>

\* Bind as it was before the order in kdal_attach_driver was corrected: the
\* driver is bound after the probe only.
BindLate(d) ==
  /\ Creating(d, "bind")
  /\ at' = "ring"
  /\ UNCHANGED <<loader, pending, registered, attachment, ring, power, events,
                 process, history, fault>>

\* kdal_attach_driver up to the call of the probe.
Bind(d) ==
  /\ Creating(d, "bind")
  /\ driver' = [driver EXCEPT ![d] = TRUE]
  /\ at' = "ring"
  /\ UNCHANGED <<loader, pending, registered, state, ring, power, events,
                 process, history, fault>>

\* uart_probe: the ring, then the driver's state and the power.
ProbeRing(d) ==
  /\ Creating(d, "ring")
  /\ ring' = [ring EXCEPT ![d] = <<>>]
  /\ at' = "state"
  /\ UNCHANGED <<loader, pending, registered, attachment, power, events,
                 process, history, fault>>

ProbeState(d) ==
  /\ Creating(d, "state")
  /\ IF driver[d]
       THEN state' = [state EXCEPT ![d] = TRUE] /\ UNCHANGED fault
       ELSE fault' = TRUE /\ UNCHANGED state
  /\ at' = "power"
  /\ UNCHANGED <<loader, pending, registered, driver, ring, power, events,
                 process, history>>

ProbePower(d) ==
  /\ Creating(d, "power")
  /\ power' = [power EXCEPT ![d] = "ON"]
  /\ at' = "announce"
  /\ UNCHANGED <<loader, pending, registered, attachment, ring, events,
                 process, history, fault>>

Announce(d) ==
  /\ Creating(d, "announce")
  /\ Emit
  /\ pending' = Tail(pending) /\ at' = "register"
  /\ UNCHANGED <<loader, registered, attachment, ring, power, process, history,
                 fault>>

GoLive ==
  /\ loader = "load" /\ pending = <<>>
  /\ loader' = "live"
  /\ UNCHANGED <<pending, at, registered, attachment, ring, power, events,
                 process, history, fault>>

\* rmmod and a new insmod, whoever has a file open: file_operations without
\* an owner.
ReloadUnowned ==
  /\ loader = "live"
  /\ loader' = "load" /\ pending' = LoadOrder /\ at' = "register"
  /\ registered' = {}
  /\ driver' = [d \in Devices |-> FALSE]
  /\ state' = [d \in Devices |-> FALSE]
  /\ ring' = [d \in Devices |-> NULL]
  /\ power' = [d \in Devices |-> "OFF"]
  /\ events' = 0
  /\ accepted' = [d \in Devices |-> 0]
  /\ delivered' = [d \in Devices |-> {}]
  /\ lost' = [d \in Devices |-> {}]
  /\ UNCHANGED <<process, fault>>

\* rmmod and a new insmod: nobody is there to see the steps of kdal_core_exit
\* (CoreLifecycle has them), and the history starts again with the rings.
Reload ==
  /\ loader = "live"
  /\ \A p \in Procs : fd[p] = CLOSED
  /\ loader' = "load" /\ pending' = LoadOrder /\ at' = "register"
  /\ registered' = {}
  /\ driver' = [d \in Devices |-> FALSE]
  /\ state' = [d \in Devices |-> FALSE]
  /\ ring' = [d \in Devices |-> NULL]
  /\ power' = [d \in Devices |-> "OFF"]
  /\ events' = 0
  /\ accepted' = [d \in Devices |-> 0]
  /\ delivered' = [d \in Devices |-> {}]
  /\ lost' = [d \in Devices |-> {}]
  /\ UNCHANGED <<process, fault>>

-----------------------------------------------------------------------------
(* The calls of a process.                                                 *)

Idle(p) == pc[p] = "idle" /\ fd[p] # CLOSED

\* The call returns to the process.
Return(p) ==
  /\ pc' = [pc EXCEPT ![p] = "idle"]
  /\ call' = [call EXCEPT ![p] = NULL]
  /\ kbuf' = [kbuf EXCEPT ![p] = <<>>]

Enter(p, where, c) ==
  /\ pc' = [pc EXCEPT ![p] = where]
  /\ call' = [call EXCEPT ![p] = c]
  /\ UNCHANGED kbuf

Open(p) ==
  /\ fd[p] = CLOSED
  /\ \/ fd' = [fd EXCEPT ![p] = NULL] /\ Return(p)
     \/ UNCHANGED fd /\ Return(p)  \* -ENOMEM
  /\ UNCHANGED <<loading, attachment, ring, power, events, history, fault>>

Release(p) ==
  /\ Idle(p)
  /\ fd' = [fd EXCEPT ![p] = CLOSED] /\ Return(p)
  /\ UNCHANGED <<loading, attachment, ring, power, events, history, fault>>

\* KDAL_IOCTL_SELECT_DEV.
Select(p, d) ==
  /\ Idle(p)
  /\ IF d \in registered
       THEN fd' = [fd EXCEPT ![p] = d] /\ Return(p)
       ELSE UNCHANGED fd /\ Return(p)  \* -ENODEV
  /\ UNCHANGED <<loading, attachment, ring, power, events, history, fault>>

\* kdal_cdev_read or kdal_cdev_write and the driver's function up to the call
\* of the backend.  device->driver is never cleared while a file is open.
Transfer(p, op, len) ==
  /\ Idle(p)
  /\ \/ fd[p] = NULL /\ Return(p)  \* -ENODEV
     \/ /\ fd[p] # NULL
        /\ \/ ~driver[fd[p]] /\ Return(p)  \* -EOPNOTSUPP
           \/ driver[fd[p]] /\ power[fd[p]] # "ON" /\ Return(p)  \* -EIO
           \/ /\ driver[fd[p]] /\ power[fd[p]] = "ON"
              /\ \/ len > 0 /\ Return(p)  \* -ENOMEM
                 \/ op = "write" /\ len > 0 /\ Return(p)  \* -EFAULT
                 \/ Enter(p, op, [op |-> op, len |-> len])
  /\ UNCHANGED <<fd, loading, attachment, ring, power, events, history, fault>>

Read(p, len)  == Transfer(p, "read", len)
Write(p, len) == Transfer(p, "write", len)

Lesser(m, n) == IF m < n THEN m ELSE n

NoRing(p) ==
  /\ pc[p] \in {"read", "write"}
  /\ ring[fd[p]] = NULL
  /\ Return(p)  \* -EIO
  /\ UNCHANGED <<fd, loading, attachment, ring, power, events, history, fault>>

\* TakeBytes that waits until there is something to read.
TakeBytesWaits(p) ==
  /\ pc[p] = "read" /\ ring[fd[p]] \notin {NULL, <<>>}
  /\ LET d == fd[p]
         n == Lesser(call[p].len, Len(ring[d]))
     IN  /\ kbuf' = [kbuf EXCEPT ![p] = SubSeq(ring[d], 1, n)]
         /\ ring' = [ring EXCEPT ![d] = SubSeq(@, n + 1, Len(@))]
  /\ pc' = [pc EXCEPT ![p] = "copy"]
  /\ UNCHANGED <<fd, call, loading, attachment, power, events, history,
                 fault>>

\* The backend's read into the kernel buffer.
TakeBytes(p) ==
  /\ pc[p] = "read" /\ ring[fd[p]] # NULL
  /\ LET d == fd[p]
         n == Lesser(call[p].len, Len(ring[d]))
     IN  /\ kbuf' = [kbuf EXCEPT ![p] = SubSeq(ring[d], 1, n)]
         /\ ring' = [ring EXCEPT ![d] = SubSeq(@, n + 1, Len(@))]
  /\ pc' = [pc EXCEPT ![p] = "copy"]
  /\ UNCHANGED <<fd, call, loading, attachment, power, events, history,
                 fault>>

Numbers(p) == {kbuf[p][i] : i \in DOMAIN kbuf[p]}

\* CopyFault that puts the bytes it could not deliver back into the ring.
CopyFaultPutsBack(p) ==
  /\ pc[p] = "copy" /\ kbuf[p] # <<>>
  /\ ring' = [ring EXCEPT ![fd[p]] = @ \o kbuf[p]]
  /\ Return(p)  \* -EFAULT
  /\ UNCHANGED <<fd, loading, attachment, power, events, history, fault>>

\* copy_to_user fails: the bytes are in the ring no more.
CopyFault(p) ==
  /\ pc[p] = "copy" /\ kbuf[p] # <<>>
  /\ lost' = [lost EXCEPT ![fd[p]] = @ \union Numbers(p)]
  /\ Return(p)  \* -EFAULT
  /\ UNCHANGED <<fd, loading, attachment, ring, power, events, accepted,
                 delivered, fault>>

\* The data reach the process; the driver's statistics (cfg->rx_bytes) need
\* device->driver once more.
CopyOut(p) ==
  /\ pc[p] = "copy"
  /\ delivered' = [delivered EXCEPT ![fd[p]] = @ \union Numbers(p)]
  /\ fault' = (fault \/ ~driver[fd[p]])
  /\ Return(p)
  /\ UNCHANGED <<fd, loading, attachment, ring, power, events, accepted, lost>>

\* The backend's write from the kernel buffer, and the return.
PutBytes(p) ==
  /\ pc[p] = "write" /\ ring[fd[p]] # NULL
  /\ LET d == fd[p]
         room == RingSize - Len(ring[d])
         n == Lesser(call[p].len, Lesser(room, MaxBytes - accepted[d]))
     IN  /\ ring' = [ring EXCEPT ![d] = @ \o [i \in 1 .. n |-> accepted[d] + i]]
         /\ accepted' = [accepted EXCEPT ![d] = @ + n]
         /\ Return(p)
         /\ fault' = (fault \/ (n > 0 /\ ~driver[d]))
  /\ UNCHANGED <<fd, loading, attachment, power, events, delivered, lost>>

\* KDAL_IOCTL_SET_POWER and kdal_set_device_power: the driver's operation, if
\* there is one, the field once more, the event.
SetPower(p, s) ==
  /\ Idle(p)
  /\ \/ fd[p] = NULL /\ Return(p)  \* -ENODEV
     \/ /\ fd[p] # NULL
        /\ \/ Return(p)  \* -EFAULT
           \/ s \notin PowerStates /\ Return(p)  \* -EINVAL
           \/ /\ s \in PowerStates
              /\ Enter(p, IF driver[fd[p]] THEN "driver_power" ELSE "power",
                       [op |-> "power", state |-> s])
  /\ UNCHANGED <<fd, loading, attachment, ring, power, events, history, fault>>

StorePower(p, where) ==
  /\ pc[p] \in {"driver_power", "power"}
  /\ power' = [power EXCEPT ![fd[p]] = call[p].state]
  /\ pc' = [pc EXCEPT ![p] = where]
  /\ UNCHANGED <<fd, call, kbuf, loading, attachment, ring, events,
                 history, fault>>

DriverPower(p) == pc[p] = "driver_power" /\ StorePower(p, "power")
CorePower(p)   == pc[p] = "power" /\ StorePower(p, "emit")

ReportPower(p) ==
  /\ pc[p] = "emit"
  /\ Emit
  /\ Return(p)
  /\ UNCHANGED <<fd, loading, attachment, ring, power, history, fault>>

\* KDAL_IOCTL_POLL_EVENT has no case in kdal_cdev_ioctl: like any command it
\* does not know it goes to the driver of the selected device, and no driver
\* knows it either.
PollEvent(p) ==
  /\ Idle(p)
  /\ pc' = [pc EXCEPT ![p] = "poll"]
  /\ UNCHANGED <<fd, call, kbuf, loading, attachment, ring, power, events,
                 history, fault>>

PollReturns(p) ==
  /\ pc[p] = "poll"
  /\ Return(p)  \* -ENOTTY
  /\ UNCHANGED <<fd, loading, attachment, ring, power, events, history, fault>>

\* Everything a call does after it has begun.
Proceed(p) ==
  \/ NoRing(p) \/ TakeBytes(p) \/ CopyFault(p) \/ CopyOut(p) \/ PutBytes(p)
  \/ DriverPower(p) \/ CorePower(p) \/ ReportPower(p) \/ PollReturns(p)

Begin(p) ==
  \/ Open(p) \/ Release(p)
  \/ \E d \in Devices : Select(p, d)
  \/ \E len \in 0 .. MaxLen : Read(p, len)
  \/ \E len \in 0 .. MaxLen : Write(p, len)
  \/ \E s \in PowerArgs : SetPower(p, s)
  \/ PollEvent(p)

LoaderStep ==
  \/ \E d \in Devices : \/ Register(d) \/ Bind(d) \/ ProbeRing(d)
                        \/ ProbeState(d) \/ ProbePower(d) \/ Announce(d)
  \/ GoLive

Next == LoaderStep \/ Reload \/ \E p \in Procs : Begin(p) \/ Proceed(p)

Spec == Init /\ [][Next]_vars

\* A process in the kernel goes on; it may never call again, and nobody need
\* ever unload the module.
FairSpec == Spec /\ WF_vars(LoaderStep) /\ \A p \in Procs : WF_vars(Proceed(p))

-----------------------------------------------------------------------------
Stream(d) == IF ring[d] = NULL THEN <<>> ELSE ring[d]

InFlight(d) == {p \in Procs : fd[p] = d /\ pc[p] = "copy"}

TypeOK ==
  /\ loader \in {"load", "live"}
  /\ registered \subseteq Devices
  /\ \A d \in Devices : power[d] \in PowerStates
  /\ \A d \in Devices : Len(Stream(d)) <= RingSize
  /\ events \in 0 .. LogSize
  /\ \A p \in Procs : fd[p] \in Devices \union {NULL, CLOSED}
  /\ \A p \in Procs : Len(kbuf[p]) <= MaxLen
  /\ fault \in BOOLEAN

\* The device a file has selected is registered as long as the file is open,
\* so the pointer kept in kdal_file_ctx never dangles (the selection takes no
\* reference; what protects it is the owner of kdal_cdev_fops).
SelectionAlive ==
  \A p \in Procs : fd[p] \in {NULL, CLOSED} \union registered

\* A process that reaches a device before it is attached is refused or served
\* as if there were no ring: neither it nor the probe follows a NULL
\* device->driver (the comment in kdal_attach_driver).
NoNullDeref == ~fault

\* Every byte the ring has accepted is in exactly one place: in the ring, in
\* the kernel buffer of one read, with one process, or dropped by a fault; and
\* the ring holds the youngest of them in order of acceptance, whatever the
\* interleaving of readers, writers, faults and changes of power (uart_read and
\* uart_write around the ring).
BytesConserved ==
  \A d \in Devices :
    LET n      == accepted[d]
        queued == Len(Stream(d))
        held   == [p \in InFlight(d) |-> Numbers(p)]
    IN  /\ Stream(d) = [i \in 1 .. queued |-> n - queued + i]
        /\ 1 .. n - queued =
             delivered[d] \union lost[d] \union UNION {held[p] : p \in InFlight(d)}
        /\ delivered[d] \intersect lost[d] = {}
        /\ \A p \in InFlight(d) :
             /\ held[p] \intersect (delivered[d] \union lost[d]) = {}
             /\ \A q \in InFlight(d) \ {p} : held[p] \intersect held[q] = {}

\* Every call returns, whatever the other processes and the loader do: reads do
\* not wait for data nor writes for room (uart_read and uart_write pass on a
\* short count).
CallsReturn == \A p \in Procs : pc[p] # "idle" ~> pc[p] = "idle"

=============================================================================
