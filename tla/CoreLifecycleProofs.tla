------------------------ MODULE CoreLifecycleProofs ------------------------
(***************************************************************************)
(* For a device tree of any length: loading and unloading the module gives *)
(* back what was acquired, in reverse order, wherever loading failed.      *)
(*                                                                         *)
(* The argument is about one number.  The ladder of kdal_core_init and     *)
(* kdal_core_exit both run the subsystems in the reverse of the order of   *)
(* loading, so that a phase and a step of it amount to a Level: what ranks *)
(* below it is up, what ranks above it is down, and only the subsystem     *)
(* that has this rank is in between.                                       *)
(***************************************************************************)
EXTENDS CoreLifecycle, SequenceTheorems, TLAPS

Rank == [chardev |-> 1, debugfs |-> 2, qemu |-> 3, glue |-> 4, platdev |-> 5,
         dt |-> 6, uart |-> 7, i2c |-> 8, spi |-> 9, gpu |-> 10]

Level ==
  CASE phase = "load"   -> step
    [] phase = "unwind" -> 10 - step
    [] phase = "live"   -> 11
    [] phase = "exit"   -> 11 - step
    [] phase = "gone"   -> 0

InTakeDown == phase \in {"unwind", "exit"}

\* The steps of the phases, and the positions inside the driver's calls.
StepInv ==
  /\ phase \in {"load", "unwind", "live", "exit", "gone"}
  /\ phase = "load" => step \in 1 .. 11
  /\ phase = "unwind" => step \in 1 .. 10
  /\ phase = "exit" => step \in 1 .. 12
  /\ phase \in {"live", "gone"} => step = 0
  /\ at \in IF phase = "load" THEN {"start", "device", "probe", "state"}
                              ELSE {"start", "remove", "unregister"}
  /\ at # "start" => Level \in 7 .. 10 /\ phase \in {"load", "unwind", "exit"}

-----------------------------------------------------------------------------
(* The orders of the calls.                                                *)

\* The calls of the three lists have the ranks their places say.
LEMMA InitRank ==
  ASSUME NEW i \in DOMAIN InitOrder
  PROVE  /\ i \in 1 .. 10 /\ InitOrder[i] \in DOMAIN Rank /\ Rank[InitOrder[i]] = i
         /\ ErrLabel[InitOrder[i]] = 11 - i
BY SMT DEF InitOrder, Rank, ErrLabel

LEMMA UnwindRank ==
  ASSUME NEW i \in DOMAIN UnwindOrder
  PROVE  /\ i \in 1 .. 9 /\ UnwindOrder[i] \in DOMAIN Rank
         /\ Rank[UnwindOrder[i]] = 10 - i
BY SMT DEF UnwindOrder, Rank

LEMMA ExitRank ==
  ASSUME NEW i \in DOMAIN ExitOrder
  PROVE  /\ i \in 1 .. 11
         /\ \/ i = 11 /\ ExitOrder[i] = "events"
            \/ /\ i # 11 /\ ExitOrder[i] \in DOMAIN Rank
               /\ Rank[ExitOrder[i]] = 11 - i
BY SMT DEF ExitOrder, Rank

-----------------------------------------------------------------------------
(* What the steps do to the level.                                         *)

LEMMA LoadingLevel ==
  ASSUME NEW s, Loading(s)
  PROVE  /\ phase = "load" /\ step \in 1 .. 10 /\ Level = step
         /\ s \in DOMAIN Rank /\ Rank[s] = step /\ ErrLabel[s] = 11 - step
BY InitRank DEF Loading, AtStep, Level

LEMMA LeavingLevel ==
  ASSUME NEW s, Leaving(s)
  PROVE  /\ phase \in {"unwind", "exit"}
         /\ Level \in 0 .. 10
         /\ \/ s = "events" /\ Level = 0 /\ phase = "exit"
            \/ s \in DOMAIN Rank /\ Rank[s] = Level
         /\ phase = "unwind" => step = 10 - Level /\ step \in 1 .. 9
         /\ phase = "exit" => step = 11 - Level /\ step \in 1 .. 11
<1>1. CASE phase = "unwind" /\ AtStep(UnwindOrder, s)
  <2>1. step \in DOMAIN UnwindOrder /\ s = UnwindOrder[step]
    BY <1>1 DEF AtStep
  <2>2. step \in 1 .. 9 /\ s \in DOMAIN Rank /\ Rank[s] = 10 - step
    BY <2>1, UnwindRank
  <2>3. Level = 10 - step
    BY <1>1, SMT DEF Level
  <2> QED BY <1>1, <2>2, <2>3, SMT
<1>2. CASE phase = "exit" /\ AtStep(ExitOrder, s)
  <2>1. step \in DOMAIN ExitOrder /\ s = ExitOrder[step]
    BY <1>2 DEF AtStep
  <2>2. /\ step \in 1 .. 11
        /\ \/ step = 11 /\ s = "events"
           \/ s \in DOMAIN Rank /\ Rank[s] = 11 - step
    BY <2>1, ExitRank
  <2>3. Level = 11 - step
    BY <1>2, SMT DEF Level
  <2> QED BY <1>2, <2>2, <2>3, SMT
<1> QED BY <1>1, <1>2 DEF Leaving

\* A driver's calls are those of ranks 7 to 10.
LEMMA DriverRank ==
  ASSUME NEW d \in DOMAIN Rank
  PROVE  d \in Drivers <=> Rank[d] \in 7 .. 10
BY SMT DEF Rank, Drivers

LEMMA FailStep ==
  ASSUME NEW s, Loading(s), Fail(s)
  PROVE  /\ StepInv'
         /\ phase = "load" /\ phase' = "unwind" /\ at' = "start"
         /\ Level' = Level - 1
<1>1. /\ phase = "load" /\ step \in 1 .. 10 /\ Level = step
      /\ ErrLabel[s] = 11 - step
  BY LoadingLevel
<1>2. /\ phase' = "unwind" /\ step' = 11 - step /\ at' = "start"
  BY <1>1 DEF Fail
<1>3. Level' = 10 - step'
  BY <1>2, SMT DEF Level
<1>4. Level' = Level - 1 /\ step' \in 1 .. 10
  BY <1>1, <1>2, <1>3, SMT
<1> QED BY <1>1, <1>2, <1>4 DEF StepInv

LEMMA LoadedStep ==
  ASSUME NEW s, Loading(s), Done
  PROVE  /\ StepInv'
         /\ phase = "load" /\ phase' = "load" /\ at' = "start"
         /\ Level' = Level + 1
<1>1. phase = "load" /\ step \in 1 .. 10 /\ Level = step
  BY LoadingLevel
<1>2. phase' = "load" /\ step' = step + 1 /\ at' = "start"
  BY <1>1 DEF Done
<1>3. Level' = step'
  BY <1>2, SMT DEF Level
<1>4. Level' = Level + 1 /\ step' \in 1 .. 11
  BY <1>1, <1>2, <1>3, SMT
<1> QED BY <1>1, <1>2, <1>4 DEF StepInv

LEMMA LeftStep ==
  ASSUME NEW s, Leaving(s), Done
  PROVE  /\ StepInv'
         /\ phase \in {"unwind", "exit"} /\ phase' = phase /\ at' = "start"
         /\ Level' = Level - 1
<1>1. /\ phase \in {"unwind", "exit"} /\ Level \in 0 .. 10
      /\ phase = "unwind" => step = 10 - Level /\ step \in 1 .. 9
      /\ phase = "exit" => step = 11 - Level /\ step \in 1 .. 11
  BY LeavingLevel
<1>2. phase' = phase /\ step' = step + 1 /\ at' = "start"
  BY <1>1 DEF Done
<1>3. CASE phase = "unwind"
  <2>1. Level' = 10 - step'
    BY <1>2, <1>3, SMT DEF Level
  <2>2. Level' = Level - 1 /\ step' \in 1 .. 10
    BY <1>1, <1>2, <1>3, <2>1, SMT
  <2> QED BY <1>2, <1>3, <2>2 DEF StepInv
<1>4. CASE phase = "exit"
  <2>1. Level' = 11 - step'
    BY <1>2, <1>4, SMT DEF Level
  <2>2. Level' = Level - 1 /\ step' \in 1 .. 12
    BY <1>1, <1>2, <1>4, <2>1, SMT
  <2> QED BY <1>2, <1>4, <2>2 DEF StepInv
<1> QED BY <1>1, <1>3, <1>4

-----------------------------------------------------------------------------
(* Resources.                                                              *)

PartKinds == {"driver", "device", "ring", "state"}

\* The rank of the subsystem that acquires and gives back a resource.
OwnerRank(r) ==
  CASE r.kind = "misc"                     -> 1
    [] r.kind = "dir"                      -> 2
    [] r.kind \in GlueParts                -> 4
    [] r.kind \in {"entry", "controller"}  -> 6
    [] r.kind \in {"backend"} \union PartKinds -> Rank[r.name]

LEMMA ResourceRank ==
  /\ OwnerRank(Resource("misc", "kdal")) = 1
  /\ OwnerRank(Resource("dir", "kdal")) = 2
  /\ \A s : OwnerRank(Resource("backend", s)) = Rank[s]
  /\ \A n : \A k \in GlueParts : OwnerRank(Resource(k, n)) = 4
  /\ \A n : \A k \in {"entry", "controller"} : OwnerRank(Resource(k, n)) = 6
  /\ \A d : \A k \in PartKinds : OwnerRank(Resource(k, d)) = Rank[d]
BY SMT DEF OwnerRank, Resource, GlueParts, PartKinds

LEMMA ResourceCases ==
  ASSUME NEW r \in Resources
  PROVE  \/ r = Resource("misc", "kdal") /\ OwnerRank(r) = 1
         \/ r = Resource("dir", "kdal") /\ OwnerRank(r) = 2
         \/ r = Resource("backend", "qemu") /\ OwnerRank(r) = 3
         \/ r \in Glue(GlueParts) /\ OwnerRank(r) = 4
         \/ r = Resource("backend", "platdev") /\ OwnerRank(r) = 5
         \/ r.kind \in {"entry", "controller"} /\ OwnerRank(r) = 6
         \/ \E d \in Drivers : r \in DriverParts(d) /\ OwnerRank(r) = Rank[d]
<1>1. CASE r \in UNION {DriverParts(d) : d \in Drivers}
  BY <1>1, ResourceRank DEF DriverParts, PartKinds
<1>2. CASE r \in {Resource("backend", s) : s \in {"qemu", "platdev"}}
  <2>1. Rank["qemu"] = 3 /\ Rank["platdev"] = 5
    BY SMT DEF Rank
  <2>2. /\ OwnerRank(Resource("backend", "qemu")) = 3
        /\ OwnerRank(Resource("backend", "platdev")) = 5
    BY <2>1, ResourceRank
  <2>3. r = Resource("backend", "qemu") \/ r = Resource("backend", "platdev")
    BY <1>2
  <2> QED BY <2>2, <2>3
<1>3. CASE r \in Glue(GlueParts)
  BY <1>3, ResourceRank DEF Glue
<1>4. CASE r \in {Resource("misc", "kdal"), Resource("dir", "kdal")}
  BY <1>4, ResourceRank
<1>5. CASE r \in {Resource(k, n) : k \in {"entry", "controller"}, n \in EntryNames}
  <2>1. PICK k \in {"entry", "controller"}, n \in EntryNames : r = Resource(k, n)
    BY <1>5
  <2>2. r.kind = k
    BY <2>1 DEF Resource
  <2> QED BY <2>1, <2>2, ResourceRank
<1> QED BY <1>1, <1>2, <1>3, <1>4, <1>5 DEF Resources

\* A resource of a driver's rank is a part of that driver.
LEMMA PartsByRank ==
  ASSUME NEW r \in Resources, NEW d \in Drivers, OwnerRank(r) = Rank[d]
  PROVE  r \in DriverParts(d)
<1>1. \A e \in Drivers : Rank[e] \in 7 .. 10 /\ (Rank[e] = Rank[d] => e = d)
  BY SMT DEF Rank, Drivers
<1> QED BY <1>1, ResourceCases, SMT

\* One of rank 1 to 5 is given back by the exit function of that rank.
LEMMA ReleasedByRank ==
  ASSUME NEW r \in Resources,
         NEW s \in {"qemu", "platdev", "glue", "debugfs", "chardev"},
         OwnerRank(r) = Rank[s]
  PROVE  r \in Released(s)
<1>1. \A e \in Drivers : Rank[e] \in 7 .. 10
  BY SMT DEF Rank, Drivers
<1>2. Rank[s] \in 1 .. 5
  BY SMT DEF Rank
<1>3. \A d \in Drivers : OwnerRank(r) # Rank[d]
  BY <1>1, <1>2
<1>4. CASE s = "qemu"
  <2>1. OwnerRank(r) = 3
    BY <1>4, SMT DEF Rank
  <2>2. r = Resource("backend", "qemu")
    BY <1>3, <2>1, ResourceCases, SMT
  <2> QED BY <1>4, <2>2 DEF Released
<1>5. CASE s = "platdev"
  <2>1. OwnerRank(r) = 5
    BY <1>5, SMT DEF Rank
  <2>2. r = Resource("backend", "platdev")
    BY <1>3, <2>1, ResourceCases, SMT
  <2> QED BY <1>5, <2>2 DEF Released
<1>6. CASE s = "glue"
  <2>1. OwnerRank(r) = 4
    BY <1>6, SMT DEF Rank
  <2>2. r \in Glue(GlueParts)
    BY <1>3, <2>1, ResourceCases, SMT
  <2> QED BY <1>6, <2>2 DEF Released
<1>7. CASE s = "debugfs"
  <2>1. OwnerRank(r) = 2
    BY <1>7, SMT DEF Rank
  <2>2. r = Resource("dir", "kdal")
    BY <1>3, <2>1, ResourceCases, SMT
  <2> QED BY <1>7, <2>2 DEF Released
<1>8. CASE s = "chardev"
  <2>1. OwnerRank(r) = 1
    BY <1>8, SMT DEF Rank
  <2>2. r = Resource("misc", "kdal")
    BY <1>3, <2>1, ResourceCases, SMT
  <2> QED BY <1>8, <2>2 DEF Released
<1> QED BY <1>4, <1>5, <1>6, <1>7, <1>8

\* What is held after an acquisition and after a release.
LEMMA AcquireHeld ==
  ASSUME NEW S, Acquire(S)
  PROVE  /\ HeldSet' = HeldSet \union S /\ clock' = clock + 1
         /\ \A r \in HeldSet : held'[r] = held[r]
         /\ \A r \in S \ HeldSet : held'[r] = clock
         /\ held' = [r \in HeldSet' |-> IF r \in HeldSet THEN held[r] ELSE clock]
BY DEF Acquire, HeldSet

LEMMA GiveBackHeld ==
  ASSUME NEW S, GiveBack(S)
  PROVE  /\ HeldSet' = HeldSet \ S /\ clock' = clock
         /\ \A r \in HeldSet' : held'[r] = held[r]
         /\ held' = [r \in HeldSet' |-> held[r]]
BY DEF GiveBack, HeldSet, Restrict

-----------------------------------------------------------------------------
(* The invariant.                                                          *)

TypeInv ==
  /\ scanned \in 0 .. Len(DTNodes)
  /\ scanOOM \in BOOLEAN
  /\ HeldSet \subseteq Resources
  /\ clock \in Nat
  /\ held \in [HeldSet -> 0 .. clock - 1]

\* Nothing is held above the level, and while loading nothing at it, except
\* by a scan or a driver that is under way.
BelowInv ==
  \A r \in HeldSet :
    /\ phase = "load" => \/ OwnerRank(r) < Level
                         \/ OwnerRank(r) = Level /\ OwnerRank(r) >= 6
    /\ Stray(r) \/ OwnerRank(r) <= Level

\* What a later subsystem holds is younger, and so are the ring and the state
\* of a driver than its two registrations.
AgeInv ==
  /\ \A r, q \in HeldSet : OwnerRank(q) < OwnerRank(r) => held[q] < held[r]
  /\ \A d \in Drivers, k \in {"driver", "device"}, l \in {"ring", "state"} :
       (Holds(k, d) /\ Holds(l, d)) =>
         held[Resource(k, d)] < held[Resource(l, d)]

\* A backend that is up is registered.
BackendInv ==
  \A s \in {"qemu", "platdev"} :
    (Rank[s] < Level \/ (Rank[s] = Level /\ InTakeDown)) => Holds("backend", s)

\* Where a driver is: down, up, or inside its init or exit function.
Stage(d) ==
  IF Rank[d] < Level THEN "up"
  ELSE IF Rank[d] > Level THEN "down"
  ELSE IF at # "start" THEN at
  ELSE IF phase = "load" THEN "down" ELSE "up"

PartsAt ==
  [down |-> {}, device |-> {"driver"}, probe |-> {"driver", "device"},
   state |-> {"driver", "device", "ring"}, up |-> PartKinds, remove |-> PartKinds,
   unregister |-> {"driver", "device"}]

Has(d) == {k \in PartKinds : Holds(k, d)}

DriverInv ==
  \A d \in Drivers : /\ Has(d) = PartsAt[Stage(d)]
                    /\ announced[d] = IF Stage(d) = "up" THEN 1 ELSE 0

IInv ==
  /\ StepInv /\ TypeInv /\ BelowInv /\ AgeInv /\ BackendInv /\ DriverInv
  /\ announced \in [Drivers -> Int]

-----------------------------------------------------------------------------
(* The stages of the drivers.                                              *)

LEMMA DriverRanks ==
  \A d \in Drivers : d \in DOMAIN Rank /\ Rank[d] \in 7 .. 10
BY SMT DEF Rank, Drivers

LEMMA RankInjective ==
  \A s, t \in DOMAIN Rank : Rank[s] = Rank[t] => s = t
BY SMT DEF Rank

LEMMA LevelInt ==
  ASSUME StepInv
  PROVE  Level \in -1 .. 11
BY SMT DEF StepInv, Level

\* The level goes up by one: the subsystem at hand is up, the others stay.
LEMMA StageRaised ==
  ASSUME StepInv, phase' = "load", at' = "start", Level' = Level + 1, NEW d \in Drivers
  PROVE  Stage(d)' = IF Rank[d] = Level THEN "up"
                     ELSE IF Rank[d] < Level THEN "up" ELSE "down"
BY DriverRanks, LevelInt, SMT DEF Stage

\* The level goes down by one: the subsystem at hand is down, the others stay.
LEMMA StageLowered ==
  ASSUME StepInv, phase' # "load", at' = "start", Level' = Level - 1, NEW d \in Drivers
  PROVE  Stage(d)' = IF Rank[d] = Level THEN "down"
                     ELSE IF Rank[d] < Level THEN "up" ELSE "down"
BY DriverRanks, LevelInt, SMT DEF Stage

\* The parts of a driver after a step.
LEMMA AcquirePart ==
  ASSUME NEW d \in Drivers, NEW k \in PartKinds, Acquire({Resource(k, d)}), NEW e \in Drivers
  PROVE  Has(e)' = IF e = d THEN Has(d) \union {k} ELSE Has(e)
BY AcquireHeld DEF Has, Holds, Resource

LEMMA AcquireOther ==
  ASSUME NEW S, \A r \in S : r.kind \notin PartKinds, Acquire(S), NEW e \in Drivers
  PROVE  Has(e)' = Has(e)
BY AcquireHeld DEF Has, Holds, Resource

LEMMA GiveBackParts ==
  ASSUME NEW d \in Drivers, NEW K \in SUBSET PartKinds, NEW S,
         S = {Resource(k, d) : k \in K}, GiveBack(S), NEW e \in Drivers
  PROVE  Has(e)' = IF e = d THEN Has(d) \ K ELSE Has(e)
BY GiveBackHeld DEF Has, Holds, Resource

LEMMA GiveBackOther ==
  ASSUME NEW S, \A r \in S : r.kind \notin PartKinds, GiveBack(S), NEW e \in Drivers
  PROVE  Has(e)' = Has(e)
BY GiveBackHeld DEF Has, Holds, Resource

-----------------------------------------------------------------------------
(* The kinds of step.                                                      *)

\* A step at which the resources do not change.
LEMMA KeepHeld ==
  ASSUME UNCHANGED <<held, clock>>
  PROVE  /\ HeldSet' = HeldSet
         /\ \A k, n : Holds(k, n)' <=> Holds(k, n)
         /\ \A d : Has(d)' = Has(d)
         /\ Entries' = Entries
BY DEF HeldSet, Holds, Has, Entries

LEMMA TypeAcquire ==
  ASSUME TypeInv, NEW S \in SUBSET Resources, Acquire(S),
         scanned' \in 0 .. Len(DTNodes), scanOOM' \in BOOLEAN
  PROVE  TypeInv'
<1>1. HeldSet' \subseteq Resources /\ clock' = clock + 1 /\ clock \in Nat
  BY AcquireHeld DEF TypeInv
<1>2. held \in [HeldSet -> 0 .. clock - 1]
  BY DEF TypeInv
<1>3. held' = [r \in HeldSet' |-> IF r \in HeldSet THEN held[r] ELSE clock]
  BY AcquireHeld
<1>4. held' \in [HeldSet' -> 0 .. clock' - 1]
  BY <1>1, <1>2, <1>3, SMT
<1> QED BY <1>1, <1>4, SMT DEF TypeInv

LEMMA TypeGiveBack ==
  ASSUME TypeInv, NEW S, GiveBack(S),
         scanned' \in 0 .. Len(DTNodes), scanOOM' \in BOOLEAN
  PROVE  TypeInv'
<1>1. HeldSet' \subseteq HeldSet /\ clock' = clock /\ clock \in Nat
  BY GiveBackHeld DEF TypeInv
<1>2. held \in [HeldSet -> 0 .. clock - 1]
  BY DEF TypeInv
<1>3. held' = [r \in HeldSet' |-> held[r]]
  BY GiveBackHeld
<1>4. held' \in [HeldSet' -> 0 .. clock' - 1]
  BY <1>1, <1>2, <1>3, SMT
<1> QED BY <1>1, <1>4, SMT DEF TypeInv

\* Nothing older can be acquired later: what is held while a subsystem is
\* loading ranks at most as high.
LEMMA AgeAcquire ==
  ASSUME TypeInv, AgeInv, NEW S, Acquire(S), NEW k \in Int,
         \A r \in HeldSet : OwnerRank(r) \in Int /\ OwnerRank(r) <= k,
         \A r \in S : OwnerRank(r) = k,
         \A d \in Drivers, p \in {"driver", "device"}, l \in {"ring", "state"} :
           Resource(p, d) \in S => ~Holds(l, d) /\ Resource(l, d) \notin S
  PROVE  AgeInv'
<1>1. /\ HeldSet' = HeldSet \union S
      /\ \A r \in HeldSet : held'[r] = held[r]
      /\ \A r \in S \ HeldSet : held'[r] = clock
  BY AcquireHeld
<1>2. clock \in Nat /\ \A r \in HeldSet : held[r] \in 0 .. clock - 1
  BY DEF TypeInv
<1>3. ASSUME NEW r \in HeldSet', NEW q \in HeldSet', OwnerRank(q) < OwnerRank(r)
      PROVE  held'[q] < held'[r]
  <2>1. CASE r \in HeldSet
    <3>1. q \in HeldSet
      BY <1>1, <1>3, <2>1, SMT
    <3>2. held[q] < held[r]
      BY <1>3, <2>1, <3>1 DEF AgeInv
    <3> QED BY <1>1, <2>1, <3>1, <3>2
  <2>2. CASE r \notin HeldSet
    <3>1. q \in HeldSet
      BY <1>1, <1>3, <2>2, SMT
    <3>2. held'[r] = clock
      BY <1>1, <2>2
    <3> QED BY <1>1, <1>2, <3>1, <3>2, SMT
  <2> QED BY <2>1, <2>2
<1>4. ASSUME NEW d \in Drivers, NEW p \in {"driver", "device"}, NEW l \in {"ring", "state"},
             Resource(p, d) \in HeldSet', Resource(l, d) \in HeldSet'
      PROVE  held'[Resource(p, d)] < held'[Resource(l, d)]
  <2>1. Resource(p, d) \in HeldSet
    BY <1>1, <1>4 DEF Holds
  <2>2. CASE Resource(l, d) \in HeldSet
    <3>1. held[Resource(p, d)] < held[Resource(l, d)]
      BY <2>1, <2>2 DEF AgeInv, Holds
    <3> QED BY <1>1, <2>1, <2>2, <3>1
  <2>3. CASE Resource(l, d) \notin HeldSet
    <3>1. held'[Resource(l, d)] = clock
      BY <1>1, <1>4, <2>3
    <3> QED BY <1>1, <1>2, <2>1, <3>1, SMT
  <2> QED BY <2>2, <2>3
<1> QED BY <1>3, <1>4 DEF AgeInv, Holds

LEMMA AgeGiveBack ==
  ASSUME AgeInv, NEW S, GiveBack(S)
  PROVE  AgeInv'
<1>1. HeldSet' \subseteq HeldSet /\ \A r \in HeldSet' : held'[r] = held[r]
  BY GiveBackHeld
<1> QED BY <1>1 DEF AgeInv, Holds

LEMMA AgeKeep ==
  ASSUME TypeInv, AgeInv, UNCHANGED <<held, clock>>,
         scanned' \in 0 .. Len(DTNodes), scanOOM' \in BOOLEAN
  PROVE  AgeInv' /\ TypeInv'
BY DEF AgeInv, TypeInv, Holds, HeldSet

\* The level goes up, stays or goes down.
LEMMA BelowRaised ==
  ASSUME StepInv, BelowInv, phase = "load", phase' = "load", Level' = Level + 1,
         \A r \in HeldSet' : OwnerRank(r) \in Int,
         \A r \in HeldSet' : r \in HeldSet \/ OwnerRank(r) = Level
  PROVE  BelowInv'
BY LevelInt, SMT DEF BelowInv

LEMMA BelowLowered ==
  ASSUME StepInv, TypeInv, BelowInv, phase' # "load", Level' = Level - 1,
         HeldSet' \subseteq HeldSet, scanOOM => scanOOM',
         \A r \in HeldSet' : OwnerRank(r) = Level => Stray(r)',
         \A r \in HeldSet : OwnerRank(r) \in Int
  PROVE  BelowInv'
<1> SUFFICES ASSUME NEW r \in HeldSet'
             PROVE  Stray(r)' \/ OwnerRank(r) <= Level'
  BY DEF BelowInv
<1>1. Stray(r) => Stray(r)'
  BY DEF Stray
<1>2. Stray(r) \/ OwnerRank(r) <= Level
  BY DEF BelowInv
<1> QED BY <1>1, <1>2, LevelInt, SMT

LEMMA BelowInside ==
  ASSUME StepInv, BelowInv, phase' = phase, Level' = Level, scanOOM' = scanOOM,
         \A r \in HeldSet' : r \in HeldSet \/ (OwnerRank(r) = Level /\ Level >= 6)
  PROVE  BelowInv'
<1> SUFFICES ASSUME NEW r \in HeldSet'
             PROVE  /\ phase = "load" => \/ OwnerRank(r) < Level
                                         \/ OwnerRank(r) = Level /\ OwnerRank(r) >= 6
                    /\ Stray(r) \/ OwnerRank(r) <= Level
  BY DEF BelowInv, Stray
<1> QED BY LevelInt, SMT DEF BelowInv

LEMMA BackendRaised ==
  ASSUME StepInv, BackendInv, phase = "load", phase' = "load", Level' = Level + 1,
         HeldSet \subseteq HeldSet',
         \A s \in {"qemu", "platdev"} : Rank[s] = Level => Holds("backend", s)'
  PROVE  BackendInv'
<1>1. Rank["qemu"] \in Int /\ Rank["platdev"] \in Int
  BY SMT DEF Rank
<1>2. \A s : Holds("backend", s) => Holds("backend", s)'
  BY DEF Holds
<1> QED BY <1>1, <1>2, LevelInt, SMT DEF BackendInv, InTakeDown

LEMMA BackendLowered ==
  ASSUME StepInv, BackendInv, Level' = Level - 1,
         \A s \in {"qemu", "platdev"} :
           (Rank[s] < Level /\ Holds("backend", s)) => Holds("backend", s)'
  PROVE  BackendInv'
<1>1. Rank["qemu"] \in Int /\ Rank["platdev"] \in Int
  BY SMT DEF Rank
<1> QED BY <1>1, LevelInt, SMT DEF BackendInv

LEMMA BackendInside ==
  ASSUME BackendInv, Level' = Level, phase' = phase,
         \A s \in {"qemu", "platdev"} : Holds("backend", s) => Holds("backend", s)'
  PROVE  BackendInv'
BY DEF BackendInv, InTakeDown

-----------------------------------------------------------------------------
(* One lemma per action, or per kind of action.                            *)

LEMMA RankType ==
  ASSUME NEW r \in Resources
  PROVE  OwnerRank(r) \in 1 .. 10
BY ResourceCases, DriverRanks, SMT

LEMMA HeldRanks ==
  ASSUME TypeInv, NEW r \in HeldSet
  PROVE  OwnerRank(r) \in 1 .. 10
BY RankType DEF TypeInv

\* While the subsystem of rank k is loading, what is held ranks at most k,
\* and less than k unless it is the scan or a driver.
LEMMA LoadingBelow ==
  ASSUME IInv, NEW s, Loading(s)
  PROVE  /\ phase = "load" /\ Level \in 1 .. 10 /\ Level = Rank[s] /\ s \in DOMAIN Rank
         /\ \A r \in HeldSet : OwnerRank(r) \in 1 .. 10 /\ OwnerRank(r) <= Rank[s]
BY LoadingLevel, HeldRanks, SMT DEF IInv, BelowInv

\* A subsystem without a driver has been loaded: it may have acquired the
\* resources S, which are all its own.
LEMMA LoadedOther ==
  ASSUME IInv, NEW s, Loading(s), Done, NEW S \in SUBSET Resources,
         UNCHANGED <<held, clock>> \/ Acquire(S),
         \A r \in S : OwnerRank(r) = Rank[s] /\ r.kind \notin PartKinds,
         s \in {"qemu", "platdev"} => Holds("backend", s)',
         s \notin Drivers, UNCHANGED <<scanned, scanOOM, announced>>
  PROVE  IInv'
<1>1. /\ StepInv' /\ phase = "load" /\ phase' = "load" /\ at' = "start"
      /\ Level' = Level + 1
  BY LoadedStep
<1>2. /\ s \in DOMAIN Rank /\ Rank[s] = Level /\ Level \in 1 .. 10
      /\ \A r \in HeldSet : OwnerRank(r) \in Int /\ OwnerRank(r) <= Rank[s]
  BY LoadingBelow
<1>3. /\ HeldSet \subseteq HeldSet'
      /\ \A r \in HeldSet' : r \in HeldSet \/ OwnerRank(r) = Level
  BY <1>2, KeepHeld, AcquireHeld
<1>4. scanned' \in 0 .. Len(DTNodes) /\ scanOOM' \in BOOLEAN
  BY DEF IInv, TypeInv
<1>5. TypeInv'
  BY <1>4, TypeAcquire, AgeKeep DEF IInv
<1>6. BelowInv'
  BY <1>1, <1>2, <1>3, BelowRaised DEF IInv
<1>7. AgeInv'
  <2>1. \A d \in Drivers, p \in PartKinds : Resource(p, d) \notin S
    BY DEF Resource
  <2>2. CASE Acquire(S)
    <3>1. Rank[s] \in Int
      BY <1>2
    <3> QED BY <1>2, <2>1, <2>2, <3>1, AgeAcquire DEF IInv, PartKinds
  <2> QED BY <1>4, <2>2, AgeKeep DEF IInv
<1>8. BackendInv'
  <2>1. \A t \in {"qemu", "platdev"} : t \in DOMAIN Rank
    BY SMT DEF Rank
  <2>2. \A t \in {"qemu", "platdev"} : Rank[t] = Level => t = s
    BY <1>2, <2>1, RankInjective
  <2> QED BY <1>1, <1>3, <2>2, BackendRaised DEF IInv
<1>9. DriverInv'
  <2> SUFFICES ASSUME NEW d \in Drivers
               PROVE  /\ Has(d)' = PartsAt[Stage(d)']
                      /\ announced'[d] = IF Stage(d)' = "up" THEN 1 ELSE 0
    BY DEF DriverInv
  <2>1. d \in DOMAIN Rank /\ Rank[d] # Level
    BY <1>2, DriverRanks, RankInjective
  <2>2. Stage(d)' = Stage(d)
    <3>1. Stage(d)' = IF Rank[d] < Level THEN "up" ELSE "down"
      BY <1>1, <2>1, StageRaised DEF IInv
    <3>2. Rank[d] \in Int
      BY DriverRanks
    <3>3. Stage(d) = IF Rank[d] < Level THEN "up" ELSE "down"
      BY <1>2, <2>1, <3>2, SMT DEF Stage
    <3> QED BY <3>1, <3>3
  <2>3. Has(d)' = Has(d)
    BY KeepHeld, AcquireOther
  <2> QED BY <2>2, <2>3 DEF IInv, DriverInv
<1> QED BY <1>1, <1>5, <1>6, <1>7, <1>8, <1>9 DEF IInv

\* The parts of a driver have its rank, and are never strays.
LEMMA PartRank ==
  ASSUME NEW d \in Drivers, NEW k \in PartKinds
  PROVE  OwnerRank(Resource(k, d)) = Rank[d] /\ ~Stray(Resource(k, d))
<1>1. OwnerRank(Resource(k, d)) = Rank[d]
  BY ResourceRank
<1>2. ~Stray(Resource(k, d))
  BY SMT DEF Stray, Resource, PartKinds
<1> QED BY <1>1, <1>2

LEMMA StrayKinds ==
  \A d \in Drivers, k \in PartKinds : ~Stray(Resource(k, d))'
BY SMT DEF Stray, Resource, PartKinds

\* The subsystem at hand has failed or left: what it held it has given back.
LEMMA Lowered ==
  ASSUME IInv, StepInv', phase' # "load", at' = "start", Level' = Level - 1,
         NEW S, UNCHANGED <<held, clock>> \/ GiveBack(S),
         \A r \in S : OwnerRank(r) = Level,
         \A r \in HeldSet' : OwnerRank(r) = Level => Stray(r)',
         scanned' = scanned, scanOOM' \in BOOLEAN, scanOOM => scanOOM',
         announced' \in [Drivers -> Int],
         \A d \in Drivers : announced'[d] = IF Rank[d] = Level THEN 0 ELSE announced[d]
  PROVE  IInv'
<1>1. HeldSet' \subseteq HeldSet /\ \A r \in HeldSet : r \in S \/ r \in HeldSet'
  BY KeepHeld, GiveBackHeld
<1>2. scanned' \in 0 .. Len(DTNodes)
  BY DEF IInv, TypeInv
<1>3. TypeInv'
  BY <1>2, TypeGiveBack, AgeKeep DEF IInv
<1>4. BelowInv'
  <2>1. \A r \in HeldSet : OwnerRank(r) \in Int
    BY HeldRanks DEF IInv
  <2> QED BY <1>1, <2>1, BelowLowered DEF IInv
<1>5. AgeInv'
  BY <1>2, AgeGiveBack, AgeKeep DEF IInv
<1>6. BackendInv'
  <2> SUFFICES ASSUME NEW t \in {"qemu", "platdev"}, Rank[t] < Level, Holds("backend", t)
               PROVE  Holds("backend", t)'
    BY BackendLowered DEF IInv
  <2>1. OwnerRank(Resource("backend", t)) = Rank[t] /\ Rank[t] \in Int
    BY ResourceRank, SMT DEF Rank
  <2>2. OwnerRank(Resource("backend", t)) # Level
    BY <2>1, LevelInt, SMT DEF IInv
  <2> QED BY <1>1, <2>2 DEF Holds
<1>7. DriverInv'
  <2> SUFFICES ASSUME NEW d \in Drivers
               PROVE  /\ Has(d)' = PartsAt[Stage(d)']
                      /\ announced'[d] = IF Stage(d)' = "up" THEN 1 ELSE 0
    BY DEF DriverInv
  <2>0. Rank[d] \in Int /\ Level \in Int
    BY DriverRanks, LevelInt DEF IInv
  <2>1. CASE Rank[d] = Level
    <3>1. Stage(d)' = "down"
      BY <2>1, StageLowered DEF IInv
    <3>2. \A k \in PartKinds : Resource(k, d) \notin HeldSet'
      BY <2>1, PartRank, StrayKinds
    <3>3. Has(d)' = {}
      BY <3>2 DEF Has, Holds
    <3> QED BY <2>1, <3>1, <3>3 DEF PartsAt
  <2>2. CASE Rank[d] # Level
    <3>1. Stage(d)' = IF Rank[d] < Level THEN "up" ELSE "down"
      BY <2>2, StageLowered DEF IInv
    <3>2. Stage(d) = IF Rank[d] < Level THEN "up" ELSE "down"
      BY <2>0, <2>2, SMT DEF Stage
    <3>3. \A k \in PartKinds : Resource(k, d) \notin S
      BY <2>2, PartRank
    <3>4. Has(d)' = Has(d)
      BY <1>1, <3>3 DEF Has, Holds
    <3> QED BY <2>2, <3>1, <3>2, <3>4 DEF IInv, DriverInv
  <2> QED BY <2>1, <2>2
<1> QED BY <1>3, <1>4, <1>5, <1>6, <1>7 DEF IInv

\* The same, with what it means for the failure of an init function ...
LEMMA Failed ==
  ASSUME IInv, NEW s, Loading(s), Fail(s),
         NEW S, UNCHANGED <<held, clock>> \/ GiveBack(S),
         \A r \in S : OwnerRank(r) = Rank[s],
         \A r \in HeldSet' : OwnerRank(r) = Rank[s] => Stray(r)',
         UNCHANGED <<scanned, announced>>, scanOOM' \in BOOLEAN, scanOOM => scanOOM'
  PROVE  IInv'
<1>1. /\ StepInv' /\ phase = "load" /\ phase' = "unwind" /\ at' = "start"
      /\ Level' = Level - 1
  BY FailStep
<1>2. Rank[s] = Level
  BY LoadingBelow
<1>3. ASSUME NEW d \in Drivers
      PROVE  announced'[d] = IF Rank[d] = Level THEN 0 ELSE announced[d]
  <2>1. at \in {"start", "device", "probe", "state"}
    BY <1>1 DEF IInv, StepInv
  <2>2. Rank[d] = Level => ~(Rank[d] < Level)
    BY LevelInt, SMT DEF IInv
  <2>3. Rank[d] = Level => Stage(d) # "up"
    BY <1>1, <2>1, <2>2 DEF Stage
  <2> QED BY <2>3 DEF IInv, DriverInv
<1> QED BY <1>1, <1>2, <1>3, Lowered DEF IInv

\* ... and for the end of an exit function.
LEMMA Left ==
  ASSUME IInv, NEW s, Leaving(s), Done,
         NEW S, UNCHANGED <<held, clock>> \/ GiveBack(S),
         \A r \in S : OwnerRank(r) = Level,
         \A r \in HeldSet' : OwnerRank(r) = Level => Stray(r)',
         UNCHANGED <<scanned, scanOOM, announced>>,
         s \in Drivers => at = "unregister"
  PROVE  IInv'
<1>1. /\ StepInv' /\ phase \in {"unwind", "exit"} /\ phase' = phase /\ at' = "start"
      /\ Level' = Level - 1
  BY LeftStep, Zenon
<1>2. \/ s = "events" /\ Level = 0
      \/ s \in DOMAIN Rank /\ Rank[s] = Level
  BY LeavingLevel
<1>3. ASSUME NEW d \in Drivers
      PROVE  announced'[d] = IF Rank[d] = Level THEN 0 ELSE announced[d]
  <2>1. ASSUME Rank[d] = Level PROVE Stage(d) # "up"
    <3>1. d \in DOMAIN Rank /\ Rank[d] \in 7 .. 10
      BY DriverRanks
    <3>2. d = s
      BY <1>2, <2>1, <3>1, RankInjective
    <3> QED BY <2>1, <3>1, <3>2, SMT DEF Stage
  <2> QED BY <2>1 DEF IInv, DriverInv
<1> QED BY <1>1, <1>3, Lowered DEF IInv, TypeInv

-----------------------------------------------------------------------------
(* The init functions of the subsystems without a driver.                  *)

LEMMA NotDrivers ==
  ASSUME NEW s \in {"chardev", "debugfs", "qemu", "glue", "platdev", "dt", "events"}
  PROVE  s \notin Drivers
BY SMT DEF Drivers

\* None of the first five ranks is held while its subsystem is loading.
LEMMA FailedOther ==
  ASSUME IInv, NEW s \in {"chardev", "qemu", "glue", "platdev"}, Loading(s), Fail(s),
         UNCHANGED <<held, clock>>, UNCHANGED <<scanned, scanOOM, announced>>
  PROVE  IInv'
<1>1. phase = "load" /\ Level = Rank[s] /\ Rank[s] < 6
  BY LoadingBelow, SMT DEF Rank
<1>2. \A r \in HeldSet' : OwnerRank(r) # Rank[s]
  BY <1>1, KeepHeld, LevelInt, HeldRanks, SMT DEF IInv, BelowInv
<1>3. scanOOM' \in BOOLEAN /\ (scanOOM => scanOOM')
  BY DEF IInv, TypeInv
<1>4. PICK S : S = {}
  OBVIOUS
<1>5. \A r \in S : OwnerRank(r) = Rank[s]
  BY <1>4
<1> QED BY <1>2, <1>3, <1>5, Failed

LEMMA LoadChardevStep == IInv /\ LoadChardev => IInv'
<1> SUFFICES ASSUME IInv, LoadChardev PROVE IInv'
  OBVIOUS
<1> DEFINE S == {Resource("misc", "kdal")}
<1>1. Loading("chardev") /\ UNCHANGED <<scanned, scanOOM, announced>>
  BY DEF LoadChardev
<1>2. /\ S \in SUBSET Resources
      /\ \A r \in S : OwnerRank(r) = Rank["chardev"] /\ r.kind \notin PartKinds
  BY ResourceRank, SMT DEF Resources, Rank, Resource, PartKinds
<1>3. CASE Acquire(S) /\ Done
  BY <1>1, <1>2, <1>3, LoadedOther, NotDrivers
<1>4. CASE UNCHANGED <<held, clock>> /\ Fail("chardev")
  BY <1>1, <1>4, FailedOther
<1> QED BY <1>3, <1>4 DEF LoadChardev

LEMMA LoadDebugfsStep == IInv /\ LoadDebugfs => IInv'
<1> SUFFICES ASSUME IInv, LoadDebugfs PROVE IInv'
  OBVIOUS
<1> DEFINE S == {Resource("dir", "kdal")}
<1>1. /\ Loading("debugfs") /\ UNCHANGED <<scanned, scanOOM, announced>> /\ Done
      /\ UNCHANGED <<held, clock>> \/ Acquire(S)
  BY DEF LoadDebugfs
<1>2. /\ S \in SUBSET Resources
      /\ \A r \in S : OwnerRank(r) = Rank["debugfs"] /\ r.kind \notin PartKinds
  BY ResourceRank, SMT DEF Resources, Rank, Resource, PartKinds
<1> QED BY <1>1, <1>2, LoadedOther, NotDrivers

LEMMA LoadBackendStep ==
  ASSUME IInv, NEW s, LoadBackend(s)
  PROVE  IInv'
<1> DEFINE S == {Resource("backend", s)}
<1>1. /\ s \in {"qemu", "platdev"} /\ Loading(s)
      /\ UNCHANGED <<scanned, scanOOM, announced>>
  BY DEF LoadBackend
<1>2. /\ S \in SUBSET Resources
      /\ \A r \in S : OwnerRank(r) = Rank[s] /\ r.kind \notin PartKinds
  BY <1>1, ResourceRank, SMT DEF Resources, Resource, PartKinds
<1>3. CASE Acquire(S) /\ Done
  <2>1. Holds("backend", s)'
    BY <1>3, AcquireHeld DEF Holds
  <2> QED BY <1>1, <1>2, <1>3, <2>1, LoadedOther, NotDrivers
<1>4. CASE UNCHANGED <<held, clock>> /\ Fail(s)
  BY <1>1, <1>4, FailedOther
<1> QED BY <1>3, <1>4 DEF LoadBackend

LEMMA LoadGlueStep == IInv /\ LoadGlue => IInv'
<1> SUFFICES ASSUME IInv, LoadGlue PROVE IInv'
  OBVIOUS
<1>1. Loading("glue") /\ UNCHANGED <<scanned, scanOOM, announced>>
  BY DEF LoadGlue
<1>2. ASSUME NEW K \in SUBSET GlueParts, Done,
             UNCHANGED <<held, clock>> \/ Acquire(Glue(K))
      PROVE  IInv'
  <2>1. Glue(K) \in SUBSET Resources
    BY DEF Resources, Glue
  <2>2. ASSUME NEW r \in Glue(K)
        PROVE  OwnerRank(r) = Rank["glue"] /\ r.kind \notin PartKinds
    <3>1. PICK k \in GlueParts : r = Resource(k, "soc")
      BY DEF Glue
    <3>2. OwnerRank(r) = 4 /\ Rank["glue"] = 4
      BY <3>1, ResourceRank, SMT DEF Rank
    <3>3. r.kind = k
      BY <3>1 DEF Resource
    <3> QED BY <3>2, <3>3, SMT DEF GlueParts, PartKinds
  <2> QED BY <1>1, <1>2, <2>1, <2>2, LoadedOther, NotDrivers
<1>3. CASE UNCHANGED <<held, clock>> /\ Fail("glue")
  BY <1>1, <1>3, FailedOther
<1> QED BY <1>2, <1>3 DEF LoadGlue

LEMMA ScanOOMStep == IInv /\ ScanOOM => IInv'
<1> SUFFICES ASSUME IInv, ScanOOM PROVE IInv'
  OBVIOUS
<1>1. /\ Loading("dt") /\ Fail("dt") /\ scanOOM' = TRUE
      /\ UNCHANGED <<held, clock>> /\ UNCHANGED <<scanned, announced>>
  BY DEF ScanOOM
<1>2. ASSUME NEW r \in HeldSet', OwnerRank(r) = Rank["dt"]
      PROVE  Stray(r)'
  <2>1. r \in Resources
    BY <1>1, KeepHeld DEF IInv, TypeInv
  <2>2. OwnerRank(r) = 6
    BY <1>2, SMT DEF Rank
  <2>3. r.kind \in {"entry", "controller"}
    <3>1. \A d \in Drivers : OwnerRank(r) # Rank[d]
      BY <2>2, DriverRanks, SMT
    <3> QED BY <2>1, <2>2, <3>1, ResourceCases, SMT
  <2> QED BY <1>1, <2>3 DEF Stray
<1>3. PICK S : S = {}
  OBVIOUS
<1>4. \A r \in S : OwnerRank(r) = Rank["dt"]
  BY <1>3
<1> QED BY <1>1, <1>2, <1>4, Failed

LEMMA ScanEndsStep == IInv /\ ScanEnds => IInv'
<1> SUFFICES ASSUME IInv, ScanEnds PROVE IInv'
  OBVIOUS
<1>1. /\ Loading("dt") /\ Done /\ UNCHANGED <<held, clock>>
      /\ UNCHANGED <<scanned, scanOOM, announced>>
  BY DEF ScanEnds
<1>2. PICK S \in SUBSET Resources : S = {}
  OBVIOUS
<1>3. \A r \in S : OwnerRank(r) = Rank["dt"] /\ r.kind \notin PartKinds
  BY <1>2
<1> QED BY <1>1, <1>2, <1>3, LoadedOther, NotDrivers

-----------------------------------------------------------------------------
(* Steps inside a subsystem: the level stays.                              *)

\* A driver's init or exit function moves on inside: d is the subsystem at
\* hand, and the stage it moves to has the parts that it holds then.
LEMMA Inside ==
  ASSUME IInv, StepInv', NEW d \in Drivers, Rank[d] = Level,
         UNCHANGED <<phase, step, scanned, scanOOM>>,
         TypeInv', AgeInv', BelowInv', BackendInv',
         \A e \in Drivers : e # d => Has(e)' = Has(e),
         Has(d)' = PartsAt[Stage(d)'],
         announced' \in [Drivers -> Int],
         \A e \in Drivers : e # d => announced'[e] = announced[e],
         announced'[d] = IF Stage(d)' = "up" THEN 1 ELSE 0
  PROVE  IInv'
<1>1. Level' = Level
  BY DEF Level
<1>2. ASSUME NEW e \in Drivers, e # d PROVE Stage(e)' = Stage(e)
  <2>1. Rank[e] # Level
    BY <1>2, DriverRanks, RankInjective
  <2>2. Rank[e] \in Int /\ Level \in Int
    BY DriverRanks, LevelInt DEF IInv
  <2>3. Stage(e) = IF Rank[e] < Level THEN "up" ELSE "down"
    BY <2>1, <2>2, SMT DEF Stage
  <2>4. Stage(e)' = IF Rank[e] < Level THEN "up" ELSE "down"
    BY <1>1, <2>1, <2>2, SMT DEF Stage
  <2> QED BY <2>3, <2>4
<1>3. DriverInv'
  BY <1>2 DEF DriverInv, IInv
<1> QED BY <1>3 DEF IInv

\* A driver's init function acquires its next part.
LEMMA AcquiredPart ==
  ASSUME IInv, NEW d \in Drivers, Loading(d), NEW k \in PartKinds,
         Acquire({Resource(k, d)}),
         k \in {"driver", "device"} => Has(d) \intersect {"ring", "state"} = {}
  PROVE  /\ (UNCHANGED <<scanned, scanOOM>>) => TypeInv'
         /\ AgeInv'
         /\ \A r \in HeldSet' : OwnerRank(r) \in Int
         /\ \A r \in HeldSet' : r \in HeldSet \/ OwnerRank(r) = Level
         /\ HeldSet \subseteq HeldSet'
         /\ Level \in 7 .. 10
<1>1. /\ phase = "load" /\ Level = Rank[d] /\ Rank[d] \in 7 .. 10
      /\ \A r \in HeldSet : OwnerRank(r) \in Int /\ OwnerRank(r) <= Rank[d]
  BY LoadingBelow, DriverRanks, SMT
<1>2. OwnerRank(Resource(k, d)) = Rank[d]
  BY PartRank
<1>3. HeldSet' = HeldSet \union {Resource(k, d)}
  BY AcquireHeld
<1>4. Resource(k, d) \in Resources
  BY DEF Resources, DriverParts, PartKinds
<1>5. UNCHANGED <<scanned, scanOOM>> => TypeInv'
  BY <1>4, TypeAcquire DEF IInv, TypeInv
<1>6. ASSUME NEW e \in Drivers, NEW p \in {"driver", "device"}, NEW l \in {"ring", "state"},
             Resource(p, e) \in {Resource(k, d)}
      PROVE  ~Holds(l, e) /\ Resource(l, e) \notin {Resource(k, d)}
  <2>1. p = k /\ e = d
    BY <1>6 DEF Resource
  <2>2. Resource(l, e) # Resource(k, d)
    BY <2>1 DEF Resource
  <2> QED BY <2>1, <2>2 DEF Has, PartKinds
<1>7. AgeInv'
  <2>1. \A r \in {Resource(k, d)} : OwnerRank(r) = Rank[d]
    BY <1>2
  <2>2. Rank[d] \in Int
    BY <1>1
  <2> QED BY <1>1, <1>6, <2>1, <2>2, AgeAcquire DEF IInv
<1> QED BY <1>1, <1>2, <1>3, <1>5, <1>7

\* Inside the init function of a driver, which has got its part k.
LEMMA LoadingPart ==
  ASSUME IInv, NEW d \in Drivers, Loading(d), NEW k \in PartKinds,
         Acquire({Resource(k, d)}), UNCHANGED <<phase, step, scanned, scanOOM, announced>>,
         at' \in {"device", "probe", "state"},
         k \in {"driver", "device"} => Has(d) \intersect {"ring", "state"} = {},
         PartsAt[at'] = Has(d) \union {k},
         Stage(d) # "up"
  PROVE  IInv'
<1>1. phase = "load" /\ phase' = "load" /\ Rank[d] = Level /\ Level' = Level
  BY LoadingBelow DEF Level
<1>2. /\ TypeInv' /\ AgeInv'
      /\ \A r \in HeldSet' : OwnerRank(r) \in Int
      /\ \A r \in HeldSet' : r \in HeldSet \/ OwnerRank(r) = Level
      /\ HeldSet \subseteq HeldSet' /\ Level \in 7 .. 10
  BY AcquiredPart
<1>3. StepInv'
  BY <1>1, <1>2, SMT DEF IInv, StepInv
<1>4. BelowInv'
  BY <1>1, <1>2, BelowInside, SMT DEF IInv
<1>5. BackendInv'
  BY <1>1, <1>2, BackendInside DEF IInv, Holds
<1>6. Stage(d)' = at'
  BY <1>1, <1>2, SMT DEF Stage
<1>7. \A e \in Drivers : Has(e)' = IF e = d THEN Has(d) \union {k} ELSE Has(e)
  BY AcquirePart
<1>8. announced'[d] = 0 /\ announced' \in [Drivers -> Int]
  BY DEF IInv, DriverInv
<1> QED BY <1>1, <1>2, <1>3, <1>4, <1>5, <1>6, <1>7, <1>8, Inside, SMT

\* The init function of a driver has failed and gives back its parts.
LEMMA FailedDriver ==
  ASSUME IInv, NEW d \in Drivers, Loading(d), Fail(d), NEW K \in SUBSET PartKinds,
         \/ UNCHANGED <<held, clock>> /\ Has(d) = {}
         \/ GiveBack({Resource(k, d) : k \in K}) /\ Has(d) \subseteq K,
         UNCHANGED <<scanned, scanOOM, announced>>
  PROVE  IInv'
<1> DEFINE S == {Resource(k, d) : k \in K}
<1>1. Rank[d] = Level /\ d \in DOMAIN Rank
  BY LoadingBelow
<1>2. \A r \in S : OwnerRank(r) = Rank[d]
  BY PartRank
<1>3. ASSUME NEW r \in HeldSet', OwnerRank(r) = Rank[d]
      PROVE  Stray(r)'
  <2>1. r \in HeldSet /\ (GiveBack(S) => r \notin S)
    BY KeepHeld, GiveBackHeld
  <2>2. r \in DriverParts(d)
    BY <1>3, <2>1, PartsByRank DEF IInv, TypeInv
  <2>3. PICK k \in PartKinds : r = Resource(k, d)
    BY <2>2 DEF DriverParts, PartKinds
  <2>4. k \in Has(d)
    BY <2>1, <2>3 DEF Has, Holds
  <2>5. k \in K /\ GiveBack(S)
    BY <2>4
  <2> QED BY <2>1, <2>3, <2>5
<1>4. scanOOM' \in BOOLEAN /\ (scanOOM => scanOOM')
  BY DEF IInv, TypeInv
<1> HIDE DEF S
<1>5. UNCHANGED <<held, clock>> \/ GiveBack(S)
  BY DEF S
<1> QED BY <1>2, <1>3, <1>4, <1>5, Failed

\* The stage of the driver whose init function is at hand.
LEMMA LoadingStage ==
  ASSUME IInv, NEW d \in Drivers, Loading(d)
  PROVE  /\ phase = "load" /\ Rank[d] = Level
         /\ Stage(d) = IF at = "start" THEN "down" ELSE at
         /\ Has(d) = PartsAt[Stage(d)]
         /\ at \in {"start", "device", "probe", "state"}
<1>1. phase = "load" /\ Level = Rank[d] /\ Level \in Int
  BY LoadingBelow, LevelInt DEF IInv
<1>2. Stage(d) = IF at = "start" THEN "down" ELSE at
  BY <1>1, SMT DEF Stage
<1>3. at \in {"start", "device", "probe", "state"}
  BY <1>1 DEF IInv, StepInv
<1> QED BY <1>1, <1>2, <1>3 DEF IInv, DriverInv

LEMMA LoadDriverStep ==
  ASSUME IInv, NEW d \in Drivers, LoadDriver(d)
  PROVE  IInv'
<1>1. /\ Loading(d) /\ at = "start" /\ UNCHANGED <<scanned, scanOOM, announced>>
  BY DEF LoadDriver
<1>2. Stage(d) = "down" /\ Has(d) = {}
  BY <1>1, LoadingStage DEF PartsAt
<1>3. CASE Acquire({Resource("driver", d)}) /\ at' = "device" /\ UNCHANGED <<phase, step>>
  <2>1. PartsAt[at'] = Has(d) \union {"driver"} /\ "driver" \in PartKinds
    BY <1>2, <1>3 DEF PartsAt, PartKinds
  <2> QED BY <1>1, <1>2, <1>3, <2>1, LoadingPart
<1>4. CASE UNCHANGED <<held, clock>> /\ Fail(d)
  BY <1>1, <1>2, <1>4, FailedDriver
<1> QED BY <1>3, <1>4 DEF LoadDriver

LEMMA LoadDeviceStep ==
  ASSUME IInv, NEW d \in Drivers, LoadDevice(d)
  PROVE  IInv'
<1>1. /\ Loading(d) /\ at = "device" /\ UNCHANGED <<scanned, scanOOM, announced>>
  BY DEF LoadDevice
<1>2. Stage(d) = "device" /\ Has(d) = {"driver"}
  BY <1>1, LoadingStage DEF PartsAt
<1>3. CASE Acquire({Resource("device", d)}) /\ at' = "probe" /\ UNCHANGED <<phase, step>>
  <2>1. PartsAt[at'] = Has(d) \union {"device"} /\ "device" \in PartKinds
    BY <1>2, <1>3 DEF PartsAt, PartKinds
  <2> QED BY <1>1, <1>2, <1>3, <2>1, LoadingPart
<1>4. CASE GiveBack({Resource("driver", d)}) /\ Fail(d)
  <2> DEFINE K == {"driver"}
  <2>1. {Resource(k, d) : k \in K} = {Resource("driver", d)} /\ K \in SUBSET PartKinds
    BY DEF PartKinds
  <2>2. GiveBack({Resource(k, d) : k \in K})
    BY <1>4, <2>1
  <2>3. Has(d) \subseteq K
    BY <1>2
  <2> HIDE DEF K
  <2> QED BY <1>1, <1>4, <2>1, <2>2, <2>3, FailedDriver
<1> QED BY <1>3, <1>4 DEF LoadDevice

LEMMA AllParts ==
  ASSUME NEW d
  PROVE  {Resource(k, d) : k \in PartKinds} = DriverParts(d)
BY DEF DriverParts, PartKinds

LEMMA ProbeRingStep ==
  ASSUME IInv, NEW d \in Drivers, ProbeRing(d)
  PROVE  IInv'
<1>1. /\ Loading(d) /\ at = "probe" /\ UNCHANGED <<scanned, scanOOM, announced>>
  BY DEF ProbeRing
<1>2. Stage(d) = "probe" /\ Has(d) = {"driver", "device"}
  BY <1>1, LoadingStage DEF PartsAt
<1>3. CASE Acquire({Resource("ring", d)}) /\ at' = "state" /\ UNCHANGED <<phase, step>>
  <2>1. PartsAt[at'] = Has(d) \union {"ring"} /\ "ring" \in PartKinds
    BY <1>2, <1>3 DEF PartsAt, PartKinds
  <2> QED BY <1>1, <1>2, <1>3, <2>1, LoadingPart
<1>4. CASE GiveBack(DriverParts(d)) /\ Fail(d)
  <2>1. GiveBack({Resource(k, d) : k \in PartKinds})
    BY <1>4, AllParts
  <2>2. Has(d) \subseteq PartKinds
    BY DEF Has
  <2> QED BY <1>1, <1>4, <2>1, <2>2, FailedDriver
<1> QED BY <1>3, <1>4 DEF ProbeRing

LEMMA ProbeStateStep ==
  ASSUME IInv, NEW d \in Drivers, ProbeState(d)
  PROVE  IInv'
<1>1. Loading(d) /\ at = "state" /\ UNCHANGED <<scanned, scanOOM>>
  BY DEF ProbeState
<1>2. /\ phase = "load" /\ Rank[d] = Level /\ Stage(d) = "state"
      /\ Has(d) = {"driver", "device", "ring"}
  BY <1>1, LoadingStage DEF PartsAt
<1>3. CASE /\ Acquire({Resource("state", d)}) /\ Done
           /\ announced' = [announced EXCEPT ![d] = @ + 1]
  <2>1. StepInv' /\ phase' = "load" /\ at' = "start" /\ Level' = Level + 1
    BY <1>1, <1>3, LoadedStep
  <2>2. "state" \in PartKinds
    BY DEF PartKinds
  <2>3. /\ TypeInv' /\ AgeInv'
        /\ \A r \in HeldSet' : OwnerRank(r) \in Int
        /\ \A r \in HeldSet' : r \in HeldSet \/ OwnerRank(r) = Level
        /\ HeldSet \subseteq HeldSet' /\ Level \in 7 .. 10
    BY <1>1, <1>3, <2>2, AcquiredPart
  <2>4. BelowInv'
    BY <1>2, <2>1, <2>3, BelowRaised DEF IInv
  <2>5. BackendInv'
    <3>1. \A t \in {"qemu", "platdev"} : Rank[t] # Level
      BY <2>3, SMT DEF Rank
    <3> QED BY <1>2, <2>1, <2>3, <3>1, BackendRaised DEF IInv
  <2>6. ASSUME NEW e \in Drivers
        PROVE  /\ Has(e)' = PartsAt[Stage(e)']
               /\ announced'[e] = IF Stage(e)' = "up" THEN 1 ELSE 0
    <3>1. Has(e)' = IF e = d THEN Has(d) \union {"state"} ELSE Has(e)
      BY <1>3, <2>2, AcquirePart
    <3>2. CASE e = d
      <4>1. Stage(e)' = "up"
        BY <1>2, <2>1, <3>2, StageRaised DEF IInv
      <4>2. announced[d] = 0 /\ announced' [d] = announced[d] + 1
        BY <1>2, <1>3 DEF IInv, DriverInv
      <4>3. Has(e)' = PartKinds
        BY <1>2, <3>1, <3>2 DEF PartKinds
      <4> QED BY <3>2, <4>1, <4>2, <4>3, SMT DEF PartsAt
    <3>3. CASE e # d
      <4>1. Rank[e] # Level /\ Rank[e] \in Int
        BY <1>2, <3>3, DriverRanks, RankInjective
      <4>2. Stage(e)' = IF Rank[e] < Level THEN "up" ELSE "down"
        BY <1>2, <2>1, <4>1, StageRaised DEF IInv
      <4>3. Stage(e) = IF Rank[e] < Level THEN "up" ELSE "down"
        BY <2>3, <4>1, SMT DEF Stage
      <4>4. announced'[e] = announced[e]
        BY <1>3, <3>3 DEF IInv
      <4> QED BY <3>1, <3>3, <4>2, <4>3, <4>4 DEF IInv, DriverInv
    <3> QED BY <3>2, <3>3
  <2>7. announced' \in [Drivers -> Int]
    BY <1>3 DEF IInv
  <2> QED BY <2>1, <2>3, <2>4, <2>5, <2>6, <2>7 DEF IInv, DriverInv
<1>4. CASE GiveBack(DriverParts(d)) /\ Fail(d) /\ UNCHANGED announced
  <2>1. GiveBack({Resource(k, d) : k \in PartKinds})
    BY <1>4, AllParts
  <2>2. Has(d) \subseteq PartKinds
    BY DEF Has
  <2> QED BY <1>1, <1>4, <2>1, <2>2, FailedDriver
<1> QED BY <1>3, <1>4 DEF ProbeState

-----------------------------------------------------------------------------
(* The exit functions.                                                     *)

\* The stage of the driver whose exit function is at hand.
LEMMA LeavingStage ==
  ASSUME IInv, NEW d \in Drivers, Leaving(d)
  PROVE  /\ phase \in {"unwind", "exit"} /\ Rank[d] = Level /\ Level \in 7 .. 10
         /\ Stage(d) = IF at = "start" THEN "up" ELSE at
         /\ Has(d) = PartsAt[Stage(d)]
         /\ at \in {"start", "remove", "unregister"}
<1>1. d # "events"
  BY NotDrivers
<1>2. phase \in {"unwind", "exit"} /\ Rank[d] = Level
  BY <1>1, LeavingLevel
<1>3. Level \in 7 .. 10
  BY <1>2, DriverRanks
<1>4. Stage(d) = IF at = "start" THEN "up" ELSE at
  BY <1>2, <1>3, SMT DEF Stage
<1>5. at \in {"start", "remove", "unregister"}
  BY <1>2 DEF IInv, StepInv
<1> QED BY <1>2, <1>3, <1>4, <1>5 DEF IInv, DriverInv

\* Inside the exit function of a driver, which gives back the parts of K.
LEMMA LeavingPart ==
  ASSUME IInv, NEW d \in Drivers, Leaving(d), NEW K \in SUBSET PartKinds,
         UNCHANGED <<phase, step, scanned, scanOOM>>,
         \/ UNCHANGED <<held, clock>> /\ K = {}
         \/ GiveBack({Resource(k, d) : k \in K}),
         at' \in {"remove", "unregister"},
         PartsAt[at'] = Has(d) \ K,
         announced' \in [Drivers -> Int], announced'[d] = 0,
         \A e \in Drivers : e # d => announced'[e] = announced[e]
  PROVE  IInv'
<1> DEFINE S == {Resource(k, d) : k \in K}
<1>1. /\ phase \in {"unwind", "exit"} /\ Rank[d] = Level /\ Level \in 7 .. 10
      /\ Level' = Level
  BY LeavingStage DEF Level
<1>2. StepInv'
  BY <1>1, SMT DEF IInv, StepInv
<1>3. HeldSet' \subseteq HeldSet /\ \A r \in HeldSet : r \in S \/ r \in HeldSet'
  BY KeepHeld, GiveBackHeld
<1>4. scanned' \in 0 .. Len(DTNodes) /\ scanOOM' \in BOOLEAN
  BY DEF IInv, TypeInv
<1>5. TypeInv' /\ AgeInv'
  BY <1>4, TypeGiveBack, AgeGiveBack, AgeKeep DEF IInv
<1>6. BelowInv'
  BY <1>1, <1>3, BelowInside DEF IInv
<1>7. BackendInv'
  <2>0. "backend" \notin PartKinds
    BY SMT DEF PartKinds
  <2>1. \A s : Resource("backend", s) \notin S
    BY <2>0 DEF Resource
  <2>2. \A s : Holds("backend", s) => Holds("backend", s)'
    BY <1>3, <2>1 DEF Holds
  <2> QED BY <1>1, <2>2, BackendInside DEF IInv
<1>8. \A e \in Drivers : Has(e)' = IF e = d THEN Has(d) \ K ELSE Has(e)
  BY KeepHeld, GiveBackParts
<1>9. Stage(d)' = at'
  BY <1>1, SMT DEF Stage
<1> HIDE DEF S
<1> QED BY <1>1, <1>2, <1>5, <1>6, <1>7, <1>8, <1>9, Inside, SMT

LEMMA ExitAnnounceStep ==
  ASSUME IInv, NEW d \in Drivers, ExitAnnounce(d)
  PROVE  IInv'
<1>1. /\ Leaving(d) /\ at = "start" /\ at' = "remove" /\ UNCHANGED <<held, clock>>
      /\ UNCHANGED <<phase, step, scanned, scanOOM>>
      /\ announced' = [announced EXCEPT ![d] = @ - 1]
  BY DEF ExitAnnounce
<1>2. Stage(d) = "up" /\ Has(d) = PartKinds
  BY <1>1, LeavingStage DEF PartsAt
<1>3. announced[d] = 1 /\ announced \in [Drivers -> Int]
  BY <1>2 DEF IInv, DriverInv
<1>4. /\ announced' \in [Drivers -> Int] /\ announced'[d] = 0
      /\ \A e \in Drivers : e # d => announced'[e] = announced[e]
  BY <1>1, <1>3, SMT
<1>5. PICK K \in SUBSET PartKinds : K = {}
  OBVIOUS
<1>6. PartsAt[at'] = Has(d) \ K
  BY <1>1, <1>2, <1>5 DEF PartsAt
<1> QED BY <1>1, <1>4, <1>5, <1>6, LeavingPart

LEMMA ExitDetachStep ==
  ASSUME IInv, NEW d \in Drivers, ExitDetach(d)
  PROVE  IInv'
<1>1. /\ Leaving(d) /\ at = "remove" /\ at' = "unregister"
      /\ GiveBack({Resource("ring", d), Resource("state", d)})
      /\ UNCHANGED <<phase, step, scanned, scanOOM, announced>>
  BY DEF ExitDetach
<1>2. Stage(d) = "remove" /\ Has(d) = PartKinds
  BY <1>1, LeavingStage DEF PartsAt
<1>3. announced[d] = 0 /\ announced \in [Drivers -> Int]
  BY <1>2 DEF IInv, DriverInv
<1>4. PICK K \in SUBSET PartKinds : K = {"ring", "state"}
  BY DEF PartKinds
<1>5. {Resource(k, d) : k \in K} = {Resource("ring", d), Resource("state", d)}
  BY <1>4
<1>6. PartsAt[at'] = Has(d) \ K
  BY <1>1, <1>2, <1>4, SMT DEF PartsAt, PartKinds
<1> QED BY <1>1, <1>3, <1>5, <1>6, LeavingPart

LEMMA ExitUnregisterStep ==
  ASSUME IInv, NEW d \in Drivers, ExitUnregister(d)
  PROVE  IInv'
<1>1. /\ Leaving(d) /\ at = "unregister" /\ GiveBack(DriverParts(d)) /\ Done
      /\ UNCHANGED <<scanned, scanOOM, announced>>
  BY DEF ExitUnregister
<1>2. Rank[d] = Level
  BY <1>1, LeavingStage
<1>3. \A r \in DriverParts(d) : OwnerRank(r) = Level
  BY <1>2, PartRank DEF DriverParts, PartKinds
<1>4. ASSUME NEW r \in HeldSet', OwnerRank(r) = Level PROVE FALSE
  <2>1. r \in HeldSet /\ r \notin DriverParts(d)
    BY <1>1, GiveBackHeld
  <2> QED BY <1>2, <1>4, <2>1, PartsByRank DEF IInv, TypeInv
<1> QED BY <1>1, <1>3, <1>4, Left

LEMMA ReleasedRanks ==
  ASSUME NEW s \in {"qemu", "platdev", "glue", "debugfs", "chardev"}, NEW r \in Released(s)
  PROVE  OwnerRank(r) = Rank[s]
<1>1. CASE s \in {"qemu", "platdev"}
  BY <1>1, ResourceRank, SMT DEF Released
<1>2. CASE s = "glue"
  <2>1. PICK k \in GlueParts : r = Resource(k, "soc")
    BY <1>2 DEF Released, Glue
  <2>2. OwnerRank(r) = 4
    BY <2>1, ResourceRank
  <2> QED BY <1>2, <2>2, SMT DEF Rank
<1>3. CASE s = "debugfs"
  <2>1. OwnerRank(r) = 2
    BY <1>3, ResourceRank DEF Released
  <2> QED BY <1>3, <2>1, SMT DEF Rank
<1>4. CASE s = "chardev"
  <2>1. OwnerRank(r) = 1
    BY <1>4, ResourceRank DEF Released
  <2> QED BY <1>4, <2>1, SMT DEF Rank
<1> QED BY <1>1, <1>2, <1>3, <1>4

LEMMA ExitOtherStep ==
  ASSUME IInv, NEW s, ExitOther(s)
  PROVE  IInv'
<1>1. /\ s \in {"qemu", "platdev", "glue", "debugfs", "chardev", "events"}
      /\ Leaving(s) /\ Done /\ UNCHANGED <<scanned, scanOOM, announced>>
      /\ GiveBack(Released(s))
  BY DEF ExitOther
<1>2. s \notin Drivers
  BY <1>1, NotDrivers
<1>3. HeldSet' = HeldSet \ Released(s) /\ HeldSet \subseteq Resources
  BY <1>1, GiveBackHeld DEF IInv, TypeInv
<1>4. CASE s = "events"
  <2>1. Level = 0
    <3>1. "events" \notin DOMAIN Rank
      BY SMT DEF Rank
    <3> QED BY <1>1, <1>4, <3>1, LeavingLevel
  <2>2. Released(s) = {}
    BY <1>4, SMT DEF Released
  <2>3. \A r \in HeldSet' : OwnerRank(r) # Level
    BY <1>3, <2>1, RankType, SMT
  <2> QED BY <1>1, <1>2, <2>2, <2>3, Left
<1>5. CASE s # "events"
  <2>1. Rank[s] = Level
    BY <1>1, <1>5, LeavingLevel
  <2>2. s \in {"qemu", "platdev", "glue", "debugfs", "chardev"}
    BY <1>1, <1>5
  <2>3. \A r \in Released(s) : OwnerRank(r) = Level
    BY <2>1, <2>2, ReleasedRanks
  <2>4. \A r \in HeldSet' : OwnerRank(r) # Level
    BY <1>3, <2>1, <2>2, ReleasedByRank
  <2> QED BY <1>1, <1>2, <2>3, <2>4, Left
<1> QED BY <1>4, <1>5

LEMMA CleanupEndsStep == IInv /\ CleanupEnds => IInv'
<1> SUFFICES ASSUME IInv, CleanupEnds PROVE IInv'
  OBVIOUS
<1>1. /\ Leaving("dt") /\ Entries = {} /\ Done /\ UNCHANGED <<held, clock>>
      /\ UNCHANGED <<scanned, scanOOM, announced>>
  BY DEF CleanupEnds
<1>2. Level = 6
  BY <1>1, LeavingLevel, SMT DEF Rank
<1>3. ASSUME NEW r \in HeldSet', OwnerRank(r) = Level
      PROVE  Stray(r)'
  <2>1. r \in HeldSet /\ r \in Resources /\ OwnerRank(r) = 6
    BY <1>1, <1>2, <1>3, KeepHeld DEF IInv, TypeInv
  <2>2. \A d \in Drivers : OwnerRank(r) # Rank[d]
    BY <2>1, DriverRanks, SMT
  <2>3. r.kind \in {"entry", "controller"}
    BY <2>1, <2>2, ResourceCases, SMT
  <2>4. r.kind # "entry"
    BY <1>1, <2>1 DEF Entries
  <2> QED BY <2>3, <2>4 DEF Stray
<1>4. PICK S : S = {}
  OBVIOUS
<1>5. \A r \in S : OwnerRank(r) = Level
  BY <1>4
<1> QED BY <1>1, <1>3, <1>5, Left, NotDrivers

-----------------------------------------------------------------------------
(* The scan and its cleanup, and the turns from one phase to the next.     *)

\* The level and the place in the call stay: so do the stages.
LEMMA SameStages ==
  ASSUME IInv, UNCHANGED <<phase, step, at, announced>>,
         \A d \in Drivers : Has(d)' = Has(d)
  PROVE  /\ StepInv' /\ DriverInv' /\ Level' = Level
         /\ announced' \in [Drivers -> Int]
<1>1. Level' = Level
  BY DEF Level
<1>2. StepInv'
  BY <1>1 DEF IInv, StepInv
<1>3. \A d : Stage(d)' = Stage(d)
  BY <1>1 DEF Stage
<1> QED BY <1>1, <1>2, <1>3 DEF IInv, DriverInv

LEMMA ScanNodeStep == IInv /\ ScanNode => IInv'
<1> SUFFICES ASSUME IInv, ScanNode PROVE IInv'
  OBVIOUS
<1> DEFINE name  == DTNodes[scanned + 1]
           entry == IF name \in DeviceNames THEN {} ELSE {Resource("entry", name)}
<1>1. /\ Loading("dt") /\ scanned < Len(DTNodes) /\ scanned' = scanned + 1
      /\ UNCHANGED <<phase, step, at, scanOOM, announced>>
  BY DEF ScanNode
<1>2. scanned' \in 0 .. Len(DTNodes) /\ scanOOM' \in BOOLEAN
  <2>1. Len(DTNodes) \in Nat
    BY DTNodesAssumption, LenProperties
  <2> QED BY <1>1, <2>1, SMT DEF IInv, TypeInv
<1>3. /\ phase = "load" /\ Level = 6
      /\ \A r \in HeldSet : OwnerRank(r) \in Int /\ OwnerRank(r) <= 6
  BY <1>1, LoadingBelow, SMT DEF Rank
<1>4. ASSUME UNCHANGED <<held, clock>> PROVE IInv'
  <2>1. \A d \in Drivers : Has(d)' = Has(d)
    BY <1>4, KeepHeld
  <2>2. StepInv' /\ DriverInv' /\ Level' = Level /\ announced' \in [Drivers -> Int]
    BY <1>1, <2>1, SameStages
  <2>3. TypeInv' /\ AgeInv'
    BY <1>2, <1>4, AgeKeep DEF IInv
  <2>4. BelowInv'
    BY <1>1, <1>4, <2>2, KeepHeld, BelowInside DEF IInv
  <2>5. BackendInv'
    BY <1>1, <1>4, <2>2, KeepHeld, BackendInside DEF IInv
  <2> QED BY <2>2, <2>3, <2>4, <2>5 DEF IInv
<1>5. ASSUME NEW S, S \subseteq {Resource("entry", name), Resource("controller", name)},
             Acquire(S)
      PROVE  IInv'
  <2>1. name \in EntryNames
    <3>1. scanned + 1 \in DOMAIN DTNodes
      BY <1>1, DTNodesAssumption, LenProperties, SMT DEF IInv, TypeInv
    <3> QED BY <3>1 DEF EntryNames, Range
  <2>2. /\ Resource("entry", name) \in Resources
        /\ Resource("controller", name) \in Resources
    BY <2>1 DEF Resources
  <2>3. /\ OwnerRank(Resource("entry", name)) = 6
        /\ OwnerRank(Resource("controller", name)) = 6
    BY ResourceRank
  <2>4. \A r \in S : r.kind \notin PartKinds
    BY <1>5, SMT DEF Resource, PartKinds
  <2> HIDE DEF name
  <2>5. S \in SUBSET Resources /\ \A r \in S : OwnerRank(r) = 6
    BY <1>5, <2>2, <2>3
  <2>6. \A d \in Drivers : Has(d)' = Has(d)
    BY <1>5, <2>4, AcquireOther
  <2>7. StepInv' /\ DriverInv' /\ Level' = Level /\ announced' \in [Drivers -> Int]
    BY <1>1, <2>6, SameStages
  <2>8. TypeInv'
    BY <1>2, <1>5, <2>5, TypeAcquire DEF IInv
  <2>9. AgeInv'
    <3>1. \A d \in Drivers, p \in {"driver", "device"} : Resource(p, d) \notin S
      BY <2>4 DEF Resource, PartKinds
    <3>2. 6 \in Int
      BY SMT
    <3> QED BY <1>3, <1>5, <2>5, <3>1, <3>2, AgeAcquire DEF IInv
  <2>10. HeldSet' = HeldSet \union S
    BY <1>5, AcquireHeld
  <2>11. BelowInv'
    <3>1. Level >= 6
      BY <1>3, SMT
    <3>2. \A r \in HeldSet' : r \in HeldSet \/ (OwnerRank(r) = Level /\ Level >= 6)
      BY <1>3, <2>5, <2>10, <3>1
    <3> QED BY <1>1, <2>7, <3>2, BelowInside DEF IInv
  <2>12. BackendInv'
    BY <1>1, <2>7, <2>10, BackendInside DEF IInv, Holds
  <2> QED BY <2>7, <2>8, <2>9, <2>11, <2>12 DEF IInv
<1>6. \/ UNCHANGED <<held, clock>> \/ Acquire(entry)
      \/ Acquire(entry \union {Resource("controller", name)})
  BY DEF ScanNode
<1>7. entry \subseteq {Resource("entry", name)}
  OBVIOUS
<1> HIDE DEF entry
<1> QED BY <1>4, <1>5, <1>6, <1>7

LEMMA CleanupEntryStep == IInv /\ CleanupEntry => IInv'
<1> SUFFICES ASSUME IInv, CleanupEntry PROVE IInv'
  OBVIOUS
<1>1. Leaving("dt") /\ UNCHANGED <<phase, step, at, scanned, scanOOM, announced>>
  BY DEF CleanupEntry
<1>2. PICK first \in Entries : GiveBack({first})
  BY DEF CleanupEntry
<1>3. first.kind = "entry"
  BY DEF Entries
<1>4. scanned' \in 0 .. Len(DTNodes) /\ scanOOM' \in BOOLEAN
  BY <1>1 DEF IInv, TypeInv
<1>5. \A r \in {first} : r.kind \notin PartKinds
  BY <1>3, SMT DEF PartKinds
<1>6. \A d \in Drivers : Has(d)' = Has(d)
  BY <1>2, <1>5, GiveBackOther
<1>7. StepInv' /\ DriverInv' /\ Level' = Level /\ announced' \in [Drivers -> Int]
  BY <1>1, <1>6, SameStages
<1>8. HeldSet' = HeldSet \ {first}
  BY <1>2, GiveBackHeld
<1>9. TypeInv' /\ AgeInv'
  BY <1>2, <1>4, TypeGiveBack, AgeGiveBack DEF IInv
<1>10. BelowInv'
  BY <1>1, <1>7, <1>8, BelowInside DEF IInv
<1>11. BackendInv'
  <2>1. \A s : Resource("backend", s) # first
    BY <1>3, SMT DEF Resource
  <2> QED BY <1>1, <1>7, <1>8, <2>1, BackendInside DEF IInv, Holds
<1> QED BY <1>7, <1>9, <1>10, <1>11 DEF IInv

\* The turns that let the level, and with it everything else, stay or move past
\* the last of the subsystems.
LEMMA TurnStep ==
  ASSUME IInv, GoLive \/ Rmmod \/ Vanish
  PROVE  IInv'
<1>1. /\ UNCHANGED <<held, clock>> /\ UNCHANGED <<at, scanned, scanOOM, announced>>
      /\ phase' \in {"live", "exit", "gone"}
  BY DEF GoLive, Rmmod, Vanish
<1>2. /\ at = "start"
      /\ \/ Level = 11 /\ Level' = 11 /\ phase' = "live"
         \/ Level = 11 /\ Level' = 10 /\ phase' = "exit"
         \/ Level \in {0, -1} /\ Level' = 0 /\ phase' = "gone"
      /\ StepInv'
  <2>1. CASE GoLive
    BY <2>1, SMT DEF GoLive, IInv, StepInv, Level, InitOrder
  <2>2. CASE Rmmod
    BY <2>2, SMT DEF Rmmod, IInv, StepInv, Level
  <2>3. CASE Vanish
    BY <2>3, SMT DEF Vanish, IInv, StepInv, Level, UnwindOrder, ExitOrder
  <2> QED BY <2>1, <2>2, <2>3
<1>3. scanned' \in 0 .. Len(DTNodes) /\ scanOOM' \in BOOLEAN
  BY <1>1 DEF IInv, TypeInv
<1>4. TypeInv' /\ AgeInv'
  BY <1>1, <1>3, AgeKeep DEF IInv
<1>5. BelowInv'
  <2>1. \A r \in HeldSet : OwnerRank(r) \in 1 .. 10
    BY HeldRanks DEF IInv
  <2>2. ASSUME NEW r \in HeldSet PROVE Stray(r) \/ OwnerRank(r) <= Level'
    <3>1. Stray(r) \/ OwnerRank(r) <= Level
      BY DEF IInv, BelowInv
    <3> QED BY <1>2, <2>1, <3>1, SMT
  <2> QED BY <1>1, <2>2, KeepHeld, SMT DEF BelowInv, Stray
<1>6. BackendInv'
  <2>1. ASSUME NEW s \in {"qemu", "platdev"}, Rank[s] < Level' \/ Rank[s] = Level'
        PROVE  Holds("backend", s)
    <3>1. Rank[s] \in 3 .. 5
      BY SMT DEF Rank
    <3>2. Rank[s] < Level
      BY <1>2, <2>1, <3>1, SMT
    <3> QED BY <3>2 DEF IInv, BackendInv
  <2> QED BY <1>1, <2>1, KeepHeld DEF BackendInv
<1>7. ASSUME NEW d \in Drivers PROVE Stage(d)' = Stage(d)
  <2>1. Rank[d] \in 7 .. 10
    BY DriverRanks
  <2> QED BY <1>1, <1>2, <2>1, SMT DEF Stage
<1>8. DriverInv'
  BY <1>1, <1>7, KeepHeld DEF IInv, DriverInv
<1> QED BY <1>1, <1>2, <1>4, <1>5, <1>6, <1>8 DEF IInv

LEMMA InitInv == Init => IInv
<1> SUFFICES ASSUME Init PROVE IInv
  OBVIOUS
<1>1. phase = "load" /\ step = 1 /\ at = "start" /\ Level = 1
  BY SMT DEF Init, Level
<1>2. StepInv
  BY <1>1, SMT DEF StepInv
<1>3. HeldSet = {}
  BY DEF Init, HeldSet
<1>4. held = [r \in HeldSet |-> 0]
  BY <1>3 DEF Init
<1>5. TypeInv
  <2>1. 0 \in 0 .. Len(DTNodes) /\ clock \in Nat
    BY DTNodesAssumption, LenProperties, SMT DEF Init
  <2>2. held \in [HeldSet -> 0 .. clock - 1]
    BY <1>3, <1>4
  <2> QED BY <1>3, <2>1, <2>2 DEF Init, TypeInv
<1>6. BelowInv /\ AgeInv
  BY <1>3 DEF BelowInv, AgeInv, Holds
<1>7. BackendInv
  BY <1>1, SMT DEF BackendInv, Rank
<1>8. DriverInv
  <2> SUFFICES ASSUME NEW d \in Drivers
               PROVE  /\ Has(d) = PartsAt[Stage(d)]
                      /\ announced[d] = IF Stage(d) = "up" THEN 1 ELSE 0
    BY DEF DriverInv
  <2>1. Stage(d) = "down"
    BY <1>1, DriverRanks, SMT DEF Stage
  <2>2. Has(d) = {}
    BY <1>3 DEF Has, Holds
  <2> QED BY <2>1, <2>2 DEF PartsAt, Init
<1>9. announced \in [Drivers -> Int]
  BY DEF Init
<1> QED BY <1>2, <1>5, <1>6, <1>7, <1>8, <1>9 DEF IInv

LEMMA InvStep == IInv /\ [Next]_vars => IInv'
<1>1. ASSUME IInv, NEW s, LoadBackend(s) \/ ExitOther(s) PROVE IInv'
  BY <1>1, LoadBackendStep, ExitOtherStep
<1>2. ASSUME IInv, NEW d \in Drivers, DriverStep(d) PROVE IInv'
  BY <1>2, LoadDriverStep, LoadDeviceStep, ProbeRingStep, ProbeStateStep,
     ExitAnnounceStep, ExitDetachStep, ExitUnregisterStep DEF DriverStep
<1>3. IInv /\ (GoLive \/ Rmmod \/ Vanish) => IInv'
  BY TurnStep
<1>4. IInv /\ Insmod => IInv'
  <2>1. Insmod => Init'
    BY DEF Insmod, Init
  <2> QED BY <2>1, InitInv, PTL
<1>5. ASSUME IInv, UNCHANGED vars PROVE IInv'
  <2>1. /\ UNCHANGED <<held, clock>> /\ UNCHANGED <<phase, step, at, announced>>
        /\ UNCHANGED <<scanned, scanOOM>>
    BY <1>5 DEF vars
  <2>2. StepInv' /\ DriverInv' /\ Level' = Level /\ announced' \in [Drivers -> Int]
    BY <1>5, <2>1, KeepHeld, SameStages
  <2>3. scanned' \in 0 .. Len(DTNodes) /\ scanOOM' \in BOOLEAN
    BY <1>5, <2>1 DEF IInv, TypeInv
  <2>4. TypeInv' /\ AgeInv'
    BY <1>5, <2>1, <2>3, AgeKeep DEF IInv
  <2>5. BelowInv'
    BY <1>5, <2>1, <2>2, KeepHeld, BelowInside DEF IInv
  <2>6. BackendInv'
    BY <1>5, <2>1, <2>2, KeepHeld, BackendInside DEF IInv
  <2> QED BY <2>2, <2>4, <2>5, <2>6 DEF IInv
<1> QED
  BY <1>1, <1>2, <1>3, <1>4, <1>5, LoadChardevStep, LoadDebugfsStep, LoadGlueStep,
     ScanNodeStep, ScanOOMStep, ScanEndsStep, CleanupEntryStep, CleanupEndsStep
     DEF Next

LEMMA Invariance == Spec => []IInv
BY InitInv, InvStep, PTL DEF Spec

-----------------------------------------------------------------------------
(* The theorems.                                                           *)

\* The state's variables stay in their ranges, for every device tree, and the
\* ADDED and REMOVED events of each device balance (kdal_core_init,
\* kdal_core_exit).
THEOREM CoreLifecycleTypeOK == Spec => []TypeOK
<1>1. IInv => TypeOK
  <2> SUFFICES ASSUME IInv PROVE TypeOK
    OBVIOUS
  <2>1. Len(ExitOrder) + 1 = 12
    BY SMT DEF ExitOrder
  <2>2. step \in 0 .. 12
    BY SMT DEF IInv, StepInv
  <2>3. at \in {"start", "device", "probe", "state", "remove", "unregister"}
    BY DEF IInv, StepInv
  <2>4. announced \in [Drivers -> {0, 1}]
    BY DEF IInv, DriverInv
  <2> QED BY <2>1, <2>2, <2>3, <2>4 DEF TypeOK, IInv, TypeInv, StepInv
<1> QED BY <1>1, Invariance, PTL

\* Wherever loading failed, and after every rmmod: nothing but strays is left
\* (the ladder of kdal_core_init, kdal_core_exit).
THEOREM CoreLifecycleNothingLeft == Spec => []NothingLeft
<1>1. IInv => NothingLeft
  <2> SUFFICES ASSUME IInv, phase = "gone", NEW r \in HeldSet PROVE Stray(r)
    BY DEF NothingLeft
  <2>1. Level = 0
    BY SMT DEF Level
  <2>2. OwnerRank(r) \in 1 .. 10
    BY HeldRanks DEF IInv
  <2> QED BY <2>1, <2>2, SMT DEF IInv, BelowInv
<1> QED BY <1>1, Invariance, PTL

\* No device outlives the backend it points to (kdal_core_exit).
THEOREM CoreLifecycleDevicesHaveBackend == Spec => []DevicesHaveBackend
<1>1. IInv => DevicesHaveBackend
  <2> SUFFICES ASSUME IInv, NEW r \in HeldSet
               PROVE  /\ r.kind = "device" => Holds("backend", "qemu")
                      /\ r.kind = "entry" => (Holds("backend", "platdev") \/ Stray(r))
    BY DEF DevicesHaveBackend
  <2>1. /\ OwnerRank(r) \in 1 .. 10 /\ (Stray(r) \/ OwnerRank(r) <= Level)
        /\ Level \in -1 .. 11
    BY HeldRanks, LevelInt DEF IInv, BelowInv
  <2>2. Rank["qemu"] = 3 /\ Rank["platdev"] = 5
    BY SMT DEF Rank
  <2>3. ASSUME r.kind = "device" PROVE Holds("backend", "qemu")
    <3>1. r \in Resources
      BY DEF IInv, TypeInv
    <3>2. ~Stray(r)
      BY <2>3, SMT DEF Stray
    <3>3. OwnerRank(r) >= 7
      <4>1. OwnerRank(r) = Rank[r.name]
        BY <2>3, SMT DEF OwnerRank, GlueParts, PartKinds
      <4>2. PICK d \in Drivers : r \in DriverParts(d) /\ OwnerRank(r) = Rank[d]
        BY <2>3, <3>1, ResourceCases, SMT DEF Resource, Glue, GlueParts
      <4> QED BY <4>2, DriverRanks, SMT
    <3>4. Rank["qemu"] < Level
      BY <2>1, <2>2, <3>2, <3>3, SMT
    <3> QED BY <3>4 DEF IInv, BackendInv
  <2>4. ASSUME r.kind = "entry", ~Stray(r) PROVE Holds("backend", "platdev")
    <3>1. OwnerRank(r) = 6
      BY <2>4, SMT DEF OwnerRank, GlueParts, PartKinds
    <3>2. Rank["platdev"] < Level
      BY <2>1, <2>2, <2>4, <3>1, SMT
    <3> QED BY <3>2 DEF IInv, BackendInv
  <2> QED BY <2>3, <2>4
<1> QED BY <1>1, Invariance, PTL

\* A device between its two events is registered and attached, and only its
\* own exit function makes it otherwise (kdal_uart_driver_init and _exit).
THEOREM CoreLifecycleAnnouncedAttached == Spec => []AnnouncedAttached
<1>1. IInv => AnnouncedAttached
  <2> SUFFICES ASSUME IInv, NEW d \in Drivers
               PROVE  /\ announced[d] = 1 => DriverParts(d) \subseteq HeldSet
                      /\ (DriverParts(d) \subseteq HeldSet /\ announced[d] = 0) => Leaving(d)
    BY DEF AnnouncedAttached
  <2>1. /\ Has(d) = PartsAt[Stage(d)]
        /\ announced[d] = IF Stage(d) = "up" THEN 1 ELSE 0
    BY DEF IInv, DriverInv
  <2>2. DriverParts(d) \subseteq HeldSet <=> Has(d) = PartKinds
    BY AllParts DEF Has, Holds
  <2>3. ASSUME announced[d] = 1 PROVE DriverParts(d) \subseteq HeldSet
    <3>1. Stage(d) = "up"
      BY <2>1, <2>3, SMT
    <3> QED BY <2>1, <2>2, <3>1 DEF PartsAt
  <2>4. ASSUME DriverParts(d) \subseteq HeldSet, announced[d] = 0 PROVE Leaving(d)
    <3>1. "state" \in PartsAt[Stage(d)] /\ Stage(d) # "up"
      <4>1. "state" \in PartKinds /\ 1 # 0
        BY SMT DEF PartKinds
      <4> QED BY <2>1, <2>2, <2>4, <4>1
    <3>2. Stage(d) = "remove"
      <4>1. Stage(d) \in {"up", "down", "device", "probe", "state", "remove", "unregister"}
        BY DEF Stage, IInv, StepInv
      <4>2. "state" \notin PartsAt["device"] /\ "state" \notin PartsAt["probe"]
        BY SMT DEF PartsAt
      <4>3. "state" \notin PartsAt["unregister"] /\ "state" \notin PartsAt["down"]
        BY SMT DEF PartsAt
      <4>4. "state" \notin PartsAt["state"]
        BY SMT DEF PartsAt
      <4> QED BY <3>1, <4>1, <4>2, <4>3, <4>4
    <3>3. Rank[d] = Level /\ at = "remove"
      <4>1. Rank[d] \in Int /\ Level \in Int
        BY DriverRanks, LevelInt DEF IInv
      <4> QED BY <3>2, <4>1, SMT DEF Stage
    <3>4. phase \in {"unwind", "exit"}
      BY <3>3, SMT DEF IInv, StepInv
    <3>5. Rank[d] \in 7 .. 10
      BY DriverRanks
    <3>6. CASE phase = "unwind"
      <4>1. step = 10 - Rank[d] /\ step \in 1 .. 10
        BY <3>3, <3>5, <3>6, SMT DEF Level, IInv, StepInv
      <4>2. AtStep(UnwindOrder, d)
        BY <4>1, SMT DEF AtStep, UnwindOrder, Rank, Drivers
      <4> QED BY <3>6, <4>2 DEF Leaving
    <3>7. CASE phase = "exit"
      <4>1. step = 11 - Rank[d] /\ step \in 1 .. 12
        BY <3>3, <3>5, <3>7, SMT DEF Level, IInv, StepInv
      <4>2. AtStep(ExitOrder, d)
        BY <4>1, SMT DEF AtStep, ExitOrder, Rank, Drivers
      <4> QED BY <3>7, <4>2 DEF Leaving
    <3> QED BY <3>4, <3>6, <3>7
  <2> QED BY <2>3, <2>4
<1> QED BY <1>1, Invariance, PTL

-----------------------------------------------------------------------------
(* The order of the releases.                                              *)

\* What is younger than a resource of the subsystem at hand belongs to this
\* subsystem too, or is a stray.
LEMMA YoungerHere ==
  ASSUME IInv, NEW r \in HeldSet, NEW q \in HeldSet, OwnerRank(r) = Level,
         held[r] < held[q]
  PROVE  Stray(q) \/ OwnerRank(q) = Level
<1>1. /\ OwnerRank(r) \in 1 .. 10 /\ OwnerRank(q) \in 1 .. 10
      /\ Stray(q) \/ OwnerRank(q) <= Level
  BY HeldRanks DEF IInv, BelowInv
<1>2. held[r] \in Int /\ held[q] \in Int
  BY DEF IInv, TypeInv
<1>3. OwnerRank(q) < OwnerRank(r) => held[q] < held[r]
  BY DEF IInv, AgeInv
<1> QED BY <1>1, <1>2, <1>3, SMT

\* A release of the subsystem at hand that leaves only strays of its rank.
LEMMA ReleaseInOrder ==
  ASSUME IInv, NEW S, GiveBack(S), \A r \in S : OwnerRank(r) = Level,
         \A q \in HeldSet \ S : OwnerRank(q) # Level \/ Stray(q),
         NEW r \in HeldSet, NEW q \in HeldSet, held[r] < held[q], r \notin HeldSet'
  PROVE  q \notin HeldSet' \/ Stray(q)
<1>1. HeldSet' = HeldSet \ S
  BY GiveBackHeld
<1> QED BY <1>1, YoungerHere

\* A driver at hand that gives back all that it has.
LEMMA DriverInOrder ==
  ASSUME IInv, NEW d \in Drivers, Rank[d] = Level, NEW K \in SUBSET PartKinds,
         GiveBack({Resource(k, d) : k \in K}), Has(d) \subseteq K,
         NEW r \in HeldSet, NEW q \in HeldSet, held[r] < held[q], r \notin HeldSet'
  PROVE  q \notin HeldSet' \/ Stray(q)
<1> DEFINE S == {Resource(k, d) : k \in K}
<1>1. \A p \in S : OwnerRank(p) = Level
  BY PartRank
<1>2. ASSUME NEW p \in HeldSet, OwnerRank(p) = Level PROVE p \in S
  <2>1. p \in DriverParts(d)
    BY <1>2, PartsByRank DEF IInv, TypeInv
  <2>2. PICK k \in PartKinds : p = Resource(k, d)
    BY <2>1 DEF DriverParts, PartKinds
  <2>3. k \in Has(d)
    BY <1>2, <2>2 DEF Has, Holds
  <2> QED BY <2>2, <2>3
<1>3. GiveBack(S)
  OBVIOUS
<1> HIDE DEF S
<1> QED BY <1>1, <1>2, <1>3, ReleaseInOrder

LEMMA LoadingInOrder ==
  ASSUME IInv, NEW d \in Drivers, LoadDevice(d) \/ ProbeRing(d) \/ ProbeState(d),
         NEW r \in HeldSet, NEW q \in HeldSet, held[r] < held[q], r \notin HeldSet'
  PROVE  q \notin HeldSet' \/ Stray(q)
<1>1. Loading(d)
  BY DEF LoadDevice, ProbeRing, ProbeState
<1>2. Rank[d] = Level /\ Has(d) = PartsAt[Stage(d)]
      /\ Stage(d) = IF at = "start" THEN "down" ELSE at
  BY <1>1, LoadingStage
<1>3. ASSUME NEW S, Acquire(S) PROVE FALSE
  BY <1>3, AcquireHeld
<1>4. CASE LoadDevice(d)
  <2>1. GiveBack({Resource("driver", d)}) /\ at = "device"
    BY <1>3, <1>4 DEF LoadDevice
  <2>2. PICK K \in SUBSET PartKinds : K = {"driver"}
    BY DEF PartKinds
  <2>3. {Resource(k, d) : k \in K} = {Resource("driver", d)}
    BY <2>2
  <2>4. Has(d) \subseteq K
    BY <1>2, <2>1, <2>2 DEF PartsAt
  <2> QED BY <1>2, <2>1, <2>3, <2>4, DriverInOrder
<1>5. CASE ProbeRing(d) \/ ProbeState(d)
  <2>1. GiveBack({Resource(k, d) : k \in PartKinds})
    BY <1>3, <1>5, AllParts DEF ProbeRing, ProbeState
  <2>2. Has(d) \subseteq PartKinds
    BY DEF Has
  <2> QED BY <1>2, <2>1, <2>2, DriverInOrder
<1> QED BY <1>4, <1>5

LEMMA LeavingInOrder ==
  ASSUME IInv, NEW d \in Drivers, ExitDetach(d) \/ ExitUnregister(d),
         NEW r \in HeldSet, NEW q \in HeldSet, held[r] < held[q], r \notin HeldSet'
  PROVE  q \notin HeldSet' \/ Stray(q)
<1>1. Leaving(d)
  BY DEF ExitDetach, ExitUnregister
<1>2. Rank[d] = Level
  BY <1>1, LeavingStage
<1>3. CASE ExitUnregister(d)
  <2>1. GiveBack({Resource(k, d) : k \in PartKinds})
    BY <1>3, AllParts DEF ExitUnregister
  <2>2. Has(d) \subseteq PartKinds
    BY DEF Has
  <2> QED BY <1>2, <2>1, <2>2, DriverInOrder
<1>4. CASE ExitDetach(d)
  <2> DEFINE S == {Resource("ring", d), Resource("state", d)}
  <2>1. HeldSet' = HeldSet \ S
    BY <1>4, GiveBackHeld DEF ExitDetach
  <2>2. PICK l \in {"ring", "state"} : r = Resource(l, d)
    BY <2>1
  <2>3. OwnerRank(r) = Level
    BY <1>2, <2>2, PartRank DEF PartKinds
  <2>4. Stray(q) \/ OwnerRank(q) = Level
    BY <2>3, YoungerHere
  <2>5. ASSUME OwnerRank(q) = Level, q \notin S PROVE FALSE
    <3>1. q \in DriverParts(d)
      BY <1>2, <2>5, PartsByRank DEF IInv, TypeInv
    <3>2. PICK k \in {"driver", "device"} : q = Resource(k, d)
      BY <2>5, <3>1 DEF DriverParts
    <3>3. held[q] < held[r]
      BY <2>2, <3>2 DEF IInv, AgeInv, Holds
    <3>4. held[q] \in Int /\ held[r] \in Int
      BY DEF IInv, TypeInv
    <3> QED BY <3>3, <3>4, SMT
  <2> QED BY <2>1, <2>4, <2>5
<1> QED BY <1>3, <1>4

LEMMA OtherInOrder ==
  ASSUME IInv, NEW s, ExitOther(s),
         NEW r \in HeldSet, NEW q \in HeldSet, held[r] < held[q], r \notin HeldSet'
  PROVE  q \notin HeldSet' \/ Stray(q)
<1>1. /\ s \in {"qemu", "platdev", "glue", "debugfs", "chardev", "events"}
      /\ Leaving(s) /\ GiveBack(Released(s))
  BY DEF ExitOther
<1>2. CASE s = "events"
  <2>1. Released(s) = {}
    BY <1>2, SMT DEF Released
  <2> QED BY <1>1, <2>1, GiveBackHeld
<1>3. CASE s # "events"
  <2>1. Rank[s] = Level
    BY <1>1, <1>3, LeavingLevel
  <2>2. s \in {"qemu", "platdev", "glue", "debugfs", "chardev"}
    BY <1>1, <1>3
  <2>3. \A p \in Released(s) : OwnerRank(p) = Level
    BY <2>1, <2>2, ReleasedRanks
  <2>4. \A p \in HeldSet \ Released(s) : OwnerRank(p) # Level
    BY <2>1, <2>2, ReleasedByRank DEF IInv, TypeInv
  <2> QED BY <1>1, <2>3, <2>4, ReleaseInOrder
<1> QED BY <1>2, <1>3

LEMMA CleanupInOrder ==
  ASSUME IInv, CleanupEntry,
         NEW r \in HeldSet, NEW q \in HeldSet, held[r] < held[q], r \notin HeldSet'
  PROVE  {r, q} \subseteq Entries \/ Stray(q)
<1>1. PICK first \in Entries : GiveBack({first})
  BY DEF CleanupEntry
<1>2. r = first /\ r \in Entries
  BY <1>1, GiveBackHeld
<1>3. Level = 6 /\ OwnerRank(r) = 6
  <2>1. Leaving("dt")
    BY DEF CleanupEntry
  <2>2. Level = 6
    BY <2>1, LeavingLevel, SMT DEF Rank
  <2>3. OwnerRank(r) = 6
    BY <1>2, SMT DEF Entries, OwnerRank, GlueParts, PartKinds
  <2> QED BY <2>2, <2>3
<1>4. Stray(q) \/ OwnerRank(q) = 6
  BY <1>3, YoungerHere
<1>5. ASSUME OwnerRank(q) = 6 PROVE q.kind \in {"entry", "controller"}
  <2>1. q \in Resources /\ \A d \in Drivers : OwnerRank(q) # Rank[d]
    BY <1>5, DriverRanks, SMT DEF IInv, TypeInv
  <2> QED BY <1>5, <2>1, ResourceCases, SMT
<1> QED BY <1>2, <1>4, <1>5 DEF Entries, Stray

\* Nothing is given back before what was acquired after it, on the ladder,
\* inside the init functions and in rmmod alike (kdal_core_init,
\* kdal_core_exit), for any device tree.
THEOREM CoreLifecycleStackOrder == Spec => StackOrder
<1> DEFINE InOrder ==
      \A r, q \in HeldSet :
        (held[r] < held[q] /\ r \notin HeldSet') =>
           \/ q \notin HeldSet'
           \/ {r, q} \subseteq Entries
           \/ Stray(q)
<1>1. IInv /\ [Next]_vars => InOrder
  <2> SUFFICES ASSUME IInv, [Next]_vars, NEW r \in HeldSet, NEW q \in HeldSet,
                      held[r] < held[q], r \notin HeldSet'
               PROVE  q \notin HeldSet' \/ {r, q} \subseteq Entries \/ Stray(q)
    OBVIOUS
  <2>1. ~(UNCHANGED <<held, clock>>) /\ ~(\E S : Acquire(S))
    BY KeepHeld, AcquireHeld
  <2>2. CASE Insmod
    BY <2>2 DEF Insmod, HeldSet
  <2>3. CASE \E d \in Drivers : DriverStep(d)
    BY <2>1, <2>3, LoadingInOrder, LeavingInOrder
       DEF DriverStep, LoadDriver, ExitAnnounce, Fail
  <2>4. CASE \E s : LoadBackend(s) \/ ExitOther(s)
    BY <2>1, <2>4, OtherInOrder DEF LoadBackend
  <2>5. CASE CleanupEntry
    BY <2>5, CleanupInOrder
  <2>6. ~(LoadChardev \/ LoadDebugfs \/ LoadGlue \/ ScanNode \/ ScanOOM \/ ScanEnds)
    BY <2>1 DEF LoadChardev, LoadDebugfs, LoadGlue, ScanNode, ScanOOM, ScanEnds
  <2>7. ~(CleanupEnds \/ GoLive \/ Rmmod \/ Vanish \/ UNCHANGED vars)
    BY <2>1 DEF CleanupEnds, GoLive, Rmmod, Vanish, vars
  <2> QED BY <2>2, <2>3, <2>4, <2>5, <2>6, <2>7 DEF Next
<1>2. IInv /\ [Next]_vars => [InOrder]_vars
  BY <1>1
<1>3. [][InOrder]_vars => StackOrder
  BY PTL DEF StackOrder
<1> HIDE DEF InOrder
<1> QED BY <1>2, <1>3, Invariance, PTL DEF Spec

=============================================================================
