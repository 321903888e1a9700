-------------------------- MODULE EngineProcessProofs --------------------------
(***************************************************************************)
(* Theorems about the process and about the creation of its engine: for    *)
(* any number of queues and lives nothing that is in use is released and   *)
(* nothing is left behind, and for any number of engines on a runtime each *)
(* creation is complete or leaves nothing, and the probe is alive.         *)
(***************************************************************************)
EXTENDS EngineProcess, EngineCreation, TLAPS

Early     == {"block", "install", "create_runtime"}
Running   == {"unblock", "test", "pause", "sleep", "stop", "join"}
Furnished == Running \union {"start", "restore", "destroy_engine"}
Given     == Queues \union {"runtime"}

(* What the process holds at each point. *)
Holding ==
  /\ at \in Early \union {"exited"} => held = {}
  /\ at \in {"unlink_stale", "unlink", "destroy_runtime"} => held = {"runtime"}
  /\ at \in {"create_queues", "close"} => "runtime" \in held /\ held \subseteq Given
  /\ at = "create_engine" => held = Given
  /\ at \in Furnished => held = Resources

NoneIsOurs == \A q \in Queues : names[q] # life

(* Whose names there are in the system. *)
Naming ==
  /\ \A q \in Queues : names[q] <= life
  /\ at \in Early \union {"unlink_stale"} => NoneIsOurs
  /\ at = "create_queues" => \A q \in Queues : names[q] = IF q \in held THEN life ELSE 0
  /\ at \in Furnished \union {"create_engine"} => \A q \in Queues : names[q] = life
  /\ at = "destroy_runtime" => \A q \in Queues : names[q] = 0
  /\ at = "exited" /\ outcome # "killed" => NoneIsOurs

(* A signal ends the process only as long as it has nothing to release. *)
Guarded ==
  /\ at \notin {"block", "install", "exited"} => handled
  /\ at = "install" => mask = "shut"
  /\ at \notin {"block", "exited"} => previous # "unset"

Working == loop \in {"live", "stopping"} => at \in Running

IInv == TypeOK /\ Holding /\ Naming /\ Guarded /\ Working

-----------------------------------------------------------------------------
(* The invariant, action by action. *)

LEMMA InitIInv == Init => IInv
<1> SUFFICES ASSUME Init PROVE IInv
  OBVIOUS
<1>1. {handled, pending, flag, open} \subseteq BOOLEAN
  BY Zenon DEF Init
<1>2. TypeOK
  BY <1>1, ProcessAssumption DEF Init, TypeOK, Points, Resources
<1>3. Holding /\ Naming /\ Guarded /\ Working
  BY ProcessAssumption
     DEF Init, Holding, Naming, NoneIsOurs, Guarded, Working, Early, Furnished, Running
<1> QED
  BY <1>2, <1>3 DEF IInv

(* Types, for all steps at once. *)
LEMMA TypeStep == IInv /\ Next => TypeOK'
<1> SUFFICES ASSUME IInv, Next PROVE TypeOK'
  OBVIOUS
<1> USE ProcessAssumption DEF IInv, TypeOK, Points, Resources, signals, Go, Fail, Hold, Release
<1>1. CASE Block \/ InstallHandlers \/ CreateRuntime
  BY <1>1 DEF Block, InstallHandlers, CreateRuntime
<1>2. CASE UnlinkStale \/ Unlink
  BY <1>2 DEF UnlinkStale, Unlink, UnlinkNames
<1>3. CASE CreateQueues
  BY <1>3 DEF CreateQueues
<1>4. CASE CreateEngine \/ Start \/ Unblock
  BY <1>4 DEF CreateEngine, Start, Unblock, RequestStop
<1>5. CASE TestFlag \/ Pause \/ Stop \/ Join \/ Restore
  BY <1>5 DEF TestFlag, Pause, Stop, RequestStop, Join, Restore, Guarded
<1>6. CASE DestroyEngine \/ Close \/ DestroyRuntime
  BY <1>6 DEF DestroyEngine, Close, DestroyRuntime
<1>7. CASE StopCommand \/ LoopEnds
  BY <1>7 DEF StopCommand, LoopEnds
<1>8. CASE Deliver
  BY <1>8 DEF Deliver, Die
<1>9. CASE Kill
  BY <1>9 DEF Kill, Die
<1>10. CASE RunAgain
  <2>1. {handled', pending', flag', open'} \subseteq BOOLEAN
    BY <1>10, Zenon DEF RunAgain
  <2>2. life' \in 1 .. MaxLives
    BY <1>10 DEF RunAgain
  <2>3. /\ at' = "block" /\ outcome' = "undecided" /\ previous' = "unset" /\ loop' = "none"
        /\ mask' \in {"open", "shut"} /\ held' = held /\ names' = names
    BY <1>10 DEF RunAgain
  <2> QED
    BY <2>1, <2>2, <2>3
<1>11. CASE Done
  BY <1>11 DEF Done, vars
<1>12. CASE Send
  <2>1. {handled', pending', flag', open'} \subseteq BOOLEAN
    <3>1. pending' = TRUE /\ UNCHANGED <<handled, flag, open>>
      BY <1>12 DEF Send
    <3>2. {handled, flag, open} \subseteq BOOLEAN
      OBVIOUS
    <3> QED
      BY <3>1, <3>2, Zenon
  <2> QED
    BY <1>12, <2>1 DEF Send
<1> QED
  BY <1>1, <1>2, <1>3, <1>4, <1>5, <1>6, <1>7, <1>8, <1>9, <1>10, <1>11, <1>12 DEF Next, Main

(* What every step does to the four parts of the invariant. *)
AtEachPoint == Holding /\ Naming /\ Guarded /\ Working

LEMMA SetUpIInv ==
  ASSUME IInv, Block \/ InstallHandlers \/ CreateRuntime PROVE AtEachPoint'
<1> USE ProcessAssumption
    DEF IInv, TypeOK, AtEachPoint, Holding, Naming, NoneIsOurs, Guarded, Working, Early, Furnished,
        Running, signals, Go, Fail, Hold
<1>1. CASE Block
  BY <1>1 DEF Block
<1>2. CASE InstallHandlers
  BY <1>2 DEF InstallHandlers
<1>3. CASE CreateRuntime
  BY <1>3 DEF CreateRuntime
<1> QED
  BY <1>1, <1>2, <1>3

(* The last name that is removed lets main go on. *)
LEMMA UnlinkIInv ==
  ASSUME IInv, UnlinkStale \/ Unlink PROVE AtEachPoint'
<1> USE ProcessAssumption DEF IInv, TypeOK, AtEachPoint
<1>1. /\ UNCHANGED <<held, life, outcome, mask, previous, handled, loop>>
      /\ at \in {"unlink_stale", "unlink"} /\ held = {"runtime"}
      /\ \/ at' = at
         \/ /\ at' = IF at = "unlink" THEN "destroy_runtime" ELSE "create_queues"
            /\ \A q \in Queues : names'[q] = 0
      /\ \A q \in Queues : names'[q] \in {0, names[q]}
  BY DEF UnlinkStale, Unlink, UnlinkNames, signals, Holding
<1>2. Holding' /\ Guarded' /\ Working'
  BY <1>1 DEF Holding, Guarded, Working, Early, Furnished, Running, Given
<1>3. Naming'
  BY <1>1 DEF Naming, NoneIsOurs, Early, Furnished, Running
<1> QED
  BY <1>2, <1>3

LEMMA CreateQueuesIInv ==
  ASSUME IInv, CreateQueues PROVE AtEachPoint'
<1> USE ProcessAssumption DEF IInv, TypeOK, AtEachPoint
<1>1. /\ at = "create_queues" /\ "runtime" \in held /\ held \subseteq Given
      /\ \A q \in Queues : names[q] = IF q \in held THEN life ELSE 0
      /\ UNCHANGED <<life, mask, previous, handled, loop>>
  BY DEF CreateQueues, signals, Holding, Naming
<1>2. PICK q \in Queues \ held :
        \/ /\ at' = IF Queues \ held = {q} THEN "create_engine" ELSE at
           /\ held' = held \union {q}
           /\ names' = [names EXCEPT ![q] = IF @ = 0 THEN life ELSE @]
        \/ at' = "close" /\ UNCHANGED <<held, names>>
  BY DEF CreateQueues, Fail, Go, Hold
<1>3. Guarded' /\ Working'
  BY <1>1, <1>2 DEF Guarded, Working, Running
<1>4. Holding'
  BY <1>1, <1>2 DEF Holding, Given, Early, Furnished, Running
<1>5. Naming'
  <2>1. CASE at' = "close" /\ UNCHANGED <<held, names>>
    BY <1>1, <2>1 DEF Naming, Early, Furnished, Running
  <2>2. CASE /\ at' = IF Queues \ held = {q} THEN "create_engine" ELSE at
             /\ held' = held \union {q}
             /\ names' = [names EXCEPT ![q] = IF @ = 0 THEN life ELSE @]
    <3>1. \A p \in Queues : names'[p] = IF p \in held' THEN life ELSE 0
      BY <1>1, <2>2
    <3>2. at' = "create_engine" => Queues \subseteq held'
      BY <1>1, <2>2
    <3> QED
      BY <1>1, <2>2, <3>1, <3>2 DEF Naming, Early, Furnished, Running
  <2> QED
    BY <1>2, <2>1, <2>2
<1> QED
  BY <1>3, <1>4, <1>5

LEMMA EngineIInv ==
  ASSUME IInv, CreateEngine \/ Start \/ Unblock \/ TestFlag \/ Pause \/ Stop PROVE AtEachPoint'
<1> USE ProcessAssumption
    DEF IInv, TypeOK, AtEachPoint, Holding, Naming, NoneIsOurs, Guarded, Working, Early, Furnished,
        Running, Given, Resources, signals, Go, Fail, Hold
<1>1. CASE CreateEngine
  BY <1>1 DEF CreateEngine
<1>2. CASE Start
  BY <1>2 DEF Start
<1>3. CASE Unblock
  BY <1>3 DEF Unblock, RequestStop
<1>4. CASE TestFlag \/ Pause
  BY <1>4 DEF TestFlag, Pause
<1>5. CASE Stop
  BY <1>5 DEF Stop, RequestStop
<1> QED
  BY <1>1, <1>2, <1>3, <1>4, <1>5

LEMMA ReleaseIInv ==
  ASSUME IInv, Join \/ Restore \/ DestroyEngine \/ Close \/ DestroyRuntime PROVE AtEachPoint'
<1> USE ProcessAssumption
    DEF IInv, TypeOK, AtEachPoint, Holding, Naming, NoneIsOurs, Guarded, Working, Early, Furnished,
        Running, Given, Resources, signals, Go, Release
<1>1. CASE Join \/ Restore
  BY <1>1 DEF Join, Restore
<1>2. CASE DestroyEngine
  BY <1>2 DEF DestroyEngine
<1>3. CASE Close
  BY <1>3 DEF Close
<1>4. CASE DestroyRuntime
  BY <1>4 DEF DestroyRuntime
<1> QED
  BY <1>1, <1>2, <1>3, <1>4

(* The system and the engine: a signal may come at any point. *)
LEMMA SystemIInv ==
  ASSUME IInv, StopCommand \/ LoopEnds \/ Send \/ Deliver \/ Kill \/ RunAgain PROVE AtEachPoint'
<1> USE ProcessAssumption
    DEF IInv, TypeOK, AtEachPoint, Holding, Naming, NoneIsOurs, Guarded, Working, Early, Furnished,
        Running, signals, Die
<1>1. CASE StopCommand \/ LoopEnds \/ Send
  BY <1>1 DEF StopCommand, LoopEnds, Send
<1>2. CASE Deliver
  BY <1>2 DEF Deliver
<1>3. CASE Kill
  BY <1>3 DEF Kill
<1>4. CASE RunAgain
  BY <1>4 DEF RunAgain
<1> QED
  BY <1>1, <1>2, <1>3, <1>4

LEMMA NextIInv == IInv /\ [Next]_vars => IInv'
<1> SUFFICES ASSUME IInv, [Next]_vars PROVE IInv'
  OBVIOUS
<1>1. CASE UNCHANGED vars
  BY <1>1 DEF IInv, TypeOK, Holding, Naming, NoneIsOurs, Guarded, Working, vars, signals
<1>2. CASE Next
  <2>1. Done => UNCHANGED vars
    BY DEF Done
  <2> QED
    BY <1>1, <1>2, <2>1, TypeStep, SetUpIInv, UnlinkIInv, CreateQueuesIInv, EngineIInv,
       ReleaseIInv, SystemIInv
       DEF Next, Main, AtEachPoint, IInv
<1> QED
  BY <1>1, <1>2

-----------------------------------------------------------------------------
(* Theorems about the process. *)

(* What the process holds, whose names there are and what a signal can do, at
   each point of main() and whatever failed before. *)
THEOREM ProcessInvariant == Spec => []IInv
BY InitIInv, NextIInv, PTL DEF Spec

(* Every variable keeps its type. *)
THEOREM TypeCorrect == Spec => []TypeOK
<1>1. IInv => TypeOK
  BY DEF IInv
<1> QED
  BY <1>1, ProcessInvariant, PTL

(* The engine never outlives what it was given, nor its threads the engine, and
   its queues are of this life. *)
THEOREM EngineHasWhatItUses == Spec => []EngineIsFurnished
<1>1. IInv => EngineIsFurnished
  BY ProcessAssumption
     DEF IInv, TypeOK, Points, Holding, Naming, Working, EngineIsFurnished, Resources, Early,
         Furnished, Running, Given
<1> QED
  BY <1>1, ProcessInvariant, PTL

(* Only a process that is killed outright leaves names in the system. *)
THEOREM ExitIsClean == Spec => []NothingIsLeftBehind
<1>1. IInv => NothingIsLeftBehind
  BY DEF IInv, Holding, Naming, NoneIsOurs, NothingIsLeftBehind
<1> QED
  BY <1>1, ProcessInvariant, PTL

-----------------------------------------------------------------------------
(* The creation of an engine, one step of main() above in EngineCreation. *)

(* What the engine that is being created holds when the next step is this. *)
HeldBefore ==
  [loaded_nodes     |-> {"engine"},
   measurement_tool |-> {"engine", "loaded_nodes"},
   rt_thread        |-> {"engine", "loaded_nodes", "measurement_tool"},
   wait_thread      |-> {"engine", "loaded_nodes", "measurement_tool", "rt_thread"}]

Under == {"loaded_nodes", "measurement_tool", "rt_thread", "wait_thread"}

Making ==
  /\ due = "out" => making = None
  /\ due # "out" => making \in Engines \ created /\ acquired[making] = HeldBefore[due]

Keeping ==
  /\ \A e \in Engines \ {making} : acquired[e] = IF e \in created THEN Parts ELSE {}
  /\ \A e \in created : budget[e] > 0
  /\ due # "out" => budget[making] > 0

Probing ==
  probe # None => \/ probe \in created
                  \/ probe = making /\ due \in {"rt_thread", "wait_thread"}

CreationInv == CreationTypeOK /\ Making /\ Keeping /\ Probing

-----------------------------------------------------------------------------

LEMMA CreationInitInv == CreationInit => CreationInv
BY CreationAssumption DEF CreationInit, CreationInv, CreationTypeOK, Making, Keeping, Probing

LEMMA AllocateInv ==
  ASSUME CreationInv, NEW e \in Engines, NEW asked \in 0 .. MaxBudget, Allocate(e, asked)
  PROVE  CreationInv'
<1> USE CreationAssumption DEF CreationInv, Allocate, Continue
<1>1. CreationTypeOK'
  BY DEF CreationTypeOK, Parts
<1>2. Making'
  BY DEF CreationTypeOK, Making, HeldBefore
<1>3. Keeping'
  BY DEF CreationTypeOK, Making, Keeping
<1>4. Probing'
  BY DEF Making, Probing
<1> QED
  BY <1>1, <1>2, <1>3, <1>4

(* A call that gives up has given back everything. *)
LEMMA GiveUpInv ==
  ASSUME CreationInv, NEW here \in Under, GiveUp(here, HeldBefore[here]),
         probe' = None \/ (probe' = probe /\ here \in {"loaded_nodes", "measurement_tool"})
  PROVE  CreationInv'
<1> USE CreationAssumption DEF CreationInv, GiveUp, Continue, GiveBack, Under
<1>1. acquired[making] = HeldBefore[here] /\ making \in Engines \ created
  BY DEF Making
<1>2. /\ acquired' \in [Engines -> SUBSET Parts] /\ acquired'[making] = {}
      /\ \A e \in Engines \ {making} : acquired'[e] = acquired[e]
  BY <1>1 DEF CreationTypeOK
<1>3. CreationTypeOK'
  BY <1>2 DEF CreationTypeOK
<1>4. Making'
  BY DEF Making
<1>5. Keeping'
  BY <1>1, <1>2 DEF Keeping
<1>6. Probing'
  BY DEF Probing
<1> QED
  BY <1>3, <1>4, <1>5, <1>6

(* A part is had, and the next one is due. *)
LEMMA AcquireInv ==
  ASSUME CreationInv, NEW here \in Under, NEW there \in Under,
         Continue(here, there), Acquire(here),
         HeldBefore[there] = HeldBefore[here] \union {here},
         UNCHANGED <<making, budget, created, record>>,
         \/ probe' = probe /\ (here = "rt_thread" => there = "wait_thread")
         \/ probe' = making /\ there = "rt_thread"
  PROVE  CreationInv'
<1> USE CreationAssumption DEF CreationInv, Continue, Acquire, Under
<1>1. acquired[making] = HeldBefore[here] /\ making \in Engines \ created
  BY DEF Making
<1>2. /\ acquired' \in [Engines -> SUBSET Parts] /\ acquired'[making] = HeldBefore[there]
      /\ \A e \in Engines \ {making} : acquired'[e] = acquired[e]
  BY <1>1 DEF CreationTypeOK, Parts
<1>3. CreationTypeOK'
  BY <1>1, <1>2 DEF CreationTypeOK
<1>4. Making'
  <2>1. due' = there /\ making' = making /\ created' = created /\ there # "out"
    OBVIOUS
  <2> QED
    BY <1>1, <1>2, <2>1, Zenon DEF Making
<1>5. Keeping'
  BY <1>1, <1>2 DEF Keeping
<1>6. Probing'
  <2>1. making' = making /\ created' = created /\ due' = there
    OBVIOUS
  <2>2. CASE probe' = making /\ there = "rt_thread"
    BY <2>1, <2>2 DEF Probing
  <2>3. CASE probe' = probe /\ (here = "rt_thread" => there = "wait_thread")
    <3>1. probe # None =>
            probe \in created \/ (probe = making /\ here \in {"rt_thread", "wait_thread"})
      BY DEF Probing
    <3>2. here # "wait_thread"
      BY DEF HeldBefore
    <3> QED
      BY <2>1, <2>3, <3>1, <3>2 DEF Probing
  <2> QED
    BY <2>2, <2>3
<1> QED
  BY <1>3, <1>4, <1>5, <1>6

LEMMA GiveOutInv ==
  ASSUME CreationInv, GiveOut PROVE CreationInv'
<1> USE CreationAssumption DEF CreationInv, GiveOut, Continue, Acquire
<1>1. acquired[making] = HeldBefore["wait_thread"] /\ making \in Engines \ created
  BY DEF Making
<1>2. /\ acquired' \in [Engines -> SUBSET Parts] /\ acquired'[making] = Parts
      /\ \A e \in Engines \ {making} : acquired'[e] = acquired[e]
  BY <1>1 DEF CreationTypeOK, Parts, HeldBefore
<1>3. CreationTypeOK'
  BY <1>1, <1>2 DEF CreationTypeOK
<1>4. Making'
  BY DEF Making
<1>5. Keeping'
  BY <1>1, <1>2 DEF Keeping
<1>6. Probing'
  BY DEF Probing
<1> QED
  BY <1>3, <1>4, <1>5, <1>6

LEMMA CreateInv ==
  ASSUME CreationInv, Create PROVE CreationInv'
<1> USE DEF Under, HeldBefore
<1>1. CASE CreateList
  <2>1. CASE GiveUp("loaded_nodes", {"engine"}) /\ UNCHANGED probe
    BY <2>1, GiveUpInv
  <2> QED
    BY <1>1, <2>1, AcquireInv DEF CreateList
<1>2. CASE CreateTool
  <2>1. CASE GiveUp("measurement_tool", {"loaded_nodes", "engine"}) /\ UNCHANGED probe
    BY <2>1, GiveUpInv
  <2> QED
    BY <1>2, <2>1, AcquireInv DEF CreateTool
<1>3. CASE CreateRtThread
  <2>1. CASE /\ GiveUp("rt_thread", {"measurement_tool", "loaded_nodes", "engine"})
             /\ probe' = None
    BY <2>1, GiveUpInv
  <2> QED
    BY <1>3, <2>1, AcquireInv DEF CreateRtThread
<1>4. CASE CreateWaitThread
  <2>1. CASE /\ GiveUp("wait_thread", {"measurement_tool", "rt_thread", "loaded_nodes", "engine"})
             /\ probe' = None
    BY <2>1, GiveUpInv
  <2> QED
    BY <1>4, <2>1, GiveOutInv DEF CreateWaitThread
<1> QED
  BY <1>1, <1>2, <1>3, <1>4 DEF Create

LEMMA DestroyInv ==
  ASSUME CreationInv, NEW e \in Engines, Destroy(e)
  PROVE  CreationInv'
<1> USE CreationAssumption DEF CreationInv, Destroy
<1>1. CreationTypeOK'
  BY DEF CreationTypeOK
<1>2. Making' /\ Probing'
  BY DEF Making, Probing
<1>3. Keeping'
  BY DEF CreationTypeOK, Making, Keeping
<1> QED
  BY <1>1, <1>2, <1>3

LEMMA ProbeInv ==
  ASSUME CreationInv, NEW stage \in Stages \union {"OTHER"}, RuntimeProbe(stage)
  PROVE  CreationInv'
<1> USE CreationAssumption DEF CreationInv, RuntimeProbe
<1>1. CreationTypeOK'
  BY DEF CreationTypeOK
<1>2. Making' /\ Keeping' /\ Probing'
  BY DEF Making, Keeping, Probing
<1> QED
  BY <1>1, <1>2

LEMMA CreationStep == CreationInv /\ [CreationNext]_creationVars => CreationInv'
<1> SUFFICES ASSUME CreationInv, [CreationNext]_creationVars PROVE CreationInv'
  OBVIOUS
<1>1. CASE UNCHANGED creationVars
  BY <1>1 DEF creationVars, CreationInv, CreationTypeOK, Making, Keeping, Probing
<1> QED
  BY <1>1, AllocateInv, CreateInv, DestroyInv, ProbeInv DEF CreationNext

(* The invariant that carries the theorems below: the engine under way holds
   exactly what the steps before acquired, and the probe is one that was given
   out or the one under way once it has its tool. *)
THEOREM CreationInvariant == CreationSpec => []CreationInv
BY CreationInitInv, CreationStep, PTL DEF CreationSpec

(* Every variable keeps its type. *)
THEOREM CreationTyped == CreationSpec => []CreationTypeOK
<1>1. CreationInv => CreationTypeOK
  BY DEF CreationInv
<1> QED
  BY <1>1, CreationInvariant, PTL

(* rtsyn_engine_create gives a complete engine or leaves nothing behind, and
   rtsyn_engine_destroy releases all there is. *)
THEOREM CreationIsWhole == CreationSpec => []CreatedIsComplete
<1>1. CreationInv => CreatedIsComplete
  BY CreationAssumption DEF CreationInv, Making, Keeping, CreatedIsComplete
<1> QED
  BY <1>1, CreationInvariant, PTL

(* The runtime never calls back an engine that is gone. *)
THEOREM ProbeIsNeverStale == CreationSpec => []ProbeIsAlive
<1>1. CreationInv => ProbeIsAlive
  <2> SUFFICES ASSUME CreationInv, probe # None
               PROVE  {"engine", "measurement_tool"} \subseteq acquired[probe]
    BY DEF ProbeIsAlive
  <2>1. CASE probe = making /\ due \in {"rt_thread", "wait_thread"}
    BY <2>1 DEF CreationInv, Making, HeldBefore
  <2>2. CASE probe \in created /\ probe # making
    <3>1. acquired[probe] = Parts
      BY <2>2 DEF CreationInv, CreationTypeOK, Keeping
    <3> QED
      BY <3>1 DEF Parts
  <2>3. probe \in created => probe # making
    BY CreationAssumption DEF CreationInv, CreationTypeOK, Making
  <2> QED
    BY <2>1, <2>2, <2>3 DEF CreationInv, Probing
<1> QED
  BY <1>1, CreationInvariant, PTL

=============================================================================
