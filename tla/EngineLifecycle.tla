---------------------------- MODULE EngineLifecycle ----------------------------
(***************************************************************************)
(* The life of an rtsyn_engine_t: one controlling thread that starts,      *)
(* joins and destroys the engine, the realtime thread and the wait thread  *)
(* that rtsyn_engine_start creates, and any other thread that asks the     *)
(* engine to stop.  They communicate through six atomic flags; every       *)
(* atomic load or store that another thread can observe is a step of its   *)
(* own.  An engine can be started again once it is no longer running, so   *)
(* threads are numbered by the run, that is the call of                    *)
(* rtsyn_engine_start, that created them.                                  *)
(*                                                                         *)
(* The thread library is external: rtsyn_thread_run may fail, a thread     *)
(* object holds the thread it ran last, and rtsyn_thread_join waits for    *)
(* that thread to end.                                                     *)
(***************************************************************************)
EXTENDS Naturals

CONSTANTS
  MaxRuns,  \* bound of the model: how often the controller starts the engine
  Budget    \* config.max_commands_per_cycle, at least one once created

ASSUME LifecycleAssumption ==
  /\ MaxRuns \in Nat \ {0}
  /\ Budget \in Nat \ {0}

Runs  == 1 .. MaxRuns
Flags == {"running", "started", "paused", "stop_requested", "rt_joined", "wait_joined"}

(* Where each thread is, named after what it does next. *)
ControllerPoints ==
  {"ready",
   "start_stop", "start_paused", "start_rt_joined", "start_wait_joined",
   "start_running", "start_started", "start_rt", "start_wait",
   "undo_stop", "undo_join", "undo_rt_joined", "fail_started", "fail_running",
   "join_thread", "join_wait_joined", "join_started",
   "destroy_check", "free", "freed"}
RtPoints   == {"none", "check", "drain", "step", "tail", "exited"}
WaitPoints == {"none", "join", "set_rt_joined", "set_running", "exited"}

VARIABLES
  flag,         \* the atomic_bool fields of rtsyn_engine_s, by name
  at,           \* the controlling thread
  destroying,   \* rtsyn_engine_destroy has been called
  attempts,     \* calls of rtsyn_engine_start that passed its guard
  rt,           \* the realtime thread of each run
  wait,         \* the wait thread of each run
  drained,      \* commands the realtime thread has dispatched in this cycle
  rt_handle,    \* the run whose thread engine->rt_thread holds, 0 before any
  wait_handle,  \* the run whose thread engine->wait_thread holds, 0 before any
  rt_reaped,    \* runs whose realtime thread has been joined
  wait_reaped   \* runs whose wait thread has been joined

threads == <<rt, wait, drained, rt_handle, wait_handle, rt_reaped, wait_reaped>>
control == <<at, destroying, attempts>>
vars    == <<flag, control, threads>>

TypeOK ==
  /\ flag \in [Flags -> BOOLEAN]
  /\ at \in ControllerPoints
  /\ destroying \in BOOLEAN
  /\ attempts \in 0 .. MaxRuns
  /\ rt \in [Runs -> RtPoints]
  /\ wait \in [Runs -> WaitPoints]
  /\ drained \in [Runs -> 0 .. Budget]
  /\ rt_handle \in 0 .. MaxRuns
  /\ wait_handle \in 0 .. MaxRuns
  /\ rt_reaped \subseteq Runs
  /\ wait_reaped \subseteq Runs

(* rtsyn_engine_create: every flag is false, both thread objects are idle. *)
Init ==
  /\ flag = [f \in Flags |-> FALSE]
  /\ at = "ready"
  /\ destroying = FALSE
  /\ attempts = 0
  /\ rt = [n \in Runs |-> "none"]
  /\ wait = [n \in Runs |-> "none"]
  /\ drained = [n \in Runs |-> 0]
  /\ rt_handle = 0
  /\ wait_handle = 0
  /\ rt_reaped = {}
  /\ wait_reaped = {}

-----------------------------------------------------------------------------
(* Single steps of the three kinds of thread. *)

(* One atomic store of the controlling thread, on its way from here to there. *)
Store(here, name, value, there) ==
  /\ at = here
  /\ at' = there
  /\ flag' = [flag EXCEPT ![name] = value]
  /\ UNCHANGED <<destroying, attempts, threads>>

(* One step of the realtime thread of run n ... *)
MoveRt(n, here, there) ==
  /\ rt[n] = here
  /\ rt' = [rt EXCEPT ![n] = there]
  /\ UNCHANGED <<control, wait, rt_handle, wait_handle, rt_reaped, wait_reaped>>

(* ... and one of its wait thread. *)
MoveWait(n, here, there) ==
  /\ wait[n] = here
  /\ wait' = [wait EXCEPT ![n] = there]
  /\ UNCHANGED <<control, rt, drained, rt_handle, wait_handle, wait_reaped>>

-----------------------------------------------------------------------------
(* Variants of the actions below with a plausible slip in each, none of them
   part of the specification: they show which property would notice the slip. *)

(* BeginStart without its guard. *)
StartAlways ==
  /\ at = "ready" /\ attempts < MaxRuns
  /\ attempts' = attempts + 1
  /\ at' = "start_stop"
  /\ UNCHANGED <<flag, destroying, threads>>

(* StartStores with stop_requested reset after the run is announced. *)
StartStoresLateReset ==
  \/ Store("start_stop", "running", TRUE, "start_paused")
  \/ Store("start_paused", "paused", FALSE, "start_rt_joined")
  \/ Store("start_rt_joined", "rt_joined", FALSE, "start_wait_joined")
  \/ Store("start_wait_joined", "wait_joined", FALSE, "start_running")
  \/ Store("start_running", "stop_requested", FALSE, "start_started")
  \/ Store("start_started", "started", TRUE, "start_rt")

(* StartUndo that waits for a realtime thread it did not stop. *)
StartUndoNoStop ==
  \/ Store("undo_stop", "rt_joined", FALSE, "undo_join")
  \/ /\ at = "undo_join"
     /\ rt_handle # 0 /\ rt[rt_handle] = "exited"
     /\ at' = "undo_rt_joined"
     /\ rt_reaped' = rt_reaped \union {rt_handle}
     /\ UNCHANGED <<flag, destroying, attempts, rt, wait, drained, rt_handle,
                    wait_handle, wait_reaped>>
  \/ Store("undo_rt_joined", "rt_joined", TRUE, "fail_started")

(* StartFail that leaves started set. *)
StartFailKeepsStarted ==
  Store("fail_started", "running", FALSE, "ready")

(* CheckStop that never leaves the loop. *)
CheckStopIgnored(n) ==
  /\ MoveRt(n, "check", "drain")
  /\ drained' = [drained EXCEPT ![n] = 0]
  /\ UNCHANGED flag

(* Dispatch with an off-by-one in the budget. *)
DispatchOverBudget(n) ==
  /\ drained[n] <= Budget
  /\ MoveRt(n, "drain", "drain")
  /\ drained' = [drained EXCEPT ![n] = @ + 1]
  /\ UNCHANGED flag

(* WaitSetRunning that does not withdraw the run. *)
WaitSetRunningForgotten(n) ==
  /\ MoveWait(n, "set_running", "exited")
  /\ UNCHANGED <<flag, rt_reaped>>

(* WaitThread that withdraws the run before it joins the loop. *)
WaitThreadEarly(n) ==
  \/ /\ MoveWait(n, "join", "set_rt_joined")
     /\ flag' = [flag EXCEPT !["running"] = FALSE]
     /\ UNCHANGED rt_reaped
  \/ /\ MoveWait(n, "set_rt_joined", "set_running")
     /\ rt_handle # 0 /\ rt[rt_handle] = "exited"
     /\ rt_reaped' = rt_reaped \union {rt_handle}
     /\ UNCHANGED flag
  \/ /\ MoveWait(n, "set_running", "exited")
     /\ flag' = [flag EXCEPT !["rt_joined"] = TRUE]
     /\ UNCHANGED rt_reaped

-----------------------------------------------------------------------------
(* The controlling thread. *)

(* rtsyn_engine_start refuses an engine that is running and nothing else: the
   threads of an earlier run need not have been joined. *)
BeginStart ==
  /\ at = "ready" /\ attempts < MaxRuns
  /\ ~flag["running"]
  /\ attempts' = attempts + 1
  /\ at' = "start_stop"
  /\ UNCHANGED <<flag, destroying, threads>>

(* The flags are reset, then the run is announced, before any thread exists. *)
StartStores ==
  \/ Store("start_stop", "stop_requested", FALSE, "start_paused")
  \/ Store("start_paused", "paused", FALSE, "start_rt_joined")
  \/ Store("start_rt_joined", "rt_joined", FALSE, "start_wait_joined")
  \/ Store("start_wait_joined", "wait_joined", FALSE, "start_running")
  \/ Store("start_running", "running", TRUE, "start_started")
  \/ Store("start_started", "started", TRUE, "start_rt")

StartRtThread ==
  /\ at = "start_rt"
  /\ \/ /\ at' = "start_wait"
        /\ rt' = [rt EXCEPT ![attempts] = "check"]
        /\ rt_handle' = attempts
        /\ UNCHANGED <<flag, destroying, attempts, wait, drained, wait_handle,
                       rt_reaped, wait_reaped>>
     \/ /\ at' = "fail_started"
        /\ UNCHANGED <<flag, destroying, attempts, threads>>

StartWaitThread ==
  /\ at = "start_wait"
  /\ \/ /\ at' = "ready"
        /\ wait' = [wait EXCEPT ![attempts] = "join"]
        /\ wait_handle' = attempts
        /\ UNCHANGED <<flag, destroying, attempts, rt, drained, rt_handle,
                       rt_reaped, wait_reaped>>
     \/ /\ at' = "undo_stop"
        /\ UNCHANGED <<flag, destroying, attempts, threads>>

(* The wait thread could not be created: the controller stops the realtime
   thread and joins it itself, before it withdraws the run. *)
StartUndo ==
  \/ Store("undo_stop", "stop_requested", TRUE, "undo_join")
  \/ /\ at = "undo_join"
     /\ rt_handle # 0 /\ rt[rt_handle] = "exited"
     /\ at' = "undo_rt_joined"
     /\ rt_reaped' = rt_reaped \union {rt_handle}
     /\ UNCHANGED <<flag, destroying, attempts, rt, wait, drained, rt_handle,
                    wait_handle, wait_reaped>>
  \/ Store("undo_rt_joined", "rt_joined", TRUE, "fail_started")

StartFail ==
  \/ Store("fail_started", "started", FALSE, "fail_running")
  \/ Store("fail_running", "running", FALSE, "ready")

(* rtsyn_engine_request_stop, from the controller or from any other thread,
   as long as the engine is not being given back. *)
RequestStop ==
  /\ ~destroying
  /\ flag' = [flag EXCEPT !["stop_requested"] = TRUE]
  /\ UNCHANGED <<control, threads>>

(* rtsyn_engine_join.  Nobody else writes started and wait_joined, so reading
   both is one step; the two early returns change nothing. *)
BeginJoin ==
  /\ at = "ready"
  /\ flag["started"] /\ ~flag["wait_joined"]
  /\ at' = "join_thread"
  /\ UNCHANGED <<flag, destroying, attempts, threads>>

JoinThread ==
  /\ at = "join_thread"
  /\ wait_handle # 0 /\ wait[wait_handle] = "exited"
  /\ at' = "join_wait_joined"
  /\ wait_reaped' = wait_reaped \union {wait_handle}
  /\ UNCHANGED <<flag, destroying, attempts, rt, wait, drained, rt_handle,
                 wait_handle, rt_reaped>>

JoinStores ==
  \/ Store("join_wait_joined", "wait_joined", TRUE, "join_started")
  \/ Store("join_started", "started", FALSE, IF destroying THEN "free" ELSE "ready")

(* rtsyn_engine_destroy asks for a stop, joins when a run was started and not
   joined, and releases everything. *)
BeginDestroy ==
  /\ at = "ready"
  /\ destroying' = TRUE
  /\ at' = "destroy_check"
  /\ flag' = [flag EXCEPT !["stop_requested"] = TRUE]
  /\ UNCHANGED <<attempts, threads>>

DestroyCheck ==
  /\ at = "destroy_check"
  /\ at' = IF flag["started"] /\ ~flag["wait_joined"] THEN "join_thread" ELSE "free"
  /\ UNCHANGED <<flag, destroying, attempts, threads>>

Free ==
  /\ at = "free"
  /\ at' = "freed"
  /\ UNCHANGED <<flag, destroying, attempts, threads>>

-----------------------------------------------------------------------------
(* The realtime thread of run n: rtsyn_engine_rt_thread_main.  What a cycle
   publishes is left to the modules of the cycle; what it does to the flags is
   here. *)

CheckStop(n) ==
  /\ MoveRt(n, "check", IF flag["stop_requested"] THEN "exited" ELSE "drain")
  /\ drained' = [drained EXCEPT ![n] = 0]
  /\ UNCHANGED flag

(* One command taken from the queue and dispatched.  Only STOP, PAUSE and
   RESUME write flags; OTHER stands for every other command. *)
Dispatch(n) ==
  /\ drained[n] < Budget
  /\ MoveRt(n, "drain", "drain")
  /\ drained' = [drained EXCEPT ![n] = @ + 1]
  /\ \E command \in {"STOP", "PAUSE", "RESUME", "OTHER"} :
       flag' = CASE command = "STOP"   -> [flag EXCEPT !["stop_requested"] = TRUE]
                 [] command = "PAUSE"  -> [flag EXCEPT !["paused"] = TRUE]
                 [] command = "RESUME" -> [flag EXCEPT !["paused"] = FALSE]
                 [] command = "OTHER"  -> flag

(* The queue is empty or the budget is spent; the runtime is stepped unless
   the engine is paused. *)
LeaveDrain(n) ==
  /\ MoveRt(n, "drain", IF flag["paused"] THEN "tail" ELSE "step")
  /\ UNCHANGED <<flag, drained>>

StepRuntime(n) ==
  /\ MoveRt(n, "step", "tail")
  /\ UNCHANGED <<flag, drained>>

(* Telemetry, the sleep until the deadline and the measurement. *)
FinishCycle(n) ==
  /\ MoveRt(n, "tail", "check")
  /\ UNCHANGED <<flag, drained>>

RtThread(n) ==
  CheckStop(n) \/ Dispatch(n) \/ LeaveDrain(n) \/ StepRuntime(n) \/ FinishCycle(n)

-----------------------------------------------------------------------------
(* The wait thread of run n: rtsyn_engine_wait_thread_main. *)

WaitJoin(n) ==
  /\ MoveWait(n, "join", "set_rt_joined")
  /\ rt_handle # 0 /\ rt[rt_handle] = "exited"
  /\ rt_reaped' = rt_reaped \union {rt_handle}
  /\ UNCHANGED flag

WaitSetRtJoined(n) ==
  /\ MoveWait(n, "set_rt_joined", "set_running")
  /\ flag' = [flag EXCEPT !["rt_joined"] = TRUE]
  /\ UNCHANGED rt_reaped

WaitSetRunning(n) ==
  /\ MoveWait(n, "set_running", "exited")
  /\ flag' = [flag EXCEPT !["running"] = FALSE]
  /\ UNCHANGED rt_reaped

WaitThread(n) == WaitJoin(n) \/ WaitSetRtJoined(n) \/ WaitSetRunning(n)

-----------------------------------------------------------------------------

StartCall   == StartStores \/ StartRtThread \/ StartWaitThread \/ StartUndo \/ StartFail
JoinCall    == JoinThread \/ JoinStores
DestroyCall == DestroyCheck \/ Free

(* The steps of a call that has begun. *)
Controller == StartCall \/ JoinCall \/ DestroyCall

(* Nothing is left to do once the engine has been released. *)
Released == at = "freed" /\ UNCHANGED vars

Next ==
  \/ BeginStart \/ BeginJoin \/ BeginDestroy
  \/ Controller
  \/ RequestStop
  \/ \E n \in Runs : RtThread(n) \/ WaitThread(n)
  \/ Released

(* The scheduler runs every thread that can run.  Nobody is obliged to begin a
   call or to ask for a stop. *)
Fairness ==
  /\ WF_vars(Controller)
  /\ \A n \in Runs : WF_vars(RtThread(n)) /\ WF_vars(WaitThread(n))

Spec == Init /\ [][Next]_vars /\ Fairness

-----------------------------------------------------------------------------
(* Properties. *)

RtAlive(n)   == rt[n] \notin {"none", "exited"}
WaitAlive(n) == wait[n] \notin {"none", "exited"}
Quiet        == \A n \in Runs : ~RtAlive(n) /\ ~WaitAlive(n)

(* At most one realtime loop exists, over every restart and failed start: the
   telemetry and result queues have a single producer, the command queue a
   single consumer, and the unsynchronised fields a single writer. *)
AtMostOneRtLoop ==
  \A m, n \in Runs : RtAlive(m) /\ RtAlive(n) => m = n

(* When rtsyn_engine_is_running answers no, no thread of the engine will touch
   it again, whether or not the run was ever joined. *)
NotRunningMeansQuiet == ~flag["running"] => Quiet

(* rtsyn_engine_destroy releases the engine only when no thread can use it. *)
FreedIsQuiet == at \in {"free", "freed"} => Quiet

(* Between calls, an engine that is not marked started has no live thread: a
   start that failed left nothing behind, a join that returned saw the end. *)
NotStartedMeansQuiet == at = "ready" /\ ~flag["started"] => Quiet

(* No thread outlives its run, by whichever sign the owner knows the run to be
   over: is_running, the call that returned, or the engine's release. *)
NoThreadOutlivesRun == NotRunningMeansQuiet /\ FreedIsQuiet /\ NotStartedMeansQuiet

(* Every thread join is of a thread that was created and not joined before;
   the wait thread joins the realtime thread of its own run. *)
JoinTargetsValid ==
  /\ at = "join_thread" => wait_handle # 0 /\ wait_handle \notin wait_reaped
  /\ at = "undo_join"   => rt_handle # 0 /\ rt_handle \notin rt_reaped
  /\ \A n \in Runs : wait[n] = "join" => rt_handle = n /\ n \notin rt_reaped

(* No stop is lost: while a run is announced, a stop that was requested stays
   requested, whatever the controller and the commands do. *)
StopIsNotLost ==
  [][flag["running"] /\ flag["stop_requested"] => flag'["stop_requested"]]_vars

(* A stop that was requested ends the run. *)
StopEndsRun == (flag["running"] /\ flag["stop_requested"]) ~> ~flag["running"]

(* rtsyn_engine_start always returns, even when it has to undo a run. *)
StartReturns == (at = "start_stop") ~> (at = "ready")

(* rtsyn_engine_destroy always completes, whatever state it found. *)
DestroyCompletes == destroying ~> (at = "freed")

(* rtsyn_engine_join returns once a stop has been requested. *)
JoinReturnsAfterStop ==
  (at = "join_thread" /\ flag["stop_requested"]) ~> (at \in {"ready", "freed"})

(* No call of the owner waits for ever, but a join of a run that nobody stops. *)
CallsReturn == StartReturns /\ DestroyCompletes /\ JoinReturnsAfterStop

-----------------------------------------------------------------------------
(* The lifecycle implements what the engine promises its owner. *)

LoopState ==
  IF \E n \in Runs : RtAlive(n) THEN "alive"
  ELSE IF flag["running"] /\ \E n \in Runs : n = attempts /\ rt[n] = "exited" THEN "dead"
  ELSE "none"

Supervisor == INSTANCE EngineSupervisor WITH
  announced <- flag["running"],
  loop      <- LoopState,
  freed     <- (at = "freed")

SupervisorSpec == Supervisor!Spec

=============================================================================
