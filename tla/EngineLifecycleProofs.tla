------------------------- MODULE EngineLifecycleProofs -------------------------
(***************************************************************************)
(* Theorems about EngineLifecycle for every number of starts and every     *)
(* command budget.  The safety properties follow from the inductive        *)
(* invariant IInv, which says for every point of the controlling thread    *)
(* which threads can exist there and which of them can still be joined.    *)
(***************************************************************************)
EXTENDS EngineLifecycle, TLAPS

(* The points of a call of rtsyn_engine_start before its realtime thread
   exists, while that thread exists without a wait thread, and once the call
   has failed; and the points at which a wait thread may be at work. *)
Unborn    == {"start_stop", "start_paused", "start_rt_joined", "start_wait_joined",
              "start_running", "start_started", "start_rt"}
Announced == {"start_started", "start_rt"}
Unwatched == {"start_wait", "undo_stop", "undo_join"}
Failed    == {"undo_rt_joined", "fail_started", "fail_running"}
Watched   == {"ready", "join_thread", "destroy_check"}
Ended     == {"join_wait_joined", "join_started", "free", "freed"}

(* A live thread belongs to the latest start, and the run it belongs to is
   announced.  A live realtime thread always has somebody who will join it. *)
RtOwned ==
  \A n \in Runs : RtAlive(n) =>
    flag["running"] /\ n = attempts /\ (wait[n] = "join" \/ at \in Unwatched)

WaitOwned ==
  \A n \in Runs : WaitAlive(n) =>
    flag["running"] /\ n = attempts /\ at \in Watched

(* A run that was not attempted has no threads. *)
Untouched(n) ==
  rt[n] = "none" /\ wait[n] = "none" /\ n \notin rt_reaped /\ n \notin wait_reaped

FutureUntouched == \A n \in Runs : n > attempts => Untouched(n)

WaitJoinsOwn ==
  \A n \in Runs : wait[n] = "join" => rt_handle = n /\ n \notin rt_reaped

UnbornRun ==
  /\ at \in Unborn =>
       attempts \in Runs /\ Untouched(attempts) /\ (flag["running"] <=> at \in Announced)
  /\ at \in {"start_running", "start_started", "start_rt"} => ~flag["wait_joined"]
  /\ at = "start_rt" => flag["started"]

UnwatchedRun ==
  at \in Unwatched =>
    /\ flag["running"] /\ flag["started"] /\ ~flag["wait_joined"]
    /\ attempts \in Runs
    /\ rt_handle = attempts
    /\ wait[attempts] = "none"
    /\ attempts \notin rt_reaped /\ attempts \notin wait_reaped

FailedRun ==
  /\ at \in Failed => flag["running"] /\ Quiet
  /\ at = "fail_running" => ~flag["started"]

(* A run that started and was not joined yet. *)
StartedRun ==
  /\ attempts \in Runs
  /\ wait_handle = attempts
  /\ attempts \notin wait_reaped
  /\ flag["running"] => WaitAlive(attempts)

WatchedRun ==
  at \in Watched =>
    IF flag["started"] THEN StartedRun /\ ~flag["wait_joined"]
    ELSE at # "join_thread" /\ ~flag["running"] /\ Quiet

EndedRun == at \in Ended => ~flag["running"] /\ Quiet

(* The runtime is never stepped in a paused engine. *)
NoStepWhilePaused == \A n \in Runs : rt[n] = "step" => ~flag["paused"]

ThreadInv ==
  /\ RtOwned /\ WaitOwned
  /\ FutureUntouched
  /\ WaitJoinsOwn
  /\ NoStepWhilePaused

ControlInv == UnbornRun /\ UnwatchedRun /\ FailedRun /\ WatchedRun /\ EndedRun

IInv == TypeOK /\ ThreadInv /\ ControlInv

-----------------------------------------------------------------------------
(* The invariant, action by action. *)


(* rtsyn_engine_create establishes IInv. *)
LEMMA InitIInv == Init => IInv
<1> SUFFICES ASSUME Init PROVE IInv
  OBVIOUS
<1>1. TypeOK
  <2>1. flag \in [Flags -> BOOLEAN]
    BY Zenon DEF Init
  <2>2. at \in ControllerPoints /\ destroying \in BOOLEAN
    BY DEF Init, ControllerPoints
  <2>3. rt \in [Runs -> RtPoints] /\ wait \in [Runs -> WaitPoints]
    BY DEF Init, RtPoints, WaitPoints
  <2>4. /\ attempts \in 0 .. MaxRuns
        /\ rt_handle \in 0 .. MaxRuns /\ wait_handle \in 0 .. MaxRuns
        /\ drained \in [Runs -> 0 .. Budget]
        /\ rt_reaped \subseteq Runs /\ wait_reaped \subseteq Runs
    BY LifecycleAssumption DEF Init
  <2> QED
    BY <2>1, <2>2, <2>3, <2>4 DEF TypeOK
<1>2. ~flag["running"] /\ ~flag["started"] /\ at = "ready"
  BY DEF Init, Flags
<1>3. \A n \in Runs : Untouched(n) /\ ~RtAlive(n) /\ ~WaitAlive(n)
  BY DEF Init, Untouched, RtAlive, WaitAlive
<1>4. RtOwned /\ WaitOwned /\ FutureUntouched
  BY <1>3 DEF RtOwned, WaitOwned, FutureUntouched
<1>5. WaitJoinsOwn /\ NoStepWhilePaused
  BY DEF Init, WaitJoinsOwn, NoStepWhilePaused
<1>6. UnbornRun /\ UnwatchedRun /\ FailedRun /\ EndedRun
  BY <1>2 DEF UnbornRun, UnwatchedRun, FailedRun, EndedRun, Unborn, Unwatched, Failed, Ended
<1>7. WatchedRun
  BY <1>2, <1>3 DEF WatchedRun, Quiet
<1> QED
  BY <1>1, <1>4, <1>5, <1>6, <1>7 DEF IInv, ThreadInv, ControlInv

(* What a store leaves behind, without the function it updates. *)
LEMMA StoreEffect ==
  ASSUME TypeOK, NEW here, NEW name \in Flags, NEW value \in BOOLEAN,
         NEW there \in ControllerPoints,
         Store(here, name, value, there)
  PROVE  /\ TypeOK'
         /\ at = here /\ at' = there
         /\ flag'[name] = value
         /\ \A f \in Flags : f # name => flag'[f] = flag[f]
         /\ UNCHANGED <<attempts, rt, wait, rt_handle, wait_handle, rt_reaped, wait_reaped>>
<1>1. flag' \in [Flags -> BOOLEAN]
  BY Zenon DEF Store, TypeOK
<1>2. /\ at = here /\ at' = there
      /\ UNCHANGED <<destroying, attempts, rt, wait, drained, rt_handle, wait_handle,
                     rt_reaped, wait_reaped>>
  BY DEF Store, threads
<1>3. TypeOK'
  BY <1>1, <1>2, Zenon DEF TypeOK
<1>4. flag'[name] = value /\ \A f \in Flags : f # name => flag'[f] = flag[f]
  BY DEF Store, TypeOK
<1> QED
  BY <1>2, <1>3, <1>4

(* The stores of rtsyn_engine_start keep IInv: no thread is alive while they are
   made, and the run is announced only after every flag was reset. *)
LEMMA StartStoresIInv == IInv /\ StartStores => IInv'
<1> SUFFICES ASSUME IInv, StartStores PROVE IInv'
  OBVIOUS
<1> USE DEF IInv, Unborn, Announced, Unwatched, Failed, Watched, Ended
<1>1. CASE Store("start_stop", "stop_requested", FALSE, "start_paused")
  <2>1. /\ TypeOK'
        /\ at = "start_stop" /\ at' = "start_paused"
        /\ flag'["running"] = flag["running"] /\ flag'["started"] = flag["started"]
        /\ flag'["paused"] = flag["paused"] /\ flag'["wait_joined"] = flag["wait_joined"]
        /\ UNCHANGED <<attempts, rt, wait, rt_handle, wait_handle, rt_reaped, wait_reaped>>
    BY <1>1, StoreEffect DEF Flags, ControllerPoints
  <2>2. ThreadInv'
    BY <2>1 DEF ThreadInv, RtOwned, WaitOwned, FutureUntouched, WaitJoinsOwn, NoStepWhilePaused,
                ControlInv, UnbornRun, Untouched, RtAlive, WaitAlive
  <2>3. ControlInv'
    BY <2>1 DEF ControlInv, UnbornRun, UnwatchedRun, FailedRun, WatchedRun, EndedRun, Untouched
  <2> QED
    BY <2>1, <2>2, <2>3
<1>2. CASE Store("start_paused", "paused", FALSE, "start_rt_joined")
  <2>1. /\ TypeOK'
        /\ at = "start_paused" /\ at' = "start_rt_joined"
        /\ flag'["running"] = flag["running"] /\ flag'["started"] = flag["started"] /\ flag'["wait_joined"] = flag["wait_joined"]
        /\ ~flag'["paused"]
        /\ UNCHANGED <<attempts, rt, wait, rt_handle, wait_handle, rt_reaped, wait_reaped>>
    BY <1>2, StoreEffect DEF Flags, ControllerPoints
  <2>2. ThreadInv'
    BY <2>1 DEF ThreadInv, RtOwned, WaitOwned, FutureUntouched, WaitJoinsOwn, NoStepWhilePaused,
                ControlInv, UnbornRun, Untouched, RtAlive, WaitAlive
  <2>3. ControlInv'
    BY <2>1 DEF ControlInv, UnbornRun, UnwatchedRun, FailedRun, WatchedRun, EndedRun, Untouched
  <2> QED
    BY <2>1, <2>2, <2>3
<1>3. CASE Store("start_rt_joined", "rt_joined", FALSE, "start_wait_joined")
  <2>1. /\ TypeOK'
        /\ at = "start_rt_joined" /\ at' = "start_wait_joined"
        /\ flag'["running"] = flag["running"] /\ flag'["started"] = flag["started"]
        /\ flag'["paused"] = flag["paused"] /\ flag'["wait_joined"] = flag["wait_joined"]
        /\ UNCHANGED <<attempts, rt, wait, rt_handle, wait_handle, rt_reaped, wait_reaped>>
    BY <1>3, StoreEffect DEF Flags, ControllerPoints
  <2>2. ThreadInv'
    BY <2>1 DEF ThreadInv, RtOwned, WaitOwned, FutureUntouched, WaitJoinsOwn, NoStepWhilePaused,
                ControlInv, UnbornRun, Untouched, RtAlive, WaitAlive
  <2>3. ControlInv'
    BY <2>1 DEF ControlInv, UnbornRun, UnwatchedRun, FailedRun, WatchedRun, EndedRun, Untouched
  <2> QED
    BY <2>1, <2>2, <2>3
<1>4. CASE Store("start_wait_joined", "wait_joined", FALSE, "start_running")
  <2>1. /\ TypeOK'
        /\ at = "start_wait_joined" /\ at' = "start_running"
        /\ flag'["running"] = flag["running"] /\ flag'["started"] = flag["started"]
        /\ flag'["paused"] = flag["paused"] /\ ~flag'["wait_joined"]
        /\ UNCHANGED <<attempts, rt, wait, rt_handle, wait_handle, rt_reaped, wait_reaped>>
    BY <1>4, StoreEffect DEF Flags, ControllerPoints
  <2>2. ThreadInv'
    BY <2>1 DEF ThreadInv, RtOwned, WaitOwned, FutureUntouched, WaitJoinsOwn, NoStepWhilePaused,
                ControlInv, UnbornRun, Untouched, RtAlive, WaitAlive
  <2>3. ControlInv'
    BY <2>1 DEF ControlInv, UnbornRun, UnwatchedRun, FailedRun, WatchedRun, EndedRun, Untouched
  <2> QED
    BY <2>1, <2>2, <2>3
<1>5. CASE Store("start_running", "running", TRUE, "start_started")
  <2>1. /\ TypeOK'
        /\ at = "start_running" /\ at' = "start_started"
        /\ flag'["started"] = flag["started"] /\ flag'["paused"] = flag["paused"] /\ flag'["wait_joined"] = flag["wait_joined"]
        /\ flag'["running"]
        /\ UNCHANGED <<attempts, rt, wait, rt_handle, wait_handle, rt_reaped, wait_reaped>>
    BY <1>5, StoreEffect DEF Flags, ControllerPoints
  <2>2. ThreadInv'
    BY <2>1 DEF ThreadInv, RtOwned, WaitOwned, FutureUntouched, WaitJoinsOwn, NoStepWhilePaused,
                ControlInv, UnbornRun, Untouched, RtAlive, WaitAlive
  <2>3. ControlInv'
    BY <2>1 DEF ControlInv, UnbornRun, UnwatchedRun, FailedRun, WatchedRun, EndedRun, Untouched
  <2> QED
    BY <2>1, <2>2, <2>3
<1>6. CASE Store("start_started", "started", TRUE, "start_rt")
  <2>1. /\ TypeOK'
        /\ at = "start_started" /\ at' = "start_rt"
        /\ flag'["running"] = flag["running"] /\ flag'["paused"] = flag["paused"] /\ flag'["wait_joined"] = flag["wait_joined"]
        /\ flag'["started"]
        /\ UNCHANGED <<attempts, rt, wait, rt_handle, wait_handle, rt_reaped, wait_reaped>>
    BY <1>6, StoreEffect DEF Flags, ControllerPoints
  <2>2. ThreadInv'
    BY <2>1 DEF ThreadInv, RtOwned, WaitOwned, FutureUntouched, WaitJoinsOwn, NoStepWhilePaused,
                ControlInv, UnbornRun, Untouched, RtAlive, WaitAlive
  <2>3. ControlInv'
    BY <2>1 DEF ControlInv, UnbornRun, UnwatchedRun, FailedRun, WatchedRun, EndedRun, Untouched
  <2> QED
    BY <2>1, <2>2, <2>3
<1> QED
  BY <1>1, <1>2, <1>3, <1>4, <1>5, <1>6 DEF StartStores

(* A start that passes its guard keeps IInv: an engine that is not running has
   no live thread, so the new run begins untouched. *)
LEMMA BeginStartIInv == IInv /\ BeginStart => IInv'
<1> SUFFICES ASSUME IInv, BeginStart PROVE IInv'
  OBVIOUS
<1> USE DEF IInv, Unborn, Announced, Unwatched, Failed, Watched, Ended
<1>1. TypeOK'
  BY LifecycleAssumption DEF BeginStart, TypeOK, ControllerPoints, threads
<1>2. /\ at = "ready" /\ at' = "start_stop"
      /\ ~flag["running"]
      /\ attempts' = attempts + 1 /\ attempts' \in Runs /\ attempts \in Nat
      /\ UNCHANGED <<flag, rt, wait, rt_handle, wait_handle, rt_reaped, wait_reaped>>
  BY LifecycleAssumption DEF BeginStart, TypeOK, threads, Runs
<1>3. ThreadInv'
  BY <1>2 DEF ThreadInv, RtOwned, WaitOwned, FutureUntouched, WaitJoinsOwn, NoStepWhilePaused,
              Untouched, RtAlive, WaitAlive, Runs
<1>4. ControlInv'
  BY <1>2 DEF ThreadInv, FutureUntouched, ControlInv, UnbornRun, UnwatchedRun, FailedRun,
              WatchedRun, EndedRun, Untouched, Runs
<1> QED
  BY <1>1, <1>3, <1>4

(* Creating the realtime thread, or failing to, keeps IInv: its loop is the only
   one alive and the controlling thread is there to join it. *)
LEMMA StartRtThreadIInv == IInv /\ StartRtThread => IInv'
<1> SUFFICES ASSUME IInv, StartRtThread PROVE IInv'
  OBVIOUS
<1> USE DEF IInv, Unborn, Announced, Unwatched, Failed, Watched, Ended
<1>1. TypeOK'
  BY DEF StartRtThread, TypeOK, ControllerPoints, RtPoints, threads, ControlInv, UnbornRun
<1>2. CASE at' = "start_wait"
  <2>1. /\ at = "start_rt"
        /\ attempts \in Runs
        /\ rt'[attempts] = "check" /\ rt_handle' = attempts
        /\ \A n \in Runs : n # attempts => rt'[n] = rt[n]
        /\ UNCHANGED <<flag, attempts, wait, wait_handle, rt_reaped, wait_reaped>>
    BY <1>2 DEF StartRtThread, TypeOK, ControlInv, UnbornRun
  <2>2. ThreadInv'
    BY <1>2, <2>1 DEF ThreadInv, RtOwned, WaitOwned, FutureUntouched, WaitJoinsOwn,
       NoStepWhilePaused, ControlInv, UnbornRun, Untouched, RtAlive, WaitAlive, TypeOK
  <2>3. ControlInv'
    BY <1>2, <2>1 DEF ControlInv, UnbornRun, UnwatchedRun, FailedRun, WatchedRun, EndedRun, Untouched
  <2> QED
    BY <1>1, <2>2, <2>3
<1>3. CASE at' = "fail_started"
  <2>1. /\ at = "start_rt"
        /\ UNCHANGED <<flag, attempts, rt, wait, rt_handle, wait_handle, rt_reaped, wait_reaped>>
    BY <1>3 DEF StartRtThread, threads
  <2>2. ThreadInv'
    BY <1>3, <2>1 DEF ThreadInv, RtOwned, WaitOwned, FutureUntouched, WaitJoinsOwn,
       NoStepWhilePaused, ControlInv, UnbornRun, Untouched, RtAlive, WaitAlive
  <2>3. ControlInv'
    BY <1>3, <2>1 DEF ThreadInv, RtOwned, WaitOwned, ControlInv, UnbornRun, UnwatchedRun, FailedRun,
       WatchedRun, EndedRun, Untouched, Quiet, RtAlive, WaitAlive
  <2> QED
    BY <1>1, <2>2, <2>3
<1> QED
  BY <1>2, <1>3 DEF StartRtThread

(* Creating the wait thread, or failing to, keeps IInv: from here on the wait
   thread, not the controlling thread, owes the realtime thread a join. *)
LEMMA StartWaitThreadIInv == IInv /\ StartWaitThread => IInv'
<1> SUFFICES ASSUME IInv, StartWaitThread PROVE IInv'
  OBVIOUS
<1> USE DEF IInv, Unborn, Announced, Unwatched, Failed, Watched, Ended
<1>1. TypeOK'
  BY DEF StartWaitThread, TypeOK, ControllerPoints, WaitPoints, threads, ControlInv, UnwatchedRun
<1>2. CASE at' = "ready"
  <2>1. /\ at = "start_wait"
        /\ attempts \in Runs
        /\ wait'[attempts] = "join" /\ wait_handle' = attempts
        /\ \A n \in Runs : n # attempts => wait'[n] = wait[n]
        /\ UNCHANGED <<flag, attempts, rt, rt_handle, rt_reaped, wait_reaped>>
    BY <1>2 DEF StartWaitThread, TypeOK, ControlInv, UnwatchedRun
  <2>2. ThreadInv'
    BY <1>2, <2>1 DEF ThreadInv, RtOwned, WaitOwned, FutureUntouched, WaitJoinsOwn,
       NoStepWhilePaused, ControlInv, UnwatchedRun, Untouched, RtAlive, WaitAlive, TypeOK
  <2>3. ControlInv'
    BY <1>2, <2>1 DEF ControlInv, UnbornRun, UnwatchedRun, FailedRun, WatchedRun, StartedRun, EndedRun, WaitAlive
  <2> QED
    BY <1>1, <2>2, <2>3
<1>3. CASE at' = "undo_stop"
  <2>1. /\ at = "start_wait"
        /\ UNCHANGED <<flag, attempts, rt, wait, rt_handle, wait_handle, rt_reaped, wait_reaped>>
    BY <1>3 DEF StartWaitThread, threads
  <2>2. ThreadInv'
    BY <1>3, <2>1 DEF ThreadInv, RtOwned, WaitOwned, FutureUntouched, WaitJoinsOwn,
       NoStepWhilePaused, Untouched, RtAlive, WaitAlive
  <2>3. ControlInv'
    BY <1>3, <2>1 DEF ControlInv, UnbornRun, UnwatchedRun, FailedRun, WatchedRun, EndedRun
  <2> QED
    BY <1>1, <2>2, <2>3
<1> QED
  BY <1>2, <1>3 DEF StartWaitThread

(* Undoing a run without a wait thread keeps IInv: the controlling thread goes on
   only after the realtime thread has exited. *)
LEMMA StartUndoIInv == IInv /\ StartUndo => IInv'
<1> SUFFICES ASSUME IInv, StartUndo PROVE IInv'
  OBVIOUS
<1> USE DEF IInv, Unborn, Announced, Unwatched, Failed, Watched, Ended
<1>1. CASE Store("undo_stop", "stop_requested", TRUE, "undo_join")
  <2>1. /\ TypeOK'
        /\ at = "undo_stop" /\ at' = "undo_join"
        /\ flag'["running"] = flag["running"] /\ flag'["started"] = flag["started"]
        /\ flag'["paused"] = flag["paused"] /\ flag'["wait_joined"] = flag["wait_joined"]
        /\ UNCHANGED <<attempts, rt, wait, rt_handle, wait_handle, rt_reaped, wait_reaped>>
    BY <1>1, StoreEffect DEF Flags, ControllerPoints
  <2>2. ThreadInv'
    BY <2>1 DEF ThreadInv, RtOwned, WaitOwned, FutureUntouched, WaitJoinsOwn, NoStepWhilePaused,
                ControlInv, UnbornRun, Untouched, RtAlive, WaitAlive
  <2>3. ControlInv'
    BY <2>1 DEF ControlInv, UnbornRun, UnwatchedRun, FailedRun, WatchedRun, EndedRun, Untouched, Quiet
  <2> QED
    BY <2>1, <2>2, <2>3
<1>2. CASE at = "undo_join"
  <2>1. /\ at' = "undo_rt_joined"
        /\ rt[rt_handle] = "exited"
        /\ rt_reaped' = rt_reaped \union {rt_handle}
        /\ UNCHANGED <<flag, destroying, attempts, rt, wait, drained, rt_handle, wait_handle, wait_reaped>>
    BY <1>2 DEF StartUndo, Store
  <2>2. rt_handle = attempts /\ attempts \in Runs
    BY <1>2 DEF ControlInv, UnwatchedRun
  <2>3. TypeOK'
    BY <2>1, <2>2 DEF TypeOK, ControllerPoints
  <2>4. ThreadInv'
    BY <1>2, <2>1, <2>2 DEF ThreadInv, RtOwned, WaitOwned, FutureUntouched, WaitJoinsOwn,
       NoStepWhilePaused, ControlInv, UnwatchedRun, Untouched, RtAlive, WaitAlive, Runs
  <2>5. ControlInv'
    BY <1>2, <2>1, <2>2 DEF ThreadInv, RtOwned, WaitOwned, ControlInv, UnbornRun, UnwatchedRun,
       FailedRun, WatchedRun, EndedRun, Quiet, RtAlive, WaitAlive
  <2> QED
    BY <2>3, <2>4, <2>5
<1>3. CASE Store("undo_rt_joined", "rt_joined", TRUE, "fail_started")
  <2>1. /\ TypeOK'
        /\ at = "undo_rt_joined" /\ at' = "fail_started"
        /\ flag'["running"] = flag["running"] /\ flag'["started"] = flag["started"]
        /\ flag'["paused"] = flag["paused"] /\ flag'["wait_joined"] = flag["wait_joined"]
        /\ UNCHANGED <<attempts, rt, wait, rt_handle, wait_handle, rt_reaped, wait_reaped>>
    BY <1>3, StoreEffect DEF Flags, ControllerPoints
  <2>2. ThreadInv'
    BY <2>1 DEF ThreadInv, RtOwned, WaitOwned, FutureUntouched, WaitJoinsOwn, NoStepWhilePaused,
                ControlInv, UnbornRun, Untouched, RtAlive, WaitAlive
  <2>3. ControlInv'
    BY <2>1 DEF ControlInv, UnbornRun, UnwatchedRun, FailedRun, WatchedRun, EndedRun, Untouched, Quiet, RtAlive, WaitAlive
  <2> QED
    BY <2>1, <2>2, <2>3
<1> QED
  BY <1>1, <1>2, <1>3 DEF StartUndo

(* Withdrawing a run whose threads are gone keeps IInv. *)
LEMMA StartFailIInv == IInv /\ StartFail => IInv'
<1> SUFFICES ASSUME IInv, StartFail PROVE IInv'
  OBVIOUS
<1> USE DEF IInv, Unborn, Announced, Unwatched, Failed, Watched, Ended
<1>1. CASE Store("fail_started", "started", FALSE, "fail_running")
  <2>1. /\ TypeOK'
        /\ at = "fail_started" /\ at' = "fail_running"
        /\ flag'["running"] = flag["running"] /\ flag'["paused"] = flag["paused"] /\ flag'["wait_joined"] = flag["wait_joined"]
        /\ ~flag'["started"]
        /\ UNCHANGED <<attempts, rt, wait, rt_handle, wait_handle, rt_reaped, wait_reaped>>
    BY <1>1, StoreEffect DEF Flags, ControllerPoints
  <2>2. ThreadInv'
    BY <2>1 DEF ThreadInv, RtOwned, WaitOwned, FutureUntouched, WaitJoinsOwn, NoStepWhilePaused,
                ControlInv, UnbornRun, Untouched, RtAlive, WaitAlive
  <2>3. ControlInv'
    BY <2>1 DEF ControlInv, UnbornRun, UnwatchedRun, FailedRun, WatchedRun, EndedRun, Untouched, Quiet, RtAlive, WaitAlive
  <2> QED
    BY <2>1, <2>2, <2>3
<1>2. CASE Store("fail_running", "running", FALSE, "ready")
  <2>1. /\ TypeOK'
        /\ at = "fail_running" /\ at' = "ready"
        /\ flag'["started"] = flag["started"] /\ flag'["paused"] = flag["paused"] /\ flag'["wait_joined"] = flag["wait_joined"]
        /\ ~flag'["running"]
        /\ UNCHANGED <<attempts, rt, wait, rt_handle, wait_handle, rt_reaped, wait_reaped>>
    BY <1>2, StoreEffect DEF Flags, ControllerPoints
  <2>2. ThreadInv'
    BY <2>1 DEF ThreadInv, RtOwned, WaitOwned, FutureUntouched, WaitJoinsOwn, NoStepWhilePaused,
                ControlInv, UnbornRun, Untouched, RtAlive, WaitAlive
  <2>3. ControlInv'
    BY <2>1 DEF ControlInv, UnbornRun, UnwatchedRun, FailedRun, WatchedRun, EndedRun, Untouched, Quiet, RtAlive, WaitAlive
  <2> QED
    BY <2>1, <2>2, <2>3
<1> QED
  BY <1>1, <1>2 DEF StartFail

(* rtsyn_engine_request_stop keeps IInv from any thread and at any time. *)
LEMMA RequestStopIInv == IInv /\ RequestStop => IInv'
<1> SUFFICES ASSUME IInv, RequestStop PROVE IInv'
  OBVIOUS
<1> USE DEF IInv, Unborn, Announced, Unwatched, Failed, Watched, Ended
<1>1. /\ flag' \in [Flags -> BOOLEAN]
      /\ UNCHANGED <<at, destroying, attempts, rt, wait, drained, rt_handle, wait_handle,
                     rt_reaped, wait_reaped>>
  <2>1. flag' \in [Flags -> BOOLEAN]
    BY Zenon DEF RequestStop, TypeOK
  <2> QED
    BY <2>1 DEF RequestStop, control, threads
<1>2. /\ flag'["running"] = flag["running"] /\ flag'["started"] = flag["started"]
      /\ flag'["paused"] = flag["paused"] /\ flag'["wait_joined"] = flag["wait_joined"]
  BY DEF RequestStop, TypeOK, Flags
<1>3. TypeOK'
  BY <1>1, Zenon DEF TypeOK
<1>4. ThreadInv'
  BY <1>1, <1>2 DEF ThreadInv, RtOwned, WaitOwned, FutureUntouched, WaitJoinsOwn,
     NoStepWhilePaused, Untouched, RtAlive, WaitAlive
<1>5. ControlInv'
  BY <1>1, <1>2 DEF ControlInv, UnbornRun, UnwatchedRun, FailedRun, WatchedRun, StartedRun,
     EndedRun, Quiet, Untouched, RtAlive, WaitAlive
<1> QED
  BY <1>3, <1>4, <1>5

(* The first step of rtsyn_engine_destroy keeps IInv. *)
LEMMA BeginDestroyIInv == IInv /\ BeginDestroy => IInv'
<1> SUFFICES ASSUME IInv, BeginDestroy PROVE IInv'
  OBVIOUS
<1> USE DEF IInv, Unborn, Announced, Unwatched, Failed, Watched, Ended
<1>1. /\ flag' \in [Flags -> BOOLEAN]
      /\ at = "ready" /\ at' = "destroy_check" /\ destroying' \in BOOLEAN
      /\ UNCHANGED <<attempts, rt, wait, drained, rt_handle, wait_handle,
                     rt_reaped, wait_reaped>>
  <2>1. flag' \in [Flags -> BOOLEAN]
    BY Zenon DEF BeginDestroy, TypeOK
  <2> QED
    BY <2>1 DEF BeginDestroy, threads
<1>2. /\ flag'["running"] = flag["running"] /\ flag'["started"] = flag["started"]
      /\ flag'["paused"] = flag["paused"] /\ flag'["wait_joined"] = flag["wait_joined"]
  BY DEF BeginDestroy, TypeOK, Flags
<1>3. TypeOK'
  <2>1. at' \in ControllerPoints
    BY <1>1 DEF ControllerPoints
  <2> QED
    BY <1>1, <2>1, Zenon DEF TypeOK
<1>4. ThreadInv'
  BY <1>1, <1>2 DEF ThreadInv, RtOwned, WaitOwned, FutureUntouched, WaitJoinsOwn,
     NoStepWhilePaused, Untouched, RtAlive, WaitAlive
<1>5. ControlInv'
  BY <1>1, <1>2 DEF ControlInv, UnbornRun, UnwatchedRun, FailedRun, WatchedRun, StartedRun,
     EndedRun, Quiet, RtAlive, WaitAlive
<1> QED
  BY <1>3, <1>4, <1>5

(* Steps that only move the controlling thread. *)
LEMMA MoveControllerIInv == IInv /\ (BeginJoin \/ DestroyCheck \/ Free) => IInv'
<1> SUFFICES ASSUME IInv, BeginJoin \/ DestroyCheck \/ Free PROVE IInv'
  OBVIOUS
<1> USE DEF IInv, Unborn, Announced, Unwatched, Failed, Watched, Ended
<1>1. UNCHANGED <<flag, destroying, attempts, rt, wait, drained, rt_handle, wait_handle,
                  rt_reaped, wait_reaped>>
  BY DEF BeginJoin, DestroyCheck, Free, threads
<1>2. TypeOK'
  <2>1. at' \in ControllerPoints
    BY DEF BeginJoin, DestroyCheck, Free, ControllerPoints
  <2> QED
    BY <1>1, <2>1, Zenon DEF TypeOK
<1>3. \/ at = "ready" /\ at' = "join_thread" /\ flag["started"]
      \/ at = "destroy_check" /\ at' = "join_thread" /\ flag["started"]
      \/ at = "destroy_check" /\ at' = "free" /\ ~flag["started"]
      \/ at = "free" /\ at' = "freed"
  BY DEF BeginJoin, DestroyCheck, Free, ControlInv, WatchedRun
<1>4. ThreadInv'
  BY <1>1, <1>3 DEF ThreadInv, RtOwned, WaitOwned, FutureUntouched, WaitJoinsOwn,
     NoStepWhilePaused, ControlInv, WatchedRun, EndedRun, Quiet, Untouched, RtAlive, WaitAlive
<1>5. ControlInv'
  BY <1>1, <1>3 DEF ControlInv, UnbornRun, UnwatchedRun, FailedRun, WatchedRun, StartedRun,
     EndedRun, Quiet, RtAlive, WaitAlive
<1> QED
  BY <1>2, <1>4, <1>5

(* rtsyn_engine_join keeps IInv: the thread it waited for has withdrawn the run. *)
LEMMA JoinThreadIInv == IInv /\ JoinThread => IInv'
<1> SUFFICES ASSUME IInv, JoinThread PROVE IInv'
  OBVIOUS
<1> USE DEF IInv, Unborn, Announced, Unwatched, Failed, Watched, Ended
<1>1. /\ at = "join_thread" /\ at' = "join_wait_joined"
      /\ wait[wait_handle] = "exited"
      /\ wait_reaped' = wait_reaped \union {wait_handle}
      /\ UNCHANGED <<flag, destroying, attempts, rt, wait, drained, rt_handle, wait_handle, rt_reaped>>
  BY DEF JoinThread
<1>2. wait_handle = attempts /\ attempts \in Runs /\ ~flag["running"]
  BY <1>1 DEF ControlInv, WatchedRun, StartedRun, WaitAlive
<1>3. Quiet
  BY <1>2 DEF ThreadInv, RtOwned, WaitOwned, Quiet
<1>4. TypeOK'
  <2>1. at' \in ControllerPoints /\ wait_reaped' \subseteq Runs
    BY <1>1, <1>2 DEF TypeOK, ControllerPoints
  <2> QED
    BY <1>1, <2>1, Zenon DEF TypeOK
<1>5. ThreadInv'
  BY <1>1, <1>2, <1>3 DEF ThreadInv, RtOwned, WaitOwned, FutureUntouched, WaitJoinsOwn,
     NoStepWhilePaused, Untouched, RtAlive, WaitAlive, Quiet, Runs
<1>6. ControlInv'
  BY <1>1, <1>2, <1>3 DEF ControlInv, UnbornRun, UnwatchedRun, FailedRun, WatchedRun, EndedRun,
     Quiet, RtAlive, WaitAlive
<1> QED
  BY <1>4, <1>5, <1>6

(* The stores after the join keep IInv, in rtsyn_engine_join on its own and inside
   rtsyn_engine_destroy. *)
LEMMA JoinStoresIInv == IInv /\ JoinStores => IInv'
<1> SUFFICES ASSUME IInv, JoinStores PROVE IInv'
  OBVIOUS
<1> USE DEF IInv, Unborn, Announced, Unwatched, Failed, Watched, Ended
<1>1. CASE Store("join_wait_joined", "wait_joined", TRUE, "join_started")
  <2>1. /\ TypeOK'
        /\ at = "join_wait_joined" /\ at' = "join_started"
        /\ flag'["running"] = flag["running"] /\ flag'["started"] = flag["started"] /\ flag'["paused"] = flag["paused"]
        /\ UNCHANGED <<attempts, rt, wait, rt_handle, wait_handle, rt_reaped, wait_reaped>>
    BY <1>1, StoreEffect DEF Flags, ControllerPoints
  <2>2. ThreadInv'
    BY <2>1 DEF ThreadInv, RtOwned, WaitOwned, FutureUntouched, WaitJoinsOwn, NoStepWhilePaused,
                ControlInv, EndedRun, Quiet, Untouched, RtAlive, WaitAlive
  <2>3. ControlInv'
    BY <2>1 DEF ControlInv, UnbornRun, UnwatchedRun, FailedRun, WatchedRun, EndedRun, Quiet, RtAlive, WaitAlive
  <2> QED
    BY <2>1, <2>2, <2>3
<1>2. CASE Store("join_started", "started", FALSE, IF destroying THEN "free" ELSE "ready")
  <2>1. /\ TypeOK'
        /\ at = "join_started" /\ at' = IF destroying THEN "free" ELSE "ready"
        /\ flag'["running"] = flag["running"] /\ flag'["paused"] = flag["paused"] /\ ~flag'["started"]
        /\ UNCHANGED <<attempts, rt, wait, rt_handle, wait_handle, rt_reaped, wait_reaped>>
    BY <1>2, StoreEffect DEF Flags, ControllerPoints
  <2>2. ThreadInv'
    BY <2>1 DEF ThreadInv, RtOwned, WaitOwned, FutureUntouched, WaitJoinsOwn, NoStepWhilePaused,
                ControlInv, EndedRun, Quiet, Untouched, RtAlive, WaitAlive
  <2>3. ControlInv'
    BY <2>1 DEF ControlInv, UnbornRun, UnwatchedRun, FailedRun, WatchedRun, EndedRun, Quiet, RtAlive, WaitAlive
  <2> QED
    BY <2>1, <2>2, <2>3
<1> QED
  BY <1>1, <1>2 DEF JoinStores

-----------------------------------------------------------------------------
(* The realtime thread. *)

(* A step of a realtime thread that leaves alone the flags the others are
   guided by keeps everything but the two facts about what it does itself. *)
LEMMA MoveRtKeeps ==
  ASSUME IInv, NEW n \in Runs, NEW here \in RtPoints \ {"none", "exited"},
         NEW there \in RtPoints \ {"none"}, MoveRt(n, here, there),
         flag'["running"] = flag["running"], flag'["started"] = flag["started"],
         flag'["wait_joined"] = flag["wait_joined"],
         flag' \in [Flags -> BOOLEAN], drained' \in [Runs -> 0 .. Budget],
         NoStepWhilePaused'
  PROVE  IInv'
<1> USE DEF IInv, Unborn, Announced, Unwatched, Failed, Watched, Ended
<1>1. /\ RtAlive(n) /\ rt'[n] = there
      /\ \A m \in Runs : m # n => rt'[m] = rt[m]
      /\ rt' \in [Runs -> RtPoints]
      /\ UNCHANGED <<at, destroying, attempts, wait, rt_handle, wait_handle, rt_reaped, wait_reaped>>
  BY DEF MoveRt, RtAlive, TypeOK, control
<1>2. TypeOK'
  BY <1>1, Zenon DEF TypeOK
<1>3. \A m \in Runs : RtAlive(m)' => RtAlive(m)
  BY <1>1 DEF RtAlive
<1>4. ThreadInv'
  BY <1>1, <1>3 DEF ThreadInv, RtOwned, WaitOwned, FutureUntouched, WaitJoinsOwn, Untouched,
     RtAlive, WaitAlive, TypeOK, Runs
<1>5. ControlInv'
  BY <1>1, <1>3 DEF ControlInv, UnbornRun, UnwatchedRun, FailedRun, WatchedRun, StartedRun,
     EndedRun, Quiet, Untouched, RtAlive, WaitAlive
<1> QED
  BY <1>2, <1>4, <1>5

(* Every step of a realtime thread keeps IInv. *)
LEMMA RtThreadIInv ==
  ASSUME IInv, NEW n \in Runs, RtThread(n)
  PROVE  IInv'
<1> USE DEF RtPoints
<1>1. /\ flag \in [Flags -> BOOLEAN] /\ drained \in [Runs -> 0 .. Budget]
      /\ rt \in [Runs -> RtPoints]
      /\ NoStepWhilePaused
  BY Zenon DEF IInv, TypeOK, ThreadInv
<1>2. \A m \in Runs : RtAlive(m) /\ RtAlive(n) => m = n
  BY DEF IInv, ThreadInv, RtOwned
<1>3. CASE CheckStop(n)
  <2>1. PICK there \in {"exited", "drain"} :
          MoveRt(n, "check", there) /\ UNCHANGED flag /\ drained' = [drained EXCEPT ![n] = 0]
    BY <1>3 DEF CheckStop
  <2>2. drained' \in [Runs -> 0 .. Budget]
    BY <1>1, <2>1, LifecycleAssumption
  <2>3. NoStepWhilePaused'
    BY <1>1, <2>1 DEF NoStepWhilePaused, MoveRt
  <2> QED
    BY <1>1, <2>1, <2>2, <2>3, MoveRtKeeps
<1>4. CASE Dispatch(n)
  <2>1. MoveRt(n, "drain", "drain") /\ rt' = rt
    BY <1>1, <1>4 DEF Dispatch, MoveRt
  <2>2. drained' \in [Runs -> 0 .. Budget]
    BY <1>1, <1>4, LifecycleAssumption DEF Dispatch
  <2>3. \/ flag' = [flag EXCEPT !["stop_requested"] = TRUE]
        \/ flag' = [flag EXCEPT !["paused"] = TRUE]
        \/ flag' = [flag EXCEPT !["paused"] = FALSE]
        \/ flag' = flag
    BY <1>4 DEF Dispatch
  <2>4. flag' \in [Flags -> BOOLEAN]
    BY <1>1, <2>3, Zenon
  <2>5. /\ flag'["running"] = flag["running"] /\ flag'["started"] = flag["started"]
        /\ flag'["wait_joined"] = flag["wait_joined"]
    BY <1>1, <2>3 DEF Flags
  <2>6. NoStepWhilePaused'
    BY <1>2, <2>1 DEF NoStepWhilePaused, MoveRt, RtAlive
  <2> QED
    BY <2>1, <2>2, <2>4, <2>5, <2>6, MoveRtKeeps
<1>5. CASE LeaveDrain(n)
  <2>1. MoveRt(n, "drain", IF flag["paused"] THEN "tail" ELSE "step") /\ UNCHANGED <<flag, drained>>
    BY <1>5 DEF LeaveDrain
  <2>2. NoStepWhilePaused'
    BY <1>1, <2>1 DEF NoStepWhilePaused, MoveRt
  <2> QED
    BY <1>1, <2>1, <2>2, MoveRtKeeps
<1>6. CASE StepRuntime(n)
  <2>1. MoveRt(n, "step", "tail") /\ UNCHANGED <<flag, drained>>
    BY <1>6 DEF StepRuntime
  <2>2. NoStepWhilePaused'
    BY <1>1, <2>1 DEF NoStepWhilePaused, MoveRt
  <2> QED
    BY <1>1, <2>1, <2>2, MoveRtKeeps
<1>7. CASE FinishCycle(n)
  <2>1. MoveRt(n, "tail", "check") /\ UNCHANGED <<flag, drained>>
    BY <1>7 DEF FinishCycle
  <2>2. NoStepWhilePaused'
    BY <1>1, <2>1 DEF NoStepWhilePaused, MoveRt
  <2> QED
    BY <1>1, <2>1, <2>2, MoveRtKeeps
<1> QED
  BY <1>3, <1>4, <1>5, <1>6, <1>7 DEF RtThread

-----------------------------------------------------------------------------
(* Every step of a wait thread keeps IInv: it withdraws the run after it has
   joined the realtime thread. *)
LEMMA WaitThreadIInv ==
  ASSUME IInv, NEW n \in Runs, WaitThread(n)
  PROVE  IInv'
<1> USE DEF IInv, Unborn, Announced, Unwatched, Failed, Watched, Ended
<1>1. PICK here \in {"join", "set_rt_joined", "set_running"}, there \in WaitPoints \ {"none", "join"} :
        MoveWait(n, here, there)
  BY DEF WaitThread, WaitJoin, WaitSetRtJoined, WaitSetRunning, WaitPoints
<1>2. /\ WaitAlive(n) /\ wait'[n] = there
      /\ \A m \in Runs : m # n => wait'[m] = wait[m]
      /\ wait' \in [Runs -> WaitPoints]
      /\ UNCHANGED <<at, destroying, attempts, rt, drained, rt_handle, wait_handle, wait_reaped>>
  BY <1>1 DEF MoveWait, WaitAlive, TypeOK, control, WaitPoints
<1>3. at \in Watched /\ n = attempts /\ flag["running"]
  BY <1>2 DEF ThreadInv, WaitOwned
<1>4. flag["started"] /\ StartedRun /\ ~flag["wait_joined"]
  BY <1>3 DEF ControlInv, WatchedRun
<1>5. CASE WaitJoin(n)
  <2>1. /\ wait[n] = "join" /\ wait'[n] = "set_rt_joined"
        /\ rt[rt_handle] = "exited" /\ rt_reaped' = rt_reaped \union {rt_handle}
        /\ UNCHANGED flag
    BY <1>1, <1>5 DEF WaitJoin, MoveWait, TypeOK
  <2>2. rt_handle = n
    BY <2>1 DEF ThreadInv, WaitJoinsOwn
  <2>3. TypeOK'
    <3>1. rt_reaped' \subseteq Runs
      BY <2>1, <2>2 DEF TypeOK
    <3> QED
      BY <1>2, <2>1, <3>1, Zenon DEF TypeOK
  <2>4. ThreadInv'
    BY <1>2, <1>3, <2>1, <2>2 DEF ThreadInv, RtOwned, WaitOwned, FutureUntouched, WaitJoinsOwn,
       NoStepWhilePaused, Untouched, RtAlive, WaitAlive, Runs
  <2>5. ControlInv'
    BY <1>2, <1>3, <1>4, <2>1 DEF ControlInv, UnbornRun, UnwatchedRun, FailedRun, WatchedRun,
       StartedRun, EndedRun, WaitAlive
  <2> QED
    BY <2>3, <2>4, <2>5
<1>6. CASE WaitSetRtJoined(n)
  <2>1. /\ wait[n] = "set_rt_joined" /\ wait'[n] = "set_running"
        /\ UNCHANGED rt_reaped
    BY <1>6 DEF WaitSetRtJoined, MoveWait, TypeOK
  <2>2. flag' \in [Flags -> BOOLEAN]
    BY <1>6, Zenon DEF WaitSetRtJoined, TypeOK
  <2>3. /\ flag'["running"] = flag["running"] /\ flag'["started"] = flag["started"]
        /\ flag'["wait_joined"] = flag["wait_joined"] /\ flag'["paused"] = flag["paused"]
    BY <1>6 DEF WaitSetRtJoined, TypeOK, Flags
  <2>4. TypeOK'
    BY <1>2, <2>1, <2>2, Zenon DEF TypeOK
  <2>5. ThreadInv'
    BY <1>2, <1>3, <2>1, <2>3 DEF ThreadInv, RtOwned, WaitOwned, FutureUntouched, WaitJoinsOwn,
       NoStepWhilePaused, Untouched, RtAlive, WaitAlive, Runs
  <2>6. ControlInv'
    BY <1>2, <1>3, <1>4, <2>1, <2>3 DEF ControlInv, UnbornRun, UnwatchedRun, FailedRun,
       WatchedRun, StartedRun, EndedRun, WaitAlive
  <2> QED
    BY <2>4, <2>5, <2>6
<1>7. CASE WaitSetRunning(n)
  <2>1. /\ wait[n] = "set_running" /\ wait'[n] = "exited"
        /\ UNCHANGED rt_reaped
    BY <1>7 DEF WaitSetRunning, MoveWait, TypeOK
  <2>2. flag' \in [Flags -> BOOLEAN]
    BY <1>7, Zenon DEF WaitSetRunning, TypeOK
  <2>3. /\ ~flag'["running"] /\ flag'["started"] = flag["started"]
        /\ flag'["wait_joined"] = flag["wait_joined"] /\ flag'["paused"] = flag["paused"]
    BY <1>7 DEF WaitSetRunning, TypeOK, Flags
  <2>4. TypeOK'
    BY <1>2, <2>1, <2>2, Zenon DEF TypeOK
  <2>5. ThreadInv'
    BY <1>2, <1>3, <2>1, <2>3 DEF ThreadInv, RtOwned, WaitOwned, FutureUntouched, WaitJoinsOwn,
       NoStepWhilePaused, Untouched, RtAlive, WaitAlive, Runs
  <2>6. ControlInv'
    BY <1>2, <1>3, <1>4, <2>1, <2>3 DEF ControlInv, UnbornRun, UnwatchedRun, FailedRun,
       WatchedRun, StartedRun, EndedRun, WaitAlive
  <2> QED
    BY <2>4, <2>5, <2>6
<1> QED
  BY <1>5, <1>6, <1>7 DEF WaitThread

-----------------------------------------------------------------------------
(* The theorems. *)

(* IInv holds in every state of the engine's life: it is established by
   rtsyn_engine_create and kept by every step of every thread. *)
THEOREM LifecycleInvariant == Spec => []IInv
<1>1. IInv /\ [Next]_vars => IInv'
  <2> SUFFICES ASSUME IInv, [Next]_vars PROVE IInv'
    OBVIOUS
  <2>1. CASE BeginStart \/ BeginJoin \/ BeginDestroy \/ RequestStop
    BY <2>1, BeginStartIInv, MoveControllerIInv, BeginDestroyIInv, RequestStopIInv
  <2>2. CASE StartCall
    BY <2>2, StartStoresIInv, StartRtThreadIInv, StartWaitThreadIInv, StartUndoIInv, StartFailIInv
       DEF StartCall
  <2>3. CASE JoinCall \/ DestroyCall
    BY <2>3, JoinThreadIInv, JoinStoresIInv, MoveControllerIInv DEF JoinCall, DestroyCall
  <2>4. CASE \E n \in Runs : RtThread(n) \/ WaitThread(n)
    BY <2>4, RtThreadIInv, WaitThreadIInv
  <2>5. CASE UNCHANGED vars
    BY <2>5 DEF vars, control, threads, IInv, TypeOK, ThreadInv, ControlInv, RtOwned, WaitOwned,
       FutureUntouched, Untouched, WaitJoinsOwn, NoStepWhilePaused, UnbornRun, UnwatchedRun,
       FailedRun, WatchedRun, StartedRun, EndedRun, Quiet, RtAlive, WaitAlive
  <2> QED
    BY <2>1, <2>2, <2>3, <2>4, <2>5 DEF Next, Controller, Released
<1> QED
  BY InitIInv, <1>1, PTL DEF Spec

(* Every variable keeps its type. *)
THEOREM TypeCorrect == Spec => []TypeOK
<1>1. IInv => TypeOK
  BY DEF IInv
<1> QED
  BY <1>1, LifecycleInvariant, PTL

(* However often the engine is started and however starts fail, two realtime
   loops never coexist: a live loop is always that of the latest start. *)
THEOREM OneRtLoop == Spec => []AtMostOneRtLoop
<1>1. IInv => AtMostOneRtLoop
  BY DEF IInv, ThreadInv, RtOwned, AtMostOneRtLoop
<1> QED
  BY <1>1, LifecycleInvariant, PTL

(* When rtsyn_engine_is_running answers no, the engine has no live thread. *)
THEOREM NotRunningIsQuiet == Spec => []NotRunningMeansQuiet
<1>1. IInv => NotRunningMeansQuiet
  BY DEF IInv, ThreadInv, RtOwned, WaitOwned, NotRunningMeansQuiet, Quiet
<1> QED
  BY <1>1, LifecycleInvariant, PTL

(* rtsyn_engine_destroy releases the engine only when it has no live thread. *)
THEOREM FreeIsSafe == Spec => []FreedIsQuiet
<1>1. IInv => FreedIsQuiet
  BY DEF IInv, ControlInv, EndedRun, Ended, FreedIsQuiet
<1> QED
  BY <1>1, LifecycleInvariant, PTL

(* A start that failed and a join that returned leave no live thread behind. *)
THEOREM NotStartedIsQuiet == Spec => []NotStartedMeansQuiet
<1>1. IInv => NotStartedMeansQuiet
  BY DEF IInv, ControlInv, WatchedRun, Watched, NotStartedMeansQuiet
<1> QED
  BY <1>1, LifecycleInvariant, PTL

(* No thread outlives its run, whatever sign of its end the owner goes by. *)
THEOREM RunsOutliveThreads == Spec => []NoThreadOutlivesRun
BY NotRunningIsQuiet, FreeIsSafe, NotStartedIsQuiet, PTL DEF NoThreadOutlivesRun

(* Every rtsyn_thread_join is of a thread that was created and not yet joined. *)
THEOREM JoinsAreValid == Spec => []JoinTargetsValid
<1>1. IInv => JoinTargetsValid
  <2> SUFFICES ASSUME IInv PROVE JoinTargetsValid
    OBVIOUS
  <2>1. at = "join_thread" => wait_handle # 0 /\ wait_handle \notin wait_reaped
    BY DEF IInv, ControlInv, WatchedRun, Watched, StartedRun, Runs
  <2>2. at = "undo_join" => rt_handle # 0 /\ rt_handle \notin rt_reaped
    BY DEF IInv, ControlInv, UnwatchedRun, Unwatched, Runs
  <2> QED
    BY <2>1, <2>2 DEF JoinTargetsValid, IInv, ThreadInv, WaitJoinsOwn
<1> QED
  BY <1>1, LifecycleInvariant, PTL

(* The runtime is never stepped while the engine is paused. *)
THEOREM PausedIsIdle == Spec => []NoStepWhilePaused
<1>1. IInv => NoStepWhilePaused
  BY DEF IInv, ThreadInv
<1> QED
  BY <1>1, LifecycleInvariant, PTL

(* Once a run is announced, no step of any thread withdraws a stop. *)
THEOREM StopPersists == Spec => StopIsNotLost
<1>1. IInv /\ [Next]_vars =>
        [flag["running"] /\ flag["stop_requested"] => flag'["stop_requested"]]_vars
  <2> SUFFICES ASSUME IInv, Next, flag["running"], flag["stop_requested"]
               PROVE  flag'["stop_requested"]
    OBVIOUS
  <2>1. flag \in [Flags -> BOOLEAN] /\ at # "start_stop"
    BY DEF IInv, TypeOK, ControlInv, UnbornRun, Unborn, Announced
  <2>2. CASE UNCHANGED flag
    BY <2>2
  <2>3. CASE \E name \in Flags \ {"stop_requested"}, value \in BOOLEAN : flag' = [flag EXCEPT ![name] = value]
    BY <2>1, <2>3 DEF Flags
  <2>4. CASE flag' = [flag EXCEPT !["stop_requested"] = TRUE]
    BY <2>1, <2>4 DEF Flags
  <2>5. CASE BeginStart \/ BeginJoin \/ BeginDestroy \/ RequestStop \/ DestroyCall \/ Released
    BY <2>2, <2>4, <2>5 DEF BeginStart, BeginJoin, BeginDestroy, RequestStop, DestroyCall,
       DestroyCheck, Free, Released, vars
  <2>6. CASE StartCall \/ JoinCall
    BY <2>1, <2>2, <2>3, <2>4, <2>6 DEF StartCall, StartStores, StartRtThread, StartWaitThread, StartUndo,
       StartFail, JoinCall, JoinThread, JoinStores, Store, Flags
  <2>7. CASE \E n \in Runs : RtThread(n)
    BY <2>2, <2>3, <2>4, <2>7 DEF RtThread, CheckStop, Dispatch, LeaveDrain, StepRuntime, FinishCycle, Flags
  <2>8. CASE \E n \in Runs : WaitThread(n)
    BY <2>2, <2>3, <2>8 DEF WaitThread, WaitJoin, WaitSetRtJoined, WaitSetRunning, Flags
  <2> QED
    BY <2>5, <2>6, <2>7, <2>8 DEF Next, Controller
<1> QED
  BY <1>1, LifecycleInvariant, PTL DEF Spec, StopIsNotLost

-----------------------------------------------------------------------------
(* The lifecycle implements the supervisor. *)

(* A step that touches neither the loops nor the announcement is invisible. *)
LEMMA InvisibleStep ==
  ASSUME UNCHANGED <<rt, attempts>>, flag'["running"] = flag["running"],
         at # "freed", at' # "freed"
  PROVE  UNCHANGED Supervisor!vars
<1>1. LoopState' = LoopState
  BY DEF LoopState, RtAlive
<1> QED
  BY <1>1 DEF Supervisor!vars

(* Without a live loop the loop of an announced run is the one that exited. *)
LEMMA QuietLoop ==
  ASSUME \A n \in Runs : ~RtAlive(n)
  PROVE  /\ LoopState # "alive"
         /\ ~flag["running"] => LoopState = "none"
         /\ (attempts \in Runs => rt[attempts] # "exited") => LoopState = "none"
  BY DEF LoopState

(* Every step of the engine is a step of its supervisor or invisible to it. *)
LEMMA SupervisorStep == IInv /\ IInv' /\ [Next]_vars => [Supervisor!Next]_(Supervisor!vars)
<1> SUFFICES ASSUME IInv, IInv', Next
             PROVE  [Supervisor!Next]_(Supervisor!vars)
  <2>1. UNCHANGED vars => UNCHANGED Supervisor!vars
    BY DEF vars, control, threads, Supervisor!vars, LoopState, RtAlive
  <2> QED
    BY <2>1
<1>1. /\ \A n \in Runs : RtAlive(n) => flag["running"] /\ n = attempts
      /\ \A n \in Runs : RtAlive(n)' => flag'["running"] /\ n = attempts'
  BY DEF IInv, ThreadInv, RtOwned
<1>2. flag \in [Flags -> BOOLEAN] /\ rt \in [Runs -> RtPoints]
  BY DEF IInv, TypeOK
<1> USE DEF Flags
<1>3. CASE BeginStart
  <2>1. ~flag["running"] /\ ~flag'["running"] /\ UNCHANGED flag /\ at # "freed" /\ at' # "freed"
    BY <1>3 DEF BeginStart
  <2>2. LoopState = "none" /\ LoopState' = "none"
    BY <1>1, <2>1 DEF LoopState
  <2> QED
    BY <2>1, <2>2 DEF Supervisor!vars
<1>4. CASE RequestStop
  <2>1. CASE at = "freed"
    <3>1. UNCHANGED <<at, rt, attempts>> /\ flag'["running"] = flag["running"]
      BY <1>2, <1>4 DEF RequestStop, control, threads
    <3> QED
      BY <3>1 DEF Supervisor!vars, LoopState, RtAlive
  <2>2. CASE at # "freed"
    BY <1>2, <1>4, <2>2, InvisibleStep DEF RequestStop, control, threads
  <2> QED
    BY <2>1, <2>2
<1>5. CASE BeginJoin \/ BeginDestroy \/ DestroyCheck \/ JoinThread \/ StartWaitThread
  BY <1>2, <1>5, InvisibleStep DEF BeginJoin, BeginDestroy, DestroyCheck, JoinThread,
     StartWaitThread, threads
<1>6. CASE StartStores
  <2>1. CASE Store("start_running", "running", TRUE, "start_started")
    <3>1. /\ ~flag["running"] /\ flag'["running"] /\ at # "freed" /\ at' # "freed"
          /\ attempts \in Runs /\ rt[attempts] = "none" /\ UNCHANGED <<rt, attempts>>
      BY <1>2, <2>1 DEF Store, threads, IInv, ControlInv, UnbornRun, Unborn, Announced, Untouched
    <3>2. LoopState = "none"
      BY <1>1, <3>1 DEF LoopState
    <3>3. LoopState' = "none"
      BY <1>1, <3>1 DEF LoopState, RtAlive
    <3> QED
      BY <3>1, <3>2, <3>3 DEF Supervisor!Next, Supervisor!Announce
  <2>2. CASE ~Store("start_running", "running", TRUE, "start_started")
    BY <1>2, <1>6, <2>2, InvisibleStep DEF StartStores, Store, threads
  <2> QED
    BY <2>1, <2>2
<1>7. CASE StartRtThread
  <2>1. /\ at = "start_rt" /\ at' # "freed" /\ UNCHANGED <<flag, attempts>>
        /\ attempts \in Runs /\ rt[attempts] = "none" /\ flag["running"]
    BY <1>7 DEF StartRtThread, threads, IInv, ControlInv, UnbornRun, Unborn, Announced, Untouched
  <2>2. CASE UNCHANGED rt
    BY <2>1, <2>2, InvisibleStep
  <2>3. CASE rt' = [rt EXCEPT ![attempts] = "check"]
    <3>1. LoopState = "none"
      BY <1>1, <2>1 DEF LoopState, RtAlive
    <3>2. LoopState' = "alive"
      <4>1. RtAlive(attempts)'
        BY <1>2, <2>1, <2>3 DEF RtAlive
      <4> QED
        BY <2>1, <4>1 DEF LoopState
    <3> QED
      BY <2>1, <3>1, <3>2 DEF Supervisor!Next, Supervisor!Spawn
  <2> QED
    BY <1>7, <2>2, <2>3 DEF StartRtThread, threads
<1>8. CASE StartUndo \/ JoinStores \/ Store("fail_started", "started", FALSE, "fail_running")
  BY <1>2, <1>8, InvisibleStep DEF StartUndo, JoinStores, Store, threads
<1>9. CASE Store("fail_running", "running", FALSE, "ready")
  <2>1. /\ flag["running"] /\ ~flag'["running"] /\ at # "freed" /\ at' # "freed"
        /\ \A n \in Runs : ~RtAlive(n)
    BY <1>2, <1>9 DEF Store, IInv, ControlInv, FailedRun, Failed, Quiet
  <2>2. LoopState # "alive" /\ LoopState' = "none"
    BY <1>1, <2>1 DEF LoopState
  <2> QED
    BY <2>1, <2>2 DEF Supervisor!Next, Supervisor!Retract
<1>10. CASE Free
  <2>1. at = "free" /\ at' = "freed" /\ UNCHANGED <<flag, rt, attempts>> /\ ~flag["running"]
    BY <1>10 DEF Free, threads, IInv, ControlInv, EndedRun, Ended
  <2>2. LoopState' = LoopState
    BY <2>1 DEF LoopState, RtAlive
  <2> QED
    BY <2>1, <2>2 DEF Supervisor!Next, Supervisor!Free
<1>11. ASSUME NEW n \in Runs, RtThread(n)
       PROVE  [Supervisor!Next]_(Supervisor!vars)
  <2>1. /\ UNCHANGED <<at, attempts>> /\ flag'["running"] = flag["running"]
        /\ RtAlive(n) /\ \A m \in Runs : m # n => rt'[m] = rt[m]
    BY <1>2, <1>11 DEF RtThread, CheckStop, Dispatch, LeaveDrain, StepRuntime, FinishCycle, MoveRt,
       RtAlive, control
  <2>2. n = attempts /\ flag["running"] /\ at # "freed" /\ LoopState = "alive"
    BY <1>1, <2>1 DEF LoopState, IInv, ControlInv, EndedRun, Ended
  <2>3. CASE RtAlive(n)'
    <3>1. LoopState' = "alive"
      BY <2>3 DEF LoopState
    <3> QED
      BY <2>1, <2>2, <3>1 DEF Supervisor!vars
  <2>4. CASE ~RtAlive(n)'
    <3>1. rt'[n] = "exited"
      BY <1>2, <1>11, <2>4 DEF RtThread, CheckStop, Dispatch, LeaveDrain, StepRuntime, FinishCycle,
         MoveRt, RtAlive
    <3>2. LoopState' = "dead"
      BY <1>1, <2>1, <2>2, <2>4, <3>1 DEF LoopState
    <3> QED
      BY <2>1, <2>2, <3>2 DEF Supervisor!Next, Supervisor!Exit
  <2> QED
    BY <2>3, <2>4
<1>12. ASSUME NEW n \in Runs, WaitThread(n)
       PROVE  [Supervisor!Next]_(Supervisor!vars)
  <2>1. WaitAlive(n) /\ UNCHANGED <<at, attempts, rt>>
    BY <1>12 DEF WaitThread, WaitJoin, WaitSetRtJoined, WaitSetRunning, MoveWait, WaitAlive, control
  <2>2. flag["running"] /\ n = attempts /\ at \in Watched
    BY <2>1 DEF IInv, ThreadInv, WaitOwned
  <2>3. CASE WaitJoin(n) \/ WaitSetRtJoined(n)
    BY <1>2, <2>1, <2>2, <2>3, InvisibleStep DEF WaitJoin, WaitSetRtJoined, Watched
  <2>4. CASE WaitSetRunning(n)
    <3>1. ~flag'["running"] /\ wait[n] # "join"
      BY <1>2, <2>4 DEF WaitSetRunning, MoveWait
    <3>2. \A m \in Runs : ~RtAlive(m)
      BY <2>2, <3>1 DEF IInv, ThreadInv, RtOwned, Watched, Unwatched
    <3>3. LoopState # "alive" /\ LoopState' = "none"
      BY <1>1, <3>1, <3>2 DEF LoopState
    <3> QED
      BY <2>1, <2>2, <3>1, <3>3 DEF Supervisor!Next, Supervisor!Retract, Watched
  <2> QED
    BY <1>12, <2>3, <2>4 DEF WaitThread
<1>13. CASE Released
  BY <1>13 DEF Released, vars, control, threads, Supervisor!vars, LoopState, RtAlive
<1> QED
  BY <1>3, <1>4, <1>5, <1>6, <1>7, <1>8, <1>9, <1>10, <1>11, <1>12, <1>13
     DEF Next, Controller, StartCall, StartFail, JoinCall, DestroyCall

(* Every behaviour of the threads is one the supervisor's specification
   allows: a loop is spawned once per announced run, a run is withdrawn only
   when its loop is dead, the engine is given back only when nothing is
   announced.  (That a dead loop is withdrawn in the end is model-checked.) *)
THEOREM ImplementsSupervisor ==
  Spec => Supervisor!Init /\ [][Supervisor!Next]_(Supervisor!vars)
<1>1. Init => Supervisor!Init
  <2> SUFFICES ASSUME Init PROVE Supervisor!Init
    OBVIOUS
  <2>1. ~flag["running"] /\ at # "freed" /\ \A n \in Runs : ~RtAlive(n)
    BY DEF Init, Flags, RtAlive
  <2>2. LoopState = "none"
    BY <2>1 DEF LoopState
  <2> QED
    BY <2>1, <2>2 DEF Supervisor!Init
<1> QED
  BY <1>1, SupervisorStep, LifecycleInvariant, PTL DEF Spec

=============================================================================
