----------------------------- MODULE EngineProcess -----------------------------
(***************************************************************************)
(* The process around the engine: main() sets up the shared queues and the *)
(* engine, sleeps until a stop signal, and releases everything.  Every     *)
(* step of the set-up may fail.  The names of the shared queues belong to  *)
(* the system and outlive a process that is killed; the process is run     *)
(* again and again, one at a time.                                         *)
(*                                                                         *)
(* SIGINT and SIGTERM are one signal, which is pending or not.  The system *)
(* gives a pending signal to any thread that does not block it; a thread   *)
(* inherits the mask of the thread that creates it.  The engine is         *)
(* abstract here: its loop lives until it is stopped, by main or by a STOP *)
(* command, and ends some time after that.                                 *)
(***************************************************************************)
EXTENDS Naturals, FiniteSets

CONSTANTS
  Queues,   \* the shared queues: commands, results, telemetry, values
  MaxLives  \* bound of the model: how often the process is run

ASSUME ProcessAssumption ==
  /\ IsFiniteSet(Queues)
  /\ Queues \intersect {"runtime", "engine"} = {}
  /\ MaxLives \in Nat \ {0}

VARIABLES
  at,        \* what main does next
  life,      \* how often the process was run before, and now
  outcome,   \* how this life ends or ended
  held,      \* what the process has created and not released yet
  names,     \* for each queue the life that created the name, 0 if there is none
  mask,      \* main has the stop signals "open" or "shut"
  previous,  \* previous_mask, "unset" until it is written
  handled,   \* the signal handlers are installed
  pending,   \* a stop signal was sent and not delivered
  flag,      \* rtsyn_engine_main_stop_requested
  loop,      \* the threads of the engine
  open       \* the threads of the engine do not block the stop signals

signals == <<mask, previous, handled, pending, flag>>
vars    == <<at, life, outcome, held, names, signals, loop, open>>

Points ==
  {"block", "install", "create_runtime", "unlink_stale", "create_queues", "create_engine",
   "start", "unblock", "test", "pause", "sleep", "stop", "join", "restore",
   "destroy_engine", "close", "unlink", "destroy_runtime", "exited"}

Resources == Queues \union {"runtime", "engine"}

TypeOK ==
  /\ at \in Points
  /\ life \in 1 .. MaxLives
  /\ outcome \in {"undecided", "success", "failure", "killed", "signalled"}
  /\ held \subseteq Resources
  /\ names \in [Queues -> 0 .. MaxLives]
  /\ mask \in {"open", "shut"} /\ previous \in {"unset", "open", "shut"}
  /\ {handled, pending, flag, open} \subseteq BOOLEAN
  /\ loop \in {"none", "live", "stopping", "ended"}

Init ==
  /\ at = "block"
  /\ life = 1
  /\ outcome = "undecided"
  /\ held = {}
  /\ names = [q \in Queues |-> 0]
  /\ mask \in {"open", "shut"}
  /\ previous = "unset"
  /\ handled = FALSE
  /\ pending = FALSE
  /\ flag = FALSE
  /\ loop = "none"
  /\ open = FALSE

-----------------------------------------------------------------------------

Go(here, there) == at = here /\ at' = there

(* main gives up: it goes on with the release at "there". *)
Fail(here, there) == Go(here, there) /\ outcome' = "failure"

Hold(resources)    == held' = held \union resources
Release(resources) == held' = held \ resources

-----------------------------------------------------------------------------
(* Variants of the steps below with a plausible slip in each, none of them
   part of the specification: they show which property would notice the slip. *)

(* Block that leaves the signals open ... *)
BlockNothing ==
  /\ Go("block", "install")
  /\ previous' = mask
  /\ UNCHANGED <<life, outcome, held, names, mask, handled, pending, flag, loop, open>>

(* ... and one that does not keep the mask it replaces. *)
BlockUnsaved ==
  /\ Go("block", "install")
  /\ mask' = "shut"
  /\ UNCHANGED <<life, outcome, held, names, previous, handled, pending, flag, loop, open>>

(* UnlinkStale that leaves the names of an earlier life. *)
UnlinkStaleNothing ==
  /\ Go("unlink_stale", "create_queues")
  /\ UNCHANGED <<life, outcome, held, names, signals, loop, open>>

(* CreateEngine that releases the runtime only when it fails. *)
CreateEngineLeaving ==
  \/ /\ Go("create_engine", "start")
     /\ Hold({"engine"})
     /\ UNCHANGED <<life, outcome, names, signals, loop, open>>
  \/ /\ Fail("create_engine", "destroy_runtime")
     /\ UNCHANGED <<life, held, names, signals, loop, open>>

-----------------------------------------------------------------------------
(* Setting up. *)

Block ==
  \/ /\ Go("block", "install")
     /\ previous' = mask
     /\ mask' = "shut"
     /\ UNCHANGED <<life, outcome, held, names, handled, pending, flag, loop, open>>
  \/ /\ Fail("block", "exited")
     /\ UNCHANGED <<life, held, names, signals, loop, open>>

InstallHandlers ==
  \/ /\ Go("install", "create_runtime")
     /\ handled' = TRUE
     /\ UNCHANGED <<life, outcome, held, names, mask, previous, pending, flag, loop, open>>
  \/ /\ Fail("install", "exited")
     /\ UNCHANGED <<life, held, names, signals, loop, open>>

CreateRuntime ==
  \/ /\ Go("create_runtime", "unlink_stale")
     /\ Hold({"runtime"})
     /\ UNCHANGED <<life, outcome, names, signals, loop, open>>
  \/ /\ Fail("create_runtime", "exited")
     /\ UNCHANGED <<life, held, names, signals, loop, open>>

(* rtsyn_engine_main_unlink_shared_queues, one name after the other. *)
UnlinkNames(here, there) ==
  /\ at = here
  /\ LET existing == {q \in Queues : names[q] # 0}
     IN  IF existing = {} THEN at' = there /\ UNCHANGED names
         ELSE \E q \in existing : names' = [names EXCEPT ![q] = 0] /\ UNCHANGED at
  /\ UNCHANGED <<life, outcome, held, signals, loop, open>>

(* What a killed process has left behind. *)
UnlinkStale == UnlinkNames("unlink_stale", "create_queues")

(* The queues are created one after the other; when one fails those that were
   created are closed and unlinked like the others.  Nothing relies on a name
   that exists being refused: it may be opened with what it holds. *)
CreateQueues ==
  /\ at = "create_queues"
  /\ \E q \in Queues \ held :
       \/ /\ at' = IF Queues \ held = {q} THEN "create_engine" ELSE at
          /\ Hold({q})
          /\ names' = [names EXCEPT ![q] = IF @ = 0 THEN life ELSE @]
          /\ UNCHANGED outcome
       \/ /\ Fail("create_queues", "close")
          /\ UNCHANGED <<held, names>>
  /\ UNCHANGED <<life, signals, loop, open>>

CreateEngine ==
  \/ /\ Go("create_engine", "start")
     /\ Hold({"engine"})
     /\ UNCHANGED <<life, outcome, names, signals, loop, open>>
  \/ /\ Fail("create_engine", "close")
     /\ UNCHANGED <<life, held, names, signals, loop, open>>

(* rtsyn_engine_start: the threads inherit the mask of main. *)
Start ==
  \/ /\ Go("start", "unblock")
     /\ loop' = "live"
     /\ open' = (mask = "open")
     /\ UNCHANGED <<life, outcome, held, names, signals>>
  \/ /\ Fail("start", "destroy_engine")
     /\ UNCHANGED <<life, held, names, signals, loop, open>>

(* rtsyn_engine_request_stop *)
RequestStop == loop' = IF loop = "live" THEN "stopping" ELSE loop

(* If the signals cannot be unblocked the engine is asked to stop, but main
   goes on to wait for a signal. *)
Unblock ==
  /\ Go("unblock", "test")
  /\ \/ mask' = "open" /\ UNCHANGED loop
     \/ RequestStop /\ UNCHANGED mask
  /\ UNCHANGED <<life, outcome, held, names, previous, handled, pending, flag, open>>

-----------------------------------------------------------------------------
(* Waiting and releasing. *)

(* pause() sleeps whatever happened since the test. *)
TestFlag ==
  /\ Go("test", IF flag THEN "stop" ELSE "pause")
  /\ UNCHANGED <<life, outcome, held, names, signals, loop, open>>

Pause ==
  /\ Go("pause", "sleep")
  /\ UNCHANGED <<life, outcome, held, names, signals, loop, open>>

Stop ==
  /\ Go("stop", "join")
  /\ RequestStop
  /\ UNCHANGED <<life, outcome, held, names, signals, open>>

(* rtsyn_engine_join waits for the loop to end. *)
Join ==
  /\ Go("join", "restore")
  /\ loop = "ended"
  /\ outcome' = "success"
  /\ UNCHANGED <<life, held, names, signals, loop, open>>

Restore ==
  /\ Go("restore", "destroy_engine")
  /\ mask' = previous
  /\ UNCHANGED <<life, outcome, held, names, previous, handled, pending, flag, loop, open>>

DestroyEngine ==
  /\ Go("destroy_engine", "close")
  /\ Release({"engine"})
  /\ UNCHANGED <<life, outcome, names, signals, loop, open>>

(* Closing a queue that was not created does nothing. *)
Close ==
  /\ Go("close", "unlink")
  /\ Release(Queues)
  /\ UNCHANGED <<life, outcome, names, signals, loop, open>>

Unlink == UnlinkNames("unlink", "destroy_runtime")

DestroyRuntime ==
  /\ Go("destroy_runtime", "exited")
  /\ Release({"runtime"})
  /\ UNCHANGED <<life, outcome, names, signals, loop, open>>

Main ==
  \/ Block \/ InstallHandlers \/ CreateRuntime \/ UnlinkStale \/ CreateQueues
  \/ CreateEngine \/ Start \/ Unblock
  \/ TestFlag \/ Pause \/ Stop \/ Join \/ Restore
  \/ DestroyEngine \/ Close \/ Unlink \/ DestroyRuntime

-----------------------------------------------------------------------------
(* The system and the engine. *)

(* The threads of the engine. *)
StopCommand ==
  /\ loop = "live"
  /\ loop' = "stopping"
  /\ UNCHANGED <<at, life, outcome, held, names, signals, open>>

LoopEnds ==
  /\ loop = "stopping"
  /\ loop' = "ended"
  /\ UNCHANGED <<at, life, outcome, held, names, signals, open>>

(* The process is gone: the system takes back all but the names. *)
Die(how) ==
  /\ at' = "exited"
  /\ outcome' = how
  /\ held' = {}
  /\ loop' = "none"

Send ==
  /\ at # "exited"
  /\ pending' = TRUE
  /\ UNCHANGED <<at, life, outcome, held, names, mask, previous, handled, flag, loop, open>>

(* To a thread whose mask is open.  The handler sets the flag; if it runs in
   main, pause() returns.  Without a handler the signal ends the process. *)
Deliver ==
  /\ at # "exited" /\ pending
  /\ pending' = FALSE
  /\ \/ /\ mask = "open" /\ ~handled
        /\ Die("signalled")
        /\ UNCHANGED flag
     \/ /\ mask = "open" /\ handled
        /\ flag' = TRUE
        /\ at' = IF at = "sleep" THEN "test" ELSE at
        /\ UNCHANGED <<outcome, held, loop>>
     \/ /\ open /\ loop \in {"live", "stopping"} /\ handled
        /\ flag' = TRUE
        /\ UNCHANGED <<at, outcome, held, loop>>
  /\ UNCHANGED <<life, names, mask, previous, handled, open>>

Kill ==
  /\ at # "exited"
  /\ Die("killed")
  /\ UNCHANGED <<life, names, signals, open>>

RunAgain ==
  /\ at = "exited" /\ life < MaxLives
  /\ at' = "block"
  /\ life' = life + 1
  /\ outcome' = "undecided"
  /\ mask' \in {"open", "shut"}
  /\ previous' = "unset"
  /\ handled' = FALSE
  /\ pending' = FALSE
  /\ flag' = FALSE
  /\ loop' = "none"
  /\ open' = FALSE
  /\ UNCHANGED <<held, names>>

(* The bound is reached. *)
Done == at = "exited" /\ life = MaxLives /\ UNCHANGED vars

Next == Main \/ StopCommand \/ LoopEnds \/ Send \/ Deliver \/ Kill \/ RunAgain \/ Done

(* Threads that can run are run, a signal that can be delivered is, and a loop
   that was asked to stop ends (EngineLifecycle: StopEndsRun). *)
Spec ==
  /\ Init /\ [][Next]_vars
  /\ WF_vars(Main) /\ WF_vars(LoopEnds) /\ WF_vars(Deliver)

-----------------------------------------------------------------------------
(* Properties. *)

(* On every path the engine's threads live only as long as the engine, and the
   engine only as long as the runtime and all four queues it was given, none of
   which a killed process of an earlier life has left behind. *)
EngineIsFurnished ==
  /\ loop \in {"live", "stopping"} => "engine" \in held
  /\ "engine" \in held =>
       Queues \union {"runtime"} \subseteq held /\ \A q \in Queues : names[q] = life

(* A process that is not killed outright, at whatever step of the set-up it gave
   up or a stop signal ended it, has released all it created and leaves none of
   its names in the system: from the first name on a stop signal is only noted. *)
NothingIsLeftBehind ==
  at = "exited" /\ outcome # "killed" => held = {} /\ \A q \in Queues : names[q] # life

(* A stop signal that reaches the sleeping process ends it.  (One that comes
   between the test of the flag and pause() does not, and one is not enough if
   the signals could not be unblocked.) *)
SleeperIsWoken == (at = "sleep" /\ pending /\ mask = "open") ~> (at = "exited")

=============================================================================
