---------------------------- MODULE EngineSupervisor ----------------------------
(***************************************************************************)
(* What the engine promises the program that owns it: is_running() never   *)
(* says "no" while a realtime loop is alive, a loop is started at most     *)
(* once per announced run, a loop that has ended is eventually no longer   *)
(* announced, and the engine is only given back when nothing runs in it.   *)
(* EngineLifecycle is shown to implement this specification.               *)
(***************************************************************************)

VARIABLES
  announced,  \* what rtsyn_engine_is_running answers
  loop,       \* the realtime loop of the announced run
  freed       \* rtsyn_engine_destroy has released the engine

vars == <<announced, loop, freed>>

TypeOK ==
  /\ announced \in BOOLEAN
  /\ loop \in {"none", "alive", "dead"}
  /\ freed \in BOOLEAN

Init ==
  /\ announced = FALSE
  /\ loop = "none"
  /\ freed = FALSE

(* A run is announced before its loop exists ... *)
Announce ==
  /\ ~freed /\ ~announced
  /\ announced' = TRUE
  /\ UNCHANGED <<loop, freed>>

(* ... the loop starts at most once in it ... *)
Spawn ==
  /\ announced /\ loop = "none"
  /\ loop' = "alive"
  /\ UNCHANGED <<announced, freed>>

Exit ==
  /\ loop = "alive"
  /\ loop' = "dead"
  /\ UNCHANGED <<announced, freed>>

(* ... and the run is retracted only when its loop is not alive. *)
Retract ==
  /\ announced /\ loop # "alive"
  /\ announced' = FALSE
  /\ loop' = "none"
  /\ UNCHANGED freed

Free ==
  /\ ~announced /\ ~freed
  /\ freed' = TRUE
  /\ UNCHANGED <<announced, loop>>

Next == Announce \/ Spawn \/ Exit \/ Retract \/ Free

(* A loop that has ended is retracted in the end. *)
Reap == loop = "dead" /\ Retract

Spec == Init /\ [][Next]_vars /\ WF_vars(Reap)

=============================================================================
