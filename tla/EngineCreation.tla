----------------------------- MODULE EngineCreation -----------------------------
(***************************************************************************)
(* What engines that are created on one runtime hold, and which of them    *)
(* the runtime reports the stages of its steps to.  rtsyn_engine_create    *)
(* acquires five parts one after the other, any of which may fail, and     *)
(* enters the engine as the probe of the runtime half way.                 *)
(*                                                                         *)
(* The runtime has room for one probe and does not synchronise it, so the  *)
(* owner creates and destroys engines while none of them is running; what  *)
(* destroy does to a running engine is in EngineLifecycle.  A call that is *)
(* refused for its configuration or fails in its first allocation changes  *)
(* nothing and is no step.                                                 *)
(***************************************************************************)
EXTENDS Naturals

CONSTANTS
  Engines,        \* the engines ever created
  None,           \* no engine
  DefaultBudget,  \* RTSYN_ENGINE_DEFAULT_COMMAND_BUDGET
  MaxBudget       \* bound of the model: the largest budget asked for

ASSUME CreationAssumption ==
  /\ None \notin Engines
  /\ DefaultBudget \in Nat \ {0}
  /\ MaxBudget \in Nat

Parts == {"engine", "loaded_nodes", "measurement_tool", "rt_thread", "wait_thread"}

(* The stages the measurement tool knows. *)
Stages == {"BEFORE_DEVICE_FIRST", "AFTER_DEVICE_FIRST", "BEFORE_PLUGIN", "AFTER_PLUGIN",
           "BEFORE_DEVICE_FINAL", "AFTER_DEVICE_FINAL"}

VARIABLES
  due,      \* the next step of rtsyn_engine_create; "out": no call is under way
  making,   \* the engine that is being created
  acquired, \* the parts of each engine that are allocated
  budget,   \* config.max_commands_per_cycle of each engine
  created,  \* the engines the owner has been given and has not destroyed
  probe,    \* the engine the runtime calls back
  record    \* the last stage that each measurement tool was given

creationVars == <<due, making, acquired, budget, created, probe, record>>

CreationTypeOK ==
  /\ due \in {"out", "loaded_nodes", "measurement_tool", "rt_thread", "wait_thread"}
  /\ making \in Engines \union {None}
  /\ acquired \in [Engines -> SUBSET Parts]
  /\ budget \in [Engines -> Nat]
  /\ created \subseteq Engines
  /\ probe \in Engines \union {None}
  /\ record \in [Engines -> Stages \union {"nothing"}]

CreationInit ==
  /\ due = "out" /\ making = None
  /\ acquired = [e \in Engines |-> {}]
  /\ budget = [e \in Engines |-> 0]
  /\ created = {}
  /\ probe = None
  /\ record = [e \in Engines |-> "nothing"]

-----------------------------------------------------------------------------

Continue(here, there) == due = here /\ due' = there

Acquire(part) == acquired' = [acquired EXCEPT ![making] = @ \union {part}]

GiveBack(parts) == acquired' = [acquired EXCEPT ![making] = @ \ parts]

(* A part cannot be had: the call gives back what it has and returns NULL. *)
GiveUp(here, parts) ==
  /\ Continue(here, "out")
  /\ GiveBack(parts)
  /\ making' = None
  /\ UNCHANGED <<budget, created, record>>

(* The last part makes the engine complete: the owner is given it. *)
GiveOut ==
  /\ Continue("wait_thread", "out")
  /\ Acquire("wait_thread")
  /\ created' = created \union {making}
  /\ making' = None
  /\ UNCHANGED <<budget, probe, record>>

(* Variants of CreateWaitThread with a plausible slip each, not part of the
   specification: one forgets the realtime thread, one forgets the probe. *)
CreateWaitThreadLeaking ==
  \/ GiveOut
  \/ /\ GiveUp("wait_thread", {"measurement_tool", "loaded_nodes", "engine"})
     /\ probe' = None

CreateWaitThreadProbed ==
  \/ GiveOut
  \/ /\ GiveUp("wait_thread", {"measurement_tool", "rt_thread", "loaded_nodes", "engine"})
     /\ UNCHANGED probe

-----------------------------------------------------------------------------
(* rtsyn_engine_create. *)

(* The configuration is copied; a budget of 0 asks for the default. *)
Allocate(e, asked) ==
  /\ Continue("out", "loaded_nodes")
  /\ e \notin created
  /\ making' = e
  /\ acquired' = [acquired EXCEPT ![e] = {"engine"}]
  /\ budget' = [budget EXCEPT ![e] = IF asked = 0 THEN DefaultBudget ELSE asked]
  /\ record' = [record EXCEPT ![e] = "nothing"]
  /\ UNCHANGED <<created, probe>>

CreateList ==
  \/ /\ Continue("loaded_nodes", "measurement_tool")
     /\ Acquire("loaded_nodes")
     /\ UNCHANGED <<making, budget, created, probe, record>>
  \/ GiveUp("loaded_nodes", {"engine"}) /\ UNCHANGED probe

(* With its tool the engine becomes the probe of the runtime, whichever engine
   was it before. *)
CreateTool ==
  \/ /\ Continue("measurement_tool", "rt_thread")
     /\ Acquire("measurement_tool")
     /\ probe' = making
     /\ UNCHANGED <<making, budget, created, record>>
  \/ GiveUp("measurement_tool", {"loaded_nodes", "engine"}) /\ UNCHANGED probe

CreateRtThread ==
  \/ /\ Continue("rt_thread", "wait_thread")
     /\ Acquire("rt_thread")
     /\ UNCHANGED <<making, budget, created, probe, record>>
  \/ /\ GiveUp("rt_thread", {"measurement_tool", "loaded_nodes", "engine"})
     /\ probe' = None

CreateWaitThread ==
  \/ GiveOut
  \/ /\ GiveUp("wait_thread", {"measurement_tool", "rt_thread", "loaded_nodes", "engine"})
     /\ probe' = None

Create == CreateList \/ CreateTool \/ CreateRtThread \/ CreateWaitThread

-----------------------------------------------------------------------------

(* rtsyn_engine_destroy, from the moment no thread uses the engine any more.
   The runtime is left without a probe, also if another engine was it. *)
Destroy(e) ==
  /\ due = "out" /\ e \in created
  /\ created' = created \ {e}
  /\ probe' = None
  /\ acquired' = [acquired EXCEPT ![e] = @ \ Parts]
  /\ UNCHANGED <<due, making, budget, record>>

(* The runtime reaches a stage of a step, and rtsyn_engine_runtime_probe passes
   the stage on if the measurement tool knows it. *)
RuntimeProbe(stage) ==
  /\ due = "out" /\ probe # None
  /\ record' = IF stage \in Stages THEN [record EXCEPT ![probe] = stage] ELSE record
  /\ UNCHANGED <<due, making, acquired, budget, created, probe>>

CreationNext ==
  \/ \E e \in Engines, asked \in 0 .. MaxBudget : Allocate(e, asked)
  \/ Create
  \/ \E e \in Engines : Destroy(e)
  \/ \E stage \in Stages \union {"OTHER"} : RuntimeProbe(stage)

CreationSpec == CreationInit /\ [][CreationNext]_creationVars

-----------------------------------------------------------------------------
(* Properties. *)

(* Between calls the owner has complete engines, whose budget lets them take
   commands, and nothing else is allocated: no failed creation leaves a part. *)
CreatedIsComplete ==
  due = "out" => \A e \in Engines :
    /\ acquired[e] = IF e \in created THEN Parts ELSE {}
    /\ e \in created => budget[e] > 0

(* Whatever was created, failed or destroyed, in whichever order, the runtime
   never calls back an engine that is gone or has no measurement tool. *)
ProbeIsAlive == probe # None => {"engine", "measurement_tool"} \subseteq acquired[probe]

=============================================================================
