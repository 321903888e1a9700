------------------------------ MODULE CommandLoop ------------------------------
(***************************************************************************)
(* How the realtime loop takes commands: the client puts them into a       *)
(* bounded single-producer single-consumer queue, and each cycle of the    *)
(* loop takes at most a budget of them before it steps the runtime.  The   *)
(* queue is external; it outlives the loop, which may be stopped with      *)
(* commands still queued and be started again.                             *)
(*                                                                         *)
(* Only the flags are modelled here: STOP, PAUSE and RESUME write them,    *)
(* OTHER stands for every other command.                                   *)
(***************************************************************************)
EXTENDS Naturals, Sequences

CONSTANTS
  Budget,   \* config.max_commands_per_cycle, at least one once created
  Capacity  \* how many commands the queue holds

ASSUME CommandAssumption ==
  /\ Budget \in Nat \ {0}
  /\ Capacity \in Nat \ {0}

Commands == {"STOP", "PAUSE", "RESUME", "OTHER"}

VARIABLES
  phase,           \* the realtime loop, by what it does next; "idle": no loop
  commands,        \* config.command_queue
  message,         \* the command rtsyn_engine_drain_commands has popped
  drained,         \* commands popped in this cycle
  stop_requested,
  paused,
  waited           \* history: drains that ended since the first STOP pending was sent

vars == <<phase, commands, message, drained, stop_requested, paused, waited>>

Phases == {"idle", "check", "drain", "dispatch", "step", "tail"}

(* The commands sent and not applied yet, the one in hand first. *)
Pending == (IF phase = "dispatch" THEN <<message>> ELSE <<>>) \o commands

StopPending == \E i \in 1 .. Len(Pending) : Pending[i] = "STOP"

TypeOK ==
  /\ phase \in Phases
  /\ commands \in Seq(Commands) /\ Len(commands) <= Capacity
  /\ message \in Commands
  /\ drained \in 0 .. Budget
  /\ stop_requested \in BOOLEAN
  /\ paused \in BOOLEAN
  /\ waited \in Nat

(* An engine that was created and not started; message is not read before it
   is first written. *)
Init ==
  /\ phase = "idle"
  /\ commands = <<>>
  /\ message = "OTHER"
  /\ drained = 0
  /\ stop_requested = FALSE
  /\ paused = FALSE
  /\ waited = 0

-----------------------------------------------------------------------------
(* The others: the client that sends commands, and whoever starts the engine
   or asks it to stop. *)

Send(command) ==
  /\ Len(commands) < Capacity
  /\ commands' = Append(commands, command)
  /\ UNCHANGED <<phase, message, drained, stop_requested, paused, waited>>

(* rtsyn_engine_start: no loop exists while its flags are reset, so the two
   stores are one step. *)
Start ==
  /\ phase = "idle"
  /\ stop_requested' = FALSE
  /\ paused' = FALSE
  /\ phase' = "check"
  /\ UNCHANGED <<commands, message, drained, waited>>

RequestStop ==
  /\ stop_requested' = TRUE
  /\ UNCHANGED <<phase, commands, message, drained, paused, waited>>

-----------------------------------------------------------------------------
(* Variants of the steps below with a plausible slip in each, none of them
   part of the specification: they show which property would notice the slip. *)

(* Pop with an off-by-one in the budget. *)
PopOverBudget ==
  /\ phase = "drain"
  /\ drained <= Budget /\ commands # <<>>
  /\ message' = Head(commands)
  /\ commands' = Tail(commands)
  /\ drained' = drained + 1
  /\ phase' = "dispatch"
  /\ UNCHANGED <<stop_requested, paused, waited>>

(* Pop that does not count what it takes. *)
PopUncounted ==
  /\ phase = "drain"
  /\ drained < Budget /\ commands # <<>>
  /\ message' = Head(commands)
  /\ commands' = Tail(commands)
  /\ phase' = "dispatch"
  /\ UNCHANGED <<drained, stop_requested, paused, waited>>

(* LeaveDrain that pops once more before it looks at the budget. *)
LeaveDrainPops ==
  /\ phase = "drain"
  /\ drained = Budget \/ commands = <<>>
  /\ phase' = IF paused THEN "tail" ELSE "step"
  /\ commands' = IF commands = <<>> THEN commands ELSE Tail(commands)
  /\ UNCHANGED <<message, drained, stop_requested, paused, waited>>

(* LeaveDrain that gives up one command short of the budget. *)
LeaveDrainEarly ==
  /\ phase = "drain"
  /\ drained + 1 >= Budget \/ commands = <<>>
  /\ phase' = IF paused THEN "tail" ELSE "step"
  /\ waited' = IF StopPending THEN waited + 1 ELSE waited
  /\ UNCHANGED <<commands, message, drained, stop_requested, paused>>

-----------------------------------------------------------------------------
(* The realtime loop. *)

CheckStop ==
  /\ phase = "check"
  /\ phase' = IF stop_requested THEN "idle" ELSE "drain"
  /\ drained' = 0
  /\ UNCHANGED <<commands, message, stop_requested, paused, waited>>

(* rtsyn_engine_drain_commands: the budget is looked at before the queue is. *)
Pop ==
  /\ phase = "drain"
  /\ drained < Budget /\ commands # <<>>
  /\ message' = Head(commands)
  /\ commands' = Tail(commands)
  /\ drained' = drained + 1
  /\ phase' = "dispatch"
  /\ UNCHANGED <<stop_requested, paused, waited>>

(* rtsyn_engine_event_dispatch_command and rtsyn_engine_event_global_command;
   what the dispatch returns is ignored. *)
Dispatch ==
  /\ phase = "dispatch"
  /\ phase' = "drain"
  /\ stop_requested' = IF message = "STOP" THEN TRUE ELSE stop_requested
  /\ paused' = IF message \in {"PAUSE", "RESUME"} THEN message = "PAUSE" ELSE paused
  /\ waited' = IF message = "STOP" THEN 0 ELSE waited
  /\ UNCHANGED <<commands, message, drained>>

(* A STOP that was dispatched does not cut the cycle short. *)
LeaveDrain ==
  /\ phase = "drain"
  /\ drained = Budget \/ commands = <<>>
  /\ phase' = IF paused THEN "tail" ELSE "step"
  /\ waited' = IF StopPending THEN waited + 1 ELSE waited
  /\ UNCHANGED <<commands, message, drained, stop_requested, paused>>

StepRuntime ==
  /\ phase = "step"
  /\ phase' = "tail"
  /\ UNCHANGED <<commands, message, drained, stop_requested, paused, waited>>

(* Telemetry, the sleep until the deadline and the measurement. *)
FinishCycle ==
  /\ phase = "tail"
  /\ phase' = "check"
  /\ UNCHANGED <<commands, message, drained, stop_requested, paused, waited>>

Loop == CheckStop \/ Pop \/ Dispatch \/ LeaveDrain \/ StepRuntime \/ FinishCycle

Next ==
  \/ \E command \in Commands : Send(command)
  \/ Start
  \/ RequestStop
  \/ Loop

(* The realtime thread is scheduled as long as it can run; the client and the
   owner of the engine need not do anything. *)
Spec == Init /\ [][Next]_vars /\ WF_vars(Loop)

-----------------------------------------------------------------------------
(* Properties. *)

(* A STOP reaches the flag within a number of cycles that its place in the
   queue alone decides: the drain that was under way when it was sent, and then
   one for every Budget commands ahead of it.  Neither a flood of later
   commands nor a pause delays it. *)
StopLatency ==
  \A i \in 1 .. Len(commands) :
    /\ waited > 0
    /\ commands[i] = "STOP" /\ \A j \in 1 .. i - 1 : commands[j] # "STOP"
    /\ ~(phase = "dispatch" /\ message = "STOP")
    => (waited - 1) * Budget + i <= Capacity

(* Whatever the client sends, the runtime is stepped again and again, unless
   the engine is paused or stopped: no flood of commands keeps the loop in the
   drain. *)
StepsGoOn == []<>(phase = "step" \/ paused \/ phase = "idle")

(* Every command is applied exactly once and in order. *)
Channel == INSTANCE CommandChannel WITH pending <- Pending

ChannelSpec == Channel!Spec

=============================================================================
