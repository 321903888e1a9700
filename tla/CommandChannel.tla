----------------------------- MODULE CommandChannel -----------------------------
(***************************************************************************)
(* What the engine promises whoever sends it commands: every command is    *)
(* applied exactly once, in the order the commands were sent, over every   *)
(* stop and restart of the realtime loop.  CommandLoop is shown to         *)
(* implement this specification.                                           *)
(***************************************************************************)
EXTENDS Sequences

CONSTANT Commands

VARIABLES
  pending,         \* commands sent and not applied yet
  stop_requested,
  paused

vars == <<pending, stop_requested, paused>>

Init ==
  /\ pending = <<>>
  /\ stop_requested = FALSE
  /\ paused = FALSE

Send(command) ==
  /\ pending' = Append(pending, command)
  /\ UNCHANGED <<stop_requested, paused>>

(* What a command does to the two flags a loop is guided by. *)
Apply ==
  /\ pending # <<>>
  /\ pending' = Tail(pending)
  /\ stop_requested' = (stop_requested \/ Head(pending) = "STOP")
  /\ paused' = IF Head(pending) \in {"PAUSE", "RESUME"}
               THEN Head(pending) = "PAUSE"
               ELSE paused

(* A stop asked for in another way, and a new run. *)
RequestStop ==
  /\ stop_requested' = TRUE
  /\ UNCHANGED <<pending, paused>>

Restart ==
  /\ stop_requested' = FALSE
  /\ paused' = FALSE
  /\ UNCHANGED pending

Next ==
  \/ \E command \in Commands : Send(command)
  \/ Apply
  \/ RequestStop
  \/ Restart

Spec == Init /\ [][Next]_vars

=============================================================================
