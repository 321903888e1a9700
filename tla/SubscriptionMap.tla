---------------------------- MODULE SubscriptionMap ----------------------------
(***************************************************************************)
(* What a client can expect of telemetry subscriptions: for each node the  *)
(* engine remembers the ports and the state variables that were asked for, *)
(* for at most Capacity nodes at a time.  A request is refused only if it  *)
(* asks for nothing or for one node too many.  SubscriptionTable is shown  *)
(* to implement this specification.                                        *)
(***************************************************************************)
EXTENDS Naturals, FiniteSets

CONSTANTS Nodes, Ids, Capacity

VARIABLES
  ports,   \* the ports wanted of each node
  states,  \* the state variables wanted of each node
  answer   \* to the last request

vars == <<ports, states, answer>>

Subscribed == {n \in Nodes : ports[n] # {} \/ states[n] # {}}

Init ==
  /\ ports = [n \in Nodes |-> {}]
  /\ states = [n \in Nodes |-> {}]
  /\ answer = "accepted"

Ask(n, ids) ==
  /\ ids # {}
  /\ n \in Subscribed \/ Cardinality(Subscribed) < Capacity
  /\ \/ ports' = [ports EXCEPT ![n] = @ \union ids] /\ UNCHANGED states
     \/ states' = [states EXCEPT ![n] = @ \union ids] /\ UNCHANGED ports
  /\ answer' = "accepted"

GiveUp(n, ids) ==
  /\ ids # {}
  /\ \/ ports' = [ports EXCEPT ![n] = @ \ ids] /\ UNCHANGED states
     \/ states' = [states EXCEPT ![n] = @ \ ids] /\ UNCHANGED ports
  /\ answer' = "accepted"

RefuseNothing ==
  /\ answer' = "malformed"
  /\ UNCHANGED <<ports, states>>

RefuseOneTooMany ==
  /\ Cardinality(Subscribed) = Capacity
  /\ answer' = "full"
  /\ UNCHANGED <<ports, states>>

Next ==
  \/ \E n \in Nodes, ids \in SUBSET Ids : Ask(n, ids) \/ GiveUp(n, ids)
  \/ RefuseNothing
  \/ RefuseOneTooMany

Spec == Init /\ [][Next]_vars

=============================================================================
