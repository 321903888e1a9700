--------------------------- MODULE SubscriptionTable ---------------------------
(***************************************************************************)
(* The table engine->telemetry_subscriptions: a fixed number of slots,     *)
(* each for one node, with a mask of the ports and a mask of the state     *)
(* variables a client wants to see.  REQUEST_PORT_VALUES and               *)
(* REQUEST_PORT_VARIABLES commands set and clear bits of the masks; each   *)
(* cycle publishes the values of the slots in order.                       *)
(*                                                                         *)
(* The runtime that holds the nodes is external.  Nothing removes a slot   *)
(* together with its node, and a request may name a node that does not     *)
(* exist: both are modelled, the table and the nodes change independently. *)
(***************************************************************************)
EXTENDS Naturals, Sequences, FiniteSets

CONSTANTS
  Nodes,     \* node ids a client may name
  NoNode,    \* RTSYN_NODE_ID_INVALID
  Zero,      \* the node id in a slot that was cleared, which may be that of a node
  Ids,       \* port ids and state ids a mask has a bit for
  Existing,  \* the ports and states a node really has
  Capacity   \* RTSYN_ENGINE_DEFAULT_TELEMETRY_SUBSCRIPTION_CAPACITY

ASSUME SubscriptionAssumption ==
  /\ NoNode \notin Nodes
  /\ Zero \in Nodes \union {NoNode}
  /\ Existing \subseteq Ids
  /\ IsFiniteSet(Nodes)
  /\ Capacity \in Nat \ {0}

VARIABLES
  slots,    \* telemetry_subscriptions
  present,  \* nodes in the runtime that are a plugin or a device
  answer    \* what the last request was answered; "malformed" and "full" are both false

vars == <<slots, present, answer>>

Indices == 1 .. Capacity
Slot    == [used : BOOLEAN, node : Nodes \union {NoNode}, ports : SUBSET Ids, states : SUBSET Ids]
Cleared == [used |-> FALSE, node |-> Zero, ports |-> {}, states |-> {}]

TypeOK ==
  /\ slots \in [Indices -> Slot]
  /\ \A i \in Indices : ~slots[i].used => slots[i] = Cleared
  /\ present \subseteq Nodes
  /\ answer \in {"accepted", "malformed", "full"}

Init ==
  /\ slots = [i \in Indices |-> Cleared]
  /\ present = {}
  /\ answer = "accepted"

-----------------------------------------------------------------------------
(* Looking up slots; no slot is 0. *)

FirstOf(S) == IF S = {} THEN 0 ELSE CHOOSE i \in S : \A j \in S : i <= j

(* rtsyn_engine_find_subscription *)
Find(n) == FirstOf({i \in Indices : slots[i].used /\ slots[i].node = n})

FirstFree == FirstOf({i \in Indices : ~slots[i].used})

Created(n) == [used |-> TRUE, node |-> n, ports |-> {}, states |-> {}]

(* Variant of GetOrCreate that always takes a slot of its own. *)
CreateAlways(n) == [at |-> FirstFree, slot |-> Created(n)]

(* rtsyn_engine_get_or_create_subscription: the slot of the node if it has
   one, otherwise the first that is free. *)
GetOrCreate(n) ==
  IF Find(n) # 0 THEN [at |-> Find(n), slot |-> slots[Find(n)]]
  ELSE [at |-> FirstFree, slot |-> Created(n)]

(* Variants of CleanUp that look at one mask or do too little. *)
CleanUpPortsOnly(slot) == IF slot.ports = {} THEN Cleared ELSE slot

CleanUpUsedOnly(slot) ==
  IF slot.ports = {} /\ slot.states = {} THEN [slot EXCEPT !.used = FALSE] ELSE slot

(* rtsyn_engine_cleanup_subscription *)
CleanUp(slot) == IF slot.ports = {} /\ slot.states = {} THEN Cleared ELSE slot

-----------------------------------------------------------------------------
(* rtsyn_engine_update_subscription_mask, reached from both request commands:
   field is the mask the command is about. *)

Malformed(n, ids) == n = NoNode \/ ids = {}

With(slot, field, ids, send) ==
  LET bits == IF send THEN slot[field] \union ids ELSE slot[field] \ ids
  IN  [slot EXCEPT ![field] = bits]

Ask(n, ids, field) ==
  LET found == GetOrCreate(n)
  IN  IF found.at = 0
      THEN answer' = "full" /\ UNCHANGED slots
      ELSE /\ answer' = "accepted"
           /\ slots' = [slots EXCEPT ![found.at] = With(found.slot, field, ids, TRUE)]

GiveUp(n, ids, field) ==
  LET i == Find(n)
  IN  /\ answer' = "accepted"
      /\ slots' = IF i = 0 THEN slots
                  ELSE [slots EXCEPT ![i] = CleanUp(With(@, field, ids, FALSE))]

Request(n, ids, field, send) ==
  /\ IF Malformed(n, ids) THEN answer' = "malformed" /\ UNCHANGED slots
     ELSE IF send THEN Ask(n, ids, field)
     ELSE GiveUp(n, ids, field)
  /\ UNCHANGED present

(* rtsyn_engine_event_request_port_values *)
RequestPortValues(n, ids, send) == Request(n, ids, "ports", send)

(* rtsyn_engine_event_request_port_variables *)
RequestPortVariables(n, ids, send) == Request(n, ids, "states", send)

(* ADD_NODE, and REMOVE_NODE or the loading of a module of the same name. *)
AddNode(n) ==
  /\ present' = present \union {n}
  /\ UNCHANGED <<slots, answer>>

RemoveNode(n) ==
  /\ present' = present \ {n}
  /\ UNCHANGED <<slots, answer>>

Next ==
  \/ \E n \in Nodes \union {NoNode}, ids \in SUBSET Ids, send \in BOOLEAN :
       RequestPortValues(n, ids, send) \/ RequestPortVariables(n, ids, send)
  \/ \E n \in Nodes : AddNode(n) \/ RemoveNode(n)

Spec == Init /\ [][Next]_vars

-----------------------------------------------------------------------------
(* rtsyn_engine_event_publish_requested_values: what a cycle would publish now,
   in this order; a slot whose node is gone, or of which nothing exists, is
   passed over. *)

Shown(slot) ==
  [node |-> slot.node, ports |-> slot.ports \intersect Existing,
   states |-> slot.states \intersect Existing]

IsShown(slot) ==
  /\ slot.used
  /\ slot.node \in present
  /\ (slot.ports \union slot.states) \intersect Existing # {}

(* Variant of Publication that stops at the first slot that is not in use. *)
PublicationStopsAtGap ==
  LET sent[i \in 0 .. Capacity] ==
        IF i = 0 THEN <<>>
        ELSE IF IsShown(slots[i]) /\ (\A j \in 1 .. i : slots[j].used)
             THEN Append(sent[i - 1], Shown(slots[i]))
        ELSE sent[i - 1]
  IN  sent[Capacity]

(* The loop over the table: what is sent after the first i slots. *)
Publication ==
  LET sent[i \in 0 .. Capacity] ==
        IF i = 0 THEN <<>>
        ELSE IF IsShown(slots[i]) THEN Append(sent[i - 1], Shown(slots[i]))
        ELSE sent[i - 1]
  IN  sent[Capacity]

-----------------------------------------------------------------------------
(* Properties. *)

(* A node never holds two slots, so its values are published at most once in a
   cycle and giving a value up really silences it. *)
OneSlotPerNode ==
  \A i, j \in Indices :
    slots[i].used /\ slots[j].used /\ slots[i].node = slots[j].node => i = j

(* No slot is held by a subscription to nothing: a client that gives up what it
   asked for, in any order and by either command, makes room for another. *)
NoIdleSlot == \A i \in Indices : slots[i].used => slots[i].ports # {} \/ slots[i].states # {}

(* The few slots of the table go to what is wanted. *)
SlotsAreNotWasted == OneSlotPerNode /\ NoIdleSlot

SlotsOf(n) == {i \in Indices : slots[i].used /\ slots[i].node = n}
Ports      == [n \in Nodes |-> UNION {slots[i].ports : i \in SlotsOf(n)}]
States     == [n \in Nodes |-> UNION {slots[i].states : i \in SlotsOf(n)}]

(* A cycle publishes exactly what was asked for and exists: one batch for each
   present node with something to show, and none for a node that was removed,
   whatever the table looks like after slots were cleared and taken again. *)
PublishesWhatIsWanted ==
  LET visible(n) == (Ports[n] \union States[n]) \intersect Existing
      batches == {Publication[k] : k \in 1 .. Len(Publication)}
  IN  /\ Len(Publication) = Cardinality({n \in present : visible(n) # {}})
      /\ batches = {[node |-> n, ports |-> Ports[n] \intersect Existing,
                     states |-> States[n] \intersect Existing] :
                      n \in {m \in present : visible(m) # {}}}

(* The table is a map from nodes to what is wanted of them. *)
Map == INSTANCE SubscriptionMap WITH ports <- Ports, states <- States

MapSpec == Map!Spec

=============================================================================
