---------------------------- MODULE TelemetryStream ----------------------------
(***************************************************************************)
(* What a cycle of the realtime loop publishes, and what the consumer of   *)
(* the telemetry queue can conclude from what it receives.  The queue is   *)
(* bounded and the loop never waits for room in it: a message that finds   *)
(* it full is dropped, after it was given its number, and the loss is      *)
(* counted.  The queue and the buffer of sampled values are external.      *)
(*                                                                         *)
(* Stopping the loop and starting it again touches nothing in this module: *)
(* rtsyn_engine_start resets no counter, so the stream simply goes on.     *)
(***************************************************************************)
EXTENDS Naturals, Sequences, FiniteSets

CONSTANTS
  Nodes,       \* the nodes the consumer has subscribed to
  MaxSamples,  \* the most values one node publishes in a cycle
  Capacity,    \* how many messages the telemetry queue holds
  MaxCycles    \* bound of the model: how many cycles are run

ASSUME TelemetryAssumption ==
  /\ IsFiniteSet(Nodes)
  /\ MaxSamples \in Nat \ {0}
  /\ Capacity \in Nat \ {0}
  /\ MaxCycles \in Nat \ {0}

CONSTANT None  \* no node: the node of every message but VALUES_WRITTEN
ASSUME NoneAssumption == None \notin Nodes

VARIABLES
  phase,                     \* what the cycle publishes next
  unpublished,               \* nodes whose values the cycle has not published yet
  cycle_id,
  telemetry_seq,
  dropped_telemetry_events,
  dropped_telemetry_values,
  queue,                     \* config.telemetry_queue
  frame,                     \* history: what the consumer received of the cycle it sees
  received,                  \* history: how many messages the consumer received
  lost_batches               \* history: how many VALUES_WRITTEN messages were dropped

counters == <<cycle_id, telemetry_seq, dropped_telemetry_events, dropped_telemetry_values>>
consumer == <<frame, received>>
vars     == <<phase, unpublished, counters, queue, consumer, lost_batches>>

Types == {"CYCLE_BEGIN", "VALUES_WRITTEN", "CYCLE_END", "DROPPED", "MEASUREMENT"}

(* A message.  "events" and "values" are what a DROPPED message reports.
   "cycle" is the cycle that published it: the program puts it into every type
   but MEASUREMENT, which carries the count of the measurement tool instead.
   "batches" is bookkeeping: the VALUES_WRITTEN messages dropped before it. *)
Messages ==
  [type : Types, seq : Nat, dropped_event_count : Nat, cycle : Nat,
   node : Nodes \union {None}, events : Nat, values : Nat, batches : Nat]

TypeOK ==
  /\ phase \in Types
  /\ unpublished \subseteq Nodes
  /\ cycle_id \in Nat /\ telemetry_seq \in Nat
  /\ dropped_telemetry_events \in Nat /\ dropped_telemetry_values \in Nat
  /\ queue \in Seq(Messages) /\ Len(queue) <= Capacity
  /\ frame \in Seq(Messages)
  /\ received \in Nat /\ lost_batches \in Nat

Init ==
  /\ phase = "CYCLE_BEGIN"
  /\ unpublished = {}
  /\ cycle_id = 0
  /\ telemetry_seq = 0
  /\ dropped_telemetry_events = 0
  /\ dropped_telemetry_values = 0
  /\ queue = <<>>
  /\ frame = <<>>
  /\ received = 0
  /\ lost_batches = 0

-----------------------------------------------------------------------------

(* The next message, with the next number and the losses so far. *)
Stamped(type, node) ==
  [type |-> type, seq |-> telemetry_seq + 1,
   dropped_event_count |-> dropped_telemetry_events, cycle |-> cycle_id, node |-> node,
   events |-> IF type = "DROPPED" THEN dropped_telemetry_events ELSE 0,
   values |-> IF type = "DROPPED" THEN dropped_telemetry_values ELSE 0,
   batches |-> lost_batches]

-----------------------------------------------------------------------------
(* Variants of the steps below with a plausible slip in each, none of them
   part of the specification: they show which property would notice the slip. *)

(* PushTelemetry that numbers only what it could push. *)
PushTelemetryLateSeq(type) ==
  /\ IF Len(queue) < Capacity
     THEN /\ queue' = Append(queue, Stamped(type, None))
          /\ telemetry_seq' = telemetry_seq + 1
          /\ UNCHANGED dropped_telemetry_events
     ELSE /\ dropped_telemetry_events' = dropped_telemetry_events + 1
          /\ UNCHANGED <<queue, telemetry_seq>>
  /\ UNCHANGED <<consumer, dropped_telemetry_values, lost_batches>>

(* Lossy that looks at dropped events only. *)
LossyByEvents == dropped_telemetry_events > 0

-----------------------------------------------------------------------------
(* Giving a message to the queue. *)

(* rtsyn_engine_event_push_telemetry: the number is used up even if the
   message is dropped. *)
PushTelemetry(type) ==
  /\ telemetry_seq' = telemetry_seq + 1
  /\ IF Len(queue) < Capacity
     THEN /\ queue' = Append(queue, Stamped(type, None))
          /\ UNCHANGED dropped_telemetry_events
     ELSE /\ dropped_telemetry_events' = dropped_telemetry_events + 1
          /\ UNCHANGED queue
  /\ UNCHANGED <<consumer, dropped_telemetry_values, lost_batches>>

(* rtsyn_engine_event_publish_values, for some values of a node: they are
   published together with the message that announces them or not at all. *)
Publish(node) ==
  /\ Len(queue) < Capacity
  /\ telemetry_seq' = telemetry_seq + 1
  /\ queue' = Append(queue, Stamped("VALUES_WRITTEN", node))
  /\ UNCHANGED <<consumer, dropped_telemetry_events, dropped_telemetry_values, lost_batches>>

(* Either the queue or the buffer of values has no room.  What is counted is
   the values, not the message. *)
FailToPublish(count) ==
  /\ telemetry_seq' = telemetry_seq + 1
  /\ dropped_telemetry_values' = dropped_telemetry_values + count
  /\ lost_batches' = lost_batches + 1
  /\ UNCHANGED <<queue, consumer, dropped_telemetry_events>>

(* Has anything been dropped since the engine was created? *)
Lossy == dropped_telemetry_events > 0 \/ dropped_telemetry_values > 0

Silent == UNCHANGED <<telemetry_seq, dropped_telemetry_events, dropped_telemetry_values, queue,
                      consumer, lost_batches>>

-----------------------------------------------------------------------------
(* A cycle: rtsyn_engine_rt_thread_main. *)

(* The commands drained and the runtime stepped after CYCLE_BEGIN decide which
   subscribed nodes have values to show. *)
CycleBegin ==
  /\ phase = "CYCLE_BEGIN" /\ cycle_id < MaxCycles
  /\ PushTelemetry("CYCLE_BEGIN")
  /\ phase' = "VALUES_WRITTEN"
  /\ unpublished' \in SUBSET Nodes
  /\ UNCHANGED cycle_id

(* Variant of PublishRequestedValues that is done with another node than the one
   it published. *)
PublishRequestedValuesAmiss ==
  /\ phase = "VALUES_WRITTEN"
  /\ \E node, other \in unpublished :
       /\ unpublished' = unpublished \ {other}
       /\ \/ Publish(node)
          \/ \E count \in 1 .. MaxSamples : FailToPublish(count)
  /\ UNCHANGED <<phase, cycle_id>>

(* rtsyn_engine_event_publish_requested_values goes on after a failure. *)
PublishRequestedValues ==
  /\ phase = "VALUES_WRITTEN"
  /\ \E node \in unpublished :
       /\ unpublished' = unpublished \ {node}
       /\ \/ Publish(node)
          \/ \E count \in 1 .. MaxSamples : FailToPublish(count)
  /\ UNCHANGED <<phase, cycle_id>>

CycleEnd ==
  /\ phase = "VALUES_WRITTEN" /\ unpublished = {}
  /\ PushTelemetry("CYCLE_END")
  /\ phase' = "DROPPED"
  /\ UNCHANGED <<unpublished, cycle_id>>

(* The losses are reported in every cycle once there were any. *)
PublishDropped ==
  /\ phase = "DROPPED"
  /\ IF Lossy THEN PushTelemetry("DROPPED") ELSE Silent
  /\ phase' = "MEASUREMENT"
  /\ UNCHANGED <<unpublished, cycle_id>>

(* The measurement tool may have nothing to tell of the cycle. *)
FinishCycle ==
  /\ phase = "MEASUREMENT"
  /\ PushTelemetry("MEASUREMENT") \/ Silent
  /\ phase' = "CYCLE_BEGIN"
  /\ cycle_id' = cycle_id + 1
  /\ UNCHANGED unpublished

Cycle == CycleBegin \/ PublishRequestedValues \/ CycleEnd \/ PublishDropped \/ FinishCycle

(* Does the message continue the cycle the consumer sees? *)
Continues(m) == frame # <<>> /\ frame[Len(frame)].cycle = m.cycle

(* The consumer takes the oldest message. *)
Receive ==
  /\ queue # <<>>
  /\ frame' = IF Continues(Head(queue)) THEN Append(frame, Head(queue)) ELSE <<Head(queue)>>
  /\ queue' = Tail(queue)
  /\ received' = received + 1
  /\ UNCHANGED <<phase, unpublished, counters, lost_batches>>

(* The bound is reached and everything was received. *)
Done ==
  /\ phase = "CYCLE_BEGIN" /\ cycle_id = MaxCycles /\ queue = <<>>
  /\ UNCHANGED vars

Next == Cycle \/ Receive \/ Done

Spec == Init /\ [][Next]_vars

-----------------------------------------------------------------------------
(* Properties.  The stream is what the consumer receives; its end is what the
   consumer received of the cycle it sees and the messages still in the queue.
   Any two consecutive messages are in it at some time, and so are any two of
   one cycle. *)

StreamEnd == frame \o queue

(* Every number the loop has used up is accounted for: received, in the queue,
   a dropped event, or a dropped batch of values. *)
NothingVanishes ==
  telemetry_seq = received + Len(queue) + dropped_telemetry_events + lost_batches

(* A message tells exactly what was lost before it: what its number exceeds its
   place in the stream by is the dropped events it is stamped with and the
   batches of values dropped before it. *)
StampsAreExact ==
  \A i \in 1 .. Len(queue) :
    queue[i].seq = received + i + queue[i].dropped_event_count + queue[i].batches

(* A DROPPED message is honest about values as well: it reports none if no
   batch was lost, and otherwise at least one and at most MaxSamples for each. *)
ReportsAreHonest ==
  \A i \in 1 .. Len(queue) :
    queue[i].type = "DROPPED" =>
      /\ queue[i].batches <= queue[i].values
      /\ queue[i].values <= queue[i].batches * MaxSamples

(* The consumer can tell exactly what it did not get: from the totals, from the
   number and the stamp of each message, and from each report. *)
LossesAreTold == NothingVanishes /\ StampsAreExact /\ ReportsAreHonest

Rank == [CYCLE_BEGIN |-> 1, VALUES_WRITTEN |-> 2, CYCLE_END |-> 3, DROPPED |-> 4, MEASUREMENT |-> 5]

InOrder(a, b) ==
  \/ a.cycle < b.cycle
  \/ a.cycle = b.cycle /\ Rank[a.type] < Rank[b.type]
  \/ a.cycle = b.cycle /\ a.type = "VALUES_WRITTEN" /\ b.type = a.type /\ a.node # b.node

(* Whatever was dropped, the consumer sees the cycles in order and, within a
   cycle, begin, values, end, report and measurement in order, each at most
   once and the values at most once for each node, however many messages of
   other nodes there are between. *)
FramesAreOrdered ==
  \A i, j \in 1 .. Len(StreamEnd) : i < j => InOrder(StreamEnd[i], StreamEnd[j])

(* Where the numbers show no gap the consumer has a complete picture: a cycle
   is opened before it has values and closed before the next one is opened,
   and the end of a cycle that has losses behind it is followed by the report. *)
Lossless(m) == m.dropped_event_count = 0 /\ m.batches = 0

Reported(a, b) == a.type = "DROPPED" \/ (a.type = "CYCLE_END" /\ Lossless(b))

MayFollow(a, b) ==
  \/ b.type \in {"VALUES_WRITTEN", "CYCLE_END"} /\ a.type \in {"CYCLE_BEGIN", "VALUES_WRITTEN"}
  \/ b.type = "DROPPED" /\ a.type = "CYCLE_END" /\ ~Lossless(b)
  \/ b.type = "MEASUREMENT" /\ Reported(a, b)
  \/ /\ b.type = "CYCLE_BEGIN" /\ b.cycle = a.cycle + 1
     /\ (Reported(a, b) \/ a.type = "MEASUREMENT")

GaplessIsComplete ==
  \A i \in 1 .. Len(StreamEnd) - 1 :
    StreamEnd[i + 1].seq = StreamEnd[i].seq + 1 => MayFollow(StreamEnd[i], StreamEnd[i + 1])

=============================================================================
