------------------------- MODULE TelemetryStreamProofs -------------------------
(***************************************************************************)
(* Theorems about TelemetryStream for every number of subscribed nodes, of *)
(* samples, of messages the queue holds and of cycles: the accounting that *)
(* lets the consumer conclude from a message what was lost before it.      *)
(***************************************************************************)
EXTENDS TelemetryStream, SequenceTheorems, TLAPS

(* The counters bound each other as a DROPPED message promises. *)
CountersAreHonest ==
  /\ lost_batches <= dropped_telemetry_values
  /\ dropped_telemetry_values <= lost_batches * MaxSamples

(* What the numbers of the messages rely on. *)
Accounts == NothingVanishes /\ StampsAreExact /\ CountersAreHonest /\ ReportsAreHonest

IInv == TypeOK /\ Accounts

(* The part of the type invariant that publishing depends on. *)
StreamTyped ==
  /\ cycle_id \in Nat /\ telemetry_seq \in Nat
  /\ dropped_telemetry_events \in Nat /\ dropped_telemetry_values \in Nat
  /\ queue \in Seq(Messages) /\ Len(queue) <= Capacity
  /\ frame \in Seq(Messages)
  /\ received \in Nat /\ lost_batches \in Nat

-----------------------------------------------------------------------------
(* Messages and the arithmetic of reports. *)

(* The next message is one. *)
LEMMA StampedIsMessage ==
  ASSUME TypeOK, NEW type \in Types, NEW node \in Nodes \union {None}
  PROVE  Stamped(type, node) \in Messages
BY DEF TypeOK, Stamped, Messages

(* One more batch may stand for up to MaxSamples more values. *)
LEMMA OneMoreBatch ==
  ASSUME NEW b \in Nat, NEW v \in Nat, NEW count \in 1 .. MaxSamples,
         b <= v, v <= b * MaxSamples
  PROVE  b + 1 <= v + count /\ v + count <= (b + 1) * MaxSamples
<1>1. MaxSamples \in Nat
  BY TelemetryAssumption
<1>2. b * MaxSamples \in Nat
  BY <1>1
<1>3. (b + 1) * MaxSamples = b * MaxSamples + MaxSamples
  BY <1>1
<1> QED
  BY <1>1, <1>2, <1>3

(* Appending the next message to the queue, with its number used up, keeps the
   accounts. *)
LEMMA AppendKeeps ==
  ASSUME IInv, NEW type \in Types, NEW node \in Nodes \union {None},
         Len(queue) < Capacity,
         queue' = Append(queue, Stamped(type, node)),
         telemetry_seq' = telemetry_seq + 1,
         UNCHANGED <<consumer, dropped_telemetry_events, dropped_telemetry_values,
                     lost_batches>>,
         cycle_id' \in Nat
  PROVE  StreamTyped' /\ Accounts'
<1> DEFINE m == Stamped(type, node)
<1> USE DEF IInv, TypeOK, Accounts
<1>1. m \in Messages
  BY StampedIsMessage
<1>2. /\ queue' \in Seq(Messages)
      /\ Len(queue') = Len(queue) + 1
      /\ \A i \in 1 .. Len(queue) : queue'[i] = queue[i]
      /\ queue'[Len(queue) + 1] = m
  <2> HIDE DEF m
  <2>1. queue' = Append(queue, m)
    BY DEF m
  <2> QED
    BY <1>1, <2>1, AppendProperties
<1>3. Capacity \in Nat /\ Len(queue) \in Nat
  BY TelemetryAssumption, LenProperties
<1>4. StreamTyped'
  BY <1>2, <1>3 DEF StreamTyped, consumer
<1>5. NothingVanishes'
  BY <1>2, <1>3 DEF NothingVanishes, consumer
<1>6. /\ m.seq = telemetry_seq + 1
      /\ m.dropped_event_count = dropped_telemetry_events
      /\ m.batches = lost_batches
      /\ m.type = type
      /\ m.type = "DROPPED" => m.values = dropped_telemetry_values
  BY DEF Stamped
<1>7. StampsAreExact'
  <2> HIDE DEF m
  <2> SUFFICES ASSUME NEW i \in 1 .. Len(queue) + 1
               PROVE  queue'[i].seq =
                        received + i + queue'[i].dropped_event_count + queue'[i].batches
    BY <1>2 DEF StampsAreExact, consumer
  <2>1. CASE i \in 1 .. Len(queue)
    BY <1>2, <2>1 DEF StampsAreExact
  <2>2. CASE i = Len(queue) + 1
    BY <1>2, <1>3, <1>6, <2>2 DEF NothingVanishes
  <2> QED
    BY <1>3, <2>1, <2>2
<1>8. CountersAreHonest'
  BY DEF CountersAreHonest
<1>9. ReportsAreHonest'
  <2> HIDE DEF m
  <2> SUFFICES ASSUME NEW i \in 1 .. Len(queue) + 1, queue'[i].type = "DROPPED"
               PROVE  /\ queue'[i].batches <= queue'[i].values
                      /\ queue'[i].values <= queue'[i].batches * MaxSamples
    BY <1>2 DEF ReportsAreHonest
  <2>1. CASE i \in 1 .. Len(queue)
    BY <1>2, <2>1 DEF ReportsAreHonest
  <2>2. CASE i = Len(queue) + 1
    BY <1>2, <1>6, <2>2 DEF CountersAreHonest
  <2> QED
    BY <1>3, <2>1, <2>2
<1> QED
  BY <1>4, <1>5, <1>7, <1>8, <1>9

(* Publishing nothing keeps them as well. *)
LEMMA SilentKeeps ==
  ASSUME IInv, Silent, cycle_id' \in Nat
  PROVE  StreamTyped' /\ Accounts'
BY DEF IInv, TypeOK, StreamTyped, Accounts, NothingVanishes, StampsAreExact,
       CountersAreHonest, ReportsAreHonest, Silent, consumer

(* rtsyn_engine_event_push_telemetry, with room or without. *)
LEMMA PushKeeps ==
  ASSUME IInv, NEW type \in Types, PushTelemetry(type), cycle_id' \in Nat
  PROVE  StreamTyped' /\ Accounts'
<1>1. CASE Len(queue) < Capacity
  BY <1>1, AppendKeeps DEF PushTelemetry
<1>2. CASE ~(Len(queue) < Capacity)
  <2>1. /\ telemetry_seq' = telemetry_seq + 1
        /\ dropped_telemetry_events' = dropped_telemetry_events + 1
        /\ UNCHANGED <<queue, frame, received, dropped_telemetry_values, lost_batches>>
    BY <1>2 DEF PushTelemetry, consumer
  <2>2. Len(queue) \in Nat
    BY LenProperties DEF IInv, TypeOK
  <2>3. StreamTyped'
    BY <2>1 DEF IInv, TypeOK, StreamTyped
  <2>4. NothingVanishes'
    BY <2>1, <2>2 DEF IInv, TypeOK, Accounts, NothingVanishes
  <2>5. StampsAreExact' /\ CountersAreHonest' /\ ReportsAreHonest'
    BY <2>1 DEF IInv, Accounts, StampsAreExact, CountersAreHonest, ReportsAreHonest
  <2> QED
    BY <2>3, <2>4, <2>5 DEF Accounts
<1> QED
  BY <1>1, <1>2

(* rtsyn_engine_event_publish_values when it fails. *)
LEMMA FailToPublishKeeps ==
  ASSUME IInv, NEW count \in 1 .. MaxSamples, FailToPublish(count), cycle_id' \in Nat
  PROVE  StreamTyped' /\ Accounts'
<1>1. /\ telemetry_seq' = telemetry_seq + 1
      /\ dropped_telemetry_values' = dropped_telemetry_values + count
      /\ lost_batches' = lost_batches + 1
      /\ UNCHANGED <<queue, frame, received, dropped_telemetry_events>>
  BY DEF FailToPublish, consumer
<1>2. Len(queue) \in Nat
  BY LenProperties DEF IInv, TypeOK
<1>3. StreamTyped'
  BY <1>1, TelemetryAssumption DEF IInv, TypeOK, StreamTyped
<1>4. NothingVanishes'
  BY <1>1, <1>2 DEF IInv, TypeOK, Accounts, NothingVanishes
<1>5. CountersAreHonest'
  BY <1>1, OneMoreBatch DEF IInv, TypeOK, Accounts, CountersAreHonest
<1>6. StampsAreExact' /\ ReportsAreHonest'
  BY <1>1 DEF IInv, Accounts, StampsAreExact, ReportsAreHonest
<1> QED
  BY <1>3, <1>4, <1>5, <1>6 DEF Accounts

-----------------------------------------------------------------------------
(* The invariant, action by action. *)

(* An engine that was just created has published and lost nothing. *)
LEMMA InitIInv == Init => IInv
<1> SUFFICES ASSUME Init PROVE IInv
  OBVIOUS
<1>1. TypeOK
  BY TelemetryAssumption, EmptySeq DEF Init, TypeOK, Types
<1>2. Accounts
  BY EmptySeq, TelemetryAssumption
     DEF Init, Accounts, NothingVanishes, StampsAreExact, CountersAreHonest, ReportsAreHonest
<1> QED
  BY <1>1, <1>2 DEF IInv

(* Every step of a cycle keeps the invariant. *)
LEMMA CycleIInv == IInv /\ Cycle => IInv'
<1> SUFFICES ASSUME IInv, Cycle PROVE IInv'
  OBVIOUS
<1> USE DEF IInv
<1>1. SUFFICES /\ StreamTyped' /\ Accounts'
               /\ phase' \in Types
               /\ unpublished' \subseteq Nodes
  BY DEF TypeOK, StreamTyped
<1>2. CASE CycleBegin
  BY <1>2, PushKeeps DEF CycleBegin, TypeOK, Types
<1>3. CASE PublishRequestedValues
  <2>1. PICK node \in unpublished :
          /\ unpublished' = unpublished \ {node}
          /\ Publish(node) \/ \E count \in 1 .. MaxSamples : FailToPublish(count)
    BY <1>3 DEF PublishRequestedValues
  <2>2. phase' = phase /\ cycle_id' = cycle_id /\ node \in Nodes
    BY <1>3 DEF PublishRequestedValues, TypeOK
  <2>3. phase' \in Types /\ unpublished' \subseteq Nodes /\ cycle_id' \in Nat
    BY <2>1, <2>2 DEF TypeOK
  <2>4. CASE Publish(node)
    <3>1. "VALUES_WRITTEN" \in Types
      BY DEF Types
    <3> QED
      BY <2>2, <2>3, <2>4, <3>1, AppendKeeps DEF Publish
  <2>5. CASE \E count \in 1 .. MaxSamples : FailToPublish(count)
    BY <2>3, <2>5, FailToPublishKeeps
  <2> QED
    BY <2>1, <2>3, <2>4, <2>5
<1>4. CASE CycleEnd
  BY <1>4, PushKeeps DEF CycleEnd, TypeOK, Types
<1>5. CASE PublishDropped
  <2>1. phase' \in Types /\ unpublished' \subseteq Nodes /\ cycle_id' \in Nat
    BY <1>5 DEF PublishDropped, TypeOK, Types
  <2>2. PushTelemetry("DROPPED") \/ Silent
    BY <1>5 DEF PublishDropped
  <2>3. "DROPPED" \in Types
    BY DEF Types
  <2> QED
    BY <2>1, <2>2, <2>3, PushKeeps, SilentKeeps
<1>6. CASE FinishCycle
  <2>1. phase' \in Types /\ unpublished' \subseteq Nodes /\ cycle_id' \in Nat
    BY <1>6 DEF FinishCycle, TypeOK, Types
  <2>2. PushTelemetry("MEASUREMENT") \/ Silent
    BY <1>6 DEF FinishCycle
  <2>3. "MEASUREMENT" \in Types
    BY DEF Types
  <2> QED
    BY <2>1, <2>2, <2>3, PushKeeps, SilentKeeps
<1> QED
  BY <1>2, <1>3, <1>4, <1>5, <1>6 DEF Cycle

(* The consumer takes the oldest message; the others move up by one, and their
   place in the stream stays what it was. *)
LEMMA ReceiveIInv == IInv /\ Receive => IInv'
<1> SUFFICES ASSUME IInv, Receive PROVE IInv'
  OBVIOUS
<1>1. /\ queue # <<>>
      /\ frame' = Append(frame, Head(queue)) \/ frame' = <<Head(queue)>>
      /\ queue' = Tail(queue)
      /\ received' = received + 1
      /\ UNCHANGED <<phase, unpublished, cycle_id, telemetry_seq, dropped_telemetry_events,
                     dropped_telemetry_values, lost_batches>>
  BY DEF Receive, counters
<1>2. /\ Head(queue) \in Messages
      /\ queue' \in Seq(Messages)
      /\ Len(queue') = Len(queue) - 1
      /\ \A i \in 1 .. Len(queue') : queue'[i] = queue[i + 1]
  BY <1>1, HeadTailProperties DEF IInv, TypeOK
<1>3. Len(queue) \in Nat /\ Len(queue') \in Nat /\ received \in Nat /\ Capacity \in Nat
  BY <1>2, LenProperties, TelemetryAssumption DEF IInv, TypeOK
<1>4. frame' \in Seq(Messages)
  <2>1. frame \in Seq(Messages)
    BY DEF IInv, TypeOK
  <2>2. Append(frame, Head(queue)) \in Seq(Messages) /\ <<Head(queue)>> \in Seq(Messages)
    BY <1>2, <2>1, AppendProperties
  <2> QED
    BY <1>1, <2>2
<1>5. TypeOK'
  BY <1>1, <1>2, <1>3, <1>4 DEF IInv, TypeOK
<1>6. NothingVanishes'
  BY <1>1, <1>2, <1>3 DEF IInv, TypeOK, Accounts, NothingVanishes
<1>7. StampsAreExact'
  <2> SUFFICES ASSUME NEW i \in 1 .. Len(queue')
               PROVE  queue'[i].seq =
                        received + 1 + i + queue'[i].dropped_event_count + queue'[i].batches
    BY <1>1 DEF StampsAreExact
  <2>1. i + 1 \in 1 .. Len(queue) /\ queue'[i] = queue[i + 1]
    BY <1>2, <1>3
  <2>2. queue[i + 1] \in Messages
    BY <2>1, ElementOfSeq DEF IInv, TypeOK
  <2> QED
    BY <1>3, <2>1, <2>2 DEF IInv, Accounts, StampsAreExact, Messages
<1>8. CountersAreHonest'
  BY <1>1 DEF IInv, Accounts, CountersAreHonest
<1>9. ReportsAreHonest'
  <2> SUFFICES ASSUME NEW i \in 1 .. Len(queue'), queue'[i].type = "DROPPED"
               PROVE  /\ queue'[i].batches <= queue'[i].values
                      /\ queue'[i].values <= queue'[i].batches * MaxSamples
    BY DEF ReportsAreHonest
  <2>1. i + 1 \in 1 .. Len(queue) /\ queue'[i] = queue[i + 1]
    BY <1>2, <1>3
  <2> QED
    BY <2>1 DEF IInv, Accounts, ReportsAreHonest
<1> QED
  BY <1>5, <1>6, <1>7, <1>8, <1>9 DEF IInv, Accounts

-----------------------------------------------------------------------------
(* Theorems. *)

(* The accounts are right in every state of the stream. *)
THEOREM StreamInvariant == Spec => []IInv
<1>1. IInv /\ UNCHANGED vars => IInv'
  BY DEF IInv, TypeOK, Accounts, NothingVanishes, StampsAreExact, CountersAreHonest,
         ReportsAreHonest, vars, counters, consumer
<1>2. IInv /\ [Next]_vars => IInv'
  BY <1>1, CycleIInv, ReceiveIInv DEF Next, Done
<1> QED
  BY <1>2, InitIInv, PTL DEF Spec

(* Every variable keeps its type, and the queue its bound. *)
THEOREM TypeCorrect == Spec => []TypeOK
<1>1. IInv => TypeOK
  BY DEF IInv
<1> QED
  BY <1>1, StreamInvariant, PTL

(* What the consumer concludes from the totals, from the number and the stamp of
   a message and from a report is right, whatever was lost and when. *)
THEOREM ConsumerKnowsLosses == Spec => []LossesAreTold
<1>1. IInv => LossesAreTold
  BY DEF IInv, Accounts, LossesAreTold
<1> QED
  BY <1>1, StreamInvariant, PTL

-----------------------------------------------------------------------------
(* The order of the stream. *)

(* The message pushed last. *)
Tip == StreamEnd[Len(StreamEnd)]

(* A message comes before all that the loop will push from here on ... *)
Passed(m) ==
  \/ m.cycle < cycle_id
  \/ m.cycle = cycle_id /\ Rank[m.type] < Rank[phase]
  \/ /\ m.cycle = cycle_id /\ m.type = "VALUES_WRITTEN" /\ phase = m.type
     /\ m.node \notin unpublished

(* ... and if no number was used up since, it shows what the loop has done. *)
Shows(m) ==
  \/ phase = "VALUES_WRITTEN" /\ m.type \in {"CYCLE_BEGIN", "VALUES_WRITTEN"} /\ m.cycle = cycle_id
  \/ phase = "DROPPED" /\ m.type = "CYCLE_END" /\ m.cycle = cycle_id
  \/ /\ phase = "MEASUREMENT" /\ m.cycle = cycle_id
     /\ m.type = "DROPPED" \/ (m.type = "CYCLE_END" /\ ~Lossy)
  \/ /\ phase = "CYCLE_BEGIN" /\ m.cycle + 1 = cycle_id
     /\ m.type \in {"DROPPED", "MEASUREMENT"} \/ (m.type = "CYCLE_END" /\ ~Lossy)

AllPassed == \A i \in 1 .. Len(StreamEnd) : Passed(StreamEnd[i])

TipFits ==
  StreamEnd # <<>> =>
    /\ Tip.seq <= telemetry_seq
    /\ Tip.seq = telemetry_seq => Shows(Tip)

OInv == FramesAreOrdered /\ GaplessIsComplete /\ AllPassed /\ TipFits

LEMMA StreamIsTyped ==
  ASSUME IInv
  PROVE  /\ StreamEnd \in Seq(Messages) /\ Len(StreamEnd) = Len(frame) + Len(queue)
         /\ Len(frame) \in Nat /\ Len(queue) \in Nat
         /\ \A i \in 1 .. Len(queue) : StreamEnd[i + Len(frame)] = queue[i]
         /\ \A i \in 1 .. Len(StreamEnd) : StreamEnd[i] \in Messages
         /\ StreamEnd # <<>> => Len(StreamEnd) \in 1 .. Len(StreamEnd) /\ Tip \in Messages
<1>1. /\ StreamEnd \in Seq(Messages) /\ Len(StreamEnd) = Len(frame) + Len(queue)
      /\ Len(frame) \in Nat /\ Len(queue) \in Nat
  BY ConcatProperties, LenProperties DEF IInv, TypeOK, StreamEnd
<1>2. \A i \in 1 .. Len(queue) : StreamEnd[i + Len(frame)] = queue[i]
  BY <1>1 DEF IInv, TypeOK, StreamEnd
<1>3. \A i \in 1 .. Len(StreamEnd) : StreamEnd[i] \in Messages
  BY <1>1, ElementOfSeq
<1>4. StreamEnd # <<>> => Len(StreamEnd) \in 1 .. Len(StreamEnd)
  BY <1>1, EmptySeq
<1> QED
  BY <1>1, <1>2, <1>3, <1>4 DEF Tip

(* A message that comes after all others, and may follow the tip, becomes the tip. *)
LEMMA StreamGrows ==
  ASSUME IInv, FramesAreOrdered, GaplessIsComplete,
         NEW m \in Messages, queue' = Append(queue, m), frame' = frame,
         \A i \in 1 .. Len(StreamEnd) : InOrder(StreamEnd[i], m),
         StreamEnd # <<>> /\ m.seq = Tip.seq + 1 => MayFollow(Tip, m)
  PROVE  /\ FramesAreOrdered' /\ GaplessIsComplete'
         /\ \A i \in 1 .. Len(StreamEnd') :
              \/ i \in 1 .. Len(StreamEnd) /\ StreamEnd'[i] = StreamEnd[i]
              \/ StreamEnd'[i] = m
         /\ StreamEnd' # <<>> /\ Tip' = m
<1> DEFINE s == StreamEnd
<1>1. s \in Seq(Messages) /\ Len(s) \in Nat
  BY StreamIsTyped, LenProperties
<1>2. StreamEnd' = Append(s, m)
  BY DEF IInv, TypeOK, StreamEnd
<1>3. /\ \A i, j \in 1 .. Len(s) : i < j => InOrder(s[i], s[j])
      /\ \A i \in 1 .. Len(s) - 1 : s[i + 1].seq = s[i].seq + 1 => MayFollow(s[i], s[i + 1])
      /\ \A i \in 1 .. Len(s) : InOrder(s[i], m)
      /\ s # <<>> /\ m.seq = s[Len(s)].seq + 1 => MayFollow(s[Len(s)], m)
  BY DEF FramesAreOrdered, GaplessIsComplete, Tip
<1>4. StreamEnd = s
  OBVIOUS
<1> HIDE DEF s
<1>5. PICK t : t = StreamEnd'
  OBVIOUS
<1>6. /\ Len(t) = Len(s) + 1 /\ t[Len(s) + 1] = m
      /\ \A i \in 1 .. Len(s) : t[i] = s[i]
      /\ \A i \in 1 .. Len(t) : i \in 1 .. Len(s) \/ i = Len(s) + 1
  BY <1>1, <1>2, <1>5, AppendProperties
<1>7. StreamEnd' # <<>> /\ Tip' = m
  BY <1>1, <1>5, <1>6 DEF Tip
<1>8. FramesAreOrdered'
  <2>1. ASSUME NEW i \in 1 .. Len(t), NEW j \in 1 .. Len(t), i < j PROVE InOrder(t[i], t[j])
    <3>1. i \in 1 .. Len(s) /\ t[i] = s[i]
      BY <1>1, <1>6, <2>1
    <3>2. CASE j \in 1 .. Len(s)
      BY <1>3, <1>6, <2>1, <3>1, <3>2
    <3>3. CASE j = Len(s) + 1
      BY <1>3, <1>6, <3>1, <3>3
    <3> QED
      BY <1>6, <3>2, <3>3
  <2> QED
    BY <1>5, <2>1 DEF FramesAreOrdered, InOrder
<1>9. GaplessIsComplete'
  <2>1. ASSUME NEW i \in 1 .. Len(t) - 1, t[i + 1].seq = t[i].seq + 1
        PROVE  MayFollow(t[i], t[i + 1])
    <3>1. i \in 1 .. Len(s) /\ t[i] = s[i]
      BY <1>1, <1>6
    <3>2. CASE i = Len(s)
      <4>1. s # <<>>
        BY <1>1, <3>1, <3>2, EmptySeq
      <4> QED
        BY <1>3, <1>6, <2>1, <3>1, <3>2, <4>1
    <3>3. CASE i # Len(s)
      <4>1. i \in 1 .. Len(s) - 1 /\ i + 1 \in 1 .. Len(s)
        BY <1>1, <3>1, <3>3
      <4> QED
        BY <1>3, <1>6, <2>1, <3>1, <4>1
    <3> QED
      BY <3>2, <3>3
  <2> QED
    BY <1>5, <2>1 DEF GaplessIsComplete, MayFollow, Reported, Lossless
<1>10. \A i \in 1 .. Len(StreamEnd') :
         \/ i \in 1 .. Len(StreamEnd) /\ StreamEnd'[i] = StreamEnd[i]
         \/ StreamEnd'[i] = m
  BY <1>4, <1>5, <1>6
<1> QED
  BY <1>7, <1>8, <1>9, <1>10

(* What the loop publishes in a phase, and to what the tip of the stream is fit. *)
Publishes(type, node) ==
  \/ phase = "CYCLE_BEGIN" /\ type = "CYCLE_BEGIN"
  \/ phase = "VALUES_WRITTEN" /\ type = "VALUES_WRITTEN" /\ node \in unpublished
  \/ phase = "VALUES_WRITTEN" /\ type = "CYCLE_END"
  \/ phase = "DROPPED" /\ type = "DROPPED" /\ Lossy
  \/ phase = "MEASUREMENT" /\ type = "MEASUREMENT"

LEMMA RankIs ==
  /\ \A t \in Types : Rank[t] \in Nat
  /\ Rank["CYCLE_BEGIN"] = 1 /\ Rank["VALUES_WRITTEN"] = 2 /\ Rank["CYCLE_END"] = 3
  /\ Rank["DROPPED"] = 4 /\ Rank["MEASUREMENT"] = 5
BY DEF Rank, Types

LEMMA StampedIs ==
  ASSUME NEW type, NEW node
  PROVE  LET m == Stamped(type, node)
         IN  /\ m.type = type /\ m.node = node /\ m.cycle = cycle_id
             /\ m.seq = telemetry_seq + 1
             /\ m.dropped_event_count = dropped_telemetry_events /\ m.batches = lost_batches
BY DEF Stamped

(* Losses of values are counted in both currencies. *)
LEMMA LossyIs ==
  ASSUME IInv, NEW type, NEW node
  PROVE  Lossless(Stamped(type, node)) <=> ~Lossy
<1>1. /\ dropped_telemetry_events \in Nat /\ dropped_telemetry_values \in Nat
      /\ lost_batches \in Nat /\ MaxSamples \in Nat
  BY TelemetryAssumption DEF IInv, TypeOK
<1>2. lost_batches = 0 => lost_batches * MaxSamples = 0
  BY <1>1
<1>3. lost_batches = 0 <=> dropped_telemetry_values = 0
  BY <1>1, <1>2 DEF IInv, Accounts, CountersAreHonest
<1> QED
  BY <1>1, <1>3, StampedIs DEF Lossless, Lossy

(* What is published comes after what has passed ... *)
LEMMA PassedIsBefore ==
  ASSUME IInv, NEW a \in Messages, Passed(a), NEW type \in Types, NEW node,
         Publishes(type, node)
  PROVE  InOrder(a, Stamped(type, node))
<1> DEFINE b == Stamped(type, node)
<1>1. b.type = type /\ b.node = node /\ b.cycle = cycle_id
  BY StampedIs
<1>2. a.type \in Types /\ a.cycle \in Nat /\ cycle_id \in Nat /\ phase \in Types
  BY DEF Messages, IInv, TypeOK
<1> HIDE DEF b
<1>3. InOrder(a, b)
  BY <1>1, <1>2, RankIs DEF Passed, InOrder, Publishes
<1> QED
  BY <1>3 DEF b

(* ... and completes what the tip shows. *)
LEMMA TipIsFollowed ==
  ASSUME IInv, OInv, StreamEnd # <<>>, NEW type \in Types, NEW node, Publishes(type, node),
         Stamped(type, node).seq = Tip.seq + 1
  PROVE  MayFollow(Tip, Stamped(type, node))
<1> DEFINE a == Tip
           b == Stamped(type, node)
<1>1. a \in Messages /\ (a.seq = telemetry_seq => Shows(a)) /\ b.seq = a.seq + 1
  BY StreamIsTyped DEF OInv, TipFits
<1>2. /\ b.type = type /\ b.node = node /\ b.cycle = cycle_id /\ b.seq = telemetry_seq + 1
      /\ Lossless(b) <=> ~Lossy
  BY StampedIs, LossyIs
<1>3. /\ a.type \in Types /\ a.cycle \in Nat /\ a.seq \in Nat
      /\ cycle_id \in Nat /\ telemetry_seq \in Nat /\ phase \in Types
  BY <1>1 DEF Messages, IInv, TypeOK
<1> HIDE DEF a, b
<1>4. Shows(a)
  BY <1>1, <1>2, <1>3
<1>5. MayFollow(a, b)
  <2>1. CASE phase = "CYCLE_BEGIN"
    BY <1>2, <1>3, <1>4, <2>1 DEF Publishes, Shows, MayFollow, Reported
  <2>2. CASE phase = "VALUES_WRITTEN"
    BY <1>2, <1>3, <1>4, <2>2 DEF Publishes, Shows, MayFollow, Reported
  <2>3. CASE phase = "DROPPED"
    BY <1>2, <1>3, <1>4, <2>3 DEF Publishes, Shows, MayFollow, Reported
  <2>4. CASE phase = "MEASUREMENT"
    BY <1>2, <1>3, <1>4, <2>4 DEF Publishes, Shows, MayFollow, Reported
  <2> QED
    BY <2>1, <2>2, <2>3, <2>4 DEF Publishes
<1> QED
  BY <1>5 DEF a, b

(* A step of the loop goes on to the next node, the next phase or the next cycle. *)
Advances ==
  \/ cycle_id' = cycle_id + 1
  \/ cycle_id' = cycle_id /\ Rank[phase] < Rank[phase']
  \/ cycle_id' = cycle_id /\ phase' = phase /\ unpublished' \subseteq unpublished

LEMMA PassedStays ==
  ASSUME IInv, IInv', Advances, NEW m \in Messages, Passed(m)
  PROVE  Passed(m)'
<1>1. /\ m.type \in Types /\ m.cycle \in Nat /\ cycle_id \in Nat /\ cycle_id' \in Nat
      /\ phase \in Types /\ phase' \in Types
  BY DEF Messages, IInv, TypeOK
<1> QED
  BY <1>1, RankIs DEF Passed, Advances

(* Pushing a message that is fit for the phase, with room for it. *)
LEMMA AppendOrders ==
  ASSUME IInv, OInv, IInv', Advances, NEW type \in Types, NEW node \in Nodes \union {None},
         Publishes(type, node),
         NEW m, m = Stamped(type, node), Passed(m)', Shows(m)',
         queue' = Append(queue, m), frame' = frame, telemetry_seq' = telemetry_seq + 1
  PROVE  OInv'
<1>1. m \in Messages /\ m.seq = telemetry_seq + 1 /\ telemetry_seq \in Nat
  BY StampedIsMessage, StampedIs DEF IInv, TypeOK
<1>2. \A i \in 1 .. Len(StreamEnd) : StreamEnd[i] \in Messages /\ Passed(StreamEnd[i])
  BY StreamIsTyped DEF OInv, AllPassed
<1>3. \A i \in 1 .. Len(StreamEnd) : InOrder(StreamEnd[i], m)
  BY <1>2, PassedIsBefore
<1>4. StreamEnd # <<>> /\ m.seq = Tip.seq + 1 => MayFollow(Tip, m)
  BY TipIsFollowed
<1>5. /\ FramesAreOrdered' /\ GaplessIsComplete'
      /\ \A i \in 1 .. Len(StreamEnd') :
           \/ i \in 1 .. Len(StreamEnd) /\ StreamEnd'[i] = StreamEnd[i]
           \/ StreamEnd'[i] = m
      /\ StreamEnd' # <<>> /\ Tip' = m
  BY <1>1, <1>3, <1>4, StreamGrows DEF OInv
<1>6. AllPassed'
  <2>1. ASSUME NEW i \in 1 .. Len(StreamEnd') PROVE Passed(StreamEnd[i])'
    <3>1. PICK z \in Messages : z = StreamEnd'[i] /\ Passed(z)'
      BY <1>1, <1>2, <1>5, PassedStays
    <3> QED
      BY <3>1 DEF Passed
  <2> QED
    BY <2>1 DEF AllPassed
<1>7. TipFits'
  <2>1. Shows(Tip)'
    BY <1>5 DEF Shows
  <2> QED
    BY <1>1, <1>5, <2>1 DEF TipFits
<1> QED
  BY <1>5, <1>6, <1>7 DEF OInv

(* Otherwise the stream stays what it is, and so does what its messages come before. *)
LEMMA StreamStays ==
  ASSUME IInv, OInv, IInv', Advances, UNCHANGED <<queue, frame>>
  PROVE  /\ FramesAreOrdered' /\ GaplessIsComplete' /\ AllPassed'
         /\ StreamEnd' = StreamEnd /\ Tip' = Tip
         /\ StreamEnd # <<>> => /\ Tip.seq \in Nat /\ Tip.seq <= telemetry_seq
                                /\ Tip.seq = telemetry_seq => Shows(Tip)
<1>1. StreamEnd' = StreamEnd /\ Tip' = Tip
  BY DEF StreamEnd, Tip
<1>2. FramesAreOrdered' /\ GaplessIsComplete'
  <2>1. FramesAreOrdered'
    BY <1>1 DEF OInv, FramesAreOrdered, InOrder
  <2>2. GaplessIsComplete'
    BY <1>1 DEF OInv, GaplessIsComplete, MayFollow, Reported, Lossless
  <2> QED
    BY <2>1, <2>2
<1>3. AllPassed'
  <2>1. ASSUME NEW i \in 1 .. Len(StreamEnd) PROVE Passed(StreamEnd[i])'
    <3>1. PICK z \in Messages : z = StreamEnd[i]
      BY StreamIsTyped
    <3>2. Passed(z)
      BY <3>1 DEF OInv, AllPassed
    <3>3. Passed(z)' /\ StreamEnd'[i] = z
      BY <1>1, <3>1, <3>2, PassedStays
    <3> QED
      BY <3>3 DEF Passed
  <2> QED
    BY <1>1, <2>1 DEF AllPassed
<1>4. StreamEnd # <<>> => /\ Tip.seq \in Nat /\ Tip.seq <= telemetry_seq
                          /\ Tip.seq = telemetry_seq => Shows(Tip)
  BY StreamIsTyped DEF OInv, TipFits, Messages
<1> QED
  BY <1>1, <1>2, <1>3, <1>4

(* A message is lost: a number is used up that nobody will see. *)
LEMMA LossOrders ==
  ASSUME IInv, OInv, IInv', Advances, UNCHANGED <<queue, frame>>,
         telemetry_seq' = telemetry_seq + 1
  PROVE  OInv'
<1>1. telemetry_seq \in Nat
  BY DEF IInv, TypeOK
<1>2. StreamEnd # <<>> => Tip.seq < telemetry_seq'
  BY <1>1, StreamStays
<1>3. TipFits'
  BY <1>1, <1>2, StreamStays DEF TipFits
<1> QED
  BY <1>3, StreamStays DEF OInv

(* Nothing was to be said. *)
LEMMA SilenceOrders ==
  ASSUME IInv, OInv, IInv', Advances, Silent,
         \A m \in Messages : Shows(m) => Shows(m)'
  PROVE  OInv'
<1>1. UNCHANGED <<queue, frame, telemetry_seq>>
  BY DEF Silent, consumer
<1>2. StreamEnd # <<>> => (Shows(Tip) => Shows(Tip)')
  <2> SUFFICES ASSUME StreamEnd # <<>>, Shows(Tip) PROVE Shows(Tip)'
    OBVIOUS
  <2>1. PICK z \in Messages : z = Tip
    BY StreamIsTyped
  <2>2. Shows(z)' /\ Tip' = z
    BY <1>1, <2>1, StreamStays
  <2> QED
    BY <2>2 DEF Shows
<1>3. TipFits'
  BY <1>1, <1>2, StreamStays DEF TipFits
<1> QED
  BY <1>1, <1>3, StreamStays DEF OInv

(* rtsyn_engine_event_push_telemetry. *)
LEMMA PushOrders ==
  ASSUME IInv, OInv, IInv', Advances, NEW type \in Types, PushTelemetry(type),
         Publishes(type, None),
         \A m \in Messages : m.type = type /\ m.cycle = cycle_id => Passed(m)' /\ Shows(m)'
  PROVE  OInv'
<1>1. CASE Len(queue) < Capacity
  <2>1. PICK m \in Messages : m = Stamped(type, None)
    BY StampedIsMessage DEF IInv
  <2>2. m.type = type /\ m.cycle = cycle_id
    BY <2>1, StampedIs
  <2>3. /\ queue' = Append(queue, m) /\ frame' = frame /\ telemetry_seq' = telemetry_seq + 1
        /\ Passed(m)' /\ Shows(m)'
    BY <1>1, <2>1, <2>2 DEF PushTelemetry, consumer
  <2> QED
    BY <2>1, <2>3, AppendOrders
<1>2. CASE ~(Len(queue) < Capacity)
  BY <1>2, LossOrders DEF PushTelemetry, consumer
<1> QED
  BY <1>1, <1>2

LEMMA CycleOInv ==
  ASSUME IInv, OInv, IInv', Cycle PROVE OInv'
<1> USE RankIs
<1>1. cycle_id \in Nat /\ phase \in Types
  BY DEF IInv, TypeOK
<1>2. CASE CycleBegin
  <2>1. /\ phase = "CYCLE_BEGIN" /\ phase' = "VALUES_WRITTEN" /\ cycle_id' = cycle_id
        /\ PushTelemetry("CYCLE_BEGIN")
    BY <1>2 DEF CycleBegin
  <2>2. Advances /\ Publishes("CYCLE_BEGIN", None) /\ "CYCLE_BEGIN" \in Types
    BY <2>1 DEF Advances, Publishes, Types
  <2>3. \A m \in Messages : m.type = "CYCLE_BEGIN" /\ m.cycle = cycle_id => Passed(m)' /\ Shows(m)'
    BY <2>1 DEF Passed, Shows
  <2> QED
    BY <2>1, <2>2, <2>3, PushOrders
<1>3. CASE PublishRequestedValues
  <2>1. PICK node \in unpublished :
          /\ unpublished' = unpublished \ {node}
          /\ Publish(node) \/ \E count \in 1 .. MaxSamples : FailToPublish(count)
    BY <1>3 DEF PublishRequestedValues
  <2>2. /\ phase = "VALUES_WRITTEN" /\ phase' = phase /\ cycle_id' = cycle_id
        /\ node \in Nodes \union {None} /\ "VALUES_WRITTEN" \in Types
    BY <1>3 DEF PublishRequestedValues, IInv, TypeOK, Types
  <2>3. Advances /\ Publishes("VALUES_WRITTEN", node)
    BY <2>1, <2>2 DEF Advances, Publishes
  <2>4. CASE Publish(node)
    <3>1. PICK m \in Messages : m = Stamped("VALUES_WRITTEN", node)
      BY <2>2, StampedIsMessage DEF IInv
    <3>2. m.type = "VALUES_WRITTEN" /\ m.cycle = cycle_id /\ m.node = node
      BY <3>1, StampedIs
    <3>3. Passed(m)' /\ Shows(m)'
      BY <2>1, <2>2, <3>2 DEF Passed, Shows
    <3>4. queue' = Append(queue, m) /\ frame' = frame /\ telemetry_seq' = telemetry_seq + 1
      BY <2>4, <3>1 DEF Publish, consumer
    <3> QED
      BY <2>2, <2>3, <3>1, <3>3, <3>4, AppendOrders
  <2>5. CASE \E count \in 1 .. MaxSamples : FailToPublish(count)
    BY <2>3, <2>5, LossOrders DEF FailToPublish, consumer
  <2> QED
    BY <2>1, <2>4, <2>5
<1>4. CASE CycleEnd
  <2>1. /\ phase = "VALUES_WRITTEN" /\ phase' = "DROPPED" /\ cycle_id' = cycle_id
        /\ PushTelemetry("CYCLE_END")
    BY <1>4 DEF CycleEnd
  <2>2. Advances /\ Publishes("CYCLE_END", None) /\ "CYCLE_END" \in Types
    BY <2>1 DEF Advances, Publishes, Types
  <2>3. \A m \in Messages : m.type = "CYCLE_END" /\ m.cycle = cycle_id => Passed(m)' /\ Shows(m)'
    BY <2>1 DEF Passed, Shows
  <2> QED
    BY <2>1, <2>2, <2>3, PushOrders
<1>5. CASE PublishDropped
  <2>1. phase = "DROPPED" /\ phase' = "MEASUREMENT" /\ cycle_id' = cycle_id
    BY <1>5 DEF PublishDropped
  <2>2. Advances
    BY <2>1 DEF Advances
  <2>3. CASE Lossy
    <3>1. PushTelemetry("DROPPED") /\ Publishes("DROPPED", None) /\ "DROPPED" \in Types
      BY <1>5, <2>1, <2>3 DEF PublishDropped, Publishes, Types
    <3>2. \A m \in Messages : m.type = "DROPPED" /\ m.cycle = cycle_id => Passed(m)' /\ Shows(m)'
      BY <2>1 DEF Passed, Shows
    <3> QED
      BY <2>2, <3>1, <3>2, PushOrders
  <2>4. CASE ~Lossy
    <3>1. Silent
      BY <1>5, <2>4 DEF PublishDropped
    <3>2. ~Lossy'
      BY <2>4, <3>1 DEF Silent, Lossy
    <3>3. \A m \in Messages : Shows(m) => Shows(m)'
      BY <2>1, <2>4, <3>2 DEF Shows
    <3> QED
      BY <2>2, <3>1, <3>3, SilenceOrders
  <2> QED
    BY <2>3, <2>4
<1>6. CASE FinishCycle
  <2>1. phase = "MEASUREMENT" /\ phase' = "CYCLE_BEGIN" /\ cycle_id' = cycle_id + 1
    BY <1>6 DEF FinishCycle
  <2>2. Advances
    BY <2>1 DEF Advances
  <2>3. CASE PushTelemetry("MEASUREMENT")
    <3>1. Publishes("MEASUREMENT", None) /\ "MEASUREMENT" \in Types
      BY <2>1 DEF Publishes, Types
    <3>2. \A m \in Messages :
            m.type = "MEASUREMENT" /\ m.cycle = cycle_id => Passed(m)' /\ Shows(m)'
      BY <1>1, <2>1 DEF Passed, Shows
    <3> QED
      BY <2>2, <2>3, <3>1, <3>2, PushOrders
  <2>4. CASE Silent
    <3>1. Lossy' = Lossy
      BY <2>4 DEF Silent, Lossy
    <3>2. \A m \in Messages : Shows(m) => Shows(m)'
      BY <1>1, <2>1, <3>1 DEF Shows
    <3> QED
      BY <2>2, <2>4, <3>2, SilenceOrders
  <2> QED
    BY <1>6, <2>3, <2>4 DEF FinishCycle
<1> QED
  BY <1>2, <1>3, <1>4, <1>5, <1>6 DEF Cycle

(* The stream loses at its beginning what the consumer has seen of a cycle that is
   over, and else nothing. *)
LEMMA ReceiveOInv == ASSUME IInv, OInv, IInv', Receive PROVE OInv'
<1>1. /\ queue # <<>> /\ queue' = Tail(queue)
      /\ frame' = Append(frame, Head(queue)) \/ frame' = <<Head(queue)>>
      /\ UNCHANGED <<phase, unpublished, cycle_id, telemetry_seq, dropped_telemetry_events,
                     dropped_telemetry_values>>
  BY DEF Receive, counters
<1>2. StreamEnd' = StreamEnd \/ StreamEnd' = queue
  <2>1. Append(frame, Head(queue)) \o Tail(queue) = frame \o queue /\ <<Head(queue)>> \o Tail(queue) = queue
    BY <1>1 DEF IInv, TypeOK
  <2> QED
    BY <1>1, <2>1 DEF StreamEnd
<1>3. CASE StreamEnd' = StreamEnd
  <2>1. Tip' = Tip
    BY <1>3 DEF Tip
  <2> QED
    BY <1>1, <1>3, <2>1 DEF OInv, FramesAreOrdered, InOrder, GaplessIsComplete, MayFollow, Reported,
                            Lossless, AllPassed, TipFits, Passed, Shows, Lossy
<1>4. CASE StreamEnd' = queue
  <2>1. /\ Len(queue) \in Nat /\ Len(queue) > 0 /\ Len(frame) \in Nat
        /\ Len(StreamEnd) = Len(frame) + Len(queue)
        /\ \A i \in 1 .. Len(queue) :
             /\ StreamEnd[i + Len(frame)] = queue[i]
             /\ i + Len(frame) \in 1 .. Len(StreamEnd)
    BY <1>1, StreamIsTyped, EmptySeq DEF IInv, TypeOK
  <2>2. StreamEnd # <<>> /\ Tip' = Tip
    <3>1. Len(queue) \in 1 .. Len(queue) /\ Len(queue) + Len(frame) = Len(StreamEnd)
      BY <2>1
    <3>2. queue[Len(queue)] = StreamEnd[Len(StreamEnd)]
      BY <2>1, <3>1
    <3>3. StreamEnd # <<>>
      BY <2>1, EmptySeq
    <3> QED
      BY <1>4, <3>2, <3>3 DEF Tip
  <2>3. FramesAreOrdered'
    <3>1. ASSUME NEW i \in 1 .. Len(queue), NEW j \in 1 .. Len(queue), i < j
          PROVE  InOrder(queue[i], queue[j])
      <4>1. i + Len(frame) < j + Len(frame)
        BY <2>1, <3>1
      <4> QED
        BY <2>1, <4>1 DEF OInv, FramesAreOrdered
    <3> QED
      BY <1>4, <3>1 DEF FramesAreOrdered, InOrder
  <2>4. GaplessIsComplete'
    <3>1. ASSUME NEW i \in 1 .. Len(queue) - 1, queue[i + 1].seq = queue[i].seq + 1
          PROVE  MayFollow(queue[i], queue[i + 1])
      <4>1. /\ i \in 1 .. Len(queue) /\ i + 1 \in 1 .. Len(queue)
            /\ i + Len(frame) \in 1 .. Len(StreamEnd) - 1
            /\ (i + 1) + Len(frame) = (i + Len(frame)) + 1
        BY <2>1
      <4> QED
        BY <2>1, <3>1, <4>1 DEF OInv, GaplessIsComplete
    <3> QED
      BY <1>4, <3>1 DEF GaplessIsComplete, MayFollow, Reported, Lossless
  <2>5. AllPassed'
    <3>1. \A i \in 1 .. Len(queue) : Passed(queue[i])
      BY <2>1 DEF OInv, AllPassed
    <3> QED
      BY <1>1, <1>4, <3>1 DEF AllPassed, Passed
  <2>6. TipFits'
    BY <1>1, <2>2 DEF OInv, TipFits, Shows, Lossy
  <2> QED
    BY <2>3, <2>4, <2>5, <2>6 DEF OInv
<1> QED
  BY <1>2, <1>3, <1>4

(* The order in every state of the stream, with what the loop is about to do. *)
THEOREM StreamIsOrdered == Spec => []OInv
<1>1. Init => OInv
  <2> SUFFICES ASSUME Init PROVE OInv
    OBVIOUS
  <2>1. StreamEnd = <<>> /\ Len(StreamEnd) = 0
    BY DEF Init, StreamEnd
  <2> QED
    BY <2>1 DEF OInv, FramesAreOrdered, GaplessIsComplete, AllPassed, TipFits
<1>2. IInv /\ IInv' /\ OInv /\ [Next]_vars => OInv'
  <2>1. ASSUME OInv, UNCHANGED vars PROVE OInv'
    <3>1. StreamEnd' = StreamEnd /\ Tip' = Tip
      BY <2>1 DEF vars, consumer, StreamEnd, Tip
    <3>2. FramesAreOrdered'
      BY <2>1, <3>1 DEF OInv, FramesAreOrdered, InOrder
    <3>3. GaplessIsComplete'
      BY <2>1, <3>1 DEF OInv, GaplessIsComplete, MayFollow, Reported, Lossless
    <3>4. AllPassed' /\ TipFits'
      BY <2>1, <3>1 DEF OInv, AllPassed, TipFits, Passed, Shows, Lossy, vars, counters
    <3> QED
      BY <3>2, <3>3, <3>4 DEF OInv
  <2> QED
    BY <2>1, CycleOInv, ReceiveOInv DEF Next, Done
<1> QED
  BY <1>1, <1>2, StreamInvariant, PTL DEF Spec

(* The consumer sees the frames of the cycles in order, whatever was lost. *)
THEOREM FramesComeInOrder == Spec => []FramesAreOrdered
<1>1. OInv => FramesAreOrdered
  BY DEF OInv
<1> QED
  BY <1>1, StreamIsOrdered, PTL

(* Between two consecutive numbers there was nothing more to see. *)
THEOREM NoGapNoLoss == Spec => []GaplessIsComplete
<1>1. OInv => GaplessIsComplete
  BY DEF OInv
<1> QED
  BY <1>1, StreamIsOrdered, PTL

=============================================================================
