--------------------------- MODULE EngineSystemProofs ---------------------------
(***************************************************************************)
(* Theorems about EngineSystem for queues and budgets of any size and any  *)
(* number of commands and nodes: what a client may conclude from one queue *)
(* about the loop and about the other queue.                               *)
(***************************************************************************)
EXTENDS EngineSystem, Integers, SequenceTheorems, TLAPS

(* The commands that have left the queue are 1 .. Taken. *)
Taken == sent - Len(commands)

(* Commands and answers come in order and name nodes there were; a snapshot is that
   of the command taken last. *)
QueuesInOrder ==
  /\ Len(commands) <= sent
  /\ \A i \in 1 .. Len(commands) :
       /\ commands[i].seq = Taken + i
       /\ commands[i].kind \in OfNodes => commands[i].node \in 1 .. made
  /\ \A i \in 1 .. Len(results) : results[i].seq <= Taken
  /\ settled <= Taken
  /\ phase = "snapshot" => asker = Taken /\ asker > 0

(* A PAUSE without RESUME has taken effect, or is in the queue with no RESUME
   behind it. *)
Calming ==
  /\ phase = "step" => ~paused
  /\ calm > 0 /\ calm <= Taken => paused
  /\ calm > 0 =>
       \A i \in 1 .. Len(commands) :
         /\ commands[i].seq = calm => commands[i].kind = "PAUSE"
         /\ commands[i].seq > calm => commands[i].kind # "RESUME"

(* Nodes the client was told or will be told are removed are gone for good, and
   nothing that was found flushed is still to come. *)
Gone ==
  /\ \A i \in 1 .. Len(results) : results[i].gone \subseteq (1 .. made) \ nodes
  /\ removed \subseteq (1 .. made) \ nodes
  /\ unpublished \subseteq nodes
  /\ phase \notin {"step", "publish"} => unpublished = {}
  /\ NoGhostValues

IInv == TypeOK /\ QueuesInOrder /\ Calming /\ Gone

-----------------------------------------------------------------------------

LEMMA InitIInv == Init => IInv
<1> SUFFICES ASSUME Init PROVE IInv
  OBVIOUS
<1> USE SystemAssumption DEF Init
<1>1. /\ commands \in Seq(Command) /\ results \in Seq(Result) /\ telemetry \in Seq(Ids)
      /\ Len(commands) = 0 /\ Len(results) = 0 /\ Len(telemetry) = 0
  OBVIOUS
<1>2. stop_requested \in BOOLEAN /\ paused \in BOOLEAN
  BY Zenon
<1>3. TypeOK
  BY <1>1, <1>2 DEF TypeOK, Ids
<1>4. QueuesInOrder /\ Calming
  BY <1>1 DEF QueuesInOrder, Calming, Taken
<1>5. Gone
  BY <1>1 DEF Gone, NoGhostValues
<1> QED
  BY <1>3, <1>4, <1>5 DEF IInv

LEMMA OwnerIInv == ASSUME IInv, Start \/ RequestStop PROVE IInv'
<1> USE SystemAssumption DEF IInv, TypeOK, graph, queues, client, loop, snapshot, flags
<1>1. CASE Start
  <2> USE DEF Start
  <2>1. stop_requested' \in BOOLEAN /\ paused' \in BOOLEAN
    BY <1>1, Zenon
  <2>2. TypeOK'
    BY <1>1, <2>1
  <2>3. QueuesInOrder'
    BY <1>1 DEF QueuesInOrder, Taken
  <2>4. Calming'
    BY <1>1 DEF Calming, Taken
  <2>5. Gone'
    BY <1>1 DEF Gone, NoGhostValues
  <2> QED
    BY <2>2, <2>3, <2>4, <2>5
<1>2. CASE RequestStop
  <2> USE DEF RequestStop
  <2>1. stop_requested' \in BOOLEAN
    BY <1>2, Zenon
  <2>2. TypeOK'
    BY <1>2, <2>1
  <2>3. QueuesInOrder'
    BY <1>2 DEF QueuesInOrder, Taken
  <2>4. Calming'
    BY <1>2 DEF Calming, Taken
  <2>5. Gone'
    BY <1>2 DEF Gone, NoGhostValues
  <2> QED
    BY <2>2, <2>3, <2>4, <2>5
<1> QED
  BY <1>1, <1>2

-----------------------------------------------------------------------------
(* The client. *)

LEMMA SendIInv ==
  ASSUME IInv, NEW kind \in Kinds, NEW node \in 0 .. MaxNodes, Send(kind, node) PROVE IInv'
<1> USE SystemAssumption DEF IInv
<1> DEFINE command == [seq |-> sent + 1, kind |-> kind, node |-> node]
<1>1. /\ sent < MaxCommands /\ sent' = sent + 1
      /\ commands' = Append(commands, command) /\ Len(commands) < Capacity
      /\ kind \in OfNodes => node \in 1 .. made
      /\ UNCHANGED <<phase, drained, asker, untold, unpublished, stop_requested, paused, nodes,
                     made, subscribed, results, telemetry, settled, removed, flushed>>
  BY DEF Send, loop, snapshot, flags, graph
<1>2. command \in Command
  BY <1>1 DEF Command, TypeOK
<1>3. /\ commands' \in Seq(Command) /\ Len(commands') = Len(commands) + 1
      /\ \A i \in 1 .. Len(commands) : commands'[i] = commands[i]
      /\ commands'[Len(commands) + 1] = command
  BY <1>1, <1>2 DEF TypeOK
<1>4. Taken' = Taken
  BY <1>1, <1>3 DEF Taken, TypeOK
<1>5. /\ kind = "PAUSE" /\ calm = 0 => calm' = sent + 1
      /\ kind = "RESUME" => calm' = 0
      /\ kind # "RESUME" /\ ~(kind = "PAUSE" /\ calm = 0) => calm' = calm
  BY DEF Send
<1>6. calm' \in 0 .. sent'
  BY <1>1, <1>5 DEF TypeOK
<1>7. unanswered' \subseteq 1 .. sent'
  BY <1>1 DEF Send, TypeOK
<1>8. TypeOK'
  BY <1>1, <1>3, <1>6, <1>7 DEF TypeOK
<1>9. /\ Len(commands) \in Nat /\ sent \in Nat /\ Taken \in Int /\ calm \in Nat
      /\ sent = Taken + Len(commands)
  BY DEF TypeOK, Taken
<1>10. /\ command.seq = sent + 1 /\ command.kind = kind /\ command.node = node
      /\ \A i \in 1 .. Len(commands') : i \in 1 .. Len(commands) \/ i = Len(commands) + 1
  BY <1>3, <1>9
<1>11. QueuesInOrder'
  <2>1. ASSUME NEW i \in 1 .. Len(commands')
        PROVE  /\ commands'[i].seq = Taken' + i
               /\ commands'[i].kind \in OfNodes => commands'[i].node \in 1 .. made'
    <3>1. CASE i \in 1 .. Len(commands)
      BY <1>1, <1>3, <1>4, <3>1 DEF QueuesInOrder
    <3>2. CASE i = Len(commands) + 1
      BY <1>1, <1>3, <1>4, <1>9, <1>10, <3>2
    <3> QED
      BY <1>10, <3>1, <3>2
  <2> QED
    BY <1>1, <1>3, <1>4, <1>9, <2>1 DEF QueuesInOrder
<1>12. Calming'
  <2>1. \A i \in 1 .. Len(commands) : commands[i].seq <= sent
    BY <1>9 DEF QueuesInOrder
  <2>2. Taken <= sent /\ Taken \in Int
    BY <1>9
  <2>3. CASE kind = "PAUSE" /\ calm = 0
    <3>1. calm' = sent + 1 /\ ~(calm' <= Taken')
      BY <1>4, <1>5, <2>2, <2>3, <1>9
    <3>2. ASSUME NEW i \in 1 .. Len(commands')
          PROVE  /\ commands'[i].seq = calm' => commands'[i].kind = "PAUSE"
                 /\ ~(commands'[i].seq > calm')
      <4>1. CASE i \in 1 .. Len(commands)
        <5>1. commands'[i] = commands[i] /\ commands[i].seq = Taken + i
          BY <1>3, <4>1 DEF QueuesInOrder
        <5> QED
          BY <1>9, <3>1, <4>1, <5>1
      <4>2. CASE i = Len(commands) + 1
        <5>1. commands'[i].seq = sent + 1 /\ commands'[i].kind = "PAUSE"
          BY <1>3, <1>10, <2>3, <4>2
        <5> QED
          BY <1>9, <3>1, <5>1
      <4> QED
        BY <1>10, <4>1, <4>2
    <3> QED
      BY <1>1, <3>1, <3>2 DEF Calming
  <2>4. CASE kind = "RESUME"
    BY <1>1, <1>5, <2>4 DEF Calming
  <2>5. CASE kind # "RESUME" /\ ~(kind = "PAUSE" /\ calm = 0)
    <3>1. calm' = calm /\ calm <= sent
      BY <1>5, <2>5 DEF TypeOK
    <3> QED
      BY <1>1, <1>3, <1>4, <1>9, <1>10, <2>1, <2>5, <3>1 DEF Calming
  <2> QED
    BY <2>3, <2>4, <2>5
<1>13. Gone'
  BY <1>1 DEF Gone, NoGhostValues
<1> QED
  BY <1>8, <1>11, <1>12, <1>13

LEMMA ReadIInv == ASSUME IInv, ReadResult \/ ReadTelemetry \/ FindTelemetryEmpty PROVE IInv'
<1> USE SystemAssumption DEF IInv
<1>1. CASE ReadResult
  <2>1. /\ results' = Tail(results) /\ results # <<>>
        /\ settled' = Settles(Head(results)) /\ removed' = removed \union Head(results).gone
        /\ UNCHANGED <<phase, drained, asker, untold, unpublished, stop_requested, paused, nodes,
                       made, subscribed, commands, telemetry, sent, calm, flushed, unanswered>>
    BY <1>1 DEF ReadResult, loop, snapshot, flags, graph
  <2>2. /\ results' \in Seq(Result) /\ Len(results') = Len(results) - 1 /\ Len(results) > 0
        /\ \A i \in 1 .. Len(results') : results'[i] = results[i + 1]
        /\ Head(results) = results[1] /\ results[1] \in Result
    BY <2>1 DEF TypeOK
  <2>3. 1 \in 1 .. Len(results)
    BY <2>2 DEF TypeOK
  <2>4. removed \subseteq removed' /\ removed' \subseteq (1 .. made) \ nodes
    <3>1. results[1].gone \subseteq (1 .. made) \ nodes /\ removed \subseteq (1 .. made) \ nodes
      BY <2>3 DEF Gone
    <3> QED
      BY <2>1, <2>2, <3>1
  <2>5. Taken' = Taken /\ settled' \in 0 .. sent /\ settled' <= Taken
    <3>1. sent \in Nat /\ Len(commands) \in Nat /\ Taken = sent - Len(commands) /\ Taken' = Taken
      BY <2>1 DEF TypeOK, Taken
    <3>2. results[1].seq \in Nat \ {0} /\ results[1].seq <= Taken
      BY <2>2, <2>3 DEF Result, QueuesInOrder
    <3>3. settled' = results[1].seq \/ settled' = results[1].seq - 1
      BY <2>1, <2>2 DEF Settles
    <3> QED
      BY <3>1, <3>2, <3>3
  <2>6. TypeOK'
    BY <2>1, <2>2, <2>4, <2>5 DEF TypeOK, Ids
  <2>7. QueuesInOrder'
    BY <2>1, <2>2, <2>5 DEF QueuesInOrder, TypeOK
  <2>8. Calming'
    BY <2>1, <2>5 DEF Calming
  <2>9. Gone'
    BY <2>1, <2>2, <2>4 DEF Gone, NoGhostValues, TypeOK
  <2> QED
    BY <2>6, <2>7, <2>8, <2>9
<1>2. CASE ReadTelemetry
  <2>1. /\ telemetry' = Tail(telemetry) /\ telemetry # <<>>
        /\ UNCHANGED <<phase, drained, asker, untold, unpublished, stop_requested, paused, nodes,
                       made, subscribed, commands, results, sent, calm, settled, removed, flushed,
                       unanswered>>
    BY <1>2 DEF ReadTelemetry, loop, snapshot, flags, graph, client
  <2>2. /\ telemetry' \in Seq(Ids) /\ Len(telemetry') = Len(telemetry) - 1
        /\ \A i \in 1 .. Len(telemetry') : telemetry'[i] = telemetry[i + 1]
    BY <2>1 DEF TypeOK
  <2>3. TypeOK'
    BY <2>1, <2>2 DEF TypeOK
  <2>4. QueuesInOrder' /\ Calming'
    BY <2>1 DEF QueuesInOrder, Calming, Taken
  <2>5. NoGhostValues'
    BY <2>1, <2>2 DEF Gone, NoGhostValues, TypeOK
  <2>6. Gone'
    BY <2>1, <2>5 DEF Gone
  <2> QED
    BY <2>3, <2>4, <2>6
<1>3. CASE FindTelemetryEmpty
  <2>1. /\ telemetry = <<>> /\ flushed' = removed
        /\ UNCHANGED <<phase, drained, asker, untold, unpublished, stop_requested, paused, nodes,
                       made, subscribed, commands, results, telemetry, sent, calm, settled,
                       removed, unanswered>>
    BY <1>3 DEF FindTelemetryEmpty, loop, snapshot, flags, graph, queues
  <2>2. TypeOK'
    BY <2>1 DEF TypeOK
  <2>3. QueuesInOrder' /\ Calming'
    BY <2>1 DEF QueuesInOrder, Calming, Taken
  <2>4. Gone'
    BY <2>1 DEF Gone, NoGhostValues
  <2> QED
    BY <2>2, <2>3, <2>4
<1> QED
  BY <1>1, <1>2, <1>3

-----------------------------------------------------------------------------
(* The loop, with what a command does. *)

(* Steps of the loop that touch neither the graph nor the queues. *)
LEMMA QuietStepIInv ==
  ASSUME IInv, CheckStop \/ LeaveDrain \/ StepRuntime \/ FinishCycle PROVE IInv'
<1> USE SystemAssumption DEF IInv
<1>1. UNCHANGED <<asker, untold, stop_requested, paused, nodes, made, subscribed, commands, results,
                  telemetry, sent, calm, settled, removed, flushed, unanswered>>
  BY DEF CheckStop, LeaveDrain, StepRuntime, FinishCycle, snapshot, flags, graph, queues, client
<1>2. /\ phase' \in {"idle", "check", "drain", "step", "publish"}
      /\ drained' \in 0 .. Budget
      /\ phase' = "step" => ~paused
      /\ \/ unpublished' = unpublished /\ (unpublished = {} \/ phase' \in {"step", "publish"})
         \/ unpublished' = Shown /\ phase' \in {"step", "publish"}
  <2>1. CASE CheckStop
    BY <2>1 DEF CheckStop, TypeOK, Gone
  <2>2. CASE LeaveDrain
    BY <2>2 DEF LeaveDrain, TypeOK
  <2>3. CASE StepRuntime
    BY <2>3 DEF StepRuntime, TypeOK
  <2>4. CASE FinishCycle
    BY <2>4 DEF FinishCycle, TypeOK
  <2> QED
    BY <2>1, <2>2, <2>3, <2>4
<1>3. unpublished' \subseteq nodes
  BY <1>2 DEF Gone, Shown
<1>4. TypeOK'
  BY <1>1, <1>2, <1>3 DEF TypeOK, Ids
<1>5. QueuesInOrder'
  BY <1>1, <1>2 DEF QueuesInOrder, Taken
<1>6. Calming'
  BY <1>1, <1>2 DEF Calming, Taken
<1>7. Gone'
  BY <1>1, <1>2, <1>3 DEF Gone, NoGhostValues
<1> QED
  BY <1>4, <1>5, <1>6, <1>7

LEMMA PublishIInv == ASSUME IInv, PublishValues PROVE IInv'
<1> USE SystemAssumption DEF IInv
<1>1. PICK node \in unpublished :
        /\ unpublished' = unpublished \ {node}
        /\ telemetry' = IF HasRoom(telemetry) THEN Append(telemetry, node) ELSE telemetry
  BY DEF PublishValues
<1>2. /\ phase = "publish"
      /\ UNCHANGED <<phase, drained, asker, untold, stop_requested, paused, nodes, made, subscribed,
                     commands, results, sent, calm, settled, removed, flushed, unanswered>>
  BY DEF PublishValues, snapshot, flags, graph, client
<1>3. node \in Ids /\ node \in nodes
  BY DEF TypeOK, Gone
<1>4. node \notin flushed
  BY <1>3 DEF TypeOK, Gone
<1>5. /\ telemetry' \in Seq(Ids) /\ Len(telemetry') <= Capacity
      /\ \A i \in 1 .. Len(telemetry') : telemetry'[i] \notin flushed
  <2>1. CASE HasRoom(telemetry)
    BY <1>1, <1>3, <1>4, <2>1 DEF HasRoom, TypeOK, Gone, NoGhostValues
  <2>2. CASE ~HasRoom(telemetry)
    BY <1>1, <2>2 DEF TypeOK, Gone, NoGhostValues
  <2> QED
    BY <2>1, <2>2
<1>6. TypeOK'
  BY <1>1, <1>2, <1>5 DEF TypeOK
<1>7. QueuesInOrder' /\ Calming'
  BY <1>2 DEF QueuesInOrder, Calming, Taken
<1>8. Gone'
  BY <1>1, <1>2, <1>5 DEF Gone, NoGhostValues
<1> QED
  BY <1>6, <1>7, <1>8

(* A result, in the queue or lost. *)
LEMMA TellFacts ==
  ASSUME results \in Seq(Result), Len(results) <= Capacity, NEW m \in Result, Tell(m)
  PROVE  /\ results' \in Seq(Result) /\ Len(results') <= Capacity
         /\ \A i \in 1 .. Len(results') :
              \/ i \in 1 .. Len(results) /\ results'[i] = results[i]
              \/ i = Len(results) + 1 /\ results'[i] = m
<1>1. Len(results) \in Nat /\ Capacity \in Nat
  BY SystemAssumption
<1>2. CASE HasRoom(results)
  <2>1. /\ results' \in Seq(Result) /\ Len(results') = Len(results) + 1
        /\ \A i \in 1 .. Len(results) : results'[i] = results[i]
        /\ results'[Len(results) + 1] = m
    BY <1>2, AppendProperties DEF Tell
  <2>2. \A i \in 1 .. Len(results') : i \in 1 .. Len(results) \/ i = Len(results) + 1
    BY <1>1, <2>1
  <2> QED
    BY <1>1, <1>2, <2>1, <2>2 DEF HasRoom
<1>3. CASE ~HasRoom(results)
  BY <1>3 DEF Tell
<1> QED
  BY <1>2, <1>3

(* What a command may change, whichever it is. *)
AnsweredAtOnce == Answered \ {"SNAPSHOT"}

FlagsEffect(command) ==
  /\ stop_requested' \in BOOLEAN /\ paused' \in BOOLEAN
  /\ command.kind = "PAUSE" => paused'
  /\ command.kind # "RESUME" /\ paused => paused'

GraphEffect ==
  /\ made <= made' /\ made' \in 0 .. MaxNodes
  /\ nodes' \subseteq 1 .. made' /\ subscribed' \subseteq 1 .. made'
  /\ (1 .. made) \ nodes \subseteq (1 .. made') \ nodes'

PhaseEffect(command) ==
  IF command.kind = "SNAPSHOT"
  THEN phase' = "snapshot" /\ asker' = command.seq /\ untold' \subseteq Ids \union Connections
  ELSE UNCHANGED <<phase, asker, untold>>

(* The only result of a command tells of nodes that are gone. *)
IsAnswer(m, command) == m \in Result /\ m.seq = command.seq /\ m.gone \subseteq (1 .. made') \ nodes'

ResultEffect(command) ==
  IF command.kind \in AnsweredAtOnce
  THEN /\ \E m : IsAnswer(m, command) /\ Tell(m)
       /\ unanswered' = unanswered \ {command.seq}
  ELSE results' = results /\ unanswered' = unanswered

Effect(command) ==
  FlagsEffect(command) /\ GraphEffect /\ PhaseEffect(command) /\ ResultEffect(command)

LEMMA AnswerEffect ==
  ASSUME NEW command \in Command, command.kind \in AnsweredAtOnce, GraphEffect,
         NEW gone, gone \subseteq (1 .. made') \ nodes', Answer(command.seq, gone)
  PROVE  ResultEffect(command)
<1> DEFINE m == [seq |-> command.seq, done |-> TRUE, gone |-> gone]
<1>1. gone \subseteq Ids /\ command.seq \in 1 .. MaxCommands
  BY SystemAssumption DEF GraphEffect, Ids, Command
<1>2. m \in Result
  BY <1>1 DEF Result
<1>3. m.seq = command.seq /\ m.gone \subseteq (1 .. made') \ nodes'
  OBVIOUS
<1>4. Tell(m) /\ unanswered' = unanswered \ {command.seq}
  BY DEF Answer
<1> HIDE DEF m
<1> QED
  BY <1>2, <1>3, <1>4 DEF ResultEffect, IsAnswer

(* Handlers that leave the flags and the phase alone. *)
LEMMA FlagsKept ==
  ASSUME TypeOK, NEW command \in Command, command.kind # "PAUSE", UNCHANGED flags
  PROVE  FlagsEffect(command)
<1>1. stop_requested' = stop_requested /\ paused' = paused
  BY DEF flags
<1>2. stop_requested \in BOOLEAN /\ paused \in BOOLEAN
  BY DEF TypeOK
<1> QED
  BY <1>1, <1>2, Zenon DEF FlagsEffect

LEMMA PhaseKept ==
  ASSUME NEW command \in Command, command.kind # "SNAPSHOT", UNCHANGED <<phase, snapshot>>
  PROVE  PhaseEffect(command)
BY DEF PhaseEffect, snapshot

LEMMA FewerNodes ==
  ASSUME TypeOK, UNCHANGED <<made, subscribed>>, NEW gone, nodes' = nodes \ gone
  PROVE  GraphEffect
<1>1. made' = made /\ subscribed' = subscribed /\ made \in 0 .. MaxNodes
      /\ nodes \subseteq 1 .. made /\ subscribed \subseteq 1 .. made
  BY DEF TypeOK
<1>2. made <= made
  BY <1>1
<1> QED
  BY <1>1, <1>2, Zenon DEF GraphEffect

LEMMA LoadEffect ==
  ASSUME TypeOK, NEW command \in Command, command.kind = "LOAD", LoadNode(command)
  PROVE  Effect(command)
<1>1. PICK gone \in SUBSET nodes :
        nodes' = nodes \ gone /\ (Answer(command.seq, gone) \/ Answer(command.seq, {}))
  BY DEF LoadNode
<1>2. UNCHANGED <<phase, snapshot, made, subscribed, flags>>
  BY DEF LoadNode
<1>3. GraphEffect
  BY <1>1, <1>2, FewerNodes
<1>4. gone \subseteq (1 .. made') \ nodes' /\ {} \subseteq (1 .. made') \ nodes'
  BY <1>1, <1>2 DEF TypeOK
<1>5. command.kind \in AnsweredAtOnce
  BY DEF AnsweredAtOnce, Answered
<1>6. ResultEffect(command)
  BY <1>1, <1>3, <1>4, <1>5, AnswerEffect
<1> QED
  BY <1>2, <1>3, <1>6, FlagsKept, PhaseKept DEF Effect

LEMMA AddEffect ==
  ASSUME TypeOK, NEW command \in Command, command.kind = "ADD", AddNode(command)
  PROVE  Effect(command)
<1>1. \/ made < MaxNodes /\ made' = made + 1 /\ nodes' = nodes \union {made + 1}
      \/ made' = made /\ nodes' = nodes
  BY DEF AddNode
<1>2. Answer(command.seq, {}) /\ UNCHANGED <<phase, snapshot, subscribed, flags>>
  BY DEF AddNode
<1>3. /\ made \in Nat /\ made \in 0 .. MaxNodes /\ MaxNodes \in Nat
      /\ nodes \subseteq 1 .. made /\ subscribed \subseteq 1 .. made
  BY SystemAssumption DEF TypeOK
<1>4. GraphEffect
  <2>1. CASE made < MaxNodes /\ made' = made + 1 /\ nodes' = nodes \union {made + 1}
    <3>1. /\ made <= made' /\ made' \in 0 .. MaxNodes
          /\ 1 .. made \subseteq 1 .. made' /\ made' \in 1 .. made' /\ made' \notin 1 .. made
      BY <1>3, <2>1
    <3> QED
      BY <1>2, <1>3, <2>1, <3>1 DEF GraphEffect
  <2>2. CASE made' = made /\ nodes' = nodes
    BY <1>2, <1>3, <2>2 DEF GraphEffect
  <2> QED
    BY <1>1, <2>1, <2>2
<1>5. command.kind \in AnsweredAtOnce
  BY DEF AnsweredAtOnce, Answered
<1>6. ResultEffect(command)
  BY <1>2, <1>4, <1>5, AnswerEffect
<1> QED
  BY <1>2, <1>4, <1>6, FlagsKept, PhaseKept DEF Effect

LEMMA RemoveEffect ==
  ASSUME TypeOK, NEW command \in Command, command.kind = "REMOVE", RemoveNode(command)
  PROVE  Effect(command)
<1>1. /\ nodes' = nodes \ {command.node}
      /\ Answer(command.seq, nodes \intersect {command.node})
      /\ UNCHANGED <<phase, snapshot, made, subscribed, flags>>
  BY DEF RemoveNode
<1>2. GraphEffect
  BY <1>1, FewerNodes
<1>3. nodes \intersect {command.node} \subseteq (1 .. made') \ nodes'
  BY <1>1 DEF TypeOK
<1>4. command.kind \in AnsweredAtOnce
  BY DEF AnsweredAtOnce, Answered
<1>5. ResultEffect(command)
  BY <1>1, <1>2, <1>3, <1>4, AnswerEffect
<1> QED
  BY <1>1, <1>2, <1>5, FlagsKept, PhaseKept DEF Effect

(* Commands that change nothing of the graph and are not answered at once. *)
LEMMA GraphKept ==
  ASSUME TypeOK, UNCHANGED <<nodes, made>>, subscribed' \subseteq 1 .. made PROVE GraphEffect
<1>1. made \in 0 .. MaxNodes /\ made <= made /\ nodes \subseteq 1 .. made
  BY SystemAssumption DEF TypeOK
<1> QED
  BY <1>1 DEF GraphEffect

LEMMA OtherEffect ==
  ASSUME TypeOK, NEW command \in Command, command.kind \in OfNodes => command.node \in 1 .. made,
         command.kind \notin AnsweredAtOnce, Dispatch(command)
  PROVE  Effect(command)
<1>1. command.kind \notin {"LOAD", "ADD", "REMOVE"}
  BY DEF AnsweredAtOnce, Answered
<1>2. CASE command.kind = "SNAPSHOT"
  <2>1. RequestRuntimeNodes(command)
    BY <1>2 DEF Dispatch
  <2>2. /\ phase' = "snapshot" /\ asker' = command.seq /\ UNCHANGED flags
        /\ UNCHANGED <<nodes, made, subscribed, results, unanswered>>
    BY <2>1 DEF RequestRuntimeNodes, graph
  <2>3. untold' \subseteq Ids \union Connections
    <3>1. nodes \subseteq Ids
      BY SystemAssumption DEF TypeOK, Ids
    <3> QED
      BY <2>1, <3>1 DEF RequestRuntimeNodes
  <2>4. GraphEffect
    BY <2>2, GraphKept DEF TypeOK
  <2> QED
    BY <1>2, <2>2, <2>3, <2>4, FlagsKept DEF Effect, PhaseEffect, ResultEffect, AnsweredAtOnce
<1>3. CASE command.kind \in {"SUBSCRIBE", "UNSUBSCRIBE"}
  <2>1. Subscribe(command)
    BY <1>3 DEF Dispatch
  <2>2. UNCHANGED <<phase, snapshot, nodes, made, results, unanswered, flags>>
    BY <2>1 DEF Subscribe
  <2>3. subscribed' \subseteq 1 .. made
    BY <1>3, <2>1 DEF Subscribe, OfNodes, TypeOK
  <2>4. GraphEffect
    BY <2>2, <2>3, GraphKept
  <2>5. command.kind # "PAUSE" /\ command.kind # "SNAPSHOT"
    BY <1>3
  <2>6. FlagsEffect(command) /\ PhaseEffect(command)
    BY <2>2, <2>5, FlagsKept, PhaseKept
  <2> QED
    BY <2>2, <2>4, <2>6 DEF Effect, ResultEffect
<1>4. CASE command.kind \notin {"SNAPSHOT", "SUBSCRIBE", "UNSUBSCRIBE"}
  <2>1. GlobalCommand(command)
    BY <1>1, <1>4 DEF Dispatch
  <2>2. UNCHANGED <<phase, snapshot, nodes, made, subscribed, results, unanswered>>
    BY <2>1 DEF GlobalCommand, graph
  <2>3. stop_requested' \in BOOLEAN
    BY <2>1, Zenon DEF GlobalCommand, TypeOK
  <2>4. /\ paused' \in BOOLEAN
        /\ command.kind = "PAUSE" => paused'
        /\ command.kind # "RESUME" /\ paused => paused'
    BY <2>1 DEF GlobalCommand, TypeOK
  <2>5. GraphEffect
    BY <2>2, GraphKept DEF TypeOK
  <2>6. PhaseEffect(command)
    BY <1>4, <2>2, PhaseKept
  <2> QED
    BY <2>2, <2>3, <2>4, <2>5, <2>6 DEF Effect, FlagsEffect, ResultEffect
<1> QED
  BY <1>2, <1>3, <1>4

LEMMA DispatchFacts ==
  ASSUME TypeOK, NEW command \in Command,
         command.kind \in OfNodes => command.node \in 1 .. made, Dispatch(command)
  PROVE  Effect(command)
<1>1. CASE command.kind = "LOAD"
  BY <1>1, LoadEffect DEF Dispatch
<1>2. CASE command.kind = "ADD"
  BY <1>2, AddEffect DEF Dispatch
<1>3. CASE command.kind = "REMOVE"
  BY <1>3, RemoveEffect DEF Dispatch
<1>4. CASE command.kind \notin {"LOAD", "ADD", "REMOVE"}
  BY <1>4, OtherEffect DEF AnsweredAtOnce, Answered
<1> QED
  BY <1>1, <1>2, <1>3, <1>4

(* The command taken from the queue, and what it does. *)
LEMMA DrainFacts ==
  ASSUME IInv, Drain
  PROVE  \E command \in Command :
           /\ command = commands[1] /\ 1 \in 1 .. Len(commands)
           /\ command.seq = Taken + 1 /\ Taken \in Nat /\ Taken' = Taken + 1
           /\ commands' \in Seq(Command) /\ Len(commands') = Len(commands) - 1
           /\ \A i \in 1 .. Len(commands') :
                commands'[i] = commands[i + 1] /\ i + 1 \in 1 .. Len(commands)
           /\ Effect(command)
           /\ phase = "drain" /\ drained' \in 0 .. Budget
           /\ UNCHANGED <<unpublished, telemetry, sent, calm, settled, removed, flushed>>
<1> USE SystemAssumption
<1>1. /\ phase = "drain" /\ drained < Budget /\ drained' = drained + 1
      /\ commands # <<>> /\ commands' = Tail(commands) /\ Dispatch(Head(commands))
      /\ UNCHANGED <<unpublished, telemetry, sent, calm, settled, removed, flushed>>
  BY DEF Drain, client
<1>2. /\ commands \in Seq(Command) /\ sent \in Nat /\ drained \in 0 .. Budget
      /\ Len(commands) <= sent
  BY DEF IInv, TypeOK, QueuesInOrder
<1>3. PICK command \in Command : command = Head(commands)
  BY <1>1, <1>2, HeadTailProperties
<1>4. /\ command = commands[1] /\ 1 \in 1 .. Len(commands) /\ Len(commands) \in Nat
      /\ commands' \in Seq(Command) /\ Len(commands') = Len(commands) - 1
      /\ \A i \in 1 .. Len(commands') :
           commands'[i] = commands[i + 1] /\ i + 1 \in 1 .. Len(commands)
  BY <1>1, <1>2, <1>3
<1>5. Taken \in Nat /\ Taken' = Taken + 1
  BY <1>1, <1>2, <1>4 DEF Taken
<1>6. command.seq = Taken + 1 /\ (command.kind \in OfNodes => command.node \in 1 .. made)
  BY <1>4 DEF IInv, QueuesInOrder
<1>7. Effect(command)
  BY <1>1, <1>3, <1>6, DispatchFacts DEF IInv
<1>8. drained' \in 0 .. Budget
  BY <1>1, <1>2
<1> QED
  BY <1>1, <1>4, <1>5, <1>6, <1>7, <1>8

LEMMA DrainIInv == ASSUME IInv, Drain PROVE IInv'
<1> USE SystemAssumption DEF IInv
<1> PICK command \in Command :
      /\ command = commands[1] /\ 1 \in 1 .. Len(commands)
      /\ command.seq = Taken + 1 /\ Taken \in Nat /\ Taken' = Taken + 1
      /\ commands' \in Seq(Command) /\ Len(commands') = Len(commands) - 1
      /\ \A i \in 1 .. Len(commands') :
           commands'[i] = commands[i + 1] /\ i + 1 \in 1 .. Len(commands)
      /\ Effect(command)
      /\ phase = "drain" /\ drained' \in 0 .. Budget
      /\ UNCHANGED <<unpublished, telemetry, sent, calm, settled, removed, flushed>>
  BY DrainFacts
<1>1. /\ sent \in Nat /\ Len(commands) \in Nat /\ calm \in Nat /\ settled \in Nat
      /\ sent = Taken + Len(commands) /\ Len(commands) <= Capacity
  BY DEF Taken, TypeOK
<1>2. FlagsEffect(command) /\ GraphEffect /\ PhaseEffect(command) /\ ResultEffect(command)
  BY DEF Effect
<1>3. /\ phase' \in {"drain", "snapshot"} /\ asker' \in 0 .. MaxCommands
      /\ untold' \subseteq Ids \union Connections
      /\ phase' = "snapshot" => asker' = Taken' /\ asker' > 0
  <2>1. CASE command.kind = "SNAPSHOT"
    BY <1>2, <2>1 DEF PhaseEffect, Command
  <2>2. CASE command.kind # "SNAPSHOT"
    BY <1>2, <2>2 DEF PhaseEffect, TypeOK
  <2> QED
    BY <2>1, <2>2
<1>4. /\ results' \in Seq(Result) /\ Len(results') <= Capacity /\ unanswered' \subseteq 1 .. sent
      /\ \A i \in 1 .. Len(results') :
           \/ i \in 1 .. Len(results) /\ results'[i] = results[i]
           \/ IsAnswer(results'[i], command)
  <2>1. results \in Seq(Result) /\ Len(results) <= Capacity /\ unanswered \subseteq 1 .. sent
    BY DEF TypeOK
  <2>2. CASE command.kind \in AnsweredAtOnce
    <3>1. PICK m : IsAnswer(m, command) /\ Tell(m)
      BY <1>2, <2>2 DEF ResultEffect
    <3>2. m \in Result /\ unanswered' \subseteq unanswered
      BY <1>2, <2>2, <3>1 DEF ResultEffect, IsAnswer
    <3> QED
      BY <2>1, <3>1, <3>2, TellFacts
  <2>3. CASE command.kind \notin AnsweredAtOnce
    BY <1>2, <2>1, <2>3 DEF ResultEffect
  <2> QED
    BY <2>2, <2>3
<1>5. TypeOK'
  <2>1. stop_requested' \in BOOLEAN /\ paused' \in BOOLEAN
    BY <1>2 DEF FlagsEffect
  <2>2. Len(commands') <= Capacity
    BY <1>1
  <2>3. /\ sent' \in 0 .. MaxCommands /\ calm' \in 0 .. sent' /\ settled' \in 0 .. sent'
        /\ telemetry' \in Seq(Ids) /\ Len(telemetry') <= Capacity
        /\ unpublished' \subseteq Ids /\ flushed' \subseteq removed' /\ removed' \subseteq Ids
    BY DEF TypeOK
  <2> QED
    BY <1>2, <1>3, <1>4, <2>1, <2>2, <2>3 DEF TypeOK, GraphEffect
<1>6. QueuesInOrder'
  <2>1. made <= made' /\ made \in Nat /\ made' \in Nat
    BY <1>2 DEF GraphEffect, TypeOK
  <2>2. Len(commands') <= sent' /\ settled' <= Taken'
    BY <1>1 DEF QueuesInOrder
  <2>3. ASSUME NEW i \in 1 .. Len(commands')
        PROVE  /\ commands'[i].seq = Taken' + i
               /\ commands'[i].kind \in OfNodes => commands'[i].node \in 1 .. made'
    <3>1. commands[i + 1].seq = Taken + (i + 1)
      BY DEF QueuesInOrder
    <3>2. commands[i + 1].kind \in OfNodes => commands[i + 1].node \in 1 .. made
      BY DEF QueuesInOrder
    <3> QED
      BY <1>1, <2>1, <3>1, <3>2
  <2>4. ASSUME NEW i \in 1 .. Len(results') PROVE results'[i].seq <= Taken'
    <3>1. CASE i \in 1 .. Len(results) /\ results'[i] = results[i]
      <4>1. results[i] \in Result
        BY <3>1 DEF TypeOK
      <4>2. results[i].seq <= Taken /\ results[i].seq \in Nat
        BY <3>1, <4>1 DEF QueuesInOrder, Result
      <4> QED
        BY <3>1, <4>2
    <3>2. CASE IsAnswer(results'[i], command)
      BY <3>2 DEF IsAnswer
    <3> QED
      BY <1>4, <3>1, <3>2
  <2> QED
    BY <1>3, <2>2, <2>3, <2>4 DEF QueuesInOrder
<1>7. Calming'
  <2>1. ASSUME calm' > 0, calm' <= Taken' PROVE paused'
    <3>1. CASE calm <= Taken
      <4>1. paused
        BY <2>1, <3>1 DEF Calming
      <4>2. command.kind # "RESUME"
        BY <1>1, <2>1, <3>1 DEF Calming
      <4> QED
        BY <1>2, <4>1, <4>2 DEF FlagsEffect
    <3>2. CASE calm = Taken + 1
      <4>1. command.kind = "PAUSE"
        BY <2>1, <3>2 DEF Calming
      <4> QED
        BY <1>2, <4>1 DEF FlagsEffect
    <3> QED
      BY <1>1, <2>1, <3>1, <3>2
  <2>2. calm' > 0 =>
          \A i \in 1 .. Len(commands') :
            /\ commands'[i].seq = calm' => commands'[i].kind = "PAUSE"
            /\ commands'[i].seq > calm' => commands'[i].kind # "RESUME"
    BY DEF Calming
  <2> QED
    BY <1>3, <2>1, <2>2 DEF Calming
<1>8. Gone'
  <2>1. unpublished = {}
    BY DEF Gone
  <2>2. ASSUME NEW i \in 1 .. Len(results') PROVE results'[i].gone \subseteq (1 .. made') \ nodes'
    <3>1. CASE i \in 1 .. Len(results) /\ results'[i] = results[i]
      <4>1. results[i].gone \subseteq (1 .. made) \ nodes
        BY <3>1 DEF Gone
      <4> QED
        BY <1>2, <3>1, <4>1 DEF GraphEffect
    <3>2. CASE IsAnswer(results'[i], command)
      BY <3>2 DEF IsAnswer
    <3> QED
      BY <1>4, <3>1, <3>2
  <2>3. removed' \subseteq (1 .. made') \ nodes'
    BY <1>2 DEF GraphEffect, Gone
  <2>4. NoGhostValues'
    BY DEF Gone, NoGhostValues
  <2> QED
    BY <2>1, <2>2, <2>3, <2>4 DEF Gone
<1> QED
  BY <1>5, <1>6, <1>7, <1>8

(* A message of the snapshot. *)
IsOfSnapshot(m) == m \in Result /\ m.seq = asker /\ m.gone = {}

(* What the two steps of a snapshot have in common. *)
LEMMA SnapshotFacts ==
  ASSUME IInv, SendEntry \/ SendDone
  PROVE  /\ \E m : IsOfSnapshot(m) /\ m.done = (phase' # "snapshot") /\ Tell(m)
         /\ unanswered' = IF phase' = "snapshot" THEN unanswered ELSE unanswered \ {asker}
         /\ phase = "snapshot" /\ asker = Taken /\ asker \in Nat \ {0}
         /\ \/ phase' = "snapshot" /\ asker' = asker /\ untold' \subseteq untold
            \/ phase' = "drain" /\ asker' = 0 /\ untold' = untold
         /\ UNCHANGED <<drained, unpublished, stop_requested, paused, nodes, made, subscribed,
                        commands, telemetry, sent, calm, settled, removed, flushed>>
<1>1. phase = "snapshot"
  BY DEF SendEntry, SendDone
<1>2. asker = Taken /\ asker \in Nat \ {0} /\ asker \in 1 .. MaxCommands
  BY <1>1, SystemAssumption DEF IInv, TypeOK, QueuesInOrder
<1>3. CASE SendEntry
  <2> DEFINE m == [seq |-> asker, done |-> FALSE, gone |-> {}]
  <2>1. IsOfSnapshot(m) /\ ~m.done /\ m.done \in BOOLEAN
    BY <1>2 DEF IsOfSnapshot, Result
  <2>2. Tell(m) /\ phase' = "snapshot" /\ asker' = asker /\ unanswered' = unanswered
    BY <1>1, <1>3 DEF SendEntry
  <2>3. untold' \subseteq untold
    BY <1>3 DEF SendEntry
  <2>4. UNCHANGED <<drained, unpublished, stop_requested, paused, nodes, made, subscribed,
                    commands, telemetry, sent, calm, settled, removed, flushed>>
    BY <1>3 DEF SendEntry, flags, graph, client
  <2> HIDE DEF m
  <2>5. m.done = (phase' # "snapshot")
    BY <2>1, <2>2
  <2> QED
    BY <1>1, <1>2, <2>1, <2>2, <2>3, <2>4, <2>5
<1>4. CASE SendDone
  <2> DEFINE m == [seq |-> asker, done |-> TRUE, gone |-> {}]
  <2>1. IsOfSnapshot(m) /\ m.done
    BY <1>2 DEF IsOfSnapshot, Result
  <2>2. /\ Tell(m) /\ phase' = "drain" /\ asker' = 0 /\ untold' = untold
        /\ unanswered' = unanswered \ {asker}
    BY <1>4 DEF SendDone, Answer
  <2>3. UNCHANGED <<drained, unpublished, stop_requested, paused, nodes, made, subscribed,
                    commands, telemetry, sent, calm, settled, removed, flushed>>
    BY <1>4 DEF SendDone, flags, graph, client
  <2>4. m.done = TRUE
    OBVIOUS
  <2> HIDE DEF m
  <2>5. m.done = (phase' # "snapshot")
    BY <2>2, <2>4
  <2> QED
    BY <1>1, <1>2, <2>1, <2>2, <2>3, <2>5
<1> QED
  BY <1>3, <1>4

LEMMA SnapshotIInv == ASSUME IInv, SendEntry \/ SendDone PROVE IInv'
<1> USE DEF IInv
<1>1. PICK m : IsOfSnapshot(m) /\ Tell(m)
  BY SnapshotFacts
<1>2. /\ unanswered' \subseteq unanswered
      /\ phase = "snapshot" /\ asker = Taken /\ asker \in Nat \ {0}
      /\ \/ phase' = "snapshot" /\ asker' = asker /\ untold' \subseteq untold
         \/ phase' = "drain" /\ asker' = 0 /\ untold' = untold
  BY SnapshotFacts
<1>3. UNCHANGED <<drained, unpublished, stop_requested, paused, nodes, made, subscribed,
                  commands, telemetry, sent, calm, settled, removed, flushed>>
  BY SnapshotFacts
<1>4. Taken' = Taken
  BY <1>3 DEF Taken
<1>5. /\ results' \in Seq(Result) /\ Len(results') <= Capacity
      /\ \A i \in 1 .. Len(results') :
           \/ i \in 1 .. Len(results) /\ results'[i] = results[i]
           \/ results'[i] = m
  BY <1>1, TellFacts DEF IsOfSnapshot, TypeOK
<1>6. TypeOK'
  <2>1. phase' \in {"idle", "check", "drain", "snapshot", "step", "publish"}
    BY <1>2
  <2>2. asker' \in 0 .. MaxCommands /\ untold' \subseteq Ids \union Connections
    BY <1>2, SystemAssumption DEF TypeOK
  <2>3. unanswered' \subseteq 1 .. sent'
    BY <1>2, <1>3 DEF TypeOK
  <2> QED
    BY <1>3, <1>5, <2>1, <2>2, <2>3 DEF TypeOK
<1>7. QueuesInOrder'
  <2>1. \A i \in 1 .. Len(results') : results'[i].seq <= Taken'
    BY <1>1, <1>2, <1>4, <1>5 DEF QueuesInOrder, IsOfSnapshot
  <2>2. phase' = "snapshot" => asker' = Taken' /\ asker' > 0
    BY <1>2, <1>4
  <2> QED
    BY <1>3, <1>4, <2>1, <2>2 DEF QueuesInOrder
<1>8. Calming'
  BY <1>2, <1>3, <1>4 DEF Calming
<1>9. Gone'
  <2>1. \A i \in 1 .. Len(results') : results'[i].gone \subseteq (1 .. made) \ nodes
    BY <1>1, <1>5 DEF Gone, IsOfSnapshot
  <2> QED
    BY <1>2, <1>3, <2>1 DEF Gone, NoGhostValues
<1> QED
  BY <1>6, <1>7, <1>8, <1>9

-----------------------------------------------------------------------------

LEMMA StepIInv == IInv /\ [Next]_vars => IInv'
<1> SUFFICES ASSUME IInv, [Next]_vars PROVE IInv'
  OBVIOUS
<1>1. CASE \E kind \in Kinds, node \in 0 .. MaxNodes : Send(kind, node)
  BY <1>1, SendIInv
<1>2. CASE Start \/ RequestStop
  BY <1>2, OwnerIInv
<1>3. CASE ReadResult \/ ReadTelemetry \/ FindTelemetryEmpty
  BY <1>3, ReadIInv
<1>4. CASE Loop
  BY <1>4, QuietStepIInv, DrainIInv, SnapshotIInv, PublishIInv DEF Loop
<1>5. CASE UNCHANGED vars
  <2> USE <1>5 DEF vars, loop, snapshot, flags, graph, queues, client
  <2>1. TypeOK'
    BY DEF IInv, TypeOK
  <2>2. QueuesInOrder' /\ Calming'
    BY DEF IInv, QueuesInOrder, Calming, Taken
  <2>3. Gone'
    BY DEF IInv, Gone, NoGhostValues
  <2> QED
    BY <2>1, <2>2, <2>3 DEF IInv
<1> QED
  BY <1>1, <1>2, <1>3, <1>4, <1>5 DEF Next

(* Everything below follows from this strengthening: the queues keep their order,
   a PAUSE is in effect or still has no RESUME behind it, and what was told to be
   removed is gone for good. *)
THEOREM SystemInvariant == Spec => []IInv
  BY InitIInv, StepIInv, PTL DEF Spec

(* The queues never hold more than they can, and every name of a node is one that
   was given out. *)
THEOREM TypeCorrect == Spec => []TypeOK
<1>1. IInv => TypeOK
  BY DEF IInv
<1> QED
  BY <1>1, SystemInvariant, PTL

(* The answer to any command after a PAUSE tells the client that the runtime is
   not stepped. *)
THEOREM PauseIsCertain == Spec => []PauseIsABarrier
<1>1. IInv => PauseIsABarrier
  <2> SUFFICES ASSUME IInv, calm > 0, settled >= calm, phase = "step" PROVE FALSE
    BY DEF PauseIsABarrier
  <2>1. calm \in Nat /\ settled \in Nat /\ Taken \in Int /\ settled <= Taken
    BY DEF IInv, TypeOK, QueuesInOrder, Taken
  <2>2. paused
    BY <2>1 DEF IInv, Calming
  <2> QED
    BY <2>2 DEF IInv, Calming
<1> QED
  BY <1>1, SystemInvariant, PTL

(* An empty telemetry queue after the answer to a REMOVE_NODE is the last the
   client hears of the node. *)
THEOREM RemovedStaySilent == Spec => []NoGhostValues
<1>1. IInv => NoGhostValues
  BY DEF IInv, Gone
<1> QED
  BY <1>1, SystemInvariant, PTL

-----------------------------------------------------------------------------
(* Answers come once and in order. *)

(* What is owed an answer is still in the queue of commands, or is the snapshot
   under way. *)
Owed ==
  \A seq \in unanswered :
    \/ /\ seq > Taken
       /\ \A i \in 1 .. Len(commands) : commands[i].seq = seq => commands[i].kind \in Answered
    \/ phase = "snapshot" /\ seq = asker

(* Nothing is settled yet of what a later result is about, nor of the snapshot. *)
InOrder ==
  /\ \A i, j \in 1 .. Len(results) : i < j => Settles(results[i]) < results[j].seq
  /\ \A i \in 1 .. Len(results) : settled < results[i].seq
  /\ phase = "snapshot" =>
       settled < asker /\ \A i \in 1 .. Len(results) : Settles(results[i]) < asker

AnswersInv == Owed /\ InOrder

LEMMA InitAnswers == Init => AnswersInv
<1> SUFFICES ASSUME Init PROVE AnswersInv
  OBVIOUS
<1>1. Len(results) = 0 /\ unanswered = {} /\ phase = "idle"
  BY DEF Init
<1> QED
  BY <1>1 DEF AnswersInv, Owed, InOrder

LEMMA SettlesIs ==
  ASSUME NEW m \in Result
  PROVE  /\ m.seq \in Nat \ {0} /\ Settles(m) \in Nat /\ Settles(m) <= m.seq
         /\ ~m.done => Settles(m) < m.seq
<1>1. m.seq \in Nat \ {0} /\ m.done \in BOOLEAN
  BY SystemAssumption DEF Result
<1>2. Settles(m) = IF m.done THEN m.seq ELSE m.seq - 1
  BY DEF Settles
<1> QED
  BY <1>1, <1>2

LEMMA SendAnswers ==
  ASSUME IInv, AnswersInv, NEW kind \in Kinds, NEW node \in 0 .. MaxNodes, Send(kind, node)
  PROVE  AnswersInv'
<1> DEFINE command == [seq |-> sent + 1, kind |-> kind, node |-> node]
<1>1. /\ sent < MaxCommands /\ sent' = sent + 1 /\ commands' = Append(commands, command)
      /\ UNCHANGED <<phase, asker, results, settled>>
      /\ unanswered' = IF kind \in Answered THEN unanswered \union {sent + 1} ELSE unanswered
      /\ kind \in OfNodes => node \in 1 .. made
  BY DEF Send, loop, snapshot
<1>2. command \in Command /\ sent \in Nat /\ Len(commands) \in Nat
  BY <1>1, SystemAssumption DEF Command, IInv, TypeOK
<1>3. command.seq = sent + 1 /\ command.kind = kind
  OBVIOUS
<1> HIDE DEF command
<1>4. /\ Len(commands') = Len(commands) + 1
      /\ \A i \in 1 .. Len(commands) : commands'[i] = commands[i]
      /\ commands'[Len(commands) + 1] = command
  BY <1>1, <1>2 DEF IInv, TypeOK
<1>5. Taken' = Taken /\ Taken \in Int /\ Taken <= sent
  BY <1>1, <1>2, <1>4 DEF Taken
<1>6. \A i \in 1 .. Len(commands) : commands[i].seq <= sent
  BY <1>2, <1>5 DEF Taken, IInv, QueuesInOrder
<1>7. unanswered \subseteq 1 .. sent
  BY DEF IInv, TypeOK
<1>8. ASSUME NEW seq \in unanswered'
      PROVE  \/ /\ seq > Taken'
                /\ \A i \in 1 .. Len(commands') :
                     commands'[i].seq = seq => commands'[i].kind \in Answered
             \/ phase' = "snapshot" /\ seq = asker'
  <2>1. \A i \in 1 .. Len(commands') : i \in 1 .. Len(commands) \/ i = Len(commands) + 1
    BY <1>2, <1>4
  <2>2. CASE seq \in unanswered
    <3>1. seq # sent + 1
      BY <1>2, <1>7, <2>2
    <3> QED
      BY <1>1, <1>3, <1>4, <1>5, <2>1, <2>2, <3>1 DEF AnswersInv, Owed
  <2>3. CASE seq = sent + 1 /\ kind \in Answered
    <3>1. \A i \in 1 .. Len(commands) : commands[i].seq # seq
      BY <1>2, <1>6, <2>3
    <3> QED
      BY <1>2, <1>3, <1>4, <1>5, <2>1, <2>3, <3>1
  <2> QED
    BY <1>1, <2>2, <2>3
<1>9. Owed'
  BY <1>8 DEF Owed
<1>10. InOrder'
  BY <1>1 DEF AnswersInv, InOrder, Settles
<1> QED
  BY <1>9, <1>10 DEF AnswersInv

LEMMA ReadAnswers == ASSUME IInv, AnswersInv, ReadResult PROVE AnswersInv'
<1>1. /\ results # <<>> /\ results' = Tail(results) /\ settled' = Settles(Head(results))
      /\ UNCHANGED <<commands, sent, unanswered, phase, asker>>
  BY DEF ReadResult, loop, snapshot
<1>2. /\ Head(results) = results[1] /\ 1 \in 1 .. Len(results)
      /\ \A i \in 1 .. Len(results') :
           results'[i] = results[i + 1] /\ i + 1 \in 1 .. Len(results) /\ 1 < i + 1
  BY <1>1 DEF IInv, TypeOK
<1>3. Owed'
  BY <1>1 DEF AnswersInv, Owed, Taken
<1>4. \A i, j \in 1 .. Len(results') : i < j => i + 1 < j + 1
  OBVIOUS
<1>5. InOrder'
  <2>1. \A i, j \in 1 .. Len(results') : i < j => Settles(results'[i]) < results'[j].seq
    BY <1>2, <1>4 DEF AnswersInv, InOrder
  <2>2. \A i \in 1 .. Len(results') : settled' < results'[i].seq
    BY <1>1, <1>2 DEF AnswersInv, InOrder
  <2>3. phase' = "snapshot" =>
          settled' < asker' /\ \A i \in 1 .. Len(results') : Settles(results'[i]) < asker'
    BY <1>1, <1>2 DEF AnswersInv, InOrder
  <2> QED
    BY <2>1, <2>2, <2>3 DEF InOrder, Settles
<1> QED
  BY <1>3, <1>5 DEF AnswersInv

(* A result told of a command of which nothing is settled keeps the order. *)
LEMMA TellKeepsOrder ==
  ASSUME IInv, AnswersInv, NEW m \in Result, Tell(m), settled < m.seq, settled' = settled,
         \A i \in 1 .. Len(results) : Settles(results[i]) < m.seq
  PROVE  /\ \A i, j \in 1 .. Len(results') : i < j => Settles(results'[i]) < results'[j].seq
         /\ \A i \in 1 .. Len(results') : settled' < results'[i].seq
         /\ \A i \in 1 .. Len(results') :
              \/ i \in 1 .. Len(results) /\ results'[i] = results[i]
              \/ results'[i] = m
<1>1. results \in Seq(Result) /\ Len(results) <= Capacity /\ Len(results) \in Nat
  BY DEF IInv, TypeOK
<1>2. /\ results' \in Seq(Result)
      /\ \A i \in 1 .. Len(results') :
           \/ i \in 1 .. Len(results) /\ results'[i] = results[i]
           \/ i = Len(results) + 1 /\ results'[i] = m
  BY <1>1, TellFacts
<1>3. ASSUME NEW i \in 1 .. Len(results'), NEW j \in 1 .. Len(results'), i < j
      PROVE  Settles(results'[i]) < results'[j].seq
  <2>1. j \in 1 .. Len(results) \/ j = Len(results) + 1
    BY <1>2
  <2>2. i \in 1 .. Len(results) /\ results'[i] = results[i]
    BY <1>1, <1>2, <1>3, <2>1
  <2>3. CASE j \in 1 .. Len(results)
    <3>1. results'[j] = results[j]
      BY <1>1, <1>2, <2>3
    <3> QED
      BY <1>3, <2>2, <2>3, <3>1 DEF AnswersInv, InOrder
  <2>4. CASE j = Len(results) + 1
    <3>1. results'[j] = m
      BY <1>1, <1>2, <2>4
    <3> QED
      BY <2>2, <3>1
  <2> QED
    BY <2>1, <2>3, <2>4
<1>4. \A i \in 1 .. Len(results') : settled' < results'[i].seq
  BY <1>2 DEF AnswersInv, InOrder
<1> QED
  BY <1>2, <1>3, <1>4

LEMMA DrainAnswers == ASSUME IInv, AnswersInv, Drain PROVE AnswersInv'
<1> PICK command \in Command :
      /\ command = commands[1] /\ 1 \in 1 .. Len(commands)
      /\ command.seq = Taken + 1 /\ Taken \in Nat /\ Taken' = Taken + 1
      /\ commands' \in Seq(Command) /\ Len(commands') = Len(commands) - 1
      /\ \A i \in 1 .. Len(commands') :
           commands'[i] = commands[i + 1] /\ i + 1 \in 1 .. Len(commands)
      /\ Effect(command)
      /\ phase = "drain" /\ drained' \in 0 .. Budget
      /\ UNCHANGED <<unpublished, telemetry, sent, calm, settled, removed, flushed>>
  BY DrainFacts
<1>1. PhaseEffect(command) /\ ResultEffect(command)
  BY DEF Effect
<1>2. Owed'
  <2>1. ASSUME NEW seq \in unanswered'
        PROVE  (seq > Taken' /\ seq \in unanswered) \/ (phase' = "snapshot" /\ seq = asker')
    <3>1. seq \in unanswered /\ (command.kind \in AnsweredAtOnce => seq # command.seq)
      BY <1>1 DEF ResultEffect
    <3>2. seq > Taken /\ seq \in Nat
      BY <3>1 DEF AnswersInv, Owed, IInv, TypeOK
    <3>3. CASE seq = command.seq
      <4>1. command.kind \in Answered
        BY <3>1, <3>2, <3>3 DEF AnswersInv, Owed
      <4>2. command.kind = "SNAPSHOT"
        BY <3>1, <3>3, <4>1 DEF AnsweredAtOnce
      <4> QED
        BY <1>1, <3>3, <4>2 DEF PhaseEffect
    <3>4. CASE seq # command.seq
      BY <3>1, <3>2, <3>4
    <3> QED
      BY <3>3, <3>4
  <2>2. ASSUME NEW seq \in unanswered', seq > Taken', seq \in unanswered
        PROVE  \A i \in 1 .. Len(commands') :
                 commands'[i].seq = seq => commands'[i].kind \in Answered
    BY <2>2 DEF AnswersInv, Owed
  <2> QED
    BY <2>1, <2>2 DEF Owed
<1>3. /\ settled <= Taken /\ settled \in Nat
      /\ \A i \in 1 .. Len(results) : Settles(results[i]) < Taken + 1
  <2>1. \A i \in 1 .. Len(results) : results[i] \in Result /\ results[i].seq <= Taken
    BY DEF IInv, TypeOK, QueuesInOrder
  <2>2. \A i \in 1 .. Len(results) :
          results[i].seq \in Nat /\ Settles(results[i]) \in Nat /\ Settles(results[i]) <= results[i].seq
    BY <2>1, SettlesIs
  <2>3. \A i \in 1 .. Len(results) : Settles(results[i]) < Taken + 1
    BY <2>1, <2>2
  <2>4. settled <= Taken /\ settled \in Nat
    BY SystemAssumption DEF IInv, TypeOK, QueuesInOrder
  <2> QED
    BY <2>3, <2>4
<1>4. CASE command.kind \in AnsweredAtOnce
  <2>1. PICK m : IsAnswer(m, command) /\ Tell(m)
    BY <1>1, <1>4 DEF ResultEffect
  <2>2. m \in Result /\ m.seq = Taken + 1
    BY <2>1 DEF IsAnswer
  <2>3. settled < m.seq /\ settled' = settled /\ \A i \in 1 .. Len(results) : Settles(results[i]) < m.seq
    BY <1>3, <2>2
  <2>4. /\ \A i, j \in 1 .. Len(results') : i < j => Settles(results'[i]) < results'[j].seq
        /\ \A i \in 1 .. Len(results') : settled' < results'[i].seq
    BY <2>1, <2>2, <2>3, TellKeepsOrder
  <2>5. phase' = "drain"
    BY <1>1, <1>4 DEF PhaseEffect, AnsweredAtOnce
  <2>6. InOrder'
    BY <2>4, <2>5 DEF InOrder, Settles
  <2> QED
    BY <1>2, <2>6 DEF AnswersInv
<1>5. CASE command.kind \notin AnsweredAtOnce
  <2>1. results' = results /\ settled' = settled
    BY <1>1, <1>5 DEF ResultEffect
  <2>2. phase' = "snapshot" => asker' = Taken + 1
    BY <1>1 DEF PhaseEffect
  <2>3. phase' = "snapshot" =>
          settled' < asker' /\ \A i \in 1 .. Len(results') : Settles(results'[i]) < asker'
    BY <1>3, <2>1, <2>2
  <2>4. InOrder'
    BY <2>1, <2>3 DEF AnswersInv, InOrder, Settles
  <2> QED
    BY <1>2, <2>4 DEF AnswersInv
<1> QED
  BY <1>4, <1>5

LEMMA SnapshotAnswers == ASSUME IInv, AnswersInv, SendEntry \/ SendDone PROVE AnswersInv'
<1>1. PICK m : IsOfSnapshot(m) /\ m.done = (phase' # "snapshot") /\ Tell(m)
  BY SnapshotFacts
<1>2. /\ unanswered' = IF phase' = "snapshot" THEN unanswered ELSE unanswered \ {asker}
      /\ phase = "snapshot" /\ asker = Taken /\ asker \in Nat \ {0}
      /\ phase' = "snapshot" => asker' = asker
      /\ UNCHANGED <<commands, sent, settled>>
  BY SnapshotFacts
<1>3. Owed'
  BY <1>2 DEF AnswersInv, Owed, Taken
<1>4. m \in Result /\ m.seq = asker
  BY <1>1 DEF IsOfSnapshot
<1>5. settled < m.seq /\ \A i \in 1 .. Len(results) : Settles(results[i]) < m.seq
  BY <1>2, <1>4 DEF AnswersInv, InOrder
<1>6. /\ \A i, j \in 1 .. Len(results') : i < j => Settles(results'[i]) < results'[j].seq
      /\ \A i \in 1 .. Len(results') : settled' < results'[i].seq
      /\ \A i \in 1 .. Len(results') :
           \/ i \in 1 .. Len(results) /\ results'[i] = results[i]
           \/ results'[i] = m
  BY <1>1, <1>2, <1>4, <1>5, TellKeepsOrder
<1>7. ASSUME phase' = "snapshot"
      PROVE  settled' < asker' /\ \A i \in 1 .. Len(results') : Settles(results'[i]) < asker'
  <2>1. ~m.done
    BY <1>1, <1>7
  <2>2. Settles(m) < asker
    BY <1>4, <2>1, SettlesIs
  <2> QED
    BY <1>2, <1>4, <1>5, <1>6, <1>7, <2>2
<1>8. InOrder'
  BY <1>6, <1>7 DEF InOrder, Settles
<1> QED
  BY <1>3, <1>8 DEF AnswersInv

LEMMA NextAnswers == ASSUME IInv, AnswersInv, [Next]_vars PROVE AnswersInv'
<1>1. CASE \E kind \in Kinds, node \in 0 .. MaxNodes : Send(kind, node)
  BY <1>1, SendAnswers
<1>2. CASE ReadResult
  BY <1>2, ReadAnswers
<1>3. CASE Drain
  BY <1>3, DrainAnswers
<1>4. CASE SendEntry \/ SendDone
  BY <1>4, SnapshotAnswers
<1>5. CASE \/ Start \/ RequestStop \/ ReadTelemetry \/ FindTelemetryEmpty \/ UNCHANGED vars
           \/ CheckStop \/ LeaveDrain \/ StepRuntime \/ PublishValues \/ FinishCycle
  <2>1. UNCHANGED <<asker, commands, results, sent, settled, unanswered>>
    BY <1>5 DEF Start, RequestStop, ReadTelemetry, FindTelemetryEmpty, vars, CheckStop, LeaveDrain,
                StepRuntime, PublishValues, FinishCycle, loop, snapshot, queues, client
  <2>2. (phase' = "snapshot") <=> (phase = "snapshot")
    BY <1>5 DEF Start, RequestStop, ReadTelemetry, FindTelemetryEmpty, vars, CheckStop, LeaveDrain,
                StepRuntime, PublishValues, FinishCycle, loop
  <2>3. Owed'
    BY <2>1, <2>2 DEF AnswersInv, Owed, Taken
  <2>4. InOrder'
    BY <2>1, <2>2 DEF AnswersInv, InOrder, Settles
  <2> QED
    BY <2>3, <2>4 DEF AnswersInv
<1> QED
  BY <1>1, <1>2, <1>3, <1>4, <1>5 DEF Next, Loop

(* The inductive invariant of the answers: what is owed one waits in the queue of
   commands or is the snapshot under way, and what was told settles nothing of what
   is told later. *)
THEOREM AnswersInvariant == Spec => []AnswersInv
BY InitAnswers, NextAnswers, SystemInvariant, PTL DEF Spec

(* Whoever received an answer has received all that were to come of older
   commands, and with the mark of a snapshot all of its entries, however full the
   queue was and however often the loop ended. *)
THEOREM NothingLateIsHeard == Spec => []AnswersAreFinal
<1>1. IInv /\ AnswersInv => AnswersAreFinal
  <2> SUFFICES ASSUME IInv, AnswersInv PROVE AnswersAreFinal
    OBVIOUS
  <2>1. ASSUME NEW seq \in unanswered
        PROVE  settled < seq /\ \A i \in 1 .. Len(results) : Settles(results[i]) < seq
    <3>1. CASE phase = "snapshot" /\ seq = asker
      BY <3>1 DEF AnswersInv, InOrder
    <3>2. CASE seq > Taken
      <4>1. seq \in Nat /\ Taken \in Int /\ settled \in Nat /\ settled <= Taken
        BY DEF IInv, TypeOK, Taken, QueuesInOrder
      <4>2. \A i \in 1 .. Len(results) : results[i] \in Result /\ results[i].seq <= Taken
        BY DEF IInv, TypeOK, QueuesInOrder
      <4>3. \A i \in 1 .. Len(results) :
              /\ results[i].seq \in Nat /\ Settles(results[i]) \in Nat
              /\ Settles(results[i]) <= results[i].seq
        BY <4>2, SettlesIs
      <4> QED
        BY <3>2, <4>1, <4>2, <4>3
    <3> QED
      BY <3>1, <3>2 DEF AnswersInv, Owed
  <2> QED
    BY <2>1 DEF AnswersInv, InOrder, AnswersAreFinal
<1> QED
  BY <1>1, SystemInvariant, AnswersInvariant, PTL

=============================================================================
