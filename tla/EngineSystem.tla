------------------------------ MODULE EngineSystem ------------------------------
(***************************************************************************)
(* The engine as its client sees it: one queue of commands to the realtime *)
(* loop, and two queues back, one of answers and one of telemetry.  The    *)
(* two are read at any pace and in any order, and neither waits for room.  *)
(* What may the client conclude from one queue about the loop and about    *)
(* what is still to come in the other?                                     *)
(*                                                                         *)
(* Each component has its own module with its details (CommandLoop,        *)
(* NodeRegistry, ResultStream, SubscriptionTable, TelemetryStream); here   *)
(* are the parts that depend on each other: the order of the steps of a    *)
(* cycle, the graph, the subscriptions and the three queues.  The queues   *)
(* and the runtime are external; the runtime does not use an id twice.     *)
(***************************************************************************)
EXTENDS Naturals, Sequences

CONSTANTS
  Budget,       \* config.max_commands_per_cycle
  Capacity,     \* how many messages each of the queues holds
  Connections,  \* the connections there may be between the nodes
  MaxCommands,  \* bound of the model: how many commands are sent
  MaxNodes      \* bound of the model: how many nodes are added

ASSUME SystemAssumption ==
  /\ Budget \in Nat \ {0} /\ Capacity \in Nat \ {0}
  /\ MaxCommands \in Nat /\ MaxNodes \in Nat

VARIABLES
  phase,           \* the next step of the realtime loop; "idle": there is no loop
  drained,         \* commands taken in this cycle
  asker, untold,   \* the snapshot under way: its command, and what it has not told yet
  unpublished,     \* nodes whose values the cycle has not published yet
  stop_requested, paused,
  nodes,           \* the nodes of the runtime
  made,            \* how many nodes were ever added: their ids are 1 .. made
  subscribed,      \* the nodes of the subscription table
  commands, results, telemetry,  \* the three queues
  sent,            \* history: the commands sent
  unanswered,      \* history: those that deserve an answer and have caused none yet
  calm,            \* history: the client's PAUSE, if it has not sent RESUME since; or 0
  settled,         \* history: the last command of which the client awaits nothing more
  removed,         \* history: the nodes the client was told are removed ...
  flushed          \* history: ... and since found the telemetry queue empty

snapshot == <<asker, untold>>
flags    == <<stop_requested, paused>>
loop     == <<phase, drained, snapshot, unpublished, flags>>
graph    == <<nodes, made, subscribed>>
queues   == <<commands, results, telemetry>>
client   == <<sent, calm, settled, removed, flushed>>
vars     == <<loop, graph, queues, client, unanswered>>

Ids == 1 .. MaxNodes

(* SNAPSHOT is REQUEST_RUNTIME_NODES.  SILENT is every command that is not
   answered and touches none of this: connections, parameters, the state of a
   node, the settings of the runtime, and what a handler refuses as malformed. *)
Kinds    == {"STOP", "PAUSE", "RESUME", "LOAD", "ADD", "REMOVE", "SNAPSHOT", "SUBSCRIBE",
             "UNSUBSCRIBE", "SILENT"}
Answered == {"LOAD", "ADD", "REMOVE", "SNAPSHOT"}
OfNodes  == {"REMOVE", "SUBSCRIBE", "UNSUBSCRIBE"}

Command == [seq : 1 .. MaxCommands, kind : Kinds, node : 0 .. MaxNodes]

(* A result tells that the nodes "gone" were removed.  It is the last one of its
   command ("done") unless it is an entry of a snapshot: those are followed by a
   mark, told from them by its status code. *)
Result == [seq : 1 .. MaxCommands, done : BOOLEAN, gone : SUBSET Ids]

TypeOK ==
  /\ phase \in {"idle", "check", "drain", "snapshot", "step", "publish"}
  /\ drained \in 0 .. Budget
  /\ asker \in 0 .. MaxCommands /\ untold \subseteq Ids \union Connections
  /\ unpublished \subseteq Ids
  /\ stop_requested \in BOOLEAN /\ paused \in BOOLEAN
  /\ nodes \subseteq 1 .. made /\ made \in 0 .. MaxNodes /\ subscribed \subseteq 1 .. made
  /\ commands \in Seq(Command) /\ results \in Seq(Result) /\ telemetry \in Seq(Ids)
  /\ Len(commands) <= Capacity /\ Len(results) <= Capacity /\ Len(telemetry) <= Capacity
  /\ sent \in 0 .. MaxCommands /\ calm \in 0 .. sent /\ settled \in 0 .. sent
  /\ unanswered \subseteq 1 .. sent
  /\ flushed \subseteq removed /\ removed \subseteq Ids

Init ==
  /\ phase = "idle" /\ drained = 0 /\ asker = 0 /\ untold = {} /\ unpublished = {}
  /\ stop_requested = FALSE /\ paused = FALSE
  /\ nodes = {} /\ made = 0 /\ subscribed = {}
  /\ commands = <<>> /\ results = <<>> /\ telemetry = <<>>
  /\ sent = 0 /\ calm = 0 /\ settled = 0
  /\ unanswered = {} /\ removed = {} /\ flushed = {}

-----------------------------------------------------------------------------
(* The owner. *)

Start ==
  /\ phase = "idle"
  /\ phase' = "check"
  /\ stop_requested' = FALSE /\ paused' = FALSE
  /\ calm' = 0
  /\ UNCHANGED <<drained, snapshot, unpublished, graph, queues, sent, settled, removed, flushed,
                 unanswered>>

RequestStop ==
  /\ phase # "idle"
  /\ stop_requested' = TRUE
  /\ UNCHANGED <<phase, drained, snapshot, unpublished, paused, graph, queues, client, unanswered>>

-----------------------------------------------------------------------------
(* The client. *)

Send(kind, node) ==
  /\ sent < MaxCommands /\ Len(commands) < Capacity
  /\ node \in IF kind \in OfNodes THEN 1 .. made ELSE {0}
  /\ sent' = sent + 1
  /\ commands' = Append(commands, [seq |-> sent + 1, kind |-> kind, node |-> node])
  /\ calm' = CASE kind = "PAUSE" /\ calm = 0 -> sent + 1
               [] kind = "RESUME"            -> 0
               [] OTHER                      -> calm
  /\ unanswered' = IF kind \in Answered THEN unanswered \union {sent + 1} ELSE unanswered
  /\ UNCHANGED <<loop, graph, results, telemetry, settled, removed, flushed>>

(* The last command of which nothing comes after this result. *)
Settles(result) == IF result.done THEN result.seq ELSE result.seq - 1

ReadResult ==
  /\ results # <<>>
  /\ results' = Tail(results)
  /\ settled' = Settles(Head(results))
  /\ removed' = removed \union Head(results).gone
  /\ UNCHANGED <<loop, graph, commands, telemetry, sent, calm, flushed, unanswered>>

ReadTelemetry ==
  /\ telemetry # <<>>
  /\ telemetry' = Tail(telemetry)
  /\ UNCHANGED <<loop, graph, commands, results, client, unanswered>>

FindTelemetryEmpty ==
  /\ telemetry = <<>> /\ flushed # removed
  /\ flushed' = removed
  /\ UNCHANGED <<loop, graph, queues, sent, calm, settled, removed, unanswered>>

-----------------------------------------------------------------------------
(* Commands. *)

HasRoom(queue) == Len(queue) < Capacity

(* Variant of Tell that waits for room, not part of the specification. *)
TellWaiting(result) == HasRoom(results) /\ results' = Append(results, result)

(* A result that finds the queue full is lost. *)
Tell(result) == results' = IF HasRoom(results) THEN Append(results, result) ELSE results

(* The only result of a command, or the last one. *)
Answer(seq, gone) ==
  /\ Tell([seq |-> seq, done |-> TRUE, gone |-> gone])
  /\ unanswered' = unanswered \ {seq}

(* A module that replaces another takes the nodes of its name with it, and can
   then still fail: the answer is an error then and tells nothing.  Which nodes
   bear the name is not modelled here. *)
LoadNode(command) ==
  /\ \E gone \in SUBSET nodes :
       /\ nodes' = nodes \ gone
       /\ Answer(command.seq, gone) \/ Answer(command.seq, {})
  /\ UNCHANGED <<phase, snapshot, made, subscribed, flags>>

(* A node cannot be added if there is no module of its name. *)
AddNode(command) ==
  /\ \/ /\ made < MaxNodes
        /\ made' = made + 1
        /\ nodes' = nodes \union {made + 1}
     \/ UNCHANGED <<made, nodes>>
  /\ Answer(command.seq, {})
  /\ UNCHANGED <<phase, snapshot, subscribed, flags>>

(* The answer is an error if there is no such node. *)
RemoveNode(command) ==
  /\ nodes' = nodes \ {command.node}
  /\ Answer(command.seq, nodes \intersect {command.node})
  /\ UNCHANGED <<phase, snapshot, made, subscribed, flags>>

(* The nodes and the connections are told one by one, see SendEntry. *)
RequestRuntimeNodes(command) ==
  /\ phase' = "snapshot" /\ asker' = command.seq
  /\ \E connections \in SUBSET Connections : untold' = nodes \union connections
  /\ UNCHANGED <<graph, results, unanswered, flags>>

(* The table has room for all nodes here; a full one refuses in silence. *)
Subscribe(command) ==
  /\ subscribed' = IF command.kind = "SUBSCRIBE" THEN subscribed \union {command.node}
                   ELSE subscribed \ {command.node}
  /\ UNCHANGED <<phase, snapshot, nodes, made, results, unanswered, flags>>

GlobalCommand(command) ==
  /\ stop_requested' = (stop_requested \/ command.kind = "STOP")
  /\ paused' = IF command.kind \in {"PAUSE", "RESUME"} THEN command.kind = "PAUSE" ELSE paused
  /\ UNCHANGED <<phase, snapshot, graph, results, unanswered>>

Dispatch(command) ==
  CASE command.kind = "LOAD"     -> LoadNode(command)
    [] command.kind = "ADD"      -> AddNode(command)
    [] command.kind = "REMOVE"   -> RemoveNode(command)
    [] command.kind = "SNAPSHOT" -> RequestRuntimeNodes(command)
    [] command.kind \in {"SUBSCRIBE", "UNSUBSCRIBE"} -> Subscribe(command)
    [] OTHER -> GlobalCommand(command)

-----------------------------------------------------------------------------
(* The realtime loop. *)

CheckStop ==
  /\ phase = "check"
  /\ phase' = IF stop_requested THEN "idle" ELSE "drain"
  /\ drained' = 0
  /\ UNCHANGED <<snapshot, unpublished, flags, graph, queues, client, unanswered>>

(* Variant of Drain that puts a command it has no room to answer behind the
   others instead. *)
DrainPostponing ==
  /\ phase = "drain"
  /\ drained < Budget /\ commands # <<>>
  /\ drained' = drained + 1
  /\ IF HasRoom(results)
     THEN commands' = Tail(commands) /\ Dispatch(Head(commands))
     ELSE /\ commands' = Append(Tail(commands), Head(commands))
          /\ UNCHANGED <<phase, snapshot, graph, results, unanswered, flags>>
  /\ UNCHANGED <<unpublished, telemetry, client>>

Drain ==
  /\ phase = "drain"
  /\ drained < Budget /\ commands # <<>>
  /\ drained' = drained + 1
  /\ commands' = Tail(commands)
  /\ Dispatch(Head(commands))
  /\ UNCHANGED <<unpublished, telemetry, client>>

(* One more node or connection of the snapshot; it goes on if there is no room. *)
SendEntry ==
  /\ phase = "snapshot"
  /\ \E entry \in untold : untold' = untold \ {entry}
  /\ Tell([seq |-> asker, done |-> FALSE, gone |-> {}])
  /\ UNCHANGED <<phase, drained, asker, unpublished, flags, graph, commands, telemetry, client,
                 unanswered>>

(* The mark, and on to the next command. *)
SendDone ==
  /\ phase = "snapshot" /\ untold = {}
  /\ Answer(asker, {})
  /\ phase' = "drain" /\ asker' = 0
  /\ UNCHANGED <<drained, untold, unpublished, flags, graph, commands, telemetry, client>>

(* What there is to publish: subscriptions outlive the nodes they name. *)
ShownStale == subscribed

Shown == subscribed \intersect nodes

(* Variant of LeaveDrain that steps whatever it was told. *)
LeaveDrainStepping ==
  /\ phase = "drain"
  /\ drained = Budget \/ commands = <<>>
  /\ phase' = "step"
  /\ unpublished' = Shown
  /\ UNCHANGED <<drained, snapshot, flags, graph, queues, client, unanswered>>

LeaveDrain ==
  /\ phase = "drain"
  /\ drained = Budget \/ commands = <<>>
  /\ phase' = IF paused THEN "publish" ELSE "step"
  /\ unpublished' = Shown
  /\ UNCHANGED <<drained, snapshot, flags, graph, queues, client, unanswered>>

StepRuntime ==
  /\ phase = "step"
  /\ phase' = "publish"
  /\ UNCHANGED <<drained, snapshot, unpublished, flags, graph, queues, client, unanswered>>

(* The values of one more node, which are lost if there is no room. *)
PublishValues ==
  /\ phase = "publish"
  /\ \E node \in unpublished :
       /\ unpublished' = unpublished \ {node}
       /\ telemetry' = IF HasRoom(telemetry) THEN Append(telemetry, node) ELSE telemetry
  /\ UNCHANGED <<phase, drained, snapshot, flags, graph, commands, results, client, unanswered>>

(* Reports, the sleep, the measurement. *)
FinishCycle ==
  /\ phase = "publish" /\ unpublished = {}
  /\ phase' = "check"
  /\ UNCHANGED <<drained, snapshot, unpublished, flags, graph, queues, client, unanswered>>

Loop ==
  \/ CheckStop \/ Drain \/ SendEntry \/ SendDone \/ LeaveDrain
  \/ StepRuntime \/ PublishValues \/ FinishCycle

Next ==
  \/ Start \/ RequestStop
  \/ \E kind \in Kinds, node \in 0 .. MaxNodes : Send(kind, node)
  \/ ReadResult \/ ReadTelemetry \/ FindTelemetryEmpty
  \/ Loop

(* The realtime thread is scheduled as long as it can run; neither the owner nor
   the client has to do anything. *)
Spec == Init /\ [][Next]_vars /\ WF_vars(Loop)

-----------------------------------------------------------------------------
(* Properties. *)

(* A command that is answered makes a PAUSE before it certain: who paused the
   engine and then received a result of any later command - so that nothing is to
   be awaited of the PAUSE, which is not answered itself - knows that the runtime
   is not stepped now nor will be, until RESUME is sent or the engine is started
   again. *)
PauseIsABarrier == calm > 0 /\ settled >= calm => phase # "step"

(* A client that was told of the removal of a node and then found the telemetry
   queue empty never receives values of that node again, though it may still be
   subscribed to it. *)
NoGhostValues == \A i \in 1 .. Len(telemetry) : telemetry[i] \notin flushed

(* An answer is the last word on all that was asked before: results come in the
   order of the commands, those of a snapshot together and its mark last.  Whoever
   received one knows that an older one that is missing was lost and will not come
   any more, and the mark tells the same of the entries of its snapshot. *)
AnswersAreFinal ==
  /\ \A i, j \in 1 .. Len(results) : i < j => Settles(results[i]) < results[j].seq
  /\ \A i \in 1 .. Len(results) : settled < results[i].seq
  /\ \A seq \in unanswered :
       settled < seq /\ \A i \in 1 .. Len(results) : Settles(results[i]) < seq

(* The loop gets round to every command that deserves an answer and answers it,
   or loses the answer, or ends: it waits for nobody, also not for a client that
   reads nothing. *)
RequestsAreAnswered ==
  \A seq \in 1 .. MaxCommands :
    (seq \in unanswered /\ phase # "idle") ~> (seq \notin unanswered \/ phase = "idle")

=============================================================================
