------------------------------ MODULE ResultStream ------------------------------
(***************************************************************************)
(* The answers of the engine, from the handlers of the commands to the     *)
(* client, through a queue that may be full: then an answer is lost and    *)
(* nobody waits.  Commands arrive in order (CommandChannel) and are        *)
(* numbered by the client; one handler runs at a time and the client takes *)
(* answers whenever it likes.                                              *)
(*                                                                         *)
(* From what it is told the client keeps a picture of the nodes, and a     *)
(* request for the runtime's nodes gives it a new one: a message for each  *)
(* node that comes from a loaded module, one for each connection and a     *)
(* mark at the end.  A load does to the nodes of a name what NodeRegistry  *)
(* says: all, nothing, or away with both.                                  *)
(***************************************************************************)
EXTENDS Naturals, Sequences, FiniteSets

CONSTANTS
  Names,           \* names of node descriptors
  Connections,     \* ids of connections
  ResultCapacity,  \* of the result queue
  MaxCommands,     \* bound of the model: commands sent
  MaxNodes         \* bound of the model: nodes created

ASSUME ResultAssumption ==
  /\ ResultCapacity \in Nat \ {0} /\ MaxCommands \in Nat \ {0} /\ MaxNodes \in Nat \ {0}
  /\ IsFiniteSet(Connections)

VARIABLES
  seq,          \* the number of the command that was taken last
  at,           \* "idle", or what a snapshot is sending
  todo,         \* what it has yet to go through
  ok,           \* its context.ok
  loaded,       \* the names in loaded_nodes
  nodes,        \* the nodes of the runtime
  connections,  \* the connections of the runtime
  created,      \* how many nodes there ever were
  results,      \* the result queue
  client,       \* what the client makes of the answers it has taken
  sure,         \* history: nothing changed without the client being told
  room          \* history: the queue had room for all of the last snapshot

graph    == <<loaded, nodes, connections, created>>
snapshot == <<at, todo, ok, room>>
resultsVars     == <<seq, snapshot, graph, results, client, sure>>

None == 0
Node == [id : 1 .. MaxNodes, name : Names]

(* NODE, CONNECTION and DONE answer REQUEST_RUNTIME_NODES; the client tells
   them apart by node id and status code. *)
Kinds == {"LOAD_NODE", "ADD_NODE", "REMOVE_NODE", "NODE", "CONNECTION", "DONE"}

ResultsTypeOK ==
  /\ seq \in 0 .. MaxCommands
  /\ at \in {"idle", "nodes", "connections", "done"}
  /\ todo \subseteq IF at = "nodes" THEN Node ELSE Connections
  /\ {ok, sure, room} \subseteq BOOLEAN
  /\ loaded \subseteq Names
  /\ nodes \subseteq Node
  /\ connections \subseteq Connections
  /\ created \in 0 .. MaxNodes
  /\ Len(results) <= ResultCapacity
  /\ \A i \in 1 .. Len(results) : results[i].seq \in 0 .. seq /\ results[i].kind \in Kinds
  /\ client.nodes \subseteq Node /\ client.shown \subseteq Node /\ client.of \in 0 .. seq

ResultsInit ==
  /\ seq = 0
  /\ at = "idle" /\ todo = {} /\ ok = TRUE /\ room = FALSE
  /\ loaded = {}
  /\ \/ nodes = {} /\ created = 0
     \/ \E name \in Names : nodes = {[id |-> 1, name |-> name]} /\ created = 1
  /\ connections = {}
  /\ results = <<>>
  /\ client = [nodes |-> {}, shown |-> {}, of |-> 0]
  /\ sure = TRUE

-----------------------------------------------------------------------------
(* Answers. *)

Message(number, kind, status, id, name) ==
  [seq |-> number, kind |-> kind, status |-> status, id |-> id, name |-> name]

Named(name) == {n \in nodes : n.name = name}

(* The nodes whose name the list of modules knows. *)
Known == {n \in nodes : n.name \in loaded}

HasRoom == Len(results) < ResultCapacity

(* rtsyn_spsc_result_try_push *)
PushResult(message) == results' = IF HasRoom THEN Append(results, message) ELSE results

(* A handler that answers the command it has taken. *)
Answer(kind, status, id, name) ==
  /\ seq' = seq + 1
  /\ PushResult(Message(seq + 1, kind, status, id, name))

Taking == at = "idle" /\ seq < MaxCommands

-----------------------------------------------------------------------------
(* Variants of the steps below with a plausible slip in each, none of them part
   of the specification: they show which property would notice the slip. *)

(* SendMessage whose last push decides. *)
SendMessageForgetful(message) ==
  /\ PushResult(message)
  /\ ok' = HasRoom

(* SendNode that does not skip what has no module. *)
SendNodeUnknown ==
  /\ at = "nodes"
  /\ \E n \in todo :
       /\ todo' = todo \ {n}
       /\ PushResult(Message(seq, "NODE", "OK", n.id, n.name))
       /\ ok' = (HasRoom /\ ok)
  /\ UNCHANGED <<seq, at, graph, client, sure, room>>

-----------------------------------------------------------------------------
(* Commands with one answer.  What is malformed is not answered at all. *)

(* rtsyn_engine_event_load_node, which says nothing of the nodes that went when
   the module could not be added to the list in the end. *)
LoadNode(name) ==
  /\ Taking
  /\ \/ /\ Answer("LOAD_NODE", "ERROR", None, None)
        /\ UNCHANGED <<loaded, nodes, sure>>
     \/ /\ Answer("LOAD_NODE", "ERROR", None, None)
        /\ loaded' = loaded \ {name}
        /\ nodes' = nodes \ Named(name)
        /\ sure' = (sure /\ Named(name) \intersect Known = {})
     \/ /\ Answer("LOAD_NODE", "OK", None, name)
        /\ loaded' = loaded \union {name}
        /\ nodes' = nodes \ Named(name)
        /\ sure' = (sure /\ (HasRoom \/ Named(name) \intersect Known = {}))
  /\ UNCHANGED <<snapshot, connections, created, client>>

(* The answer describes the module also if there is no node. *)
AddNode(name) ==
  /\ Taking
  /\ \/ /\ name \in loaded /\ created < MaxNodes
        /\ nodes' = nodes \union {[id |-> created + 1, name |-> name]}
        /\ created' = created + 1
        /\ Answer("ADD_NODE", "OK", created + 1, name)
        /\ sure' = (sure /\ HasRoom)
     \/ /\ Answer("ADD_NODE", "ERROR", None, IF name \in loaded THEN name ELSE None)
        /\ UNCHANGED <<nodes, created, sure>>
  /\ UNCHANGED <<snapshot, loaded, connections, client>>

RemoveNode(id) ==
  /\ Taking
  /\ LET removed == {n \in nodes : n.id = id}
     IN  /\ nodes' = nodes \ removed
         /\ Answer("REMOVE_NODE", IF removed = {} THEN "ERROR" ELSE "OK", id, None)
         /\ sure' = (sure /\ (HasRoom \/ removed \intersect Known = {}))
  /\ UNCHANGED <<snapshot, loaded, connections, created, client>>

(* Connections come and go without an answer, by commands and with the ports
   they connect; so do the parameters of a node, which do not matter here. *)
ChangeSilently ==
  /\ Taking
  /\ seq' = seq + 1
  /\ connections' \in SUBSET Connections
  /\ UNCHANGED <<snapshot, loaded, nodes, created, results, client, sure>>

-----------------------------------------------------------------------------
(* rtsyn_engine_event_request_runtime_nodes, with the client at work meanwhile. *)

RequestRuntimeNodes ==
  /\ Taking
  /\ seq' = seq + 1
  /\ at' = "nodes"
  /\ todo' = nodes
  /\ ok' = TRUE
  /\ room' = (Len(results) + Cardinality(Known) + Cardinality(connections) < ResultCapacity)
  /\ UNCHANGED <<graph, results, client, sure>>

SendMessage(message) ==
  /\ PushResult(message)
  /\ ok' = (HasRoom /\ ok)

SendNode ==
  /\ at = "nodes"
  /\ \E n \in todo :
       /\ todo' = todo \ {n}
       /\ IF n \in Known THEN SendMessage(Message(seq, "NODE", "OK", n.id, n.name))
          ELSE UNCHANGED <<results, ok>>
  /\ UNCHANGED <<seq, at, graph, client, sure, room>>

NodesSent ==
  /\ at = "nodes" /\ todo = {}
  /\ at' = "connections"
  /\ todo' = connections
  /\ UNCHANGED <<seq, ok, graph, results, client, sure, room>>

(* A connection without its ports is passed over: see ChangeSilently. *)
SendConnection ==
  /\ at = "connections"
  /\ \E c \in todo :
       /\ todo' = todo \ {c}
       /\ SendMessage(Message(seq, "CONNECTION", "OK", c, None))
  /\ UNCHANGED <<seq, at, graph, client, sure, room>>

ConnectionsSent ==
  /\ at = "connections" /\ todo = {}
  /\ at' = "done"
  /\ UNCHANGED <<seq, todo, ok, graph, results, client, sure, room>>

(* The mark at the end says OK whatever was lost; the return value tells. *)
SendDone ==
  /\ at = "done"
  /\ at' = "idle"
  /\ SendMessage(Message(seq, "DONE", "OK", None, None))
  /\ sure' = ok'
  /\ UNCHANGED <<seq, todo, graph, client, room>>

Snapshot == SendNode \/ NodesSent \/ SendConnection \/ ConnectionsSent \/ SendDone

-----------------------------------------------------------------------------
(* The client. *)

(* What it makes of one more answer. *)
Told(picture, m) ==
  LET shown == IF picture.of = m.seq THEN picture.shown ELSE {}
      node  == [id |-> m.id, name |-> m.name]
  IN  IF m.status = "ERROR" THEN picture ELSE
      CASE m.kind = "LOAD_NODE"   -> [picture EXCEPT !.nodes = {n \in @ : n.name # m.name}]
        [] m.kind = "ADD_NODE"    -> [picture EXCEPT !.nodes = @ \union {node}]
        [] m.kind = "REMOVE_NODE" -> [picture EXCEPT !.nodes = {n \in @ : n.id # m.id}]
        [] m.kind = "NODE"        -> [picture EXCEPT !.shown = shown \union {node}, !.of = m.seq]
        [] m.kind = "CONNECTION"  -> picture
        [] m.kind = "DONE"        -> [nodes |-> shown, shown |-> {}, of |-> 0]

(* And of one answer after the other. *)
Hearing(picture, answers) ==
  LET after[k \in 0 .. Len(answers)] ==
        IF k = 0 THEN picture ELSE Told(after[k - 1], answers[k])
  IN  after[Len(answers)]

Receive ==
  /\ results # <<>>
  /\ client' = Told(client, Head(results))
  /\ results' = Tail(results)
  /\ UNCHANGED <<seq, snapshot, graph, sure>>

(* The bound is reached and everything was read. *)
Done == at = "idle" /\ seq = MaxCommands /\ results = <<>> /\ UNCHANGED resultsVars

Handler ==
  \/ \E name \in Names : LoadNode(name) \/ AddNode(name)
  \/ \E id \in 1 .. MaxNodes : RemoveNode(id)
  \/ ChangeSilently \/ RequestRuntimeNodes

ResultsNext == Handler \/ Snapshot \/ Receive \/ Done

ResultsSpec == ResultsInit /\ [][ResultsNext]_resultsVars

-----------------------------------------------------------------------------
(* Properties. *)

(* A client that has read everything knows exactly the nodes there are, unless
   an answer was lost or a load failed after it had removed nodes.  A snapshot
   makes up for both if its handler returns true. *)
ViewCatchesUp ==
  sure /\ at = "idle" => Hearing(client, results).nodes = Known

(* A client that leaves room for all of a snapshot gets all of it. *)
RoomIsEnough == at = "idle" /\ room => ok

=============================================================================
