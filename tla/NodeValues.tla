------------------------------- MODULE NodeValues -------------------------------
(***************************************************************************)
(* Values on their way through the engine: a client sets parameters of     *)
(* nodes and sees values of nodes in the telemetry.  A SET_PARAM command   *)
(* says which type its value has, but the runtime is handed no more than a *)
(* pointer, and reads what its parameter has there.  All that keeps the    *)
(* two together is that the client goes by the descriptor it was sent with *)
(* the node, in an ADD_NODE result or in a snapshot.                       *)
(*                                                                         *)
(* There is one module, loaded from the start; loading it again replaces   *)
(* it and removes its nodes (NodeRegistry).  Nodes and values of the       *)
(* runtime are external: it keeps an I64 as the int it is handed, gives    *)
(* back a string as far as the buffer for it goes, has every node show its *)
(* parameters as state variables, and does not use an id twice.  A string  *)
(* is modelled by its length, a number by itself; WORD stands for F32, F64 *)
(* and U64, whose bits are handed on as they are.                          *)
(***************************************************************************)
EXTENDS Integers, Sequences, FiniteSetsExt

CONSTANTS
  Magnitudes,  \* of the numbers a client sends; also the lengths of strings
  Half,        \* an int holds -Half .. Half - 1
  ParamSize,   \* RTSYN_SPSC_COMMAND_PARAM_STRING_MAX_SIZE
  PortSize,    \* RTSYN_PORT_VALUE_STRING_MAX_SIZE, which is the runtime's
  SampleSize,  \* RTSYN_SPSC_TELEMETRY_VALUE_STRING_MAX_SIZE
  Params,      \* how many parameters the modules describe
  Capacity,    \* RTSYN_SPSC_RESULT_PARAM_CAPACITY
  MaxNodes     \* bound of the model: nodes created

ASSUME ValueAssumption ==
  /\ Magnitudes \subseteq Nat /\ Half \in Nat \ {0}
  /\ {ParamSize, PortSize, SampleSize, Params, Capacity} \subseteq Nat \ {0} /\ MaxNodes \in Nat

VARIABLES
  described,  \* the types of the parameters in the descriptor of the loaded module
  nodes,      \* the nodes of the runtime: the types and the values of their parameters
  created,    \* how many nodes there ever were
  known,      \* per node ever created, what the client was sent of its descriptor
  command,    \* the SET_PARAM in the command queue, if there is one
  asked,      \* history: what the client last asked a parameter of a node to be
  misread,    \* history: a parameter was read as a type it was not written as
  seen        \* the last sample, and what had been asked for when it was taken

valuesVars == <<described, nodes, created, known, command, asked, misread, seen>>

Numbers      == Magnitudes \union {-n : n \in Magnitudes}
Types        == {"WORD", "I64", "STRING"}
Descriptions == [1 .. Params -> Types]
Default      == 0  \* what a parameter is before it is set
Nothing      == [id |-> 0]

ValuesInit ==
  /\ described \in Descriptions
  /\ nodes = <<>> /\ created = 0
  /\ known = <<>>
  /\ command = Nothing
  /\ asked = <<>>
  /\ misread = FALSE
  /\ seen = Nothing

-----------------------------------------------------------------------------
(* Conversions. *)

(* strncpy into a buffer of this size, and the byte that ends it. *)
Cut(length, size) == Min({length, size - 1})

(* Variant of ToInt that takes the number for unsigned. *)
ToIntUnsigned(n) == n % (2 * Half)

(* (int)value.i64 *)
ToInt(n) == ((n + Half) % (2 * Half)) - Half

(* What rtsyn_runtime_set_node_param is handed. *)
Handed(type, n) ==
  CASE type = "WORD"   -> n
    [] type = "I64"    -> ToInt(n)
    [] type = "STRING" -> Cut(n, ParamSize)

(* rtsyn_engine_event_sample_value: rtsyn_value_get into a buffer of the port's
   size, and from there into the sample. *)
Sampled(type, n) == IF type = "STRING" THEN Cut(Cut(n, PortSize), SampleSize) ELSE n

(* rtsyn_engine_result_copy_descriptor: the types of the parameters there is
   room for, though the count next to them is that of all. *)
Copied(types) == SubSeq(types, 1, Min({Params, Capacity}))

-----------------------------------------------------------------------------
(* The graph, see NodeRegistry and ResultStream. *)

(* Variant of LoadNode that lets the nodes of the old module live. *)
LoadNodeKeeping ==
  /\ described' \in Descriptions
  /\ UNCHANGED <<nodes, created, known, command, asked, misread, seen>>

(* By command, or by the owner while the engine is not running. *)
LoadNode ==
  /\ described' \in Descriptions
  /\ nodes' = <<>>
  /\ UNCHANGED <<created, known, command, asked, misread, seen>>

(* The result may be lost: the client then knows nothing of the node. *)
AddNode ==
  /\ created < MaxNodes
  /\ LET id == created + 1
         fresh == [types |-> described, values |-> [p \in 1 .. Params |-> Default]]
     IN  /\ created' = id
         /\ nodes' = [i \in DOMAIN nodes \union {id} |-> IF i = id THEN fresh ELSE nodes[i]]
         /\ known' \in {Append(known, Copied(described)), Append(known, <<>>)}
         /\ asked' = Append(asked, fresh.values)
  /\ UNCHANGED <<described, command, misread, seen>>

(* A snapshot takes the descriptor from the module of the node's name. *)
SendNode ==
  /\ \E id \in DOMAIN nodes : known' = [known EXCEPT ![id] = Copied(described)]
  /\ UNCHANGED <<described, nodes, created, command, asked, misread, seen>>

-----------------------------------------------------------------------------
(* Values. *)

(* The client may go by what it was told long ago. *)
Send ==
  /\ command = Nothing
  /\ \E id \in 1 .. created : \E p \in DOMAIN known[id], n \in Numbers :
       LET type == known[id][p]
       IN  /\ type = "STRING" => n >= 0
           /\ command' = [id |-> id, param |-> p, type |-> type, number |-> n]
  /\ UNCHANGED <<described, nodes, created, known, asked, misread, seen>>

(* rtsyn_engine_event_set_param: false if there is no such node. *)
SetParam ==
  /\ command # Nothing
  /\ command' = Nothing
  /\ IF command.id \in DOMAIN nodes
     THEN /\ nodes' = [nodes EXCEPT ![command.id].values[command.param] =
                         Handed(command.type, command.number)]
          /\ asked' = [asked EXCEPT ![command.id][command.param] = command.number]
          /\ misread' = (misread \/ nodes[command.id].types[command.param] # command.type)
     ELSE UNCHANGED <<nodes, asked, misread>>
  /\ UNCHANGED <<described, created, known, seen>>

(* A subscription makes the engine sample a parameter the node shows. *)
Publish ==
  /\ \E id \in DOMAIN nodes, p \in 1 .. Params :
       LET type == nodes[id].types[p]
       IN  seen' = [id |-> id, type |-> type, asked |-> asked[id][p],
                    number |-> Sampled(type, nodes[id].values[p])]
  /\ UNCHANGED <<described, nodes, created, known, command, asked, misread>>

ValuesNext == LoadNode \/ AddNode \/ SendNode \/ Send \/ SetParam \/ Publish

ValuesSpec == ValuesInit /\ [][ValuesNext]_valuesVars

-----------------------------------------------------------------------------
(* Properties. *)

(* A client that goes by the descriptors it was sent, however old, never has
   the bytes of one type read as another.  Nothing checks it: it takes that a
   node never outlives the descriptor, that snapshots send the descriptor of the
   module the node was made from, and that parameters past the room of a result
   are left alone by those who were not told of their type. *)
NothingIsMisread == ~misread

(* What was asked for is what is seen, if it fits all the way.  Otherwise it is
   seen modulo the width of an int, or cut to the shortest of the three buffers
   a string goes through; the client is not told. *)
WhatIsAskedIsSeen ==
  seen # Nothing =>
    CASE seen.type = "WORD"   -> seen.number = seen.asked
      [] seen.type = "I64"    ->
           /\ seen.number \in -Half .. Half - 1
           /\ (seen.number - seen.asked) % (2 * Half) = 0
      [] seen.type = "STRING" ->
           seen.number = Min({seen.asked, ParamSize - 1, PortSize - 1, SampleSize - 1})

=============================================================================
