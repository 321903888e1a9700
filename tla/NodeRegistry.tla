------------------------------ MODULE NodeRegistry ------------------------------
(***************************************************************************)
(* The modules an engine has loaded, and the nodes of the runtime that were *)
(* made from them.  A module is a shared object that describes one kind of *)
(* node; loading a module whose name is known replaces the module and      *)
(* removes the nodes of that name.  The code of a node lives in its module *)
(* and is gone when the module is closed.                                  *)
(*                                                                         *)
(* One call at a time is under way: the caller is the realtime thread, or  *)
(* the owner of an engine that is not running.  The steps of a load that   *)
(* can fail, or that touch the runtime and the list one after the other,   *)
(* are steps here.  The host may have put a node of its own into the       *)
(* runtime before it created the engine.                                   *)
(***************************************************************************)
EXTENDS Naturals, Sequences

CONSTANTS
  Names,     \* names of node descriptors
  MaxLoads,  \* bound of the model: modules opened
  MaxNodes   \* bound of the model: nodes created

ASSUME RegistryAssumption == MaxLoads \in Nat \ {0} /\ MaxNodes \in Nat \ {0}

VARIABLES
  at,       \* what the call that is under way does next
  image,    \* image[m] is what the m-th module that was opened describes
  wanted,   \* the type of node the module under way has to describe
  open,     \* the modules that are open
  loaded,   \* loaded_nodes: the modules in the list
  nodes,    \* the nodes of the runtime
  created,  \* how many nodes there ever were
  before,   \* history: the list and the runtime when the last load began
  answer    \* history: what the last call returned, if it was a load

vars == <<at, image, wanted, open, loaded, nodes, created, before, answer>>

Types   == {"PLUGIN", "DEVICE"}
AnyType == "INVALID"  \* rtsyn_engine_load_node asks for no type
Host    == 0          \* where the host's node comes from
Nothing == MaxLoads + 1

Modules == 1 .. Len(image)
Latest  == Len(image)  \* the module under way

Images == [name : Names, type : Types]
Node   == [id : 1 .. MaxNodes, name : Names, from : {Host} \union Modules]

TypeOK ==
  /\ at \in {"idle", "opened", "checked", "swept", "withdrawn", "released", "gone"}
  /\ image \in Seq(Images) /\ Len(image) <= MaxLoads
  /\ wanted \in Types \union {AnyType}
  /\ open \subseteq Modules /\ loaded \subseteq Modules
  /\ nodes \subseteq Node
  /\ created \in 0 .. MaxNodes
  /\ before \in [loaded : SUBSET Modules, nodes : SUBSET Node]
  /\ answer \in {"none", "descriptor", "nullptr"}

(* rtsyn_collection_get: what the list has under a name. *)
Entries(list, name) == {m \in list : image[m].name = name}

Named(set, name) == {n \in set : n.name = name}

Init ==
  /\ at = "idle"
  /\ image = <<>>
  /\ wanted = AnyType
  /\ open = {} /\ loaded = {}
  /\ \/ nodes = {} /\ created = 0
     \/ \E name \in Names : nodes = {[id |-> 1, name |-> name, from |-> Host]} /\ created = 1
  /\ before = [loaded |-> {}, nodes |-> {}]
  /\ answer = "none"

-----------------------------------------------------------------------------
(* Parts of a load. *)

Go(here, there) == at = here /\ at' = there

Return(value) == at' = "idle" /\ answer' = value

-----------------------------------------------------------------------------
(* Variants of the steps below with a plausible slip in each, none of them
   part of the specification: they show which property would notice the slip. *)

(* Reject after the nodes are gone. *)
RejectLate ==
  /\ at \in {"opened", "swept"}
  /\ open' = open \ {Latest}
  /\ Return("nullptr")
  /\ UNCHANGED <<image, wanted, loaded, nodes, created, before>>

(* Sweep that thinks of its own modules only. *)
SweepKnown ==
  /\ Go("checked", "swept")
  /\ nodes' = IF Entries(loaded, image[Latest].name) = {} THEN nodes
              ELSE nodes \ Named(nodes, image[Latest].name)
  /\ UNCHANGED <<image, wanted, open, loaded, created, before, answer>>

(* Register that forgets the module it could not add. *)
RegisterLeaking ==
  /\ at = "withdrawn"
  /\ \/ loaded' = loaded \union {Latest} /\ Return("descriptor")
     \/ Return("nullptr") /\ UNCHANGED loaded
  /\ UNCHANGED <<image, wanted, open, nodes, created, before>>

-----------------------------------------------------------------------------
(* rtsyn_engine_load_node_descriptor_as.  A file that cannot be opened changes
   nothing and is no step. *)

Open(name, type) ==
  /\ at = "idle" /\ Len(image) < MaxLoads
  /\ at' = "opened"
  /\ image' = Append(image, [name |-> name, type |-> type])
  /\ wanted' \in Types \union {AnyType}
  /\ open' = open \union {Len(image) + 1}
  /\ before' = [loaded |-> loaded, nodes |-> nodes]
  /\ answer' = "none"
  /\ UNCHANGED <<loaded, nodes, created>>

(* The module has no descriptor or no name, or memory is short, which may be
   the case of any module; or it describes the wrong type. *)
Reject ==
  /\ at = "opened"
  /\ open' = open \ {Latest}
  /\ Return("nullptr")
  /\ UNCHANGED <<image, wanted, loaded, nodes, created, before>>

Check ==
  /\ Go("opened", "checked")
  /\ wanted \in {AnyType, image[Latest].type}
  /\ UNCHANGED <<image, wanted, open, loaded, nodes, created, before, answer>>

(* rtsyn_runtime_remove_nodes_by_name *)
Sweep ==
  /\ Go("checked", "swept")
  /\ nodes' = nodes \ Named(nodes, image[Latest].name)
  /\ UNCHANGED <<image, wanted, open, loaded, created, before, answer>>

(* rtsyn_collection_remove destroys the entry it takes from the list, and that
   closes its module. *)
Withdraw ==
  /\ Go("swept", "withdrawn")
  /\ LET known == Entries(loaded, image[Latest].name)
     IN  \/ /\ known = {}
            /\ UNCHANGED <<open, loaded>>
         \/ \E m \in known : loaded' = loaded \ {m} /\ open' = open \ {m}
  /\ UNCHANGED <<image, wanted, nodes, created, before, answer>>

(* rtsyn_collection_add may fail; the old module is gone by then. *)
Register ==
  /\ at = "withdrawn"
  /\ \/ /\ loaded' = loaded \union {Latest}
        /\ Return("descriptor")
        /\ UNCHANGED open
     \/ /\ open' = open \ {Latest}
        /\ Return("nullptr")
        /\ UNCHANGED loaded
  /\ UNCHANGED <<image, wanted, nodes, created, before>>

-----------------------------------------------------------------------------
(* Nodes, and the end. *)

(* rtsyn_engine_add_node and, if a type is asked for, rtsyn_engine_add_node_as.
   A node that cannot be created or added changes nothing and is no step. *)
AddNode(name, type) ==
  /\ at = "idle" /\ created < MaxNodes
  /\ \E m \in Entries(loaded, name) :
       /\ type \in {AnyType, image[m].type}
       /\ nodes' = nodes \union {[id |-> created + 1, name |-> name, from |-> m]}
  /\ created' = created + 1
  /\ answer' = "none"
  /\ UNCHANGED <<at, image, wanted, open, loaded, before>>

RemoveNode ==
  /\ at = "idle"
  /\ \E n \in nodes : nodes' = nodes \ {n}
  /\ answer' = "none"
  /\ UNCHANGED <<at, image, wanted, open, loaded, created, before>>

(* rtsyn_engine_destroy destroys the list and with it every entry. *)
Destroy ==
  /\ Go("idle", "released")
  /\ open' = open \ loaded
  /\ loaded' = {}
  /\ answer' = "none"
  /\ UNCHANGED <<image, wanted, nodes, created, before>>

(* The owner releases the runtime after the engine. *)
DestroyRuntime ==
  /\ Go("released", "gone")
  /\ nodes' = {}
  /\ UNCHANGED <<image, wanted, open, loaded, created, before, answer>>

Done == at = "gone" /\ UNCHANGED vars

Load ==
  \/ \E name \in Names, type \in Types : Open(name, type)
  \/ Reject \/ Check \/ Sweep \/ Withdraw \/ Register

Next ==
  \/ Load
  \/ \E name \in Names, type \in Types \union {AnyType} : AddNode(name, type)
  \/ RemoveNode \/ Destroy \/ DestroyRuntime \/ Done

Spec == Init /\ [][Next]_vars

-----------------------------------------------------------------------------
(* Properties. *)

(* As long as there is an engine, the code of every node is there: in the middle
   of a replacement too, no node outlives its module.  (A node that is left in
   the runtime when the engine is destroyed does.) *)
NodesAreMapped ==
  at \notin {"released", "gone"} =>
    \A n \in nodes : n.from = Host \/ n.from \in open

(* Between calls the open modules are those of the list: no path through a load
   forgets to close a module or closes one that is in use, and none is left
   when the engine is gone. *)
NothingLeaks == at \in {"idle", "released", "gone"} => open = loaded

(* A snapshot of the runtime describes a node by what the list has under its
   name: that is the module the node was made from, never another version of it
   or a module that happens to have the name of a node of the host. *)
NodesAreCurrent ==
  \A n \in nodes : \A m \in Entries(loaded, n.name) : n.from = m

(* Every node has the code it was made from and is described by it. *)
NodesHaveTheirModule == NodesAreMapped /\ NodesAreCurrent

(* A load leaves other names alone.  If it succeeds its module is the one under
   its name; if it fails, either nothing has changed or nothing of the name is
   left, no module without its nodes and no nodes without their module. *)
LoadIsWhole ==
  answer # "none" =>
    LET name == image[Latest].name
        rest(list, set) == <<list \ Entries(list, name), set \ Named(set, name)>>
        here(list, set) == <<Entries(list, name), Named(set, name)>>
        now == here(loaded, nodes)
    IN  /\ rest(loaded, nodes) = rest(before.loaded, before.nodes)
        /\ answer = "descriptor" => now = <<{Latest}, {}>>
        /\ answer = "nullptr" => now \in {here(before.loaded, before.nodes), <<{}, {}>>}

=============================================================================
