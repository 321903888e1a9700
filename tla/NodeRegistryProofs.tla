--------------------------- MODULE NodeRegistryProofs ---------------------------
(***************************************************************************)
(* Theorems about NodeRegistry for every set of names, every number of     *)
(* modules opened and of nodes created.                                    *)
(***************************************************************************)
EXTENDS NodeRegistry, TLAPS

Loading == {"opened", "checked", "swept", "withdrawn"}

(* The open modules are those of the list and the one under way. *)
Accounts ==
  /\ at \in Loading =>
       Len(image) > 0 /\ answer = "none" /\ Latest \notin loaded /\ open = loaded \union {Latest}
  /\ at \notin Loading => open = loaded
  /\ at \in {"released", "gone"} => answer = "none"

(* A node comes from the module that the list has under its name. *)
Origins ==
  at \notin {"released", "gone"} =>
    \A n \in nodes : n.from = Host \/ (n.from \in loaded /\ image[n.from].name = n.name)

Unique == \A m, k \in loaded : image[m].name = image[k].name => m = k

(* What a load under way has taken away so far. *)
Taken ==
  LET name == image[Latest].name
  IN  /\ at \in {"opened", "checked"} => nodes = before.nodes
      /\ at \in {"swept", "withdrawn"} => nodes = before.nodes \ Named(before.nodes, name)
      /\ at \in {"opened", "checked", "swept"} => loaded = before.loaded
      /\ at = "withdrawn" => loaded = before.loaded \ Entries(before.loaded, name)

Inv == Accounts /\ Origins /\ Unique /\ NodesAreCurrent /\ Taken /\ LoadIsWhole

IInv == TypeOK /\ Inv

-----------------------------------------------------------------------------

(* A new engine has no module; the host's node is the only one there may be. *)
LEMMA InitIInv == Init => IInv
BY RegistryAssumption
   DEF Init, IInv, Inv, TypeOK, Types, AnyType, Host, Modules, Node, Images, Accounts, Loading,
       Origins, Unique, NodesAreCurrent, Entries, Taken, LoadIsWhole

(* Opening a module adds to what was described and changes nothing else. *)
LEMMA OpenIInv ==
  ASSUME NEW name \in Names, NEW type \in Types PROVE IInv /\ Open(name, type) => IInv'
<1> SUFFICES ASSUME IInv, Open(name, type) PROVE IInv'
  OBVIOUS
<1> USE DEF IInv
<1>1. /\ Len(image') = Len(image) + 1 /\ Len(image) \in Nat
      /\ \A m \in Modules : image'[m] = image[m]
      /\ image' \in Seq(Images)
  BY DEF Open, TypeOK, Images, Modules
<1>2. Modules \subseteq Modules' /\ Latest' \in Modules' /\ Latest' \notin Modules
  BY <1>1 DEF Modules, Latest
<1>3. Node \subseteq Node'
  BY <1>2 DEF Node
<1>4. TypeOK'
  BY <1>1, <1>2, <1>3, RegistryAssumption DEF Open, TypeOK, Latest
<1>5. Accounts'
  BY <1>1, <1>2 DEF Open, TypeOK, Inv, Accounts, Loading, Latest
<1>6. Origins' /\ Unique' /\ NodesAreCurrent'
  <2>1. at = "idle" /\ UNCHANGED <<loaded, nodes>> /\ loaded \subseteq Modules
    BY DEF Open, TypeOK
  <2>2. Origins'
    BY <1>1, <2>1 DEF Inv, Origins
  <2>3. Unique'
    BY <1>1, <2>1 DEF Inv, Unique
  <2>4. NodesAreCurrent'
    BY <1>1, <2>1 DEF Inv, NodesAreCurrent, Entries
  <2> QED
    BY <2>2, <2>3, <2>4
<1>7. Taken' /\ LoadIsWhole'
  BY DEF Open, Taken, LoadIsWhole
<1> QED
  BY <1>4, <1>5, <1>6, <1>7 DEF Inv

(* A module that is rejected leaves the list and the runtime as they were. *)
LEMMA RejectIInv == IInv /\ Reject => IInv'
<1> SUFFICES ASSUME IInv, Reject PROVE IInv'
  OBVIOUS
<1> USE DEF IInv, Reject, Return
<1>1. TypeOK'
  BY DEF TypeOK, Modules, Node
<1>2. Accounts'
  BY DEF Inv, Accounts, Loading, Latest
<1>3. Origins' /\ Unique' /\ NodesAreCurrent'
  BY DEF Inv, Origins, Unique, NodesAreCurrent, Entries
<1>4. Taken' /\ LoadIsWhole'
  BY DEF Inv, Taken, LoadIsWhole, Entries, Latest
<1> QED
  BY <1>1, <1>2, <1>3, <1>4 DEF Inv

(* A check passed changes nothing. *)
LEMMA CheckIInv == IInv /\ Check => IInv'
BY DEF IInv, Inv, Check, Go, TypeOK, Modules, Node, Accounts, Loading, Latest, Origins, Unique,
       NodesAreCurrent, Entries, Taken, LoadIsWhole

(* The nodes of the name are gone, and no other. *)
LEMMA SweepIInv == IInv /\ Sweep => IInv'
<1> SUFFICES ASSUME IInv, Sweep PROVE IInv'
  OBVIOUS
<1> USE DEF IInv, Sweep, Go
<1>1. TypeOK'
  BY DEF TypeOK, Modules, Node
<1>2. Accounts'
  BY DEF Inv, Accounts, Loading, Latest
<1>3. Origins' /\ Unique' /\ NodesAreCurrent'
  BY DEF Inv, Origins, Unique, NodesAreCurrent, Entries
<1>4. Taken' /\ LoadIsWhole'
  BY DEF Inv, Accounts, Loading, Taken, LoadIsWhole, Entries, Latest
<1> QED
  BY <1>1, <1>2, <1>3, <1>4 DEF Inv

(* When a module is closed its nodes are gone already. *)
LEMMA WithdrawIInv == IInv /\ Withdraw => IInv'
<1> SUFFICES ASSUME IInv, Withdraw PROVE IInv'
  OBVIOUS
<1> DEFINE name == image[Latest].name
<1> USE DEF IInv
<1>1. /\ at = "swept" /\ at' = "withdrawn"
      /\ UNCHANGED <<image, wanted, nodes, created, before, answer>>
  BY DEF Withdraw, Go
<1>2. \A n \in nodes : n.name # name
  BY <1>1 DEF Inv, Taken, Named
<1>3. loaded' = loaded \ Entries(loaded, name) /\ open' = open \ Entries(loaded, name)
  <2>1. CASE Entries(loaded, name) = {} /\ UNCHANGED <<open, loaded>>
    BY <2>1
  <2>2. ASSUME NEW m \in Entries(loaded, name), loaded' = loaded \ {m}, open' = open \ {m}
        PROVE  loaded' = loaded \ Entries(loaded, name) /\ open' = open \ Entries(loaded, name)
    <3>1. Entries(loaded, name) = {m}
      BY <2>2 DEF Inv, Unique, Entries
    <3> QED
      BY <2>2, <3>1
  <2> QED
    BY <2>1, <2>2 DEF Withdraw
<1>4. TypeOK'
  BY <1>1, <1>3 DEF TypeOK, Modules, Node
<1>5. Accounts'
  BY <1>1, <1>3 DEF Inv, Accounts, Loading, Latest, Entries
<1>6. Origins'
  BY <1>1, <1>2, <1>3 DEF Inv, Origins, Entries
<1>7. Unique' /\ NodesAreCurrent'
  BY <1>1, <1>3 DEF Inv, Unique, NodesAreCurrent, Entries
<1>8. Taken' /\ LoadIsWhole'
  BY <1>1, <1>3 DEF Inv, Accounts, Loading, Taken, LoadIsWhole, Entries, Latest
<1> QED
  BY <1>4, <1>5, <1>6, <1>7, <1>8 DEF Inv

(* The new module takes a place that is free, or is closed again. *)
LEMMA RegisterIInv == IInv /\ Register => IInv'
<1> SUFFICES ASSUME IInv, Register PROVE IInv'
  OBVIOUS
<1> DEFINE name == image[Latest].name
<1> USE DEF IInv
<1>1. /\ at = "withdrawn" /\ at' = "idle"
      /\ UNCHANGED <<image, wanted, nodes, created, before>>
  BY DEF Register, Return
<1>2. \A n \in nodes : n.name # name
  BY <1>1 DEF Inv, Taken, Named
<1>3. \A m \in loaded : image[m].name # name
  BY <1>1 DEF Inv, Taken, Entries
<1>4. Latest \in Modules
  BY <1>1 DEF Inv, Accounts, Loading, TypeOK, Modules, Latest
<1>5. \/ loaded' = loaded \union {Latest} /\ open' = open /\ answer' = "descriptor"
      \/ loaded' = loaded /\ open' = open \ {Latest} /\ answer' = "nullptr"
  BY DEF Register, Return
<1>6. TypeOK'
  BY <1>1, <1>4, <1>5 DEF TypeOK, Modules, Node
<1>7. Accounts'
  BY <1>1, <1>5 DEF Inv, Accounts, Loading, Latest
<1>8. Origins'
  BY <1>1, <1>5 DEF Inv, Origins
<1>9. Unique' /\ NodesAreCurrent'
  BY <1>1, <1>2, <1>3, <1>5 DEF Inv, Unique, NodesAreCurrent, Entries
<1>10. Taken'
  BY <1>1 DEF Taken
<1>11. LoadIsWhole'
  <2>1. /\ before.loaded \ Entries(before.loaded, name) = loaded
        /\ before.nodes \ Named(before.nodes, name) = nodes
    BY <1>1 DEF Inv, Taken
  <2>2. Entries(loaded, name) = {} /\ Named(nodes, name) = {}
    BY <1>2, <1>3 DEF Entries, Named
  <2>3. Entries(loaded \union {Latest}, name) = {Latest}
    BY <1>3 DEF Entries
  <2>4. (loaded \union {Latest}) \ {Latest} = loaded
    BY <1>1 DEF Inv, Accounts, Loading
  <2> QED
    BY <1>1, <1>5, <2>1, <2>2, <2>3, <2>4 DEF LoadIsWhole, Entries, Named, Latest
<1> QED
  BY <1>6, <1>7, <1>8, <1>9, <1>10, <1>11 DEF Inv

(* A node is made from the one module of its name. *)
LEMMA AddNodeIInv ==
  ASSUME NEW name \in Names, NEW type \in Types \union {AnyType}
  PROVE  IInv /\ AddNode(name, type) => IInv'
<1> SUFFICES ASSUME IInv, AddNode(name, type) PROVE IInv'
  OBVIOUS
<1> USE DEF IInv
<1>1. PICK m \in Entries(loaded, name) :
        nodes' = nodes \union {[id |-> created + 1, name |-> name, from |-> m]}
  BY DEF AddNode
<1>2. /\ at = "idle" /\ at' = at /\ created < MaxNodes /\ created' = created + 1
      /\ answer' = "none" /\ UNCHANGED <<image, wanted, open, loaded, before>>
  BY DEF AddNode
<1>3. m \in loaded /\ image[m].name = name /\ m \in Modules
  BY DEF Entries, TypeOK
<1>4. [id |-> created + 1, name |-> name, from |-> m] \in Node
  BY <1>2, <1>3, RegistryAssumption DEF TypeOK, Node
<1>5. TypeOK'
  BY <1>1, <1>2, <1>4, RegistryAssumption DEF TypeOK, Modules, Node
<1>6. Accounts' /\ Unique' /\ Taken' /\ LoadIsWhole'
  BY <1>2 DEF Inv, Accounts, Loading, Unique, Taken, LoadIsWhole
<1>7. Origins'
  BY <1>1, <1>2, <1>3 DEF Inv, Origins
<1>8. NodesAreCurrent'
  BY <1>1, <1>2, <1>3 DEF Inv, NodesAreCurrent, Unique, Entries
<1> QED
  BY <1>5, <1>6, <1>7, <1>8 DEF Inv

(* Steps that only take away. *)
LEMMA OtherStepsIInv == IInv /\ (RemoveNode \/ Destroy \/ DestroyRuntime \/ UNCHANGED vars) => IInv'
<1>1. IInv /\ RemoveNode => IInv'
  BY DEF IInv, Inv, RemoveNode, TypeOK, Modules, Node, Accounts, Loading, Origins, Unique,
         NodesAreCurrent, Entries, Taken, LoadIsWhole
<1>2. IInv /\ Destroy => IInv'
  BY DEF IInv, Inv, Destroy, Go, TypeOK, Modules, Node, Accounts, Loading, Origins, Unique,
         NodesAreCurrent, Entries, Taken, LoadIsWhole
<1>3. ASSUME IInv, DestroyRuntime PROVE IInv'
  <2>1. TypeOK' /\ Accounts' /\ Origins' /\ Unique' /\ NodesAreCurrent' /\ Taken'
    BY <1>3 DEF IInv, Inv, DestroyRuntime, Go, TypeOK, Modules, Node, Accounts, Loading, Origins,
                Unique, NodesAreCurrent, Taken
  <2>2. LoadIsWhole'
    BY <1>3 DEF IInv, Inv, Accounts, DestroyRuntime, Go, LoadIsWhole
  <2> QED
    BY <2>1, <2>2 DEF IInv, Inv
<1>4. IInv /\ UNCHANGED vars => IInv'
  BY DEF IInv, Inv, vars, TypeOK, Modules, Node, Accounts, Loading, Latest, Origins, Unique,
         NodesAreCurrent, Entries, Taken, LoadIsWhole
<1> QED
  BY <1>1, <1>2, <1>3, <1>4

-----------------------------------------------------------------------------
(* Theorems. *)

(* List, runtime and open modules agree at every point of every call. *)
THEOREM RegistryInvariant == Spec => []IInv
<1>1. IInv /\ [Next]_vars => IInv'
  BY OpenIInv, RejectIInv, CheckIInv, SweepIInv, WithdrawIInv, RegisterIInv, AddNodeIInv,
     OtherStepsIInv DEF Next, Load, Done
<1> QED
  BY <1>1, InitIInv, PTL DEF Spec

(* Every variable keeps its type. *)
THEOREM TypeCorrect == Spec => []TypeOK
<1>1. IInv => TypeOK
  BY DEF IInv
<1> QED
  BY <1>1, RegistryInvariant, PTL

(* The code of a node is there as long as the engine is, and what a snapshot says
   of the node is said by the module it was made from. *)
THEOREM NodesHaveTheirCode == Spec => []NodesHaveTheirModule
<1>1. IInv => NodesAreMapped
  BY DEF IInv, Inv, Accounts, Origins, NodesAreMapped
<1>2. IInv => NodesHaveTheirModule
  BY <1>1 DEF IInv, Inv, NodesHaveTheirModule
<1> QED
  BY <1>2, RegistryInvariant, PTL

(* No path through a load leaks a module or closes one in use. *)
THEOREM ModulesAreAccountedFor == Spec => []NothingLeaks
<1>1. IInv => NothingLeaks
  BY DEF IInv, Inv, Accounts, Loading, NothingLeaks
<1> QED
  BY <1>1, RegistryInvariant, PTL

(* A load concerns one name, of which it leaves all or nothing. *)
THEOREM LoadsAreWhole == Spec => []LoadIsWhole
<1>1. IInv => LoadIsWhole
  BY DEF IInv, Inv
<1> QED
  BY <1>1, RegistryInvariant, PTL

=============================================================================
