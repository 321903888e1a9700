------------------------ MODULE SubscriptionTableProofs ------------------------
(***************************************************************************)
(* Theorems about SubscriptionTable for every set of nodes and ids and any *)
(* number of slots: no slot is wasted, a cycle publishes what is wanted,   *)
(* and the table implements the map of SubscriptionMap.                    *)
(***************************************************************************)
EXTENDS SubscriptionTable, FiniteSetTheorems, FunctionTheorems, SequenceTheorems,
        WellFoundedInduction, TLAPS

(* A slot in use is that of a node. *)
SlotsHaveNodes == \A i \in Indices : slots[i].used => slots[i].node \in Nodes

IInv == TypeOK /\ SlotsHaveNodes /\ SlotsAreNotWasted

-----------------------------------------------------------------------------
(* Looking up slots. *)

(* A set of indices that is not empty has a first element: among the intervals
   from 1 to its elements there is one that contains no other. *)
LEMMA FirstIsInSet ==
  ASSUME NEW S \in SUBSET Indices, S # {} PROVE FirstOf(S) \in S
<1> DEFINE upto(i) == 1 .. i
           T == {upto(i) : i \in S}
<1>1. IsFiniteSet(Indices) /\ Indices \subseteq Nat
  BY SubscriptionAssumption, FS_Interval DEF Indices
<1>2. IsWellFoundedOn(StrictSubsetOrdering(Indices), SUBSET Indices)
  BY <1>1, FS_StrictSubsetOrderingWellFounded, FS_FiniteSubsetsOfFinite
<1>3. T \subseteq SUBSET Indices /\ T # {}
  <2>1. ASSUME NEW i \in S PROVE upto(i) \subseteq Indices
    BY SubscriptionAssumption DEF Indices
  <2> HIDE DEF upto
  <2> QED
    BY <2>1
<1>4. PICK t \in T : \A u \in T : <<u, t>> \notin StrictSubsetOrdering(Indices)
  <2> HIDE DEF T
  <2> QED BY <1>2, <1>3, WFMin
<1>5. PICK i \in S : t = upto(i)
  BY <1>4
<1>6. ASSUME NEW j \in S PROVE i <= j
  <2>1. SUFFICES ASSUME j < i PROVE FALSE
    BY <1>1
  <2>2. upto(j) \in T /\ upto(j) \subseteq upto(i) /\ i \in upto(i) /\ i \notin upto(j)
    BY <1>1, <2>1, SubscriptionAssumption DEF Indices
  <2>3. <<upto(j), t>> \in StrictSubsetOrdering(Indices)
    BY <1>3, <1>4, <1>5, <2>2 DEF StrictSubsetOrdering
  <2> QED
    BY <1>4, <2>2, <2>3
<1> QED
  BY <1>6 DEF FirstOf

LEMMA NoSlotIsZero == 0 \notin Indices
BY SubscriptionAssumption DEF Indices

LEMMA FindFinds ==
  ASSUME NEW n
  PROVE  /\ Find(n) # 0 => /\ Find(n) \in Indices
                           /\ slots[Find(n)].used /\ slots[Find(n)].node = n
         /\ Find(n) = 0 => \A i \in Indices : ~(slots[i].used /\ slots[i].node = n)
<1> DEFINE S == {i \in Indices : slots[i].used /\ slots[i].node = n}
<1>1. CASE S = {}
  BY <1>1, NoSlotIsZero DEF Find, FirstOf
<1>2. CASE S # {}
  <2>1. FirstOf(S) \in S
    BY <1>2, FirstIsInSet
  <2> QED
    BY <2>1, NoSlotIsZero DEF Find
<1> QED
  BY <1>1, <1>2

LEMMA FirstFreeIsFree ==
  /\ FirstFree # 0 => FirstFree \in Indices /\ ~slots[FirstFree].used
  /\ FirstFree = 0 => \A i \in Indices : slots[i].used
<1> DEFINE S == {i \in Indices : ~slots[i].used}
<1>1. CASE S = {}
  BY <1>1, NoSlotIsZero DEF FirstFree, FirstOf
<1>2. CASE S # {}
  <2>1. FirstOf(S) \in S
    BY <1>2, FirstIsInSet
  <2> QED
    BY <2>1, NoSlotIsZero DEF FirstFree
<1> QED
  BY <1>1, <1>2

-----------------------------------------------------------------------------
(* What a request does to the table. *)

Changed(mask, ids, send) == IF send THEN mask \union ids ELSE mask \ ids

LEMMA WithIs ==
  ASSUME NEW slot \in Slot, NEW field \in {"ports", "states"},
         NEW ids \in SUBSET Ids, NEW send \in BOOLEAN
  PROVE  LET new == With(slot, field, ids, send)
         IN  /\ new \in Slot /\ new.used = slot.used /\ new.node = slot.node
             /\ new.ports = IF field = "ports" THEN Changed(slot.ports, ids, send) ELSE slot.ports
             /\ new.states = IF field = "states" THEN Changed(slot.states, ids, send)
                             ELSE slot.states
<1>1. CASE field = "ports"
  BY <1>1 DEF With, Changed, Slot
<1>2. CASE field = "states"
  BY <1>2 DEF With, Changed, Slot
<1> QED
  BY <1>1, <1>2

(* Slot i, the only one that node n has or will have, gets the new content. *)
Rewrites(i, new, n, ids, field, send) ==
  /\ new \in Slot
  /\ new.used => new.node = n /\ (new.ports # {} \/ new.states # {})
  /\ ~new.used => new = Cleared
  /\ slots[i].used => slots[i].node = n
  /\ \A j \in Indices \ {i} : ~(slots[j].used /\ slots[j].node = n)
  /\ new.ports = IF field = "ports" THEN Changed(slots[i].ports, ids, send) ELSE slots[i].ports
  /\ new.states = IF field = "states" THEN Changed(slots[i].states, ids, send)
                  ELSE slots[i].states
  /\ slots' = [slots EXCEPT ![i] = new]

LEMMA AskRewrites ==
  ASSUME IInv, NEW n \in Nodes, NEW ids \in SUBSET Ids, ids # {},
         NEW field \in {"ports", "states"}, Ask(n, ids, field)
  PROVE  \/ answer' = "full" /\ slots' = slots /\ \A i \in Indices : slots[i].used
         \/ /\ answer' = "accepted"
            /\ \E i \in Indices, new \in Slot : Rewrites(i, new, n, ids, field, TRUE)
<1> USE DEF IInv, TypeOK, SlotsAreNotWasted
<1>1. CASE Find(n) # 0
  <2> DEFINE i == Find(n)
             new == With(slots[i], field, ids, TRUE)
  <2>1. i \in Indices /\ slots[i].used /\ slots[i].node = n /\ slots[i] \in Slot
    BY <1>1, FindFinds
  <2>2. answer' = "accepted" /\ slots' = [slots EXCEPT ![i] = new]
    BY <1>1 DEF Ask, GetOrCreate
  <2> HIDE DEF i
  <2>3. /\ new \in Slot /\ new.used /\ new.node = n
        /\ new.ports = IF field = "ports" THEN Changed(slots[i].ports, ids, TRUE)
                       ELSE slots[i].ports
        /\ new.states = IF field = "states" THEN Changed(slots[i].states, ids, TRUE)
                        ELSE slots[i].states
    BY <2>1, WithIs
  <2> HIDE DEF new
  <2>4. new.ports # {} \/ new.states # {}
    BY <2>3 DEF Changed
  <2>5. Rewrites(i, new, n, ids, field, TRUE)
    BY <2>1, <2>2, <2>3, <2>4 DEF Rewrites, OneSlotPerNode
  <2> QED
    BY <2>1, <2>2, <2>3, <2>5
<1>2. CASE Find(n) = 0 /\ FirstFree = 0
  BY <1>2, FirstFreeIsFree DEF Ask, GetOrCreate
<1>3. CASE Find(n) = 0 /\ FirstFree # 0
  <2> DEFINE i == FirstFree
             new == With(Created(n), field, ids, TRUE)
  <2>1. i \in Indices /\ slots[i] = Cleared
    BY <1>3, FirstFreeIsFree
  <2>2. answer' = "accepted" /\ slots' = [slots EXCEPT ![i] = new]
    BY <1>3 DEF Ask, GetOrCreate
  <2>3. \A j \in Indices : ~(slots[j].used /\ slots[j].node = n)
    BY <1>3, FindFinds
  <2> HIDE DEF i
  <2>4. Created(n) \in Slot
    BY DEF Created, Slot
  <2>5. /\ new \in Slot /\ new.used = Created(n).used /\ new.node = Created(n).node
        /\ new.ports = IF field = "ports" THEN Changed(Created(n).ports, ids, TRUE)
                       ELSE Created(n).ports
        /\ new.states = IF field = "states" THEN Changed(Created(n).states, ids, TRUE)
                        ELSE Created(n).states
    BY <2>4, WithIs
  <2> HIDE DEF new
  <2>6. /\ new \in Slot /\ new.used /\ new.node = n
        /\ new.ports = IF field = "ports" THEN Changed({}, ids, TRUE) ELSE {}
        /\ new.states = IF field = "states" THEN Changed({}, ids, TRUE) ELSE {}
    BY <2>5 DEF Created
  <2>7. new.ports # {} \/ new.states # {}
    BY <2>6 DEF Changed
  <2>8. ~slots[i].used /\ slots[i].ports = {} /\ slots[i].states = {}
    BY <2>1 DEF Cleared
  <2>9. Rewrites(i, new, n, ids, field, TRUE)
    BY <2>2, <2>3, <2>6, <2>7, <2>8 DEF Rewrites
  <2> QED
    BY <2>1, <2>2, <2>6, <2>9
<1> QED
  BY <1>1, <1>2, <1>3

LEMMA GiveUpRewrites ==
  ASSUME IInv, NEW n \in Nodes, NEW ids \in SUBSET Ids,
         NEW field \in {"ports", "states"}, GiveUp(n, ids, field)
  PROVE  /\ answer' = "accepted"
         /\ \/ /\ slots' = slots
               /\ \A i \in Indices : ~(slots[i].used /\ slots[i].node = n)
            \/ \E i \in Indices, new \in Slot : Rewrites(i, new, n, ids, field, FALSE)
<1> USE DEF IInv, TypeOK, SlotsAreNotWasted
<1>1. CASE Find(n) = 0
  BY <1>1, FindFinds DEF GiveUp
<1>2. CASE Find(n) # 0
  <2> DEFINE i == Find(n)
             slot == With(slots[i], field, ids, FALSE)
             new == CleanUp(slot)
  <2>1. i \in Indices /\ slots[i].used /\ slots[i].node = n /\ slots[i] \in Slot
    BY <1>2, FindFinds
  <2>2. answer' = "accepted" /\ slots' = [slots EXCEPT ![i] = new]
    BY <1>2 DEF GiveUp
  <2> HIDE DEF i
  <2>3. /\ slot \in Slot /\ slot.used /\ slot.node = n
        /\ slot.ports = IF field = "ports" THEN Changed(slots[i].ports, ids, FALSE)
                        ELSE slots[i].ports
        /\ slot.states = IF field = "states" THEN Changed(slots[i].states, ids, FALSE)
                         ELSE slots[i].states
    BY <2>1, WithIs
  <2> HIDE DEF slot
  <2>4. Cleared \in Slot /\ ~Cleared.used /\ Cleared.ports = {} /\ Cleared.states = {}
    BY SubscriptionAssumption DEF Cleared, Slot
  <2>5. /\ new \in Slot /\ new.ports = slot.ports /\ new.states = slot.states
        /\ new.used => new.node = n /\ (new.ports # {} \/ new.states # {})
        /\ ~new.used => new = Cleared
    BY <2>3, <2>4 DEF CleanUp
  <2> HIDE DEF new
  <2>6. Rewrites(i, new, n, ids, field, FALSE)
    BY <2>1, <2>2, <2>3, <2>5 DEF Rewrites, OneSlotPerNode
  <2> QED
    BY <2>1, <2>2, <2>5, <2>6
<1> QED
  BY <1>1, <1>2

(* The four things a request can come to. *)
LEMMA RequestOutcomes ==
  ASSUME IInv, NEW n \in Nodes \union {NoNode}, NEW ids \in SUBSET Ids,
         NEW field \in {"ports", "states"}, NEW send \in BOOLEAN, Request(n, ids, field, send)
  PROVE  /\ present' = present
         /\ \/ answer' = "malformed" /\ slots' = slots
            \/ /\ answer' = "full" /\ slots' = slots
               /\ \A i \in Indices : slots[i].used
            \/ /\ answer' = "accepted" /\ n \in Nodes /\ ids # {} /\ ~send /\ slots' = slots
               /\ \A i \in Indices : ~(slots[i].used /\ slots[i].node = n)
            \/ /\ answer' = "accepted" /\ n \in Nodes /\ ids # {}
               /\ \E i \in Indices, new \in Slot : Rewrites(i, new, n, ids, field, send)
<1>1. present' = present
  BY DEF Request
<1>2. CASE Malformed(n, ids)
  BY <1>1, <1>2 DEF Request
<1>3. CASE ~Malformed(n, ids) /\ send
  <2>1. n \in Nodes /\ ids # {} /\ send = TRUE /\ Ask(n, ids, field)
    BY <1>3 DEF Request, Malformed
  <2> QED
    BY <1>1, <2>1, AskRewrites
<1>4. CASE ~Malformed(n, ids) /\ ~send
  <2>1. n \in Nodes /\ ids # {} /\ send = FALSE /\ GiveUp(n, ids, field)
    BY <1>4 DEF Request, Malformed
  <2> QED
    BY <1>1, <2>1, GiveUpRewrites
<1> QED
  BY <1>2, <1>3, <1>4

-----------------------------------------------------------------------------
(* The invariant. *)

LEMMA InitIInv == Init => IInv
<1> SUFFICES ASSUME Init PROVE IInv
  OBVIOUS
<1>1. Cleared \in Slot /\ ~Cleared.used
  BY SubscriptionAssumption DEF Cleared, Slot
<1>2. slots \in [Indices -> Slot] /\ \A i \in Indices : slots[i] = Cleared
  BY <1>1 DEF Init
<1>3. TypeOK
  BY <1>2 DEF Init, TypeOK
<1> QED
  BY <1>1, <1>2, <1>3 DEF IInv, SlotsHaveNodes, SlotsAreNotWasted, OneSlotPerNode, NoIdleSlot

LEMMA RewriteIInv ==
  ASSUME IInv, NEW n \in Nodes, NEW ids, NEW field, NEW send, NEW i \in Indices, NEW new \in Slot,
         Rewrites(i, new, n, ids, field, send), present' = present, answer' = "accepted"
  PROVE  IInv'
<1> USE DEF IInv, TypeOK, Rewrites
<1>1. slots' \in [Indices -> Slot]
  OBVIOUS
<1>2. slots'[i] = new /\ \A j \in Indices \ {i} : slots'[j] = slots[j]
  OBVIOUS
<1>3. TypeOK'
  BY <1>1, <1>2
<1>4. SlotsHaveNodes' /\ NoIdleSlot'
  BY <1>2 DEF SlotsHaveNodes, SlotsAreNotWasted, NoIdleSlot
<1>5. OneSlotPerNode'
  BY <1>2 DEF SlotsAreNotWasted, OneSlotPerNode
<1> QED
  BY <1>3, <1>4, <1>5 DEF SlotsAreNotWasted

LEMMA SameTableIInv ==
  ASSUME IInv, slots' = slots, present' \subseteq Nodes,
         answer' \in {"accepted", "malformed", "full"}
  PROVE  IInv'
BY DEF IInv, TypeOK, SlotsHaveNodes, SlotsAreNotWasted, OneSlotPerNode, NoIdleSlot

LEMMA RequestIInv ==
  ASSUME IInv, NEW n \in Nodes \union {NoNode}, NEW ids \in SUBSET Ids,
         NEW field \in {"ports", "states"}, NEW send \in BOOLEAN, Request(n, ids, field, send)
  PROVE  IInv'
<1>1. CASE slots' = slots
  <2>1. present' \subseteq Nodes /\ answer' \in {"accepted", "malformed", "full"}
    BY RequestOutcomes DEF IInv, TypeOK
  <2> QED
    BY <1>1, <2>1, SameTableIInv
<1>2. CASE slots' # slots
  BY <1>2, RequestOutcomes, RewriteIInv
<1> QED
  BY <1>1, <1>2

LEMMA NextIInv == IInv /\ [Next]_vars => IInv'
<1> SUFFICES ASSUME IInv, [Next]_vars PROVE IInv'
  OBVIOUS
<1>1. ASSUME NEW n \in Nodes \union {NoNode}, NEW ids \in SUBSET Ids, NEW send \in BOOLEAN,
             RequestPortValues(n, ids, send) \/ RequestPortVariables(n, ids, send)
      PROVE  IInv'
  BY <1>1, RequestIInv DEF RequestPortValues, RequestPortVariables
<1>2. ASSUME NEW n \in Nodes, AddNode(n) \/ RemoveNode(n) PROVE IInv'
  BY <1>2, SameTableIInv DEF AddNode, RemoveNode, IInv, TypeOK
<1>3. CASE UNCHANGED vars
  BY <1>3, SameTableIInv DEF vars, IInv, TypeOK
<1> QED
  BY <1>1, <1>2, <1>3 DEF Next

(* The table is well formed at all times: the inductive invariant. *)
THEOREM TableInvariant == Spec => []IInv
BY InitIInv, NextIInv, PTL DEF Spec

(* Every variable keeps its type, and a slot that is not in use is cleared. *)
THEOREM TypeCorrect == Spec => []TypeOK
<1>1. IInv => TypeOK
  BY DEF IInv
<1> QED
  BY <1>1, TableInvariant, PTL

(* No node holds two slots and no slot is held for nothing, whatever clients ask
   for and give up. *)
THEOREM SlotsAreWellSpent == Spec => []SlotsAreNotWasted
<1>1. IInv => SlotsAreNotWasted
  BY DEF IInv
<1> QED
  BY <1>1, TableInvariant, PTL

-----------------------------------------------------------------------------
(* The table as a map. *)

Holds(table, i, n) == table[i].used /\ table[i].node = n

PortsIn(table, n)  == UNION {table[i].ports : i \in {j \in Indices : Holds(table, j, n)}}
StatesIn(table, n) == UNION {table[i].states : i \in {j \in Indices : Holds(table, j, n)}}

LEMMA OfHolder ==
  ASSUME NEW table, NEW n, NEW i \in Indices, Holds(table, i, n),
         \A j \in Indices \ {i} : ~Holds(table, j, n)
  PROVE  PortsIn(table, n) = table[i].ports /\ StatesIn(table, n) = table[i].states
<1>1. {j \in Indices : Holds(table, j, n)} = {i}
  OBVIOUS
<1> QED
  BY <1>1 DEF PortsIn, StatesIn

LEMMA OfNobody ==
  ASSUME NEW table, NEW n, \A j \in Indices : ~Holds(table, j, n)
  PROVE  PortsIn(table, n) = {} /\ StatesIn(table, n) = {}
<1>1. {j \in Indices : Holds(table, j, n)} = {}
  OBVIOUS
<1> QED
  BY <1>1 DEF PortsIn, StatesIn

LEMMA MapIs ==
  /\ Ports = [n \in Nodes |-> PortsIn(slots, n)] /\ States = [n \in Nodes |-> StatesIn(slots, n)]
  /\ Ports' = [n \in Nodes |-> PortsIn(slots', n)]
  /\ States' = [n \in Nodes |-> StatesIn(slots', n)]
BY DEF Ports, States, SlotsOf, PortsIn, StatesIn, Holds

LEMMA SubscribedHold ==
  ASSUME IInv
  PROVE  Map!Subscribed = {n \in Nodes : \E i \in Indices : Holds(slots, i, n)}
<1>1. ASSUME NEW n \in Nodes, NEW i \in Indices, Holds(slots, i, n)
      PROVE  PortsIn(slots, n) # {} \/ StatesIn(slots, n) # {}
  <2>1. \A j \in Indices \ {i} : ~Holds(slots, j, n)
    BY <1>1 DEF Holds, IInv, SlotsAreNotWasted, OneSlotPerNode
  <2>2. slots[i].ports # {} \/ slots[i].states # {}
    BY <1>1 DEF Holds, IInv, SlotsAreNotWasted, NoIdleSlot
  <2> QED
    BY <1>1, <2>1, <2>2, OfHolder
<1> QED
  BY <1>1, MapIs, OfNobody DEF Map!Subscribed

(* The instance counts as this module does. *)
LEMMA SameCount == ASSUME NEW S PROVE Map!Cardinality(S) = Cardinality(S)
BY DEF Map!Cardinality, Cardinality

(* As many nodes are subscribed as slots are in use. *)
LEMMA RoomIsKnown ==
  ASSUME IInv
  PROVE  /\ (\A i \in Indices : slots[i].used) => Cardinality(Map!Subscribed) = Capacity
         /\ \A i \in Indices : ~slots[i].used => Cardinality(Map!Subscribed) < Capacity
<1> DEFINE Used == {i \in Indices : slots[i].used}
           f == [i \in Used |-> slots[i].node]
<1>1. IsFiniteSet(Indices) /\ Cardinality(Indices) = Capacity /\ Capacity \in Nat
  BY SubscriptionAssumption, FS_Interval DEF Indices
<1>2. f \in Bijection(Used, Map!Subscribed)
  <2>1. f \in [Used -> Map!Subscribed]
    BY SubscribedHold DEF IInv, SlotsHaveNodes, Holds
  <2>2. \A i, j \in Used : f[i] = f[j] => i = j
    BY DEF IInv, SlotsAreNotWasted, OneSlotPerNode
  <2>3. \A n \in Map!Subscribed : \E i \in Used : f[i] = n
    BY SubscribedHold DEF Holds
  <2> HIDE DEF f, Used
  <2> QED
    BY <2>1, <2>2, <2>3, Fun_IsBij
<1>3. /\ IsFiniteSet(Used) /\ Cardinality(Used) \in Nat /\ Cardinality(Used) <= Capacity
      /\ Cardinality(Used) = Capacity => Used = Indices
  BY <1>1, FS_Subset, FS_CardinalityType
<1>4. Cardinality(Map!Subscribed) = Cardinality(Used)
  BY <1>2, <1>3, FS_Bijection DEF ExistsBijection
<1>5. (\A i \in Indices : slots[i].used) => Used = Indices
  OBVIOUS
<1>6. \A i \in Indices : ~slots[i].used => Used # Indices
  OBVIOUS
<1> HIDE DEF Used
<1> QED
  BY <1>1, <1>3, <1>4, <1>5, <1>6

(* What a step that leaves the table alone is to the map. *)
LEMMA SameTableSameMap ==
  ASSUME slots' = slots PROVE Ports' = Ports /\ States' = States
BY MapIs

(* A request that rewrites a slot changes what is wanted of its node only. *)
LEMMA RewriteChangesOne ==
  ASSUME IInv, NEW n \in Nodes, NEW ids \in SUBSET Ids, NEW field \in {"ports", "states"},
         NEW send \in BOOLEAN, NEW i \in Indices, NEW new \in Slot,
         Rewrites(i, new, n, ids, field, send)
  PROVE  /\ Ports' = IF field = "ports"
                     THEN [Ports EXCEPT ![n] = Changed(@, ids, send)] ELSE Ports
         /\ States' = IF field = "states"
                      THEN [States EXCEPT ![n] = Changed(@, ids, send)] ELSE States
<1>1. slots \in [Indices -> Slot] /\ (~slots[i].used => slots[i] = Cleared)
  BY DEF IInv, TypeOK
<1>2. slots'[i] = new /\ \A j \in Indices \ {i} : slots'[j] = slots[j]
  BY <1>1 DEF Rewrites
<1>3. PortsIn(slots, n) = slots[i].ports /\ StatesIn(slots, n) = slots[i].states
  <2>1. \A j \in Indices \ {i} : ~Holds(slots, j, n)
    BY DEF Rewrites, Holds
  <2>2. CASE slots[i].used
    BY <2>1, <2>2, OfHolder DEF Rewrites, Holds
  <2>3. CASE ~slots[i].used
    <3>1. \A j \in Indices : ~Holds(slots, j, n)
      BY <2>1, <2>3 DEF Holds
    <3> QED
      BY <1>1, <2>3, <3>1, OfNobody DEF Cleared
  <2> QED
    BY <2>2, <2>3
<1>4. PortsIn(slots', n) = new.ports /\ StatesIn(slots', n) = new.states
  <2>1. \A j \in Indices \ {i} : ~Holds(slots', j, n)
    BY <1>2 DEF Rewrites, Holds
  <2>2. CASE new.used
    <3>1. Holds(slots', i, n)
      BY <1>2, <2>2 DEF Rewrites, Holds
    <3> QED
      BY <1>2, <2>1, <3>1, OfHolder
  <2>3. CASE ~new.used
    <3>1. \A j \in Indices : ~Holds(slots', j, n)
      BY <1>2, <2>1, <2>3 DEF Holds
    <3>2. new = Cleared
      BY <2>3 DEF Rewrites
    <3> QED
      BY <3>1, <3>2, OfNobody DEF Cleared
  <2> QED
    BY <2>2, <2>3
<1>5. ASSUME NEW m \in Nodes \ {n}
      PROVE  PortsIn(slots', m) = PortsIn(slots, m) /\ StatesIn(slots', m) = StatesIn(slots, m)
  <2>1. ~Holds(slots, i, m) /\ ~Holds(slots', i, m)
    BY <1>2 DEF Rewrites, Holds
  <2>2. {j \in Indices : Holds(slots', j, m)} = {j \in Indices : Holds(slots, j, m)}
    BY <1>2, <2>1 DEF Holds
  <2>3. \A j \in Indices : Holds(slots, j, m) => slots'[j] = slots[j]
    BY <1>2, <2>1
  <2> QED
    BY <2>2, <2>3 DEF PortsIn, StatesIn
<1>6. /\ new.ports = IF field = "ports" THEN Changed(slots[i].ports, ids, send) ELSE slots[i].ports
      /\ new.states = IF field = "states" THEN Changed(slots[i].states, ids, send)
                      ELSE slots[i].states
  BY DEF Rewrites
<1> QED
  BY <1>3, <1>4, <1>5, <1>6, MapIs

LEMMA RewriteMaps ==
  ASSUME IInv, NEW n \in Nodes, NEW ids \in SUBSET Ids, ids # {}, NEW field \in {"ports", "states"},
         NEW send \in BOOLEAN, NEW i \in Indices, NEW new \in Slot,
         Rewrites(i, new, n, ids, field, send), answer' = "accepted"
  PROVE  Map!Ask(n, ids) \/ Map!GiveUp(n, ids)
<1>1. CASE send = TRUE
  <2>1. n \in Map!Subscribed \/ Cardinality(Map!Subscribed) < Capacity
    <3>1. CASE slots[i].used
      BY <3>1, SubscribedHold DEF Rewrites, Holds
    <3>2. CASE ~slots[i].used
      BY <3>2, RoomIsKnown
    <3> QED
      BY <3>1, <3>2
  <2>2. CASE field = "ports"
    <3>1. Ports' = [Ports EXCEPT ![n] = @ \union ids] /\ States' = States
      BY <1>1, <2>2, RewriteChangesOne DEF Changed
    <3> QED
      BY <2>1, <3>1, SameCount DEF Map!Ask
  <2>3. CASE field = "states"
    <3>1. States' = [States EXCEPT ![n] = @ \union ids] /\ Ports' = Ports
      BY <1>1, <2>3, RewriteChangesOne DEF Changed
    <3> QED
      BY <2>1, <3>1, SameCount DEF Map!Ask
  <2> QED
    BY <2>2, <2>3
<1>2. CASE send = FALSE
  <2>1. CASE field = "ports"
    <3>1. Ports' = [Ports EXCEPT ![n] = @ \ ids] /\ States' = States
      BY <1>2, <2>1, RewriteChangesOne DEF Changed
    <3> QED
      BY <3>1 DEF Map!GiveUp
  <2>2. CASE field = "states"
    <3>1. States' = [States EXCEPT ![n] = @ \ ids] /\ Ports' = Ports
      BY <1>2, <2>2, RewriteChangesOne DEF Changed
    <3> QED
      BY <3>1 DEF Map!GiveUp
  <2> QED
    BY <2>1, <2>2
<1> QED
  BY <1>1, <1>2

LEMMA RequestMaps ==
  ASSUME IInv, NEW n \in Nodes \union {NoNode}, NEW ids \in SUBSET Ids,
         NEW field \in {"ports", "states"}, NEW send \in BOOLEAN, Request(n, ids, field, send)
  PROVE  Map!Next
<1>1. CASE answer' = "malformed" /\ slots' = slots
  BY <1>1, SameTableSameMap DEF Map!Next, Map!RefuseNothing
<1>2. CASE answer' = "full" /\ slots' = slots /\ \A i \in Indices : slots[i].used
  <2>1. Cardinality(Map!Subscribed) = Capacity
    BY <1>2, RoomIsKnown
  <2>2. Ports' = Ports /\ States' = States
    BY <1>2, SameTableSameMap
  <2>3. Map!RefuseOneTooMany
    BY <1>2, <2>1, <2>2, SameCount DEF Map!RefuseOneTooMany
  <2> QED
    BY <2>3 DEF Map!Next
<1>3. CASE /\ answer' = "accepted" /\ n \in Nodes /\ ids # {} /\ slots' = slots
           /\ \A i \in Indices : ~(slots[i].used /\ slots[i].node = n)
  <2>1. Ports[n] = {}
    BY <1>3, MapIs, OfNobody DEF Holds
  <2>2. Ports' = [Ports EXCEPT ![n] = @ \ ids] /\ States' = States
    BY <1>3, <2>1, MapIs, SameTableSameMap
  <2> QED
    BY <1>3, <2>2 DEF Map!Next, Map!GiveUp
<1>4. CASE /\ answer' = "accepted" /\ n \in Nodes /\ ids # {}
           /\ \E i \in Indices, new \in Slot : Rewrites(i, new, n, ids, field, send)
  BY <1>4, RewriteMaps DEF Map!Next
<1> QED
  BY <1>1, <1>2, <1>3, <1>4, RequestOutcomes

LEMMA InitMaps == Init => Map!Init
<1> SUFFICES ASSUME Init PROVE Map!Init
  OBVIOUS
<1>1. ASSUME NEW n PROVE PortsIn(slots, n) = {} /\ StatesIn(slots, n) = {}
  <2>1. \A i \in Indices : ~Holds(slots, i, n)
    BY DEF Init, Holds, Cleared
  <2> QED
    BY <2>1, OfNobody
<1> QED
  BY <1>1, MapIs DEF Init, Map!Init

LEMMA NextMaps == IInv /\ [Next]_vars => [Map!Next]_(Map!vars)
<1> SUFFICES ASSUME IInv, [Next]_vars PROVE Map!Next \/ UNCHANGED Map!vars
  OBVIOUS
<1>1. ASSUME NEW n \in Nodes \union {NoNode}, NEW ids \in SUBSET Ids, NEW send \in BOOLEAN,
             RequestPortValues(n, ids, send) \/ RequestPortVariables(n, ids, send)
      PROVE  Map!Next
  BY <1>1, RequestMaps DEF RequestPortValues, RequestPortVariables
<1>2. CASE slots' = slots /\ answer' = answer
  BY <1>2, SameTableSameMap DEF Map!vars
<1> QED
  BY <1>1, <1>2 DEF Next, AddNode, RemoveNode, vars

(* The table implements the map: whatever slots are shared, cleared and taken
   again, the engine remembers for each node what was asked for and not given
   up, and refuses a node only when Capacity others are subscribed. *)
THEOREM ImplementsMap == Spec => MapSpec
BY TableInvariant, InitMaps, NextMaps, PTL DEF Spec, MapSpec, Map!Spec


-----------------------------------------------------------------------------
(* What a cycle publishes. *)

(* sent is what the loop over the first n slots sends, slot by slot. *)
Sends(sent, n) ==
  sent = [i \in 0 .. n |-> IF i = 0 THEN <<>>
                          ELSE IF IsShown(slots[i]) THEN Append(sent[i - 1], Shown(slots[i]))
                          ELSE sent[i - 1]]

(* What does not hold of every number does not hold of a first one. *)
LEMMA FirstNumber ==
  ASSUME NEW S \in SUBSET Nat, S # {}
  PROVE  \E n \in S : \A m \in S : n <= m
<1>1. IsWellFoundedOn(OpToRel(<, Nat), Nat)
  BY NatLessThanWellFounded
<1>2. PICK n \in S : \A m \in S : ~(<<m, n>> \in OpToRel(<, Nat))
  BY <1>1, WFMin, Zenon
<1>3. ASSUME NEW m \in Nat, NEW k \in Nat, m < k PROVE <<m, k>> \in OpToRel(<, Nat)
  BY <1>3, Zenon DEF OpToRel
<1>4. \A m \in S : ~(m < n)
  BY <1>2, <1>3, Zenon
<1> QED
  BY <1>4

LEMMA SendsExtends ==
  ASSUME NEW n \in Nat, NEW sent, Sends(sent, n)
  PROVE  \E more : Sends(more, n + 1)
<1> DEFINE last == IF IsShown(slots[n + 1]) THEN Append(sent[n], Shown(slots[n + 1])) ELSE sent[n]
           more == [i \in 0 .. n + 1 |-> IF i \in 0 .. n THEN sent[i] ELSE last]
<1>1. \A i \in 0 .. n :
        sent[i] = IF i = 0 THEN <<>>
                  ELSE IF IsShown(slots[i]) THEN Append(sent[i - 1], Shown(slots[i]))
                  ELSE sent[i - 1]
  BY DEF Sends
<1>2. /\ \A i \in 0 .. n : more[i] = sent[i]
      /\ more[n + 1] = last
  <2> HIDE DEF last
  <2> QED
    OBVIOUS
<1>3. more = [i \in 0 .. n + 1 |-> more[i]]
  <2> HIDE DEF last
  <2> QED
    OBVIOUS
<1> HIDE DEF more
<1>4. \A i \in 0 .. n + 1 :
        more[i] = IF i = 0 THEN <<>>
                  ELSE IF IsShown(slots[i]) THEN Append(more[i - 1], Shown(slots[i]))
                  ELSE more[i - 1]
  <2> SUFFICES ASSUME NEW i \in 0 .. n + 1
               PROVE  more[i] = IF i = 0 THEN <<>>
                                ELSE IF IsShown(slots[i]) THEN Append(more[i - 1], Shown(slots[i]))
                                ELSE more[i - 1]
    OBVIOUS
  <2>1. CASE i = n + 1
    <3>1. more[i - 1] = sent[n] /\ i # 0
      BY <1>2, <2>1
    <3> QED
      BY <1>2, <2>1, <3>1
  <2>2. CASE i \in 0 .. n
    <3>1. more[i] = sent[i] /\ (i # 0 => more[i - 1] = sent[i - 1])
      BY <1>2, <2>2
    <3> QED
      BY <1>1, <2>2, <3>1
  <2> QED
    BY <2>1, <2>2
<1> QED
  BY <1>3, <1>4 DEF Sends

LEMMA SendsExists == ASSUME NEW n \in Nat PROVE \E sent : Sends(sent, n)
<1> DEFINE Bad == {m \in Nat : ~ \E sent : Sends(sent, m)}
<1>1. SUFFICES ASSUME Bad # {} PROVE FALSE
  OBVIOUS
<1>2. PICK m \in Bad : \A k \in Bad : m <= k
  BY <1>1, FirstNumber
<1>3. m # 0
  <2>1. Sends([i \in 0 .. 0 |-> <<>>], 0)
    BY DEF Sends
  <2> QED
    BY <1>2, <2>1
<1>4. m - 1 \in Nat /\ m - 1 \notin Bad /\ (m - 1) + 1 = m
  BY <1>2, <1>3
<1>5. PICK sent : Sends(sent, m - 1)
  BY <1>4
<1> QED
  BY <1>2, <1>4, <1>5, SendsExtends

LEMMA PublicationIs == \E sent : Sends(sent, Capacity) /\ Publication = sent[Capacity]
<1> DEFINE sent == CHOOSE p : Sends(p, Capacity)
<1>1. Sends(sent, Capacity)
  BY SendsExists, SubscriptionAssumption
<1>2. Publication = sent[Capacity]
  BY DEF Publication, Sends
<1> HIDE DEF sent
<1> QED
  BY <1>1, <1>2

Batches == [node : Nodes \union {NoNode}, ports : SUBSET Ids, states : SUBSET Ids]

(* Which of the first n slots are published. *)
ShownUpTo(n) == {j \in 1 .. n : IsShown(slots[j])}

SentIs(s, n) ==
  /\ s \in Seq(Batches)
  /\ Len(s) = Cardinality(ShownUpTo(n))
  /\ {s[k] : k \in 1 .. Len(s)} = {Shown(slots[j]) : j \in ShownUpTo(n)}

LEMMA SentOneMore ==
  ASSUME TypeOK, NEW n \in 1 .. Capacity, NEW s, SentIs(s, n - 1)
  PROVE  SentIs(IF IsShown(slots[n]) THEN Append(s, Shown(slots[n])) ELSE s, n)
<1>1. /\ Capacity \in Nat /\ n \in Nat /\ n - 1 \in Nat /\ n \in Indices
      /\ n \notin ShownUpTo(n - 1)
  BY SubscriptionAssumption DEF Indices, ShownUpTo
<1>2. IsFiniteSet(ShownUpTo(n - 1)) /\ Cardinality(ShownUpTo(n - 1)) \in Nat
  <2>1. IsFiniteSet(1 .. n - 1)
    BY <1>1, FS_Interval
  <2> QED
    BY <2>1, FS_Subset, FS_CardinalityType DEF ShownUpTo
<1>3. s \in Seq(Batches) /\ Len(s) \in Nat /\ Len(s) = Cardinality(ShownUpTo(n - 1))
  BY LenProperties DEF SentIs
<1>4. CASE IsShown(slots[n])
  <2> DEFINE b == Shown(slots[n])
             t == Append(s, b)
  <2>1. b \in Batches
    BY <1>1 DEF Shown, Batches, TypeOK, Slot
  <2> HIDE DEF b
  <2>2. /\ t \in Seq(Batches) /\ Len(t) = Len(s) + 1 /\ t[Len(s) + 1] = b
        /\ \A k \in 1 .. Len(s) : t[k] = s[k]
    BY <1>3, <2>1, AppendProperties
  <2>3. ShownUpTo(n) = ShownUpTo(n - 1) \union {n}
    BY <1>1, <1>4 DEF ShownUpTo
  <2>4. Cardinality(ShownUpTo(n)) = Cardinality(ShownUpTo(n - 1)) + 1
    BY <1>1, <1>2, <2>3, FS_AddElement
  <2> HIDE DEF t
  <2>5. {t[k] : k \in 1 .. Len(t)} = {s[k] : k \in 1 .. Len(s)} \union {b}
    BY <1>3, <2>2
  <2>6. {Shown(slots[j]) : j \in ShownUpTo(n)}
          = {Shown(slots[j]) : j \in ShownUpTo(n - 1)} \union {b}
    BY <2>3 DEF b
  <2>7. SentIs(t, n)
    BY <1>3, <2>2, <2>4, <2>5, <2>6 DEF SentIs
  <2> QED
    BY <1>4, <2>7 DEF t, b
<1>5. CASE ~IsShown(slots[n])
  <2>1. ShownUpTo(n) = ShownUpTo(n - 1)
    BY <1>1, <1>5 DEF ShownUpTo
  <2> QED
    BY <1>5, <2>1 DEF SentIs
<1> QED
  BY <1>4, <1>5

LEMMA SentAll ==
  ASSUME TypeOK, NEW sent, Sends(sent, Capacity)
  PROVE  SentIs(sent[Capacity], Capacity)
<1> DEFINE Bad == {n \in 0 .. Capacity : ~SentIs(sent[n], n)}
<1>1. Capacity \in Nat
  BY SubscriptionAssumption
<1>2. SUFFICES ASSUME Bad # {} PROVE FALSE
  BY <1>1
<1>3. PICK n \in Bad : \A k \in Bad : n <= k
  <2>1. Bad \subseteq Nat
    BY <1>1
  <2> HIDE DEF Bad
  <2> QED
    BY <1>2, <2>1, FirstNumber
<1>4. \A i \in 0 .. Capacity :
        sent[i] = IF i = 0 THEN <<>>
                  ELSE IF IsShown(slots[i]) THEN Append(sent[i - 1], Shown(slots[i]))
                  ELSE sent[i - 1]
  BY DEF Sends
<1>5. n # 0
  <2>1. sent[0] = <<>> /\ ShownUpTo(0) = {}
    BY <1>1, <1>4 DEF ShownUpTo
  <2>2. SentIs(<<>>, 0)
    BY <2>1, FS_EmptySet DEF SentIs
  <2> QED
    BY <1>3, <2>1, <2>2
<1>6. n \in 1 .. Capacity /\ SentIs(sent[n - 1], n - 1)
  <2>1. n - 1 \in 0 .. Capacity /\ ~(n <= n - 1) /\ n \in 1 .. Capacity
    BY <1>1, <1>3, <1>5
  <2> QED
    BY <1>3, <2>1
<1>7. SentIs(sent[n], n)
  <2>1. sent[n] = IF IsShown(slots[n]) THEN Append(sent[n - 1], Shown(slots[n])) ELSE sent[n - 1]
    BY <1>4, <1>6
  <2> QED
    BY <1>6, <2>1, SentOneMore
<1> QED
  BY <1>3, <1>7

LEMMA PublishesWanted == IInv => PublishesWhatIsWanted
<1> SUFFICES ASSUME IInv PROVE PublishesWhatIsWanted
  OBVIOUS
<1> DEFINE Published == ShownUpTo(Capacity)
           wanted(n) == (Ports[n] \union States[n]) \intersect Existing
           Visible == {n \in present : wanted(n) # {}}
           batch(n) == [node |-> n, ports |-> Ports[n] \intersect Existing,
                        states |-> States[n] \intersect Existing]
           f == [j \in Published |-> slots[j].node]
<1>1. /\ Published = {j \in Indices : IsShown(slots[j])} /\ IsFiniteSet(Published)
      /\ present \subseteq Nodes
  <2>1. IsFiniteSet(Indices)
    BY SubscriptionAssumption, FS_Interval DEF Indices
  <2> QED
    BY <2>1, FS_Subset DEF ShownUpTo, Indices, IInv, TypeOK
<1>2. /\ Publication \in Seq(Batches) /\ Len(Publication) = Cardinality(Published)
      /\ {Publication[k] : k \in 1 .. Len(Publication)} = {Shown(slots[j]) : j \in Published}
  <2>1. SentIs(Publication, Capacity)
    BY PublicationIs, SentAll DEF IInv
  <2> QED
    BY <2>1 DEF SentIs
<1>3. ASSUME NEW j \in Indices, slots[j].used
      PROVE  /\ slots[j].node \in Nodes
             /\ Ports[slots[j].node] = slots[j].ports /\ States[slots[j].node] = slots[j].states
  <2>1. slots[j].node \in Nodes
    BY <1>3 DEF IInv, SlotsHaveNodes
  <2>2. Holds(slots, j, slots[j].node) /\ \A i \in Indices \ {j} : ~Holds(slots, i, slots[j].node)
    BY <1>3 DEF Holds, IInv, SlotsAreNotWasted, OneSlotPerNode
  <2> QED
    BY <2>1, <2>2, OfHolder, MapIs
<1>4. ASSUME NEW j \in Published
      PROVE  slots[j].node \in Visible /\ Shown(slots[j]) = batch(slots[j].node)
  BY <1>1, <1>3, <1>4 DEF IsShown, Shown
<1>5. ASSUME NEW n \in Visible PROVE \E j \in Published : slots[j].node = n
  <2>1. n \in Nodes /\ n \in present /\ wanted(n) # {}
    BY <1>1
  <2>2. PICK j \in Indices : Holds(slots, j, n)
    BY <2>1, OfNobody, MapIs
  <2>3. IsShown(slots[j])
    BY <1>3, <2>1, <2>2 DEF IsShown, Holds
  <2> QED
    BY <1>1, <2>2, <2>3 DEF Holds
<1>6. Cardinality(Visible) = Cardinality(Published)
  <2>1. f \in [Published -> Visible] /\ \A n \in Visible : \E j \in Published : f[j] = n
    <3> HIDE DEF Published, Visible
    <3> QED
      BY <1>4, <1>5
  <2>2. \A i, j \in Published : f[i] = f[j] => i = j
    BY <1>1 DEF IsShown, IInv, SlotsAreNotWasted, OneSlotPerNode
  <2> HIDE DEF f, Published, Visible
  <2>3. f \in Bijection(Published, Visible)
    BY <2>1, <2>2, Fun_IsBij
  <2> QED
    BY <1>1, <2>3, FS_Bijection DEF ExistsBijection
<1>7. {Shown(slots[j]) : j \in Published} = {batch(n) : n \in Visible}
  <2> HIDE DEF Published, Visible, batch
  <2>1. \A j \in Published : Shown(slots[j]) \in {batch(n) : n \in Visible}
    BY <1>4
  <2>2. \A n \in Visible : batch(n) \in {Shown(slots[j]) : j \in Published}
    BY <1>4, <1>5
  <2> QED
    BY <2>1, <2>2
<1>8. /\ Len(Publication) = Cardinality(Visible)
      /\ {Publication[k] : k \in 1 .. Len(Publication)} = {batch(n) : n \in Visible}
  BY <1>2, <1>6, <1>7
<1> QED
  BY <1>8 DEF PublishesWhatIsWanted

(* Every cycle publishes one batch for each node that is there and of which
   something is wanted, with exactly what is wanted and exists, for every table
   that requests, nodes and their removal can lead to. *)
THEOREM WhatIsWantedIsPublished == Spec => []PublishesWhatIsWanted
BY PublishesWanted, TableInvariant, PTL

=============================================================================
