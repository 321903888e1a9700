--------------------------- MODULE TimeAndValueProofs ---------------------------
(***************************************************************************)
(* Theorems about the numbers of the engine.  DeadlineClock: for every set *)
(* of periods, amount of work and wake-up latency the loop keeps its       *)
(* schedule, and a stop ends it within a cycle.  NodeValues: for every     *)
(* width of an int and every size of the buffers a value is read as what   *)
(* it was written as, and seen as what it was asked to be.                 *)
(***************************************************************************)
EXTENDS DeadlineClock, NodeValues, SequenceTheorems, TLAPS

(* How far the loop can be from its deadline at each point of a cycle. *)
Distance ==
  /\ owed + ahead = 0
  /\ phase \in {"check", "work"} => ahead <= 0 /\ owed <= MaxLatency + excess
  /\ phase = "pace"  => ahead <= 0 /\ owed <= MaxLatency + excess + period
  /\ phase = "sleep" => 0 < ahead /\ ahead <= period

(* For how long a stop can have waited there. *)
Patience ==
  /\ ~stop_requested => waiting = 0
  /\ phase = "work"  => waiting = 0
  /\ phase = "pace"  => waiting <= MaxWork /\ waiting <= owed
  /\ phase = "sleep" => waiting + ahead <= period
  /\ StopIsPrompt

IInv == TypeOK /\ Distance /\ Patience

-----------------------------------------------------------------------------

LEMMA InitIInv == Init => IInv
<1> SUFFICES ASSUME Init PROVE IInv
  OBVIOUS
<1> USE ClockAssumption DEF Init
<1>1. /\ phase = "idle" /\ ahead = 0 /\ owed = 0 /\ waiting = 0 /\ excess = 0
      /\ period \in Periods /\ stop_requested = FALSE /\ slept = FALSE
  OBVIOUS
<1>2. stop_requested \in BOOLEAN /\ slept \in BOOLEAN
  BY <1>1, Zenon
<1>3. TypeOK
  BY <1>1, <1>2 DEF TypeOK
<1>4. Distance
  BY <1>1 DEF Distance
<1>5. waiting <= 0 + MaxLatency
  BY <1>1
<1>6. Patience
  BY <1>1, <1>5 DEF Patience, StopIsPrompt
<1> QED
  BY <1>3, <1>4, <1>6 DEF IInv

(* The owner and whoever asks for a stop. *)
LEMMA OthersIInv ==
  ASSUME IInv, Start \/ RequestStop \/ UNCHANGED vars PROVE IInv'
<1> USE ClockAssumption DEF IInv, TypeOK
<1>1. CASE Start
  <2>1. /\ phase' = "check" /\ ahead' = 0 /\ owed' = 0 /\ waiting' = 0 /\ excess' = 0
        /\ period' = period /\ stop_requested' = FALSE /\ slept' = FALSE
    BY <1>1 DEF Start, Go
  <2>2. waiting' <= 0 + MaxLatency
    BY <2>1
  <2>3. Distance'
    BY <2>1 DEF Distance
  <2>4. Patience'
    BY <2>1, <2>2 DEF Patience, StopIsPrompt
  <2>5. stop_requested' \in BOOLEAN /\ slept' \in BOOLEAN
    BY <2>1, Zenon
  <2>6. TypeOK'
    BY <2>1, <2>5
  <2> QED
    BY <2>3, <2>4, <2>6
<1>2. CASE RequestStop
  BY <1>2 DEF RequestStop, history, Distance, Patience, StopIsPrompt
<1>3. CASE UNCHANGED vars
  BY <1>3 DEF vars, Distance, Patience, StopIsPrompt
<1> QED
  BY <1>1, <1>2, <1>3

LEMMA CheckStopIInv ==
  ASSUME IInv, CheckStop PROVE IInv'
BY ClockAssumption DEF IInv, TypeOK, Distance, Patience, StopIsPrompt, CheckStop, Go, history

(* Work adds to the lateness at most what it adds to the excess, and a period. *)
LEMMA WorkIInv ==
  ASSUME IInv, NEW work \in 0 .. MaxWork, NEW p \in Periods, Work(work, p) PROVE IInv'
<1> USE ClockAssumption DEF IInv, TypeOK
<1>1. /\ phase = "work" /\ phase' = "pace"
      /\ period' = p /\ ahead' = ahead - work /\ owed' = owed + work
      /\ excess' = excess + Beyond(work, p) /\ excess' <= MaxExcess
      /\ waiting' = IF stop_requested THEN waiting + work ELSE waiting
      /\ stop_requested' = stop_requested /\ slept' = slept
  BY DEF Work, Go, Pass
<1>2. work \in Nat /\ p \in Nat /\ work <= MaxWork
  OBVIOUS
<1>3. Beyond(work, p) \in Nat /\ work <= p + Beyond(work, p)
  BY <1>2 DEF Beyond
<1>4. TypeOK'
  BY <1>1, <1>2, <1>3
<1>5. Distance'
  BY <1>1, <1>2, <1>3 DEF Distance
<1>6. waiting' <= work /\ (~stop_requested' => waiting' = 0)
  BY <1>1, <1>2 DEF Patience
<1>7. StopIsPrompt'
  BY <1>1, <1>2, <1>6 DEF StopIsPrompt
<1>8. Patience'
  BY <1>1, <1>2, <1>6, <1>7 DEF Patience, Distance
<1> QED
  BY <1>4, <1>5, <1>8

LEMMA PaceIInv ==
  ASSUME IInv, Pace PROVE IInv'
<1> USE ClockAssumption DEF IInv, TypeOK, Pace, Go
<1>1. TypeOK'
  OBVIOUS
<1>2. Distance'
  BY DEF Distance
<1>3. Patience'
  BY DEF Patience, StopIsPrompt, Distance
<1> QED
  BY <1>1, <1>2, <1>3

LEMMA SleepIInv ==
  ASSUME IInv, NEW latency \in 0 .. MaxLatency, Sleep(latency) PROVE IInv'
<1> USE ClockAssumption DEF IInv, TypeOK, Sleep, Go, Pass, Distance
<1>1. TypeOK' /\ Distance'
  OBVIOUS
<1>2. waiting' <= period + MaxLatency /\ (~stop_requested' => waiting' = 0)
  BY DEF Patience
<1>3. StopIsPrompt'
  BY <1>2 DEF StopIsPrompt
<1>4. Patience'
  BY <1>2, <1>3 DEF Patience
<1> QED
  BY <1>1, <1>4

-----------------------------------------------------------------------------
(* Theorems. *)

(* The distances hold at every point of every cycle. *)
THEOREM ClockInvariant == Spec => []IInv
<1>1. IInv /\ [Next]_vars => IInv'
  BY OthersIInv, CheckStopIInv, WorkIInv, PaceIInv, SleepIInv DEF Next, Loop
<1> QED
  BY <1>1, InitIInv, PTL DEF Spec

(* Every variable keeps its type. *)
THEOREM TypeCorrect == Spec => []TypeOK
<1>1. IInv => TypeOK
  BY DEF IInv
<1> QED
  BY <1>1, ClockInvariant, PTL

(* The loop never runs ahead of its schedule, and falls behind it only by what
   its cycles worked too long and by one wake-up. *)
THEOREM ScheduleIsKept == Spec => []OnSchedule
<1>1. IInv => OnSchedule
  BY ClockAssumption DEF IInv, TypeOK, Distance, OnSchedule
<1> QED
  BY <1>1, ClockInvariant, PTL

(* A stop waits for one cycle at most. *)
THEOREM StopsArePrompt == Spec => []StopIsPrompt
<1>1. IInv => StopIsPrompt
  BY DEF IInv, Patience
<1> QED
  BY <1>1, ClockInvariant, PTL

-----------------------------------------------------------------------------
(* The values of the nodes: the invariant. *)

(* What the client was sent of the descriptors. *)
Description ==
  /\ described \in Descriptions /\ created \in Nat
  /\ known \in Seq(Seq(Types)) /\ Len(known) = created
  /\ \A id \in 1 .. created : Len(known[id]) <= Params
  /\ asked \in Seq([1 .. Params -> Int]) /\ Len(asked) = created

(* The node that was made from the loaded module and asked to be like this. *)
Made(id) ==
  [types  |-> described,
   values |-> [p \in 1 .. Params |-> Handed(described[p], asked[id][p])]]

(* Every node is of the loaded module, and nobody was told otherwise of it. *)
Existing ==
  \A id \in DOMAIN nodes :
    /\ id \in 1 .. created
    /\ nodes[id] = Made(id)
    /\ \A p \in DOMAIN known[id] : known[id][p] = described[p]
    /\ \A p \in 1 .. Params : described[p] = "STRING" => asked[id][p] >= 0

Commanded ==
  command # Nothing =>
    /\ command.id \in 1 .. created /\ command.param \in 1 .. Params
    /\ command.type \in Types /\ command.number \in Int
    /\ command.type = "STRING" => command.number >= 0
    /\ command.id \in DOMAIN nodes => command.type = described[command.param]

ValuesInv ==
  Description /\ Existing /\ Commanded /\ NothingIsMisread /\ WhatIsAskedIsSeen

-----------------------------------------------------------------------------
(* Numbers. *)

Least(a, b) == IF a <= b THEN a ELSE b

LEMMA MinOfTwo == ASSUME NEW a \in Int, NEW b \in Int PROVE Min({a, b}) = Least(a, b)
BY DEF Min, Least

LEMMA MinOfFour ==
  ASSUME NEW a \in Int, NEW b \in Int, NEW c \in Int, NEW d \in Int
  PROVE  Min({a, b, c, d}) = Least(Least(Least(a, b), c), d)
BY DEF Min, Least

(* The laws of division. *)
LEMMA Division ==
  ASSUME NEW n \in Int, NEW d \in Nat \ {0}
  PROVE  n \div d \in Int /\ n % d \in 0 .. d - 1 /\ n = d * (n \div d) + (n % d)
OBVIOUS

LEMMA NothingRemains ==
  ASSUME NEW k \in Int, NEW d \in Nat \ {0}
  PROVE  (d * k) % d = 0
OBVIOUS

(* A conversion to int keeps the number modulo the width of an int. *)
LEMMA IntKept ==
  ASSUME NEW n \in Int
  PROVE  ToInt(n) \in -Half .. Half - 1 /\ (ToInt(n) - n) % (2 * Half) = 0
<1>0. Half \in Nat \ {0}
  BY ValueAssumption
<1>1. PICK width \in Nat \ {0} : width = 2 * Half
  BY <1>0
<1>2. PICK shifted \in Int : shifted = n + Half
  BY <1>0
<1>3. PICK turns \in Int, rest \in 0 .. width - 1 :
        shifted = width * turns + rest /\ rest = shifted % width
  BY Division
<1>4. ToInt(n) = rest - Half
  BY <1>1, <1>2, <1>3 DEF ToInt
<1>5. ToInt(n) - n = width * (-turns)
  <2>1. ToInt(n) - n = rest - shifted
    BY <1>0, <1>2, <1>4
  <2> QED
    BY <1>3, <2>1
<1>6. (ToInt(n) - n) % (2 * Half) = 0
  BY <1>1, <1>5, NothingRemains
<1>7. ToInt(n) \in -Half .. Half - 1
  BY <1>0, <1>1, <1>3, <1>4
<1> QED
  BY <1>6, <1>7

-----------------------------------------------------------------------------
(* The conversions. *)

LEMMA Sizes ==
  /\ Params \in Nat \ {0} /\ Capacity \in Nat \ {0}
  /\ ParamSize \in Nat \ {0} /\ PortSize \in Nat \ {0} /\ SampleSize \in Nat \ {0}
  /\ Half \in Nat \ {0}
BY ValueAssumption

LEMMA NumbersAreWhole == Numbers \subseteq Int
<1>1. \A n \in Magnitudes : n \in Nat /\ -n \in Int
  BY ValueAssumption
<1> QED
  BY <1>1 DEF Numbers

LEMMA CutIs ==
  ASSUME NEW n \in Int, NEW size \in Nat \ {0}
  PROVE  Cut(n, size) = Least(n, size - 1) /\ Cut(n, size) \in Int
BY MinOfTwo DEF Cut, Least

LEMMA HandedIs ==
  ASSUME NEW type \in Types, NEW n \in Int PROVE Handed(type, n) \in Int
<1>1. ToInt(n) \in Int
  <2>1. ToInt(n) \in -Half .. Half - 1
    BY IntKept
  <2> QED
    BY <2>1, Sizes
<1>2. Cut(n, ParamSize) \in Int
  BY CutIs, Sizes
<1> QED
  BY <1>1, <1>2 DEF Types, Handed

(* What is not set is not seen to be anything else. *)
LEMMA DefaultHanded ==
  ASSUME NEW type \in Types PROVE Handed(type, Default) = Default
<1>1. Half % (2 * Half) = Half
  BY Sizes
<1>2. ToInt(0) = 0
  BY <1>1, Sizes DEF ToInt
<1>3. Cut(0, ParamSize) = 0
  <2>1. Cut(0, ParamSize) = Least(0, ParamSize - 1)
    BY CutIs, Sizes
  <2> QED
    BY <2>1, Sizes DEF Least
<1> QED
  BY <1>2, <1>3 DEF Types, Handed, Default

LEMMA CopiedIs ==
  ASSUME NEW types \in Descriptions
  PROVE  /\ Copied(types) \in Seq(Types) /\ Len(Copied(types)) <= Params
         /\ \A p \in DOMAIN Copied(types) : p \in 1 .. Params /\ Copied(types)[p] = types[p]
<1>1. types \in Seq(Types) /\ Len(types) = Params
  BY Sizes DEF Descriptions
<1>2. Min({Params, Capacity}) = Least(Params, Capacity)
  BY MinOfTwo, Sizes
<1>3. Least(Params, Capacity) \in 1 .. Params
  BY Sizes DEF Least
<1>4. PICK size \in 1 .. Params : Copied(types) = SubSeq(types, 1, size)
  BY <1>2, <1>3 DEF Copied
<1>5. /\ SubSeq(types, 1, size) \in Seq(Types) /\ Len(SubSeq(types, 1, size)) = size
      /\ \A p \in 1 .. size : SubSeq(types, 1, size)[p] = types[p]
  BY <1>1, <1>4, Sizes
<1> QED
  BY <1>4, <1>5, Sizes

-----------------------------------------------------------------------------
(* The steps. *)

LEMMA ValuesInitInv == ValuesInit => ValuesInv
BY Sizes DEF ValuesInit, ValuesInv, Description, Existing, Commanded, NothingIsMisread,
   WhatIsAskedIsSeen, Nothing

LEMMA LoadInv == ASSUME ValuesInv, LoadNode PROVE ValuesInv'
<1> USE DEF ValuesInv, LoadNode
<1>1. DOMAIN nodes' = {}
  OBVIOUS
<1>2. Description'
  BY DEF Description
<1>3. Existing' /\ Commanded'
  BY <1>1 DEF Existing, Commanded
<1>4. NothingIsMisread' /\ WhatIsAskedIsSeen'
  BY Zenon DEF NothingIsMisread, WhatIsAskedIsSeen
<1> QED
  BY <1>2, <1>3, <1>4

LEMMA AddInv == ASSUME ValuesInv, AddNode PROVE ValuesInv'
<1> DEFINE id    == created + 1
           blank == [p \in 1 .. Params |-> Default]
           fresh == [types |-> described, values |-> blank]
<1>1. /\ created' = id /\ asked' = Append(asked, blank)
      /\ nodes' = [i \in DOMAIN nodes \union {id} |-> IF i = id THEN fresh ELSE nodes[i]]
      /\ \E told \in {Copied(described), <<>>} : known' = Append(known, told)
      /\ UNCHANGED <<described, command, misread, seen>>
  BY DEF AddNode
<1>2. Description /\ Existing /\ Commanded
  BY DEF ValuesInv
<1>3. blank \in [1 .. Params -> Int] /\ \A p \in 1 .. Params : blank[p] = 0
  BY DEF Default
<1>4. fresh.types = described /\ fresh.values = blank
  OBVIOUS
<1>5. fresh = [types |-> described, values |-> blank]
  OBVIOUS
<1> HIDE DEF blank, fresh
<1>6. PICK told \in Seq(Types) :
        /\ known' = Append(known, told) /\ Len(told) <= Params
        /\ \A p \in DOMAIN told : told[p] = described[p]
  <2>1. /\ Copied(described) \in Seq(Types) /\ Len(Copied(described)) <= Params
        /\ \A p \in DOMAIN Copied(described) : Copied(described)[p] = described[p]
    BY <1>2, CopiedIs DEF Description
  <2>2. <<>> \in Seq(Types) /\ Len(<<>>) <= Params /\ DOMAIN <<>> = {}
    BY Sizes
  <2> QED
    BY <1>1, <2>1, <2>2
<1>7. Description'
  BY <1>1, <1>2, <1>3, <1>6, AppendProperties DEF Description
<1>8. /\ id \in 1 .. id /\ asked'[id] = blank /\ known'[id] = told
      /\ \A i \in 1 .. created : asked'[i] = asked[i] /\ known'[i] = known[i] /\ i # id
  BY <1>1, <1>2, <1>3, <1>6 DEF Description
<1>9. Existing'
  <2> SUFFICES ASSUME NEW i \in DOMAIN nodes'
               PROVE  /\ i \in 1 .. id
                      /\ nodes'[i] = Made(i)'
                      /\ \A p \in DOMAIN known'[i] : known'[i][p] = described[p]
                      /\ \A p \in 1 .. Params : described[p] = "STRING" => asked'[i][p] >= 0
    BY <1>1 DEF Existing
  <2>1. CASE i = id
    <3>1. \A p \in 1 .. Params : Handed(described[p], blank[p]) = blank[p]
      BY <1>2, <1>3, DefaultHanded DEF Description, Descriptions, Default
    <3>2. blank = [p \in 1 .. Params |-> Handed(described[p], blank[p])]
      BY <1>3, <3>1
    <3>3. Made(i)' = fresh
      BY <1>1, <1>5, <1>8, <2>1, <3>2 DEF Made
    <3>4. nodes'[i] = fresh
      BY <1>1, <2>1
    <3>5. asked'[i] = blank /\ known'[i] = told /\ i \in 1 .. id
      BY <1>8, <2>1
    <3>6. \A p \in 1 .. Params : asked'[i][p] >= 0
      BY <1>3, <3>5
    <3>7. \A p \in DOMAIN known'[i] : known'[i][p] = described[p]
      BY <1>6, <3>5
    <3> QED
      BY <3>3, <3>4, <3>5, <3>6, <3>7
  <2>2. CASE i # id
    <3>1. i \in DOMAIN nodes /\ i \in 1 .. created /\ nodes'[i] = nodes[i]
      BY <1>1, <1>2, <2>2 DEF Existing
    <3>2. Made(i)' = Made(i)
      BY <1>1, <1>8, <3>1 DEF Made
    <3> QED
      BY <1>2, <1>8, <3>1, <3>2 DEF Existing, Description
  <2> QED
    BY <2>1, <2>2
<1>10. Commanded'
  <2>1. \A i \in DOMAIN nodes' : i \in DOMAIN nodes \/ i = id
    BY <1>1
  <2> QED
    BY <1>1, <1>2, <1>8, <2>1 DEF Commanded, Description
<1> QED
  BY <1>1, <1>7, <1>9, <1>10 DEF ValuesInv, NothingIsMisread, WhatIsAskedIsSeen

LEMMA SendNodeInv == ASSUME ValuesInv, SendNode PROVE ValuesInv'
<1>1. PICK id \in DOMAIN nodes : known' = [known EXCEPT ![id] = Copied(described)]
  BY DEF SendNode
<1>2. Description /\ Existing /\ Commanded /\ id \in 1 .. created
  BY DEF ValuesInv, Existing
<1>3. UNCHANGED <<described, nodes, created, command, asked, misread, seen>>
  BY DEF SendNode
<1>4. Description'
  <2>1. Copied(described) \in Seq(Types) /\ Len(Copied(described)) <= Params
    BY <1>2, CopiedIs DEF Description
  <2>2. PICK texts : texts = Seq(Types)
    OBVIOUS
  <2>3. known \in Seq(texts) /\ id \in 1 .. Len(known) /\ Copied(described) \in texts
    BY <1>2, <2>1, <2>2 DEF Description
  <2>4. /\ known' \in Seq(texts) /\ Len(known') = Len(known)
        /\ \A i \in 1 .. Len(known) :
             known'[i] = IF i = id THEN Copied(described) ELSE known[i]
    BY <1>1, <2>3, ExceptSeq
  <2>5. \A i \in 1 .. created : Len(known[i]) <= Params /\ i \in 1 .. Len(known)
    BY <1>2 DEF Description
  <2>6. \A i \in 1 .. created : Len(known'[i]) <= Params
    BY <2>1, <2>4, <2>5
  <2> QED
    BY <1>2, <1>3, <2>2, <2>4, <2>6 DEF Description
<1>5. Existing'
  BY <1>1, <1>2, <1>3, CopiedIs DEF Description, Existing, Made
<1> QED
  BY <1>2, <1>3, <1>4, <1>5 DEF ValuesInv, Commanded, NothingIsMisread, WhatIsAskedIsSeen

LEMMA SendInv == ASSUME ValuesInv, Send PROVE ValuesInv'
<1> USE DEF ValuesInv, Send
<1>1. PICK id \in 1 .. created : \E p \in DOMAIN known[id], n \in Numbers :
        /\ known[id][p] = "STRING" => n >= 0
        /\ command' = [id |-> id, param |-> p, type |-> known[id][p], number |-> n]
  OBVIOUS
<1>2. PICK p \in DOMAIN known[id], n \in Numbers :
        /\ known[id][p] = "STRING" => n >= 0
        /\ command' = [id |-> id, param |-> p, type |-> known[id][p], number |-> n]
  BY <1>1
<1>3. known[id] \in Seq(Types) /\ Len(known[id]) <= Params
  BY DEF Description
<1>4. p \in 1 .. Params /\ known[id][p] \in Types
  BY <1>3, Sizes
<1>5. n \in Int
  BY NumbersAreWhole
<1>6. Commanded'
  BY <1>2, <1>4, <1>5 DEF Commanded, Existing
<1> QED
  BY <1>6 DEF Description, Existing, Made, NothingIsMisread, WhatIsAskedIsSeen

LEMMA SetParamInv == ASSUME ValuesInv, SetParam PROVE ValuesInv'
<1> USE DEF ValuesInv, SetParam
<1>1. Commanded'
  BY DEF Commanded
<1>2. CASE command.id \notin DOMAIN nodes
  BY <1>1, <1>2 DEF Description, Existing, Made, NothingIsMisread, WhatIsAskedIsSeen
<1>3. CASE command.id \in DOMAIN nodes
  <2>1. PICK id \in DOMAIN nodes, p \in 1 .. Params, n \in Int :
          id = command.id /\ p = command.param /\ n = command.number
    BY <1>3 DEF Commanded
  <2>2. command.type = described[p] /\ id \in 1 .. created /\ described[p] \in Types
    BY <2>1 DEF Commanded, Existing, Description, Descriptions
  <2>3. /\ nodes' = [nodes EXCEPT ![id].values[p] = Handed(described[p], n)]
        /\ asked' = [asked EXCEPT ![id][p] = n]
        /\ described[p] = "STRING" => n >= 0
    BY <1>3, <2>1, <2>2 DEF Commanded
  <2>4. Description'
    BY <2>2, <2>3 DEF Description
  <2>5. Existing'
    <3> SUFFICES ASSUME NEW i \in DOMAIN nodes
                 PROVE  /\ i \in 1 .. created
                        /\ nodes'[i] = Made(i)'
                        /\ \A q \in DOMAIN known[i] : known[i][q] = described[q]
                        /\ \A q \in 1 .. Params : described[q] = "STRING" => asked'[i][q] >= 0
      BY <2>3 DEF Existing
    <3>1. CASE i # id
      BY <2>2, <2>3, <3>1 DEF Existing, Made, Description
    <3>2. CASE i = id
      <4>1. asked'[i] = [asked[i] EXCEPT ![p] = n] /\ asked[i] \in [1 .. Params -> Int]
        BY <2>2, <2>3, <3>2 DEF Description
      <4>2. nodes'[i] = [nodes[i] EXCEPT !.values = [@ EXCEPT ![p] = Handed(described[p], n)]]
        BY <2>3, <3>2
      <4>3. nodes[i] = Made(i)
        BY DEF Existing
      <4>4. nodes'[i] = Made(i)'
        <5> DEFINE old == [q \in 1 .. Params |-> Handed(described[q], asked[i][q])]
        <5>1. nodes'[i] = [types  |-> described,
                           values |-> [old EXCEPT ![p] = Handed(described[p], n)]]
          <6>1. nodes[i] = [types |-> described, values |-> old]
            BY <4>3 DEF Made
          <6> HIDE DEF old
          <6> QED
            BY <4>2, <6>1
        <5>2. [old EXCEPT ![p] = Handed(described[p], n)]
                = [q \in 1 .. Params |-> Handed(described[q], asked'[i][q])]
          BY <4>1
        <5> QED
          BY <5>1, <5>2 DEF Made
      <4> QED
        BY <2>3, <4>1, <4>4 DEF Existing
    <3> QED
      BY <3>1, <3>2
  <2>6. nodes[id].types = described
    BY DEF Existing, Made
  <2>7. misread' = FALSE
    BY <1>3, <2>1, <2>2, <2>6 DEF NothingIsMisread
  <2> QED
    BY <1>1, <2>4, <2>5, <2>7 DEF NothingIsMisread, WhatIsAskedIsSeen
<1> QED
  BY <1>2, <1>3

LEMMA PublishInv == ASSUME ValuesInv, Publish PROVE ValuesInv'
<1>1. PICK id \in DOMAIN nodes, p \in 1 .. Params :
        seen' = [id |-> id, type |-> nodes[id].types[p], asked |-> asked[id][p],
                 number |-> Sampled(nodes[id].types[p], nodes[id].values[p])]
  BY DEF Publish
<1>2. /\ id \in 1 .. created /\ nodes[id] = Made(id) /\ asked[id] \in [1 .. Params -> Int]
      /\ described[p] \in Types /\ (described[p] = "STRING" => asked[id][p] >= 0)
  BY DEF ValuesInv, Existing, Description, Descriptions
<1>3. PICK type \in Types, n \in Int :
        type = described[p] /\ n = asked[id][p] /\ (type = "STRING" => n >= 0)
  BY <1>2
<1>4. nodes[id].types[p] = type /\ nodes[id].values[p] = Handed(type, n)
  BY <1>2, <1>3 DEF Made
<1>5. /\ seen'.type = type /\ seen'.asked = n
      /\ seen'.number = Sampled(type, Handed(type, n))
  BY <1>1, <1>3, <1>4
<1>6. type = "WORD" => seen'.number = n
  BY <1>5 DEF Sampled, Handed
<1>7. type = "I64" =>
        seen'.number \in -Half .. Half - 1 /\ (seen'.number - n) % (2 * Half) = 0
  BY <1>5, IntKept DEF Sampled, Handed
<1>8. type = "STRING" => seen'.number = Min({n, ParamSize - 1, PortSize - 1, SampleSize - 1})
  <2>1. Cut(Cut(Cut(n, ParamSize), PortSize), SampleSize) =
          Least(Least(Least(n, ParamSize - 1), PortSize - 1), SampleSize - 1)
    BY CutIs, Sizes
  <2>2. Min({n, ParamSize - 1, PortSize - 1, SampleSize - 1}) =
          Least(Least(Least(n, ParamSize - 1), PortSize - 1), SampleSize - 1)
    BY MinOfFour, Sizes
  <2> QED
    BY <1>5, <2>1, <2>2 DEF Sampled, Handed
<1>9. WhatIsAskedIsSeen'
  <2>1. CASE type = "WORD"
    BY <1>5, <1>6, <2>1 DEF WhatIsAskedIsSeen
  <2>2. CASE type = "I64"
    BY <1>5, <1>7, <2>2 DEF WhatIsAskedIsSeen
  <2>3. CASE type = "STRING"
    BY <1>5, <1>8, <2>3 DEF WhatIsAskedIsSeen
  <2> QED
    BY <2>1, <2>2, <2>3 DEF Types
<1>10. Description' /\ Existing' /\ Commanded' /\ NothingIsMisread'
  BY DEF Publish, ValuesInv, Description, Existing, Made, Commanded, NothingIsMisread
<1> QED
  BY <1>9, <1>10 DEF ValuesInv

LEMMA ValuesStep == ValuesInv /\ [ValuesNext]_valuesVars => ValuesInv'
<1> SUFFICES ASSUME ValuesInv, [ValuesNext]_valuesVars PROVE ValuesInv'
  OBVIOUS
<1>1. CASE UNCHANGED valuesVars
  BY <1>1 DEF valuesVars, ValuesInv, Description, Existing, Made, Commanded, NothingIsMisread,
              WhatIsAskedIsSeen
<1> QED
  BY <1>1, LoadInv, AddInv, SendNodeInv, SendInv, SetParamInv, PublishInv DEF ValuesNext

(* The invariant that carries the two theorems below: a node is of the module that
   is loaded, shows what was asked of it, and nobody was told otherwise of it. *)
THEOREM ValuesInvariant == ValuesSpec => []ValuesInv
BY ValuesInitInv, ValuesStep, PTL DEF ValuesSpec

(* A client that goes by the descriptors it was sent never has a parameter read as
   another type than it wrote, whenever modules are replaced. *)
THEOREM TypesAgree == ValuesSpec => []NothingIsMisread
<1>1. ValuesInv => NothingIsMisread
  BY DEF ValuesInv
<1> QED
  BY <1>1, ValuesInvariant, PTL

(* What was asked for is what is seen, but for the width of an int and the length
   of a string. *)
THEOREM ValuesArrive == ValuesSpec => []WhatIsAskedIsSeen
<1>1. ValuesInv => WhatIsAskedIsSeen
  BY DEF ValuesInv
<1> QED
  BY <1>1, ValuesInvariant, PTL

=============================================================================
