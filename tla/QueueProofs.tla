----------------------------- MODULE QueueProofs -----------------------------
(***************************************************************************)
(* Theorems about the two queues between a client and the engine, for every *)
(* capacity.  Commands in: how long a STOP can wait, and that the loop is a *)
(* channel that delivers every command exactly once and in order.  Results  *)
(* out: that the answers bring a client's picture of the graph up to date,  *)
(* and that a snapshot which starts with room enough finds it.              *)
(***************************************************************************)
EXTENDS CommandLoop, ResultStream, FiniteSetTheorems, SequenceTheorems, WellFoundedInduction, TLAPS

-----------------------------------------------------------------------------
(* Commands in. *)

(* The first STOP in the queue. *)
FirstStop(i) == commands[i] = "STOP" /\ \A j \in 1 .. i - 1 : commands[j] # "STOP"

StopInHand == phase = "dispatch" /\ message = "STOP"

StopQueued == \E i \in 1 .. Len(commands) : commands[i] = "STOP"

(* What the drain that is under way has taken already. *)
Taken == IF phase \in {"drain", "dispatch"} THEN drained ELSE 0

(* StopLatency in the middle of a drain: what was taken counts as well. *)
Bound ==
  waited > 0 /\ ~StopInHand =>
    \A i \in 1 .. Len(commands) :
      FirstStop(i) => (waited - 1) * Budget + Taken + i <= Capacity

(* Only a pending STOP waits. *)
Waits == waited > 0 => StopInHand \/ StopQueued

IInv == TypeOK /\ Waits /\ Bound

-----------------------------------------------------------------------------

(* The two ways a STOP can be pending. *)
LEMMA StopPendingCases ==
  ASSUME TypeOK PROVE StopPending <=> StopInHand \/ StopQueued
<1>1. CASE phase = "dispatch"
  <2>1. /\ Pending = <<message>> \o commands
        /\ <<message>> \in Seq(Commands) /\ Len(<<message>>) = 1 /\ <<message>>[1] = message
        /\ commands \in Seq(Commands) /\ Len(commands) \in Nat
    BY <1>1, LenProperties DEF Pending, TypeOK
  <2>2. /\ Len(Pending) = 1 + Len(commands)
        /\ \A i \in 1 .. 1 + Len(commands) :
             Pending[i] = IF i <= 1 THEN <<message>>[i] ELSE commands[i - 1]
    BY <2>1, ConcatProperties
  <2>3. Pending[1] = message /\ 1 \in 1 .. Len(Pending)
    BY <2>1, <2>2
  <2>4. \A i \in 1 .. Len(commands) : i + 1 \in 1 .. Len(Pending) /\ Pending[i + 1] = commands[i]
    BY <2>1, <2>2
  <2>5. \A i \in 1 .. Len(Pending) :
          Pending[i] = message \/ (i - 1 \in 1 .. Len(commands) /\ Pending[i] = commands[i - 1])
    BY <2>1, <2>2, <2>3
  <2> QED
    BY <1>1, <2>3, <2>4, <2>5 DEF StopPending, StopInHand, StopQueued
<1>2. CASE phase # "dispatch"
  <2>1. Pending = commands
    BY <1>2, ConcatEmptySeq DEF Pending, TypeOK
  <2> QED
    BY <1>2, <2>1 DEF StopPending, StopInHand, StopQueued
<1> QED
  BY <1>1, <1>2

(* An engine that was created has no command and no cycle behind it. *)
LEMMA InitIInv == Init => IInv
<1> SUFFICES ASSUME Init PROVE IInv
  OBVIOUS
<1>1. <<>> \in Seq(Commands) /\ Len(<<>>) = 0
  BY EmptySeq
<1>2. TypeOK
  <2>1. message \in Commands
    BY DEF Init, Commands
  <2>2. commands \in Seq(Commands) /\ Len(commands) = 0
    BY <1>1 DEF Init
  <2>3. 0 <= Capacity /\ 0 \in 0 .. Budget
    BY CommandAssumption
  <2>4. /\ phase \in Phases /\ drained \in 0 .. Budget
        /\ stop_requested \in BOOLEAN /\ paused \in BOOLEAN /\ waited \in Nat
    BY <2>3 DEF Init, Phases
  <2> QED
    BY <2>1, <2>2, <2>3, <2>4 DEF TypeOK
<1>3. Waits /\ Bound
  BY DEF Init, Waits, Bound
<1> QED
  BY <1>2, <1>3 DEF IInv

(* A command sent while a STOP waits comes to stand behind that STOP. *)
LEMMA SendIInv == ASSUME NEW command \in Commands PROVE IInv /\ Send(command) => IInv'
<1> SUFFICES ASSUME IInv, Send(command) PROVE IInv'
  OBVIOUS
<1>1. /\ commands' \in Seq(Commands)
      /\ Len(commands') = Len(commands) + 1
      /\ \A i \in 1 .. Len(commands) : commands'[i] = commands[i]
  BY AppendProperties DEF Send, IInv, TypeOK
<1>2. Len(commands) \in Nat /\ Capacity \in Nat
  BY LenProperties, CommandAssumption DEF IInv, TypeOK
<1>3. UNCHANGED <<phase, message, drained, stop_requested, paused, waited>>
  BY DEF Send
<1>4. TypeOK'
  BY <1>1, <1>2, <1>3 DEF Send, IInv, TypeOK
<1>5. Waits'
  BY <1>1, <1>2, <1>3 DEF IInv, Waits, StopInHand, StopQueued
<1>6. Bound'
  <2> SUFFICES ASSUME waited > 0, ~StopInHand,
                      NEW i \in 1 .. Len(commands'), FirstStop(i)'
               PROVE  (waited - 1) * Budget + Taken + i <= Capacity
    BY <1>3 DEF Bound, StopInHand, Taken
  <2>1. StopQueued
    BY DEF IInv, Waits
  <2>2. i \in 1 .. Len(commands)
    BY <1>1, <1>2, <2>1 DEF StopQueued, FirstStop
  <2>3. FirstStop(i)
    BY <1>1, <1>2, <2>2 DEF FirstStop
  <2> QED
    BY <2>2, <2>3 DEF IInv, Bound
<1> QED
  BY <1>4, <1>5, <1>6 DEF IInv

(* What is popped is taken, and all behind it moves up by one. *)
LEMMA PopIInv == IInv /\ Pop => IInv'
<1> SUFFICES ASSUME IInv, Pop PROVE IInv'
  OBVIOUS
<1>1. /\ commands # <<>>
      /\ message' = Head(commands) /\ message' = commands[1] /\ message' \in Commands
      /\ commands' \in Seq(Commands)
      /\ Len(commands') = Len(commands) - 1
      /\ \A i \in 1 .. Len(commands') : commands'[i] = commands[i + 1]
  BY HeadTailProperties DEF Pop, IInv, TypeOK
<1>2. /\ Len(commands) \in Nat /\ Len(commands') \in Nat
      /\ Capacity \in Nat /\ Budget \in Nat /\ drained \in Nat /\ waited \in Nat
      /\ drained < Budget
  BY <1>1, LenProperties, CommandAssumption DEF Pop, IInv, TypeOK
<1>3. /\ phase = "drain" /\ phase' = "dispatch"
      /\ drained' = drained + 1
      /\ UNCHANGED <<stop_requested, paused, waited>>
  BY DEF Pop
<1>4. TypeOK'
  BY <1>1, <1>2, <1>3 DEF IInv, TypeOK, Phases
<1>5. Waits'
  <2> SUFFICES ASSUME waited > 0 PROVE StopInHand' \/ StopQueued'
    BY <1>3 DEF Waits
  <2>1. PICK i \in 1 .. Len(commands) : commands[i] = "STOP"
    BY <1>3 DEF IInv, Waits, StopInHand, StopQueued
  <2>2. CASE i = 1
    BY <1>1, <1>3, <2>1, <2>2 DEF StopInHand
  <2>3. CASE i # 1
    <3>1. i - 1 \in 1 .. Len(commands') /\ commands'[i - 1] = "STOP"
      BY <1>1, <1>2, <2>1, <2>3
    <3> QED
      BY <3>1 DEF StopQueued
  <2> QED
    BY <2>2, <2>3
<1>6. Bound'
  <2> SUFFICES ASSUME waited > 0, message' # "STOP",
                      NEW i \in 1 .. Len(commands'), FirstStop(i)'
               PROVE  (waited - 1) * Budget + (drained + 1) + i <= Capacity
    BY <1>3 DEF Bound, StopInHand, Taken
  <2>1. i + 1 \in 1 .. Len(commands) /\ commands[i + 1] = "STOP"
    BY <1>1, <1>2 DEF FirstStop
  <2>2. ASSUME NEW j \in 1 .. i PROVE commands[j] # "STOP"
    <3>1. CASE j = 1
      BY <1>1, <3>1
    <3>2. CASE j # 1
      <4>1. j - 1 \in 1 .. i - 1 /\ j - 1 \in 1 .. Len(commands') /\ (j - 1) + 1 = j
        BY <1>1, <1>2, <3>2
      <4>2. commands'[j - 1] = commands[(j - 1) + 1]
        BY <1>1, <4>1
      <4>3. commands'[j - 1] # "STOP"
        BY <4>1 DEF FirstStop
      <4> QED
        BY <4>1, <4>2, <4>3
    <3> QED
      BY <3>1, <3>2
  <2>3. FirstStop(i + 1)
    BY <2>1, <2>2 DEF FirstStop
  <2>4. (waited - 1) * Budget + drained + (i + 1) <= Capacity
    BY <1>3, <2>1, <2>3 DEF IInv, Bound, StopInHand, Taken
  <2>5. (waited - 1) * Budget \in Int
    BY <1>2
  <2> QED
    BY <1>2, <2>4, <2>5
<1> QED
  BY <1>4, <1>5, <1>6 DEF IInv

(* A STOP that is applied no longer waits. *)
LEMMA DispatchIInv == IInv /\ Dispatch => IInv'
<1> SUFFICES ASSUME IInv, Dispatch PROVE IInv'
  OBVIOUS
<1>1. /\ phase = "dispatch" /\ phase' = "drain"
      /\ UNCHANGED <<commands, message, drained>>
      /\ stop_requested' \in BOOLEAN
      /\ waited' = IF message = "STOP" THEN 0 ELSE waited
  BY DEF Dispatch, IInv, TypeOK
<1>2. paused' \in BOOLEAN
  <2>1. CASE message \in {"PAUSE", "RESUME"}
    <3>1. paused' = (message = "PAUSE")
      BY <2>1 DEF Dispatch
    <3> QED
      BY <3>1
  <2>2. CASE message \notin {"PAUSE", "RESUME"}
    <3>1. paused' = paused
      BY <2>2 DEF Dispatch
    <3> QED
      BY <3>1 DEF IInv, TypeOK
  <2> QED
    BY <2>1, <2>2
<1>3. TypeOK'
  BY <1>1, <1>2 DEF IInv, TypeOK, Phases
<1>4. CASE message = "STOP"
  <2>1. waited' = 0
    BY <1>1, <1>4
  <2> QED
    BY <1>3, <2>1 DEF IInv, Waits, Bound
<1>5. CASE message # "STOP"
  <2>1. waited' = waited /\ Taken' = Taken /\ ~StopInHand /\ ~StopInHand'
    BY <1>1, <1>5 DEF Taken, StopInHand
  <2>2. Waits'
    BY <1>1, <2>1 DEF IInv, Waits, StopQueued
  <2>3. Bound'
    BY <1>1, <2>1 DEF IInv, Bound, FirstStop
  <2> QED
    BY <1>3, <2>2, <2>3 DEF IInv
<1> QED
  BY <1>4, <1>5

(* A drain that leaves a STOP behind has taken Budget commands. *)
LEMMA LeaveDrainIInv == IInv /\ LeaveDrain => IInv'
<1> SUFFICES ASSUME IInv, LeaveDrain PROVE IInv'
  OBVIOUS
<1>1. /\ phase = "drain" /\ phase' \in {"tail", "step"}
      /\ drained = Budget \/ commands = <<>>
      /\ UNCHANGED <<commands, message, drained, stop_requested, paused>>
      /\ waited' = IF StopQueued THEN waited + 1 ELSE waited
  <2>1. StopPending <=> StopQueued
    BY StopPendingCases DEF LeaveDrain, IInv, StopInHand
  <2> QED
    BY <2>1 DEF LeaveDrain
<1>2. /\ Len(commands) \in Nat /\ Len(commands) <= Capacity
      /\ Capacity \in Nat /\ Budget \in Nat /\ waited \in Nat
  BY LenProperties, CommandAssumption DEF IInv, TypeOK
<1>3. TypeOK'
  BY <1>1, <1>2 DEF IInv, TypeOK, Phases
<1>4. Waits'
  BY <1>1, <1>2 DEF IInv, Waits, StopInHand, StopQueued
<1>5. Bound'
  <2> SUFFICES ASSUME NEW i \in 1 .. Len(commands), FirstStop(i)
               PROVE  (waited' - 1) * Budget + 0 + i <= Capacity
    BY <1>1 DEF Bound, Taken, FirstStop
  <2>1. StopQueued /\ waited' = waited + 1
    BY <1>1 DEF StopQueued, FirstStop
  <2>2. drained = Budget
    BY <1>1, EmptySeq DEF StopQueued, FirstStop
  <2>3. CASE waited = 0
    <3>1. (waited' - 1) * Budget = 0
      BY <1>2, <2>1, <2>3
    <3> QED
      BY <1>2, <3>1
  <2>4. CASE waited > 0
    <3>1. (waited - 1) * Budget + Budget + i <= Capacity
      BY <1>1, <2>2, <2>4 DEF IInv, Bound, StopInHand, Taken
    <3>2. (waited' - 1) * Budget = (waited - 1) * Budget + Budget
      BY <1>2, <2>1
    <3>3. (waited - 1) * Budget \in Int
      BY <1>2
    <3> QED
      BY <1>2, <3>1, <3>2, <3>3
  <2> QED
    BY <1>2, <2>3, <2>4
<1> QED
  BY <1>3, <1>4, <1>5 DEF IInv

(* The other steps leave the queue and what waits in it alone. *)
LEMMA OtherStepsIInv ==
  IInv /\ (Start \/ RequestStop \/ CheckStop \/ StepRuntime \/ FinishCycle) => IInv'
<1> USE DEF IInv, TypeOK, Phases, Waits, Bound, StopInHand, StopQueued, Taken, FirstStop
<1>1. IInv /\ Start => IInv'
  BY DEF Start
<1>2. IInv /\ RequestStop => IInv'
  BY DEF RequestStop
<1>3. IInv /\ CheckStop => IInv'
  BY CommandAssumption DEF CheckStop
<1>4. IInv /\ StepRuntime => IInv'
  BY DEF StepRuntime
<1>5. IInv /\ FinishCycle => IInv'
  BY DEF FinishCycle
<1> QED
  BY <1>1, <1>2, <1>3, <1>4, <1>5

(* The invariant holds whatever the client sends and whoever stops or starts
   the loop. *)
THEOREM LoopInvariant == Spec => []IInv
<1>1. IInv /\ UNCHANGED vars => IInv'
  BY DEF IInv, TypeOK, Waits, Bound, StopInHand, StopQueued, Taken, FirstStop, vars
<1>2. IInv /\ [Next]_vars => IInv'
  BY <1>1, SendIInv, PopIInv, DispatchIInv, LeaveDrainIInv, OtherStepsIInv DEF Next, Loop
<1> QED
  BY <1>2, InitIInv, PTL DEF Spec

(* Every variable keeps its type; no drain exceeds the budget. *)
THEOREM TypeCorrect == Spec => []TypeOK
<1>1. IInv => TypeOK
  BY DEF IInv
<1> QED
  BY <1>1, LoopInvariant, PTL

(* The place of a STOP in the queue bounds the cycles until it takes effect. *)
THEOREM StopWaitsBoundedly == Spec => []StopLatency
<1>1. ASSUME IInv PROVE StopLatency
  <2> SUFFICES ASSUME NEW i \in 1 .. Len(commands), waited > 0, FirstStop(i), ~StopInHand
               PROVE  (waited - 1) * Budget + i <= Capacity
    BY DEF StopLatency, FirstStop, StopInHand
  <2>1. (waited - 1) * Budget + Taken + i <= Capacity
    BY <1>1 DEF IInv, Bound
  <2>2. /\ Taken \in Nat /\ Capacity \in Nat /\ Budget \in Nat /\ waited \in Nat
        /\ Len(commands) \in Nat
    BY <1>1, CommandAssumption, LenProperties DEF IInv, TypeOK, Taken
  <2>3. (waited - 1) * Budget \in Int
    BY <2>2
  <2> QED
    BY <2>1, <2>2, <2>3
<1> QED
  BY <1>1, LoopInvariant, PTL

-----------------------------------------------------------------------------
(* The loop as a channel. *)

(* A sequence behind a first element. *)
LEMMA OneAhead ==
  ASSUME NEW S, NEW e \in S, NEW s \in Seq(S)
  PROVE  /\ <<e>> \o s \in Seq(S)
         /\ <<e>> \o s # <<>>
         /\ Head(<<e>> \o s) = e
         /\ Tail(<<e>> \o s) = s
<1> DEFINE t == <<e>> \o s
<1>1. <<e>> \in Seq(S) /\ Len(<<e>>) = 1 /\ <<e>>[1] = e /\ Len(s) \in Nat
  BY LenProperties
<1>2. /\ t \in Seq(S)
      /\ Len(t) = 1 + Len(s)
      /\ \A i \in 1 .. 1 + Len(s) : t[i] = IF i <= 1 THEN <<e>>[i] ELSE s[i - 1]
  BY <1>1, ConcatProperties
<1> HIDE DEF t
<1>3. t # <<>> /\ Len(t) = 1 + Len(s)
  BY <1>1, <1>2, EmptySeq
<1>4. Head(t) = e
  <2>1. Head(t) = t[1]
    BY <1>2, <1>3
  <2>2. 1 \in 1 .. 1 + Len(s)
    BY <1>1
  <2> QED
    BY <1>1, <1>2, <2>1, <2>2
<1>5. /\ Tail(t) \in Seq(S)
      /\ Len(Tail(t)) = Len(s)
      /\ \A i \in 1 .. Len(Tail(t)) : Tail(t)[i] = t[i + 1]
  BY <1>1, <1>2, <1>3, HeadTailProperties
<1>6. ASSUME NEW i \in 1 .. Len(s) PROVE Tail(t)[i] = s[i]
  <2>1. i + 1 \in 1 .. 1 + Len(s) /\ ~(i + 1 <= 1) /\ (i + 1) - 1 = i
    BY <1>1
  <2>2. Tail(t)[i] = t[i + 1]
    BY <1>5
  <2>3. t[i + 1] = s[(i + 1) - 1]
    BY <1>2, <2>1
  <2> QED
    BY <2>1, <2>2, <2>3
<1>7. Tail(t) = s
  BY <1>5, <1>6, SeqEqual
<1> QED
  BY <1>2, <1>3, <1>4, <1>7 DEF t

(* What was popped and what is left are what was there. *)
LEMMA HeadAndTail ==
  ASSUME NEW S, NEW s \in Seq(S), s # <<>>
  PROVE  <<Head(s)>> \o Tail(s) = s
<1>1. /\ Head(s) = s[1] /\ Head(s) \in S
      /\ Tail(s) \in Seq(S)
      /\ Len(Tail(s)) = Len(s) - 1
      /\ \A i \in 1 .. Len(Tail(s)) : Tail(s)[i] = s[i + 1]
  BY HeadTailProperties
<1>2. Len(s) \in Nat /\ <<Head(s)>> \in Seq(S) /\ Len(<<Head(s)>>) = 1
  BY <1>1, LenProperties
<1> DEFINE t == <<Head(s)>> \o Tail(s)
<1>3. /\ t \in Seq(S)
      /\ Len(t) = 1 + (Len(s) - 1)
      /\ \A i \in 1 .. 1 + (Len(s) - 1) :
           t[i] = IF i <= 1 THEN <<Head(s)>>[i] ELSE Tail(s)[i - 1]
  <2>1. /\ t \in Seq(S)
        /\ Len(t) = 1 + Len(Tail(s))
        /\ \A i \in 1 .. 1 + Len(Tail(s)) :
             t[i] = IF i <= 1 THEN <<Head(s)>>[i] ELSE Tail(s)[i - 1]
    BY <1>1, <1>2, ConcatProperties
  <2> QED
    BY <1>1, <2>1
<1> HIDE DEF t
<1>4. Len(t) = Len(s)
  BY <1>2, <1>3
<1>5. ASSUME NEW i \in 1 .. Len(s) PROVE t[i] = s[i]
  <2>1. CASE i = 1
    <3>1. 1 \in 1 .. 1 + (Len(s) - 1)
      BY <1>2, <2>1
    <3>2. t[1] = <<Head(s)>>[1]
      BY <1>3, <3>1
    <3> QED
      BY <1>1, <2>1, <3>2
  <2>2. CASE i # 1
    <3>1. i - 1 \in 1 .. Len(Tail(s)) /\ i \in 1 .. 1 + (Len(s) - 1) /\ ~(i <= 1)
          /\ (i - 1) + 1 = i
      BY <1>1, <1>2, <2>2
    <3>2. t[i] = Tail(s)[i - 1]
      BY <1>3, <3>1
    <3>3. Tail(s)[i - 1] = s[(i - 1) + 1]
      BY <1>1, <3>1
    <3> QED
      BY <3>1, <3>2, <3>3
  <2> QED
    BY <2>1, <2>2
<1>6. t = s
  BY <1>3, <1>4, <1>5, SeqEqual
<1> QED
  BY <1>6 DEF t

(* Without a command in hand, what is pending is what is queued. *)
LEMMA PendingIsQueue ==
  ASSUME TypeOK, phase # "dispatch" PROVE Pending = commands
BY ConcatEmptySeq DEF Pending, TypeOK

(* Every step of the loop, the client and the owner is a step of the channel or
   invisible to it. *)
LEMMA ChannelStep ==
  IInv /\ IInv' /\ [Next]_vars => [Channel!Next]_(Channel!vars)
<1> SUFFICES ASSUME IInv, IInv', [Next]_vars PROVE [Channel!Next]_(Channel!vars)
  OBVIOUS
<1>0. TypeOK /\ TypeOK'
  BY DEF IInv
<1>1. ASSUME NEW command \in Commands, Send(command) PROVE Channel!Send(command)
  <2>1. commands' = Append(commands, command) /\ UNCHANGED <<phase, message, stop_requested, paused>>
    BY <1>1 DEF Send
  <2>2. Pending' = Append(Pending, command)
    <3>1. CASE phase = "dispatch"
      <4>1. /\ <<message>> \in Seq(Commands) /\ commands \in Seq(Commands)
            /\ <<command>> \in Seq(Commands)
        BY <1>0 DEF TypeOK
      <4>2. Pending = <<message>> \o commands /\ Pending' = <<message>> \o commands'
        BY <2>1, <3>1 DEF Pending
      <4>3. Pending \in Seq(Commands)
        BY <4>1, <4>2, ConcatProperties
      <4>4. commands' = commands \o <<command>>
        BY <2>1, <4>1, AppendIsConcat
      <4>5. Append(Pending, command) = Pending \o <<command>>
        BY <4>3, AppendIsConcat
      <4> QED
        BY <4>1, <4>2, <4>4, <4>5, ConcatAssociative
    <3>2. CASE phase # "dispatch"
      <4>1. Pending = commands
        BY <1>0, <3>2, PendingIsQueue
      <4>2. Pending' = commands'
        BY <1>0, <2>1, <3>2, ConcatEmptySeq DEF Pending, TypeOK
      <4> QED
        BY <2>1, <4>1, <4>2
    <3> QED
      BY <3>1, <3>2
  <2> QED
    BY <2>1, <2>2 DEF Channel!Send
<1>2. ASSUME Start PROVE Channel!Restart
  <2>1. Pending = commands /\ Pending' = commands'
    BY <1>0, <1>2, ConcatEmptySeq DEF Start, Pending, TypeOK
  <2> QED
    BY <1>2, <2>1 DEF Start, Channel!Restart
<1>3. ASSUME RequestStop PROVE Channel!RequestStop
  <2>1. UNCHANGED Pending
    BY <1>3 DEF RequestStop, Pending
  <2> QED
    BY <1>3, <2>1 DEF RequestStop, Channel!RequestStop
<1>4. ASSUME Pop PROVE UNCHANGED Channel!vars
  <2>1. Pending = commands
    BY <1>0, <1>4, PendingIsQueue DEF Pop
  <2>2. Pending' = <<Head(commands)>> \o Tail(commands)
    BY <1>4 DEF Pop, Pending
  <2>3. commands \in Seq(Commands) /\ commands # <<>>
    BY <1>0, <1>4 DEF Pop, TypeOK
  <2> QED
    BY <1>4, <2>1, <2>2, <2>3, HeadAndTail DEF Pop, Channel!vars
<1>5. ASSUME Dispatch PROVE Channel!Apply
  <2>1. Pending = <<message>> \o commands /\ message \in Commands /\ commands \in Seq(Commands)
    BY <1>0, <1>5 DEF Dispatch, Pending, TypeOK
  <2>2. Pending # <<>> /\ Head(Pending) = message /\ Tail(Pending) = commands
    BY <2>1, OneAhead
  <2>3. Pending' = commands
    <3>1. phase' # "dispatch" /\ commands' = commands
      BY <1>5 DEF Dispatch
    <3>2. Pending' = commands'
      BY <1>0, <3>1, ConcatEmptySeq DEF Pending, TypeOK
    <3> QED
      BY <3>1, <3>2
  <2>4. stop_requested' = (stop_requested \/ message = "STOP")
    <3>1. CASE message = "STOP"
      <4>1. stop_requested' = TRUE
        BY <1>5, <3>1 DEF Dispatch
      <4> QED
        BY <3>1, <4>1
    <3>2. CASE message # "STOP"
      <4>1. stop_requested' = stop_requested /\ stop_requested \in BOOLEAN
        BY <1>0, <1>5, <3>2 DEF Dispatch, TypeOK
      <4> QED
        BY <3>2, <4>1
    <3> QED
      BY <3>1, <3>2
  <2>5. paused' = IF message \in {"PAUSE", "RESUME"} THEN message = "PAUSE" ELSE paused
    BY <1>5 DEF Dispatch
  <2> QED
    BY <2>2, <2>3, <2>4, <2>5 DEF Channel!Apply
<1>6. ASSUME CheckStop \/ LeaveDrain \/ StepRuntime \/ FinishCycle
      PROVE  UNCHANGED Channel!vars
  <2>1. phase # "dispatch" /\ phase' # "dispatch"
        /\ UNCHANGED <<commands, stop_requested, paused>>
    BY <1>6 DEF CheckStop, LeaveDrain, StepRuntime, FinishCycle
  <2>2. Pending = commands /\ Pending' = commands'
    BY <1>0, <2>1, ConcatEmptySeq DEF Pending, TypeOK
  <2> QED
    BY <2>1, <2>2 DEF Channel!vars
<1>7. ASSUME UNCHANGED vars PROVE UNCHANGED Channel!vars
  BY <1>7 DEF vars, Pending, Channel!vars
<1> QED
  BY <1>1, <1>2, <1>3, <1>4, <1>5, <1>6, <1>7 DEF Next, Loop, Channel!Next

(* The loop applies every command exactly once and in the order of sending,
   over every stop and restart. *)
THEOREM ImplementsChannel == Spec => ChannelSpec
<1>1. Init => Channel!Init
  BY EmptySeq, ConcatEmptySeq DEF Init, Channel!Init, Pending
<1> QED
  BY <1>1, ChannelStep, LoopInvariant, PTL DEF Spec, ChannelSpec, Channel!Spec


-----------------------------------------------------------------------------
(* Results out.  Hearing is a recursive function: it is reasoned about by the
   first of the numbers for which it could go wrong. *)

(* The picture after each of the first n answers. *)
Reading(p, n, picture, answers) ==
  p = [k \in 0 .. n |-> IF k = 0 THEN picture ELSE Told(p[k - 1], answers[k])]

(* What does not hold of every number does not hold of a first one. *)
LEMMA FirstNumber ==
  ASSUME NEW S \in SUBSET Nat, S # {}
  PROVE  \E n \in S : \A m \in S : n <= m
<1>1. IsWellFoundedOn(OpToRel(<, Nat), Nat)
  BY NatLessThanWellFounded
<1>2. PICK n \in S : \A m \in S : ~(<<m, n>> \in OpToRel(<, Nat))
  BY <1>1, WFMin, Zenon
<1>3. ASSUME NEW m \in Nat, NEW k \in Nat, m < k PROVE <<m, k>> \in OpToRel(<, Nat)
  BY <1>3, Zenon DEF OpToRel
<1>4. \A m \in S : ~(m < n)
  BY <1>2, <1>3, Zenon
<1> QED
  BY <1>4

LEMMA ReadingExtends ==
  ASSUME NEW n \in Nat, NEW picture, NEW answers, NEW p, Reading(p, n, picture, answers)
  PROVE  \E q : /\ Reading(q, n + 1, picture, answers)
                /\ q[n + 1] = Told(p[n], answers[n + 1])
<1> DEFINE q == [k \in 0 .. n + 1 |-> IF k \in 0 .. n THEN p[k] ELSE Told(p[n], answers[n + 1])]
<1>1. \A k \in 0 .. n : p[k] = IF k = 0 THEN picture ELSE Told(p[k - 1], answers[k])
  BY DEF Reading
<1>2. /\ \A k \in 0 .. n : q[k] = p[k]
      /\ q[n + 1] = Told(p[n], answers[n + 1])
  OBVIOUS
<1>3. \A k \in 0 .. n + 1 : q[k] = IF k = 0 THEN picture ELSE Told(q[k - 1], answers[k])
  <2> SUFFICES ASSUME NEW k \in 0 .. n + 1
               PROVE  q[k] = IF k = 0 THEN picture ELSE Told(q[k - 1], answers[k])
    OBVIOUS
  <2>1. CASE k = n + 1
    BY <1>2, <2>1
  <2>2. CASE k \in 0 .. n
    BY <1>1, <1>2, <2>2
  <2> QED
    BY <2>1, <2>2
<1>4. q = [k \in 0 .. n + 1 |-> q[k]]
  OBVIOUS
<1> HIDE DEF q
<1>5. Reading(q, n + 1, picture, answers)
  BY <1>3, <1>4 DEF Reading
<1> QED
  BY <1>2, <1>5

LEMMA ReadingExists ==
  ASSUME NEW n \in Nat, NEW picture, NEW answers
  PROVE  \E p : Reading(p, n, picture, answers)
<1> DEFINE Bad == {m \in Nat : ~ \E p : Reading(p, m, picture, answers)}
<1>1. SUFFICES ASSUME Bad # {} PROVE FALSE
  OBVIOUS
<1>2. PICK m \in Bad : \A k \in Bad : m <= k
  BY <1>1, FirstNumber
<1>3. m # 0
  <2>1. Reading([k \in 0 .. 0 |-> picture], 0, picture, answers)
    BY DEF Reading
  <2> QED
    BY <2>1, <1>2
<1>4. m - 1 \in Nat /\ m - 1 \notin Bad
  BY <1>2, <1>3
<1>5. PICK p : Reading(p, m - 1, picture, answers)
  BY <1>4
<1>6. \E q : Reading(q, m - 1 + 1, picture, answers)
  BY <1>4, <1>5, ReadingExtends
<1>7. m - 1 + 1 = m
  BY <1>2
<1> QED
  BY <1>2, <1>6, <1>7

LEMMA ReadingAgrees ==
  ASSUME NEW n \in Nat, NEW picture, NEW answers, NEW p, NEW q, NEW others,
         NEW m \in Nat, n <= m,
         \A k \in 1 .. n : answers[k] = others[k],
         Reading(p, n, picture, answers), Reading(q, m, picture, others)
  PROVE  p[n] = q[n]
<1> DEFINE Bad == {k \in 0 .. n : p[k] # q[k]}
<1>1. SUFFICES ASSUME Bad # {} PROVE FALSE
  OBVIOUS
<1>2. PICK k \in Bad : \A j \in Bad : k <= j
  <2>1. Bad \in SUBSET Nat
    OBVIOUS
  <2> HIDE DEF Bad
  <2> QED
    BY <1>1, <2>1, FirstNumber
<1>3. /\ p[k] = IF k = 0 THEN picture ELSE Told(p[k - 1], answers[k])
      /\ q[k] = IF k = 0 THEN picture ELSE Told(q[k - 1], others[k])
  BY <1>2 DEF Reading
<1>4. k # 0
  BY <1>2, <1>3
<1>5. k - 1 \in 0 .. n /\ k - 1 \notin Bad /\ k \in 1 .. n
  BY <1>2, <1>4
<1>6. p[k - 1] = q[k - 1] /\ answers[k] = others[k]
  BY <1>5
<1> QED
  BY <1>2, <1>3, <1>4, <1>6

LEMMA HearingIs ==
  ASSUME NEW picture, NEW answers, Len(answers) \in Nat,
         NEW p, Reading(p, Len(answers), picture, answers)
  PROVE  Hearing(picture, answers) = p[Len(answers)]
<1> DEFINE r == CHOOSE q : Reading(q, Len(answers), picture, answers)
<1>1. Reading(r, Len(answers), picture, answers)
  OBVIOUS
<1>2. Hearing(picture, answers) = r[Len(answers)]
  BY DEF Hearing, Reading
<1> HIDE DEF r
<1>3. r[Len(answers)] = p[Len(answers)]
  BY <1>1, ReadingAgrees
<1> QED
  BY <1>2, <1>3

LEMMA HearingNothing == ASSUME NEW picture PROVE Hearing(picture, <<>>) = picture
<1>1. Reading([k \in 0 .. 0 |-> picture], 0, picture, <<>>)
  BY DEF Reading
<1>2. Len(<<>>) = 0 /\ [k \in 0 .. 0 |-> picture][0] = picture
  OBVIOUS
<1> QED
  BY <1>1, <1>2, HearingIs

LEMMA HearingAppend ==
  ASSUME NEW picture, NEW S, NEW answers \in Seq(S), NEW m \in S
  PROVE  Hearing(picture, Append(answers, m)) = Told(Hearing(picture, answers), m)
<1>1. PICK n \in Nat : n = Len(answers)
  OBVIOUS
<1>2. PICK longer \in Seq(S) : longer = Append(answers, m)
  BY AppendProperties
<1>3. /\ Len(longer) = n + 1 /\ longer[n + 1] = m
      /\ \A k \in 1 .. n : longer[k] = answers[k]
  BY <1>1, <1>2, AppendProperties
<1>4. PICK p : Reading(p, n, picture, answers)
  BY ReadingExists
<1>5. Reading(p, n, picture, longer)
  BY <1>3, <1>4 DEF Reading
<1>6. PICK q : Reading(q, n + 1, picture, longer) /\ q[n + 1] = Told(p[n], longer[n + 1])
  BY <1>5, ReadingExtends
<1>7. Hearing(picture, longer) = q[n + 1]
  BY <1>3, <1>6, HearingIs
<1>8. Hearing(picture, answers) = p[n]
  BY <1>1, <1>4, HearingIs
<1> QED
  BY <1>2, <1>3, <1>6, <1>7, <1>8

LEMMA HearingTail ==
  ASSUME NEW picture, NEW S, NEW answers \in Seq(S), answers # <<>>
  PROVE  Hearing(Told(picture, Head(answers)), Tail(answers)) = Hearing(picture, answers)
<1>1. PICK n \in Nat : Len(answers) = n + 1
  <2>1. Len(answers) \in Nat /\ Len(answers) # 0
    OBVIOUS
  <2> QED
    BY <2>1
<1>2. PICK rest \in Seq(S) : rest = Tail(answers)
  BY HeadTailProperties
<1>3. /\ Len(rest) = n /\ answers[1] = Head(answers)
      /\ \A k \in 1 .. n : rest[k] = answers[k + 1]
  <2>1. Len(rest) = n
    BY <1>1, <1>2, HeadTailProperties
  <2>2. \A k \in 1 .. n : rest[k] = answers[k + 1]
    BY <1>2, <2>1, HeadTailProperties
  <2>3. answers[1] = Head(answers)
    OBVIOUS
  <2> QED
    BY <2>1, <2>2, <2>3, Zenon
<1>4. PICK p : Reading(p, n + 1, picture, answers)
  <2>1. n + 1 \in Nat
    OBVIOUS
  <2> QED
    BY <2>1, ReadingExists, Zenon
<1>5. \A k \in 0 .. n + 1 : p[k] = IF k = 0 THEN picture ELSE Told(p[k - 1], answers[k])
  BY <1>4 DEF Reading
<1> DEFINE q    == [k \in 0 .. n |-> p[k + 1]]
           next == Told(picture, Head(answers))
<1>6. q[n] = p[n + 1] /\ q = [k \in 0 .. n |-> q[k]] /\ \A k \in 0 .. n : q[k] = p[k + 1]
  OBVIOUS
<1>7. \A k \in 0 .. n : q[k] = IF k = 0 THEN next ELSE Told(q[k - 1], rest[k])
  <2> SUFFICES ASSUME NEW k \in 0 .. n
               PROVE  q[k] = IF k = 0 THEN next ELSE Told(q[k - 1], rest[k])
    OBVIOUS
  <2>1. CASE k = 0
    <3>1. p[1] = Told(p[0], answers[1]) /\ p[0] = picture
      BY <1>5
    <3> QED
      BY <1>3, <1>6, <2>1, <3>1
  <2>2. CASE k # 0
    <3>1. p[k + 1] = Told(p[k], answers[k + 1]) /\ q[k - 1] = p[k] /\ k \in 1 .. n
      BY <1>5, <1>6, <2>2
    <3> QED
      BY <1>3, <1>6, <2>2, <3>1
  <2> QED
    BY <2>1, <2>2
<1> HIDE DEF q, next
<1>8. Reading(q, n, next, rest)
  BY <1>6, <1>7 DEF Reading
<1>9. Hearing(next, rest) = q[n]
  BY <1>3, <1>8, HearingIs
<1>10. Hearing(picture, answers) = p[n + 1]
  BY <1>1, <1>4, HearingIs
<1> QED
  BY <1>2, <1>6, <1>9, <1>10 DEF next
(* What is sent, and what a client makes of it. *)
Answers ==
  {m \in [seq : Nat, kind : Kinds, status : {"OK", "ERROR"}, id : Nat \union Connections,
          name : Names \union {None}] :
     m.status = "OK" /\ m.kind \in {"NODE", "ADD_NODE"} => [id |-> m.id, name |-> m.name] \in Node}

Pictures == [nodes : SUBSET Node, shown : SUBSET Node, of : Nat]

(* What the client will know once it has read everything, and what of that the
   snapshot under way has shown it. *)
Heard   == Hearing(client, results)
Showing == IF Heard.of = seq THEN Heard.shown ELSE {}

Speaking ==
  /\ results \in Seq(Answers)
  /\ client \in Pictures /\ Heard \in Pictures /\ Heard.of <= seq

(* How the nodes it will know compare to those there are. *)
Telling ==
  /\ at = "idle" => (sure => Heard.nodes = Known)
  /\ at = "nodes" => (ok => Showing = Known \ todo)
  /\ at \in {"connections", "done"} => (ok => Showing = Known)

(* How many messages the snapshot will send before the mark at the end. *)
Left ==
  IF at = "nodes" THEN Cardinality(todo \intersect Known) + Cardinality(connections)
  ELSE IF at = "connections" THEN Cardinality(todo) ELSE 0

Fitting ==
  /\ IsFiniteSet(nodes) /\ IsFiniteSet(todo)
  /\ room => ok /\ (at # "idle" => Len(results) + Left < ResultCapacity)

ResultsInv == ResultsTypeOK /\ Speaking /\ Telling /\ Fitting

-----------------------------------------------------------------------------

LEMMA ToldPicture ==
  ASSUME NEW p \in Pictures, NEW m \in Answers
  PROVE  Told(p, m) \in Pictures /\ Told(p, m).of \in {p.of, m.seq, 0}
<1>1. /\ p.nodes \subseteq Node /\ p.shown \subseteq Node /\ p.of \in Nat
      /\ p = [nodes |-> p.nodes, shown |-> p.shown, of |-> p.of]
  BY DEF Pictures
<1>2. /\ m.seq \in Nat /\ m.kind \in Kinds
      /\ m.status # "ERROR" /\ m.kind \in {"NODE", "ADD_NODE"} =>
           [id |-> m.id, name |-> m.name] \in Node
  BY DEF Answers
<1>3. CASE m.status = "ERROR"
  BY <1>3 DEF Told
<1>4. CASE m.status # "ERROR" /\ m.kind = "LOAD_NODE"
  BY <1>1, <1>4 DEF Told, Pictures
<1>5. CASE m.status # "ERROR" /\ m.kind = "ADD_NODE"
  BY <1>1, <1>2, <1>5 DEF Told, Pictures
<1>6. CASE m.status # "ERROR" /\ m.kind = "REMOVE_NODE"
  BY <1>1, <1>6 DEF Told, Pictures
<1>7. CASE m.status # "ERROR" /\ m.kind = "NODE"
  BY <1>1, <1>2, <1>7 DEF Told, Pictures
<1>8. CASE m.status # "ERROR" /\ m.kind = "CONNECTION"
  BY <1>8 DEF Told
<1>9. CASE m.status # "ERROR" /\ m.kind = "DONE"
  BY <1>1, <1>9 DEF Told, Pictures
<1> QED
  BY <1>2, <1>3, <1>4, <1>5, <1>6, <1>7, <1>8, <1>9 DEF Kinds

(* What a push does to the queue and to what the client will know. *)
LEMMA Pushing ==
  ASSUME ResultsTypeOK, Speaking, NEW m \in Answers, m.seq \in 0 .. seq', PushResult(m),
         client' = client, seq' \in seq .. MaxCommands
  PROVE  /\ Heard' = (IF HasRoom THEN Told(Heard, m) ELSE Heard)
         /\ Speaking'
         /\ Len(results') <= ResultCapacity
         /\ Len(results') = IF HasRoom THEN Len(results) + 1 ELSE Len(results)
         /\ \A i \in 1 .. Len(results') :
              results'[i].seq \in 0 .. seq' /\ results'[i].kind \in Kinds
<1>1. CASE HasRoom
  <2>1. results' = Append(results, m) /\ results \in Seq(Answers)
    BY <1>1 DEF PushResult, Speaking
  <2>2. /\ results' \in Seq(Answers) /\ Len(results') = Len(results) + 1
        /\ results'[Len(results) + 1] = m
        /\ \A i \in 1 .. Len(results) : results'[i] = results[i]
    BY <2>1, AppendProperties
  <2>3. Heard' = Told(Heard, m)
    BY <2>1, HearingAppend DEF Heard
  <2>4. Heard' \in Pictures /\ Heard'.of \in {Heard.of, m.seq, 0}
    BY <2>3, ToldPicture DEF Speaking
  <2>5. seq \in Nat /\ Heard.of \in Nat /\ Heard.of <= seq
    BY DEF ResultsTypeOK, Speaking, Pictures
  <2>6. Heard'.of <= seq'
    BY <2>4, <2>5
  <2>7. Speaking'
    BY <2>2, <2>4, <2>6 DEF Speaking
  <2>8. Len(results) \in Nat /\ Len(results') <= ResultCapacity
    BY <1>1, <2>1, <2>2, ResultAssumption DEF HasRoom
  <2>9. \A i \in 1 .. Len(results) : results[i].seq \in 0 .. seq /\ results[i].kind \in Kinds
    BY DEF ResultsTypeOK
  <2>10. m.kind \in Kinds
    BY DEF Answers
  <2>11. \A i \in 1 .. Len(results') :
           results'[i].seq \in 0 .. seq' /\ results'[i].kind \in Kinds
    BY <2>2, <2>5, <2>8, <2>9, <2>10
  <2> QED
    BY <1>1, <2>2, <2>3, <2>7, <2>8, <2>11
<1>2. CASE ~HasRoom
  <2>1. results' = results
    BY <1>2 DEF PushResult
  <2>2. Heard' = Heard
    BY <2>1 DEF Heard
  <2>3. seq \in Nat /\ Heard.of \in Nat /\ Heard.of <= seq
    BY DEF ResultsTypeOK, Speaking, Pictures
  <2>4. Speaking'
    BY <2>1, <2>2, <2>3 DEF Speaking
  <2> QED
    BY <1>2, <2>1, <2>2, <2>3, <2>4 DEF ResultsTypeOK
<1> QED
  BY <1>1, <1>2

(* A handler that sends one answer keeps the invariant if, when it is sure of the
   client, what the client will know of the nodes is what there is. *)
LEMMA Answering ==
  ASSUME ResultsInv, Taking, NEW m \in Answers, m.seq = seq + 1, seq' = seq + 1, PushResult(m),
         UNCHANGED <<snapshot, connections, client>>,
         loaded' \subseteq Names, nodes' \subseteq Node, IsFiniteSet(nodes'),
         created' \in 0 .. MaxNodes, sure' \in BOOLEAN,
         sure' => (IF HasRoom THEN Told(Heard, m) ELSE Heard).nodes = Known'
  PROVE  ResultsInv'
<1>1. ResultsTypeOK /\ Speaking /\ Telling /\ Fitting
  BY DEF ResultsInv
<1>2. seq \in Nat /\ seq + 1 \in seq .. MaxCommands /\ at = "idle"
  BY <1>1, ResultAssumption DEF Taking, ResultsTypeOK
<1>3. /\ Heard' = (IF HasRoom THEN Told(Heard, m) ELSE Heard)
      /\ Speaking'
      /\ Len(results') <= ResultCapacity
      /\ \A i \in 1 .. Len(results') :
           results'[i].seq \in 0 .. seq' /\ results'[i].kind \in Kinds
  BY <1>1, <1>2, Pushing
<1>4. at' = at /\ todo' = todo /\ ok' = ok /\ room' = room
  BY DEF snapshot
<1>5. client'.nodes \subseteq Node /\ client'.shown \subseteq Node /\ client'.of \in 0 .. seq'
  BY <1>1, <1>2 DEF ResultsTypeOK
<1>6. ResultsTypeOK'
  BY <1>1, <1>2, <1>3, <1>4, <1>5 DEF ResultsTypeOK
<1>7. Telling'
  BY <1>2, <1>3, <1>4 DEF Telling
<1>8. Fitting'
  BY <1>1, <1>2, <1>4 DEF Fitting
<1> QED
  BY <1>3, <1>6, <1>7, <1>8 DEF ResultsInv

(* What a client makes of the answers to the commands. *)
LEMMA ToldError ==
  ASSUME NEW p, NEW number, NEW kind, NEW id, NEW name
  PROVE  Told(p, Message(number, kind, "ERROR", id, name)) = p
BY DEF Told, Message

LEMMA ToldLoad ==
  ASSUME NEW p \in Pictures, NEW number, NEW id, NEW name
  PROVE  Told(p, Message(number, "LOAD_NODE", "OK", id, name)).nodes
           = {n \in p.nodes : n.name # name}
BY DEF Told, Message, Pictures

LEMMA ToldAdd ==
  ASSUME NEW p \in Pictures, NEW number, NEW id, NEW name
  PROVE  Told(p, Message(number, "ADD_NODE", "OK", id, name)).nodes
           = p.nodes \union {[id |-> id, name |-> name]}
BY DEF Told, Message, Pictures

LEMMA ToldRemove ==
  ASSUME NEW p \in Pictures, NEW number, NEW id, NEW name
  PROVE  Told(p, Message(number, "REMOVE_NODE", "OK", id, name)).nodes
           = {n \in p.nodes : n.id # id}
BY DEF Told, Message, Pictures

LEMMA LoadNodeInv ==
  ASSUME ResultsInv, NEW name \in Names, LoadNode(name) PROVE ResultsInv'
<1> DEFINE Failed == Message(seq + 1, "LOAD_NODE", "ERROR", None, None)
           Loaded  == Message(seq + 1, "LOAD_NODE", "OK", None, name)
<1>1. /\ Taking /\ UNCHANGED <<snapshot, connections, created, client>>
      /\ seq' = seq + 1 /\ seq \in Nat /\ at = "idle"
  BY DEF LoadNode, Taking, Answer, ResultsInv, ResultsTypeOK
<1>2. Failed \in Answers /\ Failed.seq = seq + 1 /\ Loaded \in Answers /\ Loaded.seq = seq + 1
  BY <1>1 DEF Answers, Message, Kinds, None
<1>3. /\ loaded \subseteq Names /\ nodes \subseteq Node /\ IsFiniteSet(nodes)
      /\ created' \in 0 .. MaxNodes /\ sure \in BOOLEAN
      /\ IsFiniteSet(nodes \ Named(name)) /\ nodes \ Named(name) \subseteq Node
  BY <1>1, FS_Difference DEF ResultsInv, ResultsTypeOK, Fitting
<1>4. /\ Heard \in Pictures /\ (sure => Heard.nodes = Known)
      /\ Told(Heard, Failed) = Heard
      /\ Told(Heard, Loaded).nodes = {n \in Heard.nodes : n.name # name}
  BY <1>1, ToldError, ToldLoad DEF ResultsInv, Speaking, Telling
<1> HIDE DEF Failed, Loaded
<1>5. CASE PushResult(Failed) /\ UNCHANGED <<loaded, nodes, sure>>
  <2>1. Known' = Known
    BY <1>5 DEF Known
  <2> QED
    BY <1>1, <1>2, <1>3, <1>4, <1>5, <2>1, Answering
<1>6. CASE /\ PushResult(Failed)
           /\ loaded' = loaded \ {name} /\ nodes' = nodes \ Named(name)
           /\ sure' = (sure /\ Named(name) \intersect Known = {})
  <2>1. sure' => Known' = Known
    BY <1>6 DEF Known, Named
  <2>2. sure' => (IF HasRoom THEN Told(Heard, Failed) ELSE Heard).nodes = Known'
    BY <1>4, <1>6, <2>1
  <2>3. sure' \in BOOLEAN
    BY <1>6, Zenon
  <2> QED
    BY <1>1, <1>2, <1>3, <1>6, <2>2, <2>3, Answering
<1>7. CASE /\ PushResult(Loaded)
           /\ loaded' = loaded \union {name} /\ nodes' = nodes \ Named(name)
           /\ sure' = (sure /\ (HasRoom \/ Named(name) \intersect Known = {}))
  <2>1. Known' = {n \in Known : n.name # name}
    BY <1>7 DEF Known, Named
  <2>2. Named(name) \intersect Known = {} => Known' = Known
    BY <2>1 DEF Known, Named
  <2>3. sure' => (IF HasRoom THEN Told(Heard, Loaded) ELSE Heard).nodes = Known'
    BY <1>4, <1>7, <2>1, <2>2
  <2>4. sure' \in BOOLEAN
    BY <1>7, Zenon
  <2> QED
    BY <1>1, <1>2, <1>3, <1>7, <2>3, <2>4, Answering
<1> QED
  BY <1>5, <1>6, <1>7 DEF LoadNode, Answer, Failed, Loaded

LEMMA AddNodeInv ==
  ASSUME ResultsInv, NEW name \in Names, AddNode(name) PROVE ResultsInv'
<1> DEFINE new    == [id |-> created + 1, name |-> name]
           known  == IF name \in loaded THEN name ELSE None
           Added  == Message(seq + 1, "ADD_NODE", "OK", created + 1, name)
           Failed == Message(seq + 1, "ADD_NODE", "ERROR", None, known)
<1>1. /\ Taking /\ UNCHANGED <<snapshot, loaded, connections, client>>
      /\ seq' = seq + 1 /\ seq \in Nat /\ at = "idle"
  BY DEF AddNode, Taking, Answer, ResultsInv, ResultsTypeOK
<1>2. /\ loaded \subseteq Names /\ nodes \subseteq Node /\ IsFiniteSet(nodes)
      /\ created \in 0 .. MaxNodes /\ sure \in BOOLEAN
  BY DEF ResultsInv, ResultsTypeOK, Fitting
<1>3. /\ Heard \in Pictures /\ (sure => Heard.nodes = Known)
      /\ Told(Heard, Failed) = Heard
      /\ Told(Heard, Added).nodes = Heard.nodes \union {new}
  BY <1>1, ToldError, ToldAdd DEF ResultsInv, Speaking, Telling
<1>4. CASE /\ name \in loaded /\ created < MaxNodes
           /\ nodes' = nodes \union {new} /\ created' = created + 1
           /\ PushResult(Added) /\ sure' = (sure /\ HasRoom)
  <2>1. created + 1 \in 1 .. MaxNodes /\ created + 1 \in 0 .. MaxNodes /\ created + 1 \in Nat
    BY <1>2, <1>4, ResultAssumption
  <2>2. new \in Node
    BY <2>1 DEF Node
  <2>3. Added \in Answers /\ Added.seq = seq + 1
    BY <1>1, <2>1, <2>2 DEF Answers, Message, Kinds
  <2>4. nodes' \subseteq Node /\ IsFiniteSet(nodes')
    BY <1>2, <1>4, <2>2, FS_AddElement
  <2>5. Known' = Known \union {new}
    BY <1>1, <1>4 DEF Known
  <2>6. sure' \in BOOLEAN
    BY <1>4, Zenon
  <2> HIDE DEF new, Added
  <2>7. sure' => (IF HasRoom THEN Told(Heard, Added) ELSE Heard).nodes = Known'
    BY <1>3, <1>4, <2>5
  <2> QED
    BY <1>1, <1>2, <1>4, <2>1, <2>3, <2>4, <2>6, <2>7, Answering
<1>5. CASE PushResult(Failed) /\ UNCHANGED <<nodes, created, sure>>
  <2>1. Known' = Known
    BY <1>1, <1>5 DEF Known
  <2>2. Failed \in Answers /\ Failed.seq = seq + 1
    BY <1>1 DEF Answers, Message, Kinds, None
  <2> HIDE DEF Failed
  <2> QED
    BY <1>1, <1>2, <1>3, <1>5, <2>1, <2>2, Answering
<1> QED
  BY <1>4, <1>5 DEF AddNode, Answer

LEMMA RemoveNodeInv ==
  ASSUME ResultsInv, NEW id \in 1 .. MaxNodes, RemoveNode(id) PROVE ResultsInv'
<1> DEFINE removed == {n \in nodes : n.id = id}
           status  == IF removed = {} THEN "ERROR" ELSE "OK"
           Removed == Message(seq + 1, "REMOVE_NODE", status, id, None)
<1>1. /\ Taking /\ UNCHANGED <<snapshot, loaded, connections, created, client>>
      /\ seq' = seq + 1 /\ seq \in Nat /\ at = "idle"
      /\ nodes' = nodes \ removed /\ PushResult(Removed)
      /\ sure' = (sure /\ (HasRoom \/ removed \intersect Known = {}))
  BY DEF RemoveNode, Taking, Answer, ResultsInv, ResultsTypeOK
<1>2. /\ loaded \subseteq Names /\ nodes \subseteq Node /\ IsFiniteSet(nodes)
      /\ created \in 0 .. MaxNodes
  BY DEF ResultsInv, ResultsTypeOK, Fitting
<1>3. nodes' \subseteq Node /\ IsFiniteSet(nodes')
  BY <1>1, <1>2, FS_Difference
<1>4. Removed \in Answers /\ Removed.seq = seq + 1
  BY <1>1, ResultAssumption DEF Answers, Message, Kinds, None
<1>5. Known' = {n \in Known : n.id # id}
  BY <1>1 DEF Known
<1>6. removed \intersect Known = {} => Known' = Known
  BY <1>5 DEF Known
<1>7. sure' \in BOOLEAN
  BY <1>1, Zenon
<1>8. sure' => (IF HasRoom THEN Told(Heard, Removed) ELSE Heard).nodes = Known'
  <2>1. Heard \in Pictures /\ (sure => Heard.nodes = Known)
    BY <1>1 DEF ResultsInv, Speaking, Telling
  <2>2. CASE removed = {}
    <3>1. Told(Heard, Removed) = Heard
      BY <2>2, ToldError
    <3> QED
      BY <1>1, <1>6, <2>1, <2>2, <3>1
  <2>3. CASE removed # {}
    <3>1. Told(Heard, Removed).nodes = {n \in Heard.nodes : n.id # id}
      BY <2>1, <2>3, ToldRemove
    <3> HIDE DEF Removed
    <3> QED
      BY <1>1, <1>5, <1>6, <2>1, <3>1
  <2> QED
    BY <2>2, <2>3
<1> HIDE DEF Removed, removed
<1> QED
  BY <1>1, <1>2, <1>3, <1>4, <1>7, <1>8, Answering

LEMMA SilentInv == ASSUME ResultsInv, ChangeSilently PROVE ResultsInv'
<1> USE DEF ChangeSilently, ResultsInv
<1>1. /\ seq' = seq + 1 /\ seq \in Nat /\ seq + 1 \in 0 .. MaxCommands /\ at = "idle"
      /\ connections' \subseteq Connections
  BY ResultAssumption DEF Taking, ResultsTypeOK
<1>2. Heard' = Heard /\ Known' = Known
  BY DEF Heard, Known
<1>3. ResultsTypeOK'
  BY <1>1 DEF ResultsTypeOK, snapshot
<1>4. Speaking'
  BY <1>1, <1>2 DEF Speaking, Pictures
<1>5. Telling' /\ Fitting'
  BY <1>1, <1>2 DEF Telling, Fitting, snapshot
<1> QED
  BY <1>3, <1>4, <1>5

-----------------------------------------------------------------------------
(* The steps of a snapshot. *)

LEMMA RequestInv == ASSUME ResultsInv, RequestRuntimeNodes PROVE ResultsInv'
<1>1. ResultsTypeOK /\ Speaking /\ Telling /\ Fitting
  BY DEF ResultsInv
<1>2. /\ seq' = seq + 1 /\ seq \in Nat /\ seq + 1 \in 0 .. MaxCommands
      /\ at' = "nodes" /\ todo' = nodes /\ ok' = TRUE
      /\ UNCHANGED <<graph, results, client, sure>>
      /\ room' = (Len(results) + Cardinality(Known) + Cardinality(connections) < ResultCapacity)
  BY <1>1, ResultAssumption DEF RequestRuntimeNodes, Taking, ResultsTypeOK
<1>3. Heard' = Heard /\ Known' = Known
  BY <1>2 DEF Heard, Known, graph
<1>4. Heard \in Pictures /\ Heard.of \in Nat /\ Heard.of <= seq
  BY <1>1 DEF Speaking, Pictures
<1>5. ResultsTypeOK'
  <2>1. {ok', sure', room'} \subseteq BOOLEAN
    <3>1. ok' \in BOOLEAN
      BY <1>2, Zenon
    <3>2. sure' \in BOOLEAN
      BY <1>1, <1>2, Zenon DEF ResultsTypeOK
    <3>3. room' \in BOOLEAN
      <4> DEFINE fits == Len(results) + Cardinality(Known) + Cardinality(connections) < ResultCapacity
      <4>1. room' = fits
        BY <1>2, Zenon
      <4>2. fits \in BOOLEAN
        OBVIOUS
      <4> HIDE DEF fits
      <4> QED
        BY <4>1, <4>2, Zenon
    <3> QED
      BY <3>1, <3>2, <3>3, Zenon
  <2> QED
    BY <1>1, <1>2, <2>1 DEF ResultsTypeOK, graph
<1>6. Speaking'
  BY <1>1, <1>2, <1>3, <1>4 DEF Speaking
<1>7. Telling'
  <2>1. Showing' = {}
    BY <1>2, <1>3, <1>4 DEF Showing
  <2>2. Known' \ todo' = {}
    BY <1>2, <1>3 DEF Known
  <2> QED
    BY <1>2, <2>1, <2>2 DEF Telling
<1>8. Fitting'
  <2>1. todo' \intersect Known' = Known /\ connections' = connections /\ nodes' = nodes
    BY <1>2, <1>3 DEF Known, graph
  <2>2. Left' = Cardinality(Known) + Cardinality(connections)
    BY <1>2, <2>1 DEF Left
  <2>3. Len(results) \in Nat
    BY <1>1 DEF Speaking
  <2>4. Cardinality(Known) \in Nat /\ Cardinality(connections) \in Nat
    BY <1>1, ResultAssumption, FS_Subset, FS_CardinalityType DEF Fitting, Known, ResultsTypeOK
  <2>5. room' => Len(results) + Cardinality(Known) + Cardinality(connections) < ResultCapacity
    BY <1>2, Zenon
  <2>6. room' => ok' /\ Len(results') + Left' < ResultCapacity
    BY <1>2, <2>2, <2>3, <2>4, <2>5, ResultAssumption
  <2>7. IsFiniteSet(nodes') /\ IsFiniteSet(todo')
    BY <1>1, <1>2, <2>1 DEF Fitting
  <2> QED
    BY <2>6, <2>7 DEF Fitting
<1> QED
  BY <1>5, <1>6, <1>7, <1>8 DEF ResultsInv

(* What a client makes of a snapshot. *)
LEMMA ToldNode ==
  ASSUME NEW p \in Pictures, NEW number, NEW id, NEW name
  PROVE  LET told == Told(p, Message(number, "NODE", "OK", id, name))
         IN  /\ told.of = number
             /\ told.shown = (IF p.of = number THEN p.shown ELSE {})
                               \union {[id |-> id, name |-> name]}
BY DEF Told, Message, Pictures

LEMMA ToldConnection ==
  ASSUME NEW p, NEW number, NEW id, NEW name
  PROVE  Told(p, Message(number, "CONNECTION", "OK", id, name)) = p
BY DEF Told, Message

LEMMA ToldDone ==
  ASSUME NEW p, NEW number, NEW id, NEW name
  PROVE  Told(p, Message(number, "DONE", "OK", id, name)).nodes
           = IF p.of = number THEN p.shown ELSE {}
BY DEF Told, Message

(* A message of a snapshot is one less that has to be sent. *)
LEMMA Sending ==
  ASSUME ResultsInv, at # "idle", NEW m \in Answers, m.seq = seq, SendMessage(m),
         UNCHANGED <<seq, graph, client, room>>,
         at' \in {"idle", "nodes", "connections", "done"}, IsFiniteSet(todo'),
         todo' \subseteq (IF at' = "nodes" THEN Node ELSE Connections),
         sure' \in BOOLEAN,
         at' # "idle" => Left' \in Nat /\ Left' + 1 = Left
  PROVE  /\ ResultsTypeOK' /\ Speaking' /\ Fitting'
         /\ Heard' = (IF HasRoom THEN Told(Heard, m) ELSE Heard)
<1>1. ResultsTypeOK /\ Speaking /\ Fitting
  BY DEF ResultsInv
<1>2. /\ PushResult(m) /\ ok' = (HasRoom /\ ok)
      /\ seq \in Nat /\ seq' = seq /\ seq \in seq .. MaxCommands
      /\ loaded' = loaded /\ nodes' = nodes /\ connections' = connections /\ created' = created
  BY <1>1, ResultAssumption DEF SendMessage, ResultsTypeOK, graph
<1>3. /\ Heard' = (IF HasRoom THEN Told(Heard, m) ELSE Heard)
      /\ Speaking'
      /\ Len(results') <= ResultCapacity
      /\ Len(results') = IF HasRoom THEN Len(results) + 1 ELSE Len(results)
      /\ \A i \in 1 .. Len(results') :
           results'[i].seq \in 0 .. seq' /\ results'[i].kind \in Kinds
  BY <1>1, <1>2, Pushing
<1>4. ResultsTypeOK'
  <2>1. ok' \in BOOLEAN /\ room' \in BOOLEAN
    BY <1>1, <1>2, Zenon DEF ResultsTypeOK
  <2>2. {ok', sure', room'} \subseteq BOOLEAN
    BY <2>1, Zenon
  <2> QED
    BY <1>1, <1>2, <1>3, <2>2 DEF ResultsTypeOK
<1>5. Fitting'
  <2>1. Len(results) \in Nat
    BY <1>1 DEF Speaking
  <2>2. room => ok /\ Len(results) + Left < ResultCapacity
    BY <1>1 DEF Fitting
  <2>3. Left \in Nat
    <3>1. IsFiniteSet(connections) /\ IsFiniteSet(todo \intersect Known)
      BY <1>1, ResultAssumption, FS_Subset, FS_Intersection DEF Fitting, ResultsTypeOK
    <3>2. /\ Cardinality(connections) \in Nat /\ Cardinality(todo) \in Nat
          /\ Cardinality(todo \intersect Known) \in Nat
      BY <1>1, <3>1, FS_CardinalityType DEF Fitting
    <3> QED
      BY <3>2 DEF Left
  <2>4. room => ok' /\ (at' # "idle" => Len(results') + Left' < ResultCapacity)
    <3> SUFFICES ASSUME room
                 PROVE  ok' /\ (at' # "idle" => Len(results') + Left' < ResultCapacity)
      OBVIOUS
    <3>1. HasRoom /\ ok
      BY <2>1, <2>2, <2>3, ResultAssumption DEF HasRoom
    <3>2. Len(results') = Len(results) + 1
      BY <1>3, <3>1
    <3>3. ok'
      BY <1>2, <3>1, Zenon
    <3>4. at' # "idle" => Len(results') + Left' < ResultCapacity
      BY <2>1, <2>2, <2>3, <3>2, ResultAssumption
    <3> QED
      BY <3>3, <3>4
  <2> QED
    BY <1>1, <1>2, <2>4 DEF Fitting
<1> QED
  BY <1>3, <1>4, <1>5

LEMMA SendNodeInv == ASSUME ResultsInv, SendNode PROVE ResultsInv'
<1>1. ResultsTypeOK /\ Speaking /\ Telling /\ Fitting
  BY DEF ResultsInv
<1>2. PICK n \in todo :
        /\ todo' = todo \ {n}
        /\ IF n \in Known THEN SendMessage(Message(seq, "NODE", "OK", n.id, n.name))
           ELSE UNCHANGED <<results, ok>>
  BY DEF SendNode
<1>3. /\ at = "nodes" /\ at' = "nodes"
      /\ UNCHANGED <<seq, graph, client, sure, room>>
      /\ nodes' = nodes /\ connections' = connections /\ seq \in Nat
  BY <1>1 DEF SendNode, graph, ResultsTypeOK
<1>4. Known' = Known
  BY <1>3 DEF Known, graph
<1>5. IsFiniteSet(todo') /\ todo' \subseteq Node
  BY <1>1, <1>2, <1>3, FS_RemoveElement DEF Fitting, ResultsTypeOK
<1>6. CASE n \in Known
  <2> DEFINE m == Message(seq, "NODE", "OK", n.id, n.name)
  <2>1. n \in Node /\ n = [id |-> n.id, name |-> n.name]
    BY <1>1, <1>6 DEF Known, ResultsTypeOK, Node
  <2>2. m \in Answers /\ m.seq = seq
    BY <1>3, <2>1 DEF Answers, Message, Kinds, Node
  <2>3. SendMessage(m)
    BY <1>2, <1>6
  <2>4. Told(Heard, m).of = seq /\ Told(Heard, m).shown = Showing \union {n}
    BY <1>1, <2>1, ToldNode DEF Speaking, Showing
  <2> HIDE DEF m
  <2>5. Left' \in Nat /\ Left' + 1 = Left
    <3>1. IsFiniteSet(todo \intersect Known) /\ n \in todo \intersect Known
      BY <1>1, <1>6, FS_Intersection DEF Fitting
    <3>2. todo' \intersect Known' = (todo \intersect Known) \ {n}
      BY <1>2, <1>4
    <3>3. /\ Cardinality(todo' \intersect Known') = Cardinality(todo \intersect Known) - 1
          /\ Cardinality(todo \intersect Known) \in Nat
          /\ Cardinality(todo' \intersect Known') \in Nat
      BY <3>1, <3>2, FS_RemoveElement, FS_CardinalityType
    <3>4. Cardinality(connections) \in Nat
      BY <1>1, ResultAssumption, FS_Subset, FS_CardinalityType DEF ResultsTypeOK
    <3> QED
      BY <1>3, <3>3, <3>4 DEF Left
  <2>6. sure' \in BOOLEAN
    BY <1>1, <1>3, Zenon DEF ResultsTypeOK
  <2>7. /\ ResultsTypeOK' /\ Speaking' /\ Fitting'
        /\ Heard' = (IF HasRoom THEN Told(Heard, m) ELSE Heard)
    BY <1>3, <1>5, <2>2, <2>3, <2>5, <2>6, Sending
  <2>8. ok' => HasRoom /\ ok
    BY <2>3 DEF SendMessage
  <2>9. ok' => Showing' = Showing \union {n}
    BY <1>3, <2>4, <2>7, <2>8 DEF Showing
  <2>10. ok' => Showing' = Known' \ todo'
    BY <1>1, <1>2, <1>3, <1>4, <1>6, <2>8, <2>9 DEF Telling
  <2> QED
    BY <1>3, <2>7, <2>10 DEF Telling, ResultsInv
<1>7. CASE n \notin Known
  <2>1. results' = results /\ ok' = ok
    BY <1>2, <1>7
  <2>2. Heard' = Heard /\ Showing' = Showing
    BY <1>3, <2>1 DEF Heard, Showing
  <2>3. todo' \intersect Known' = todo \intersect Known /\ Known' \ todo' = Known \ todo
    BY <1>2, <1>4, <1>7
  <2>4. ResultsTypeOK' /\ Speaking'
    BY <1>1, <1>3, <1>5, <2>1, <2>2 DEF ResultsTypeOK, Speaking, graph
  <2>5. Telling'
    BY <1>1, <1>3, <2>1, <2>2, <2>3 DEF Telling
  <2>6. Left' = Left
    BY <1>3, <2>3 DEF Left
  <2>7. Fitting'
    BY <1>1, <1>3, <1>5, <2>1, <2>6 DEF Fitting
  <2> QED
    BY <2>4, <2>5, <2>7 DEF ResultsInv
<1> QED
  BY <1>6, <1>7

LEMMA NodesSentInv == ASSUME ResultsInv, NodesSent PROVE ResultsInv'
<1>1. ResultsTypeOK /\ Speaking /\ Telling /\ Fitting
  BY DEF ResultsInv
<1>2. /\ at = "nodes" /\ todo = {} /\ at' = "connections" /\ todo' = connections
      /\ UNCHANGED <<seq, ok, results, client, sure, room>>
      /\ loaded' = loaded /\ nodes' = nodes /\ connections' = connections /\ created' = created
  BY DEF NodesSent, graph
<1>3. Heard' = Heard /\ Showing' = Showing /\ Known' = Known
  BY <1>2 DEF Heard, Showing, Known
<1>4. IsFiniteSet(connections) /\ Cardinality(connections) \in Nat
  BY <1>1, ResultAssumption, FS_Subset, FS_CardinalityType DEF ResultsTypeOK
<1>5. ResultsTypeOK' /\ Speaking'
  BY <1>1, <1>2, <1>3 DEF ResultsTypeOK, Speaking
<1>6. Telling'
  BY <1>1, <1>2, <1>3 DEF Telling
<1>7. Left' = Left
  <2>1. todo \intersect Known = {} /\ Cardinality(todo \intersect Known) = 0
    BY <1>2, FS_EmptySet
  <2> QED
    BY <1>2, <1>4, <2>1 DEF Left
<1>8. Fitting'
  BY <1>1, <1>2, <1>4, <1>7 DEF Fitting
<1> QED
  BY <1>5, <1>6, <1>8 DEF ResultsInv

LEMMA SendConnectionInv == ASSUME ResultsInv, SendConnection PROVE ResultsInv'
<1>1. ResultsTypeOK /\ Speaking /\ Telling /\ Fitting
  BY DEF ResultsInv
<1>2. PICK c \in todo :
        todo' = todo \ {c} /\ SendMessage(Message(seq, "CONNECTION", "OK", c, None))
  BY DEF SendConnection
<1>3. /\ at = "connections" /\ at' = "connections"
      /\ UNCHANGED <<seq, graph, client, sure, room>> /\ seq \in Nat
  BY <1>1 DEF SendConnection, ResultsTypeOK
<1>4. Known' = Known
  BY <1>3 DEF Known, graph
<1> DEFINE m == Message(seq, "CONNECTION", "OK", c, None)
<1>5. m \in Answers /\ m.seq = seq
  BY <1>1, <1>2, <1>3 DEF Answers, Message, Kinds, None, ResultsTypeOK
<1>6. Told(Heard, m) = Heard
  BY ToldConnection
<1>7. SendMessage(m)
  BY <1>2
<1> HIDE DEF m
<1>8. /\ IsFiniteSet(todo') /\ todo' \subseteq Connections
      /\ Left' \in Nat /\ Left' + 1 = Left
  <2>1. IsFiniteSet(todo) /\ todo \subseteq Connections
    BY <1>1, <1>3 DEF Fitting, ResultsTypeOK
  <2>2. /\ IsFiniteSet(todo') /\ Cardinality(todo') = Cardinality(todo) - 1
        /\ Cardinality(todo) \in Nat /\ Cardinality(todo') \in Nat
    BY <1>2, <2>1, FS_RemoveElement, FS_CardinalityType
  <2> QED
    BY <1>2, <1>3, <2>1, <2>2 DEF Left
<1>9. sure' \in BOOLEAN
  BY <1>1, <1>3, Zenon DEF ResultsTypeOK
<1>10. /\ ResultsTypeOK' /\ Speaking' /\ Fitting'
       /\ Heard' = (IF HasRoom THEN Told(Heard, m) ELSE Heard)
  BY <1>3, <1>5, <1>7, <1>8, <1>9, Sending
<1>11. Showing' = Showing /\ (ok' => ok)
  BY <1>3, <1>6, <1>7, <1>10 DEF Showing, SendMessage
<1>12. Telling'
  BY <1>1, <1>3, <1>4, <1>11 DEF Telling
<1> QED
  BY <1>10, <1>12 DEF ResultsInv

LEMMA ConnectionsSentInv == ASSUME ResultsInv, ConnectionsSent PROVE ResultsInv'
<1>1. ResultsTypeOK /\ Speaking /\ Telling /\ Fitting
  BY DEF ResultsInv
<1>2. /\ at = "connections" /\ todo = {} /\ at' = "done" /\ todo' = todo
      /\ UNCHANGED <<seq, ok, results, client, sure, room>>
      /\ loaded' = loaded /\ nodes' = nodes /\ connections' = connections /\ created' = created
  BY DEF ConnectionsSent, graph
<1>3. Heard' = Heard /\ Showing' = Showing /\ Known' = Known
  BY <1>2 DEF Heard, Showing, Known
<1>4. ResultsTypeOK' /\ Speaking'
  BY <1>1, <1>2, <1>3 DEF ResultsTypeOK, Speaking
<1>5. Telling'
  BY <1>1, <1>2, <1>3 DEF Telling
<1>6. Left' = Left
  BY <1>2, FS_EmptySet DEF Left
<1>7. Fitting'
  BY <1>1, <1>2, <1>6 DEF Fitting
<1> QED
  BY <1>4, <1>5, <1>7 DEF ResultsInv

LEMMA SendDoneInv == ASSUME ResultsInv, SendDone PROVE ResultsInv'
<1>1. ResultsTypeOK /\ Speaking /\ Telling /\ Fitting
  BY DEF ResultsInv
<1> DEFINE m == Message(seq, "DONE", "OK", None, None)
<1>2. /\ at = "done" /\ at' = "idle" /\ todo' = todo /\ sure' = ok'
      /\ UNCHANGED <<seq, graph, client, room>> /\ seq \in Nat
      /\ SendMessage(m)
  BY <1>1 DEF SendDone, ResultsTypeOK
<1>3. Known' = Known
  BY <1>2 DEF Known, graph
<1>4. m \in Answers /\ m.seq = seq
  BY <1>2 DEF Answers, Message, Kinds, None
<1>5. Told(Heard, m).nodes = Showing
  BY ToldDone DEF Showing
<1> HIDE DEF m
<1>6. ok' = (HasRoom /\ ok)
  BY <1>2 DEF SendMessage
<1>7. sure' \in BOOLEAN
  BY <1>2, <1>6, Zenon
<1>8. IsFiniteSet(todo') /\ todo' \subseteq Connections
  BY <1>1, <1>2 DEF Fitting, ResultsTypeOK
<1>9. /\ ResultsTypeOK' /\ Speaking' /\ Fitting'
      /\ Heard' = (IF HasRoom THEN Told(Heard, m) ELSE Heard)
  BY <1>2, <1>4, <1>7, <1>8, Sending
<1>10. Telling'
  BY <1>1, <1>2, <1>3, <1>5, <1>6, <1>9 DEF Telling
<1> QED
  BY <1>9, <1>10 DEF ResultsInv

-----------------------------------------------------------------------------

LEMMA ReceiveInv == ASSUME ResultsInv, Receive PROVE ResultsInv'
<1>1. ResultsTypeOK /\ Speaking /\ Telling /\ Fitting
  BY DEF ResultsInv
<1>2. /\ results # <<>> /\ results \in Seq(Answers)
      /\ client' = Told(client, Head(results)) /\ results' = Tail(results)
      /\ UNCHANGED <<seq, snapshot, graph, sure>>
  BY <1>1 DEF Receive, Speaking
<1>3. Heard' = Heard /\ Known' = Known
  BY <1>2, HearingTail DEF Heard, Known, graph
<1>4. /\ Head(results) \in Answers /\ results' \in Seq(Answers)
      /\ Len(results) \in Nat /\ Len(results) > 0 /\ Len(results') = Len(results) - 1
      /\ \A i \in 1 .. Len(results') : results'[i] = results[i + 1] /\ i + 1 \in 1 .. Len(results)
      /\ Head(results) = results[1]
  BY <1>2, HeadTailProperties
<1>5. client' \in Pictures /\ client'.of \in {client.of, Head(results).seq, 0}
  BY <1>1, <1>2, <1>4, ToldPicture DEF Speaking
<1>6. /\ seq \in Nat /\ client.of \in 0 .. seq /\ Head(results).seq \in 0 .. seq
      /\ \A i \in 1 .. Len(results') :
           results'[i].seq \in 0 .. seq /\ results'[i].kind \in Kinds
  BY <1>1, <1>4 DEF ResultsTypeOK
<1>7. /\ client'.nodes \subseteq Node /\ client'.shown \subseteq Node
      /\ client'.of \in 0 .. seq
  BY <1>5, <1>6 DEF Pictures
<1>8. ResultsTypeOK'
  BY <1>1, <1>2, <1>4, <1>6, <1>7, ResultAssumption DEF ResultsTypeOK, snapshot, graph
<1>9. Speaking'
  BY <1>1, <1>2, <1>3, <1>4, <1>5 DEF Speaking
<1>10. Telling'
  BY <1>1, <1>2, <1>3 DEF Telling, Showing, snapshot
<1>11. Fitting'
  <2>1. Left' = Left /\ Left \in Nat
    <3>1. IsFiniteSet(connections) /\ IsFiniteSet(todo \intersect Known)
      BY <1>1, ResultAssumption, FS_Subset, FS_Intersection DEF Fitting, ResultsTypeOK
    <3>2. /\ Cardinality(connections) \in Nat /\ Cardinality(todo) \in Nat
          /\ Cardinality(todo \intersect Known) \in Nat
      BY <1>1, <3>1, FS_CardinalityType DEF Fitting
    <3> QED
      BY <1>2, <1>3, <3>2 DEF Left, snapshot, graph
  <2> QED
    BY <1>1, <1>2, <1>4, <2>1, ResultAssumption DEF Fitting, snapshot, graph
<1> QED
  BY <1>8, <1>9, <1>10, <1>11 DEF ResultsInv

LEMMA ResultsInitInv == ResultsInit => ResultsInv
<1> SUFFICES ASSUME ResultsInit PROVE ResultsInv
  OBVIOUS
<1> USE DEF ResultsInit
<1>1. nodes \subseteq Node /\ IsFiniteSet(nodes) /\ created \in 0 .. MaxNodes
  <2>1. CASE nodes = {} /\ created = 0
    BY <2>1, ResultAssumption, FS_EmptySet
  <2>2. CASE \E name \in Names : nodes = {[id |-> 1, name |-> name]} /\ created = 1
    <3>1. PICK name \in Names : nodes = {[id |-> 1, name |-> name]} /\ created = 1
      BY <2>2
    <3>2. IsFiniteSet(nodes)
      BY <3>1, FS_Singleton
    <3>3. 1 \in 1 .. MaxNodes
      BY ResultAssumption
    <3> QED
      BY <3>1, <3>2, <3>3 DEF Node
  <2> QED
    BY <2>1, <2>2
<1>2. Heard = client
  BY HearingNothing DEF Heard
<1>3. Len(results) = 0 /\ results \in Seq(Answers)
  OBVIOUS
<1>4. client \in Pictures /\ client.nodes = {} /\ client.of = 0
  BY DEF Pictures
<1>5. {ok, sure, room} \subseteq BOOLEAN
  BY Zenon
<1>6. ResultsTypeOK
  BY <1>1, <1>3, <1>5, ResultAssumption DEF ResultsTypeOK
<1>7. Speaking
  BY <1>2, <1>3, <1>4 DEF Speaking
<1>8. Telling
  BY <1>2, <1>4 DEF Telling, Known
<1>9. Fitting
  BY <1>1, FS_EmptySet DEF Fitting
<1> QED
  BY <1>6, <1>7, <1>8, <1>9 DEF ResultsInv

LEMMA StutterInv == ASSUME ResultsInv, UNCHANGED resultsVars PROVE ResultsInv'
BY DEF resultsVars, snapshot, graph, ResultsInv, ResultsTypeOK, Speaking, Telling, Fitting, Heard,
       Showing, Known, Left

LEMMA ResultsStep == ResultsInv /\ [ResultsNext]_resultsVars => ResultsInv'
<1> SUFFICES ASSUME ResultsInv, [ResultsNext]_resultsVars PROVE ResultsInv'
  OBVIOUS
<1>1. CASE Handler
  BY <1>1, LoadNodeInv, AddNodeInv, RemoveNodeInv, SilentInv, RequestInv DEF Handler
<1>2. CASE Snapshot
  BY <1>2, SendNodeInv, NodesSentInv, SendConnectionInv, ConnectionsSentInv, SendDoneInv
     DEF Snapshot
<1>3. CASE Receive
  BY <1>3, ReceiveInv
<1>4. CASE Done \/ UNCHANGED resultsVars
  BY <1>4, StutterInv DEF Done
<1> QED
  BY <1>1, <1>2, <1>3, <1>4 DEF ResultsNext

-----------------------------------------------------------------------------

(* The invariant of the results is inductive: what is queued, heard and still to
   be sent by the handlers of engine.c and runtime.c adds up at every step. *)
THEOREM ResultsInvariant == ResultsSpec => []ResultsInv
BY ResultsInitInv, ResultsStep, PTL DEF ResultsSpec

(* The results hold what the engine's result structures can hold, and the queue
   never holds more than its capacity. *)
THEOREM ResultsTyped == ResultsSpec => []ResultsTypeOK
<1>1. ResultsInv => ResultsTypeOK
  BY DEF ResultsInv
<1> QED
  BY <1>1, ResultsInvariant, PTL

(* Between two commands, a client that reads all that is queued knows exactly the
   nodes there are, provided that since its last whole snapshot no answer was lost
   and no load failed after removing nodes; whatever was created, loaded or
   removed, for every capacity of the queue. *)
THEOREM ClientsCatchUp == ResultsSpec => []ViewCatchesUp
<1>1. ResultsInv => ViewCatchesUp
  BY DEF ResultsInv, Telling, ViewCatchesUp, Heard
<1> QED
  BY <1>1, ResultsInvariant, PTL

(* A snapshot that found room for all it says when it began is never cut short. *)
THEOREM SnapshotsFit == ResultsSpec => []RoomIsEnough
<1>1. ResultsInv => RoomIsEnough
  BY DEF ResultsInv, Fitting, RoomIsEnough
<1> QED
  BY <1>1, ResultsInvariant, PTL
=============================================================================
