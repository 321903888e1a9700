------------------------------ MODULE DeadlineClock ------------------------------
(***************************************************************************)
(* The pace of the realtime loop.  A cycle works for some time, then moves *)
(* its deadline one period on and sleeps until that deadline; if the       *)
(* deadline has passed already it does not sleep.  Commands drained in a   *)
(* cycle may change the period, and the cycle itself uses the new one.     *)
(* The period 0, which the host may have set but no command can, means: do *)
(* not sleep, and leave the deadline where it is.                          *)
(*                                                                         *)
(* Only the distance between deadline and clock matters, so the clock is   *)
(* not a variable.  The program keeps both as 64-bit counts of             *)
(* nanoseconds, half a millennium, and the model takes for granted that    *)
(* deadline and period do not add up to more than that.                    *)
(***************************************************************************)
EXTENDS Integers

CONSTANTS
  Periods,     \* the periods the runtime can be set to, 0 among them
  MaxWork,     \* bound of the model: the longest a cycle can work
  MaxLatency,  \* bound of the model: how late the system may wake the thread
  MaxExcess    \* bound of the model: for how long cycles work beyond their periods

ASSUME ClockAssumption ==
  /\ Periods \subseteq Nat /\ 0 \in Periods
  /\ MaxWork \in Nat /\ MaxLatency \in Nat /\ MaxExcess \in Nat

VARIABLES
  phase,           \* what the loop does next; "idle": there is no loop
  ahead,           \* next_deadline_ns minus the clock
  period,          \* period_ns of the runtime's configuration
  stop_requested,
  owed,            \* history: time since the loop began minus the periods of its cycles
  excess,          \* history: by how much cycles worked longer than their periods
  waiting,         \* history: time since a stop was requested of a live loop
  slept            \* history: the last cycle found its deadline in the future

history == <<owed, excess, slept>>
vars    == <<phase, ahead, period, stop_requested, owed, excess, waiting, slept>>

TypeOK ==
  /\ phase \in {"idle", "check", "work", "pace", "sleep"}
  /\ ahead \in Int /\ owed \in Int
  /\ period \in Periods
  /\ stop_requested \in BOOLEAN /\ slept \in BOOLEAN
  /\ excess \in 0 .. MaxExcess
  /\ waiting \in Nat

Init ==
  /\ phase = "idle"
  /\ ahead = 0
  /\ period \in Periods
  /\ stop_requested = FALSE
  /\ owed = 0 /\ excess = 0 /\ waiting = 0
  /\ slept = FALSE

-----------------------------------------------------------------------------

Go(here, there) == phase = here /\ phase' = there

(* Time passes, for the deadline and for whoever waits for the loop to end. *)
Pass(time) ==
  /\ owed' = owed + time
  /\ waiting' = IF stop_requested THEN waiting + time ELSE waiting

Beyond(work, p) == IF work > p THEN work - p ELSE 0

-----------------------------------------------------------------------------
(* Variants of the steps below with a plausible slip in each, none of them
   part of the specification: they show which property would notice the slip. *)

(* Pace that counts the period from now: a relative sleep. *)
PaceFromNow ==
  /\ Go("pace", IF period > 0 THEN "sleep" ELSE "check")
  /\ ahead' = IF period > 0 THEN period ELSE ahead
  /\ owed' = owed - period
  /\ slept' = (period > 0)
  /\ UNCHANGED <<period, stop_requested, excess, waiting>>

(* Pace that gives a late cycle a new deadline, a period from now. *)
PaceAfresh ==
  LET next == IF ahead + period > 0 THEN ahead + period ELSE period
  IN  /\ Go("pace", IF period > 0 THEN "sleep" ELSE "check")
      /\ ahead' = IF period > 0 THEN next ELSE ahead
      /\ owed' = owed - period
      /\ slept' = (period > 0 /\ ahead + period > 0)
      /\ UNCHANGED <<period, stop_requested, excess, waiting>>

(* Pace that moves the deadline of punctual cycles only. *)
PaceIfPunctual ==
  LET step == IF ahead + period > 0 THEN period ELSE 0
  IN  /\ Go("pace", IF step > 0 THEN "sleep" ELSE "check")
      /\ ahead' = ahead + step
      /\ owed' = owed - step
      /\ slept' = (step > 0)
      /\ UNCHANGED <<period, stop_requested, excess, waiting>>

-----------------------------------------------------------------------------
(* The loop: rtsyn_engine_rt_thread_main. *)

(* rtsyn_engine_start, once the loop has ended: the first deadline is now. *)
Start ==
  /\ Go("idle", "check")
  /\ ahead' = 0
  /\ stop_requested' = FALSE
  /\ owed' = 0 /\ excess' = 0 /\ waiting' = 0
  /\ slept' = FALSE
  /\ UNCHANGED period

(* rtsyn_engine_request_stop or a STOP command. *)
RequestStop ==
  /\ phase # "idle" /\ ~stop_requested
  /\ stop_requested' = TRUE
  /\ UNCHANGED <<phase, ahead, period, waiting, history>>

CheckStop ==
  /\ Go("check", IF stop_requested THEN "idle" ELSE "work")
  /\ UNCHANGED <<ahead, period, stop_requested, waiting, history>>

(* The drain, in which SET_RUNTIME_PERIOD may be dispatched, the step of the
   runtime, and what the cycle publishes.  Being preempted is work. *)
Work(work, p) ==
  /\ Go("work", "pace")
  /\ p = period \/ p > 0
  /\ excess + Beyond(work, p) <= MaxExcess
  /\ period' = p
  /\ ahead' = ahead - work
  /\ excess' = excess + Beyond(work, p)
  /\ Pass(work)
  /\ UNCHANGED <<stop_requested, slept>>

(* The deadline moves by the period in force after the step, on time or not. *)
Pace ==
  /\ Go("pace", IF ahead + period > 0 /\ period > 0 THEN "sleep" ELSE "check")
  /\ ahead' = ahead + period
  /\ owed' = owed - period
  /\ slept' = (ahead + period > 0 /\ period > 0)
  /\ UNCHANGED <<period, stop_requested, excess, waiting>>

(* rtsyn_thread_sleep_until returns after the deadline, never before it. *)
Sleep(latency) ==
  /\ Go("sleep", "check")
  /\ ahead' = -latency
  /\ Pass(ahead + latency)
  /\ UNCHANGED <<period, stop_requested, excess, slept>>

Loop ==
  \/ CheckStop
  \/ \E work \in 0 .. MaxWork, p \in Periods : Work(work, p)
  \/ Pace
  \/ \E latency \in 0 .. MaxLatency : Sleep(latency)

Next == Start \/ RequestStop \/ Loop

(* The loop is scheduled as long as it can run. *)
Spec == Init /\ [][Next]_vars /\ WF_vars(Loop)

-----------------------------------------------------------------------------
(* Properties. *)

(* A cycle never begins ahead of its schedule, whatever period was set,
   and latencies do not add up: it begins at most one of them late, plus what
   cycles before it worked longer than their periods. *)
OnSchedule ==
  phase = "check" => owed >= 0 /\ owed <= MaxLatency + excess

(* A stop ends the loop within one cycle: the work or the period of one cycle,
   whichever is longer, and a wake-up, no matter how late or early the loop is. *)
StopIsPrompt == \E time \in Periods \union {MaxWork} : waiting <= time + MaxLatency

(* A loop that fell behind, or ran free for a while, catches up: if from some
   time on it works for less than the period, it sleeps again. *)
Light == [][phase = "work" /\ phase' = "pace" => owed' - owed < period']_vars

CatchesUp == <>Light => []<>(slept \/ phase = "idle")

=============================================================================
