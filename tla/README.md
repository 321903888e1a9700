# A verification of the RTSyn engine

The RTSyn engine runs a realtime loop: every cycle it takes commands from a
queue, steps a graph of nodes (the *runtime*) and publishes telemetry.  This
directory holds TLA+ models of the engine, the TLC configurations that check
them on small instances, and proofs of the properties that matter most for
every instance.  All paths below are relative to the repository's `src/`.

## 1. Inventory

The engine is a library (`src/engine.c`, `src/engine/**`) and a small process
around it (`src/main.c`).  It rests on libraries that are not in the
repository: the runtime, the single-producer single-consumer (SPSC) queues, the
thread wrapper, collections, the module loader and the measurement tool.

| component | where | state | operations |
|---|---|---|---|
| engine lifecycle | `engine.c` 147-321 | `running`, `started`, `paused`, `stop_requested`, `rt_joined`, `wait_joined` (atomic), two thread objects | create, start, request_stop, join, destroy, is_running, is_stop_requested |
| realtime thread | `engine/thread.c` 15-77 | `cycle_id`, next deadline | one cycle: begin, drain, step, values, end, dropped, sleep, measure |
| wait thread | `engine/thread.c` 79-89 | - | join the realtime thread, set `rt_joined`, clear `running` |
| command intake | `engine/events/command.c`, `global_command.c` | command queue | drain within a budget, dispatch; STOP, PAUSE, RESUME |
| telemetry stream | `engine/events/telemetry.c` 104-237 | `telemetry_seq`, `dropped_telemetry_events`, `dropped_telemetry_values`, telemetry queue, value buffer | push one of five message types |
| subscriptions | `engine/events/telemetry_command.c` 13-62, 230-306; `telemetry.c` 239-324 | `telemetry_subscriptions` (fixed table) | request port values, request variables, publish what is requested |
| node registry | `engine.c` 22-58, 347-461 | `loaded_nodes` | load (or replace) a module, add a node of it |
| graph commands | `telemetry_command.c` 262-274, 308-370, 405-508 | the runtime's graph | load, add and remove nodes, connections, parameters, transitions |
| results, snapshot | `telemetry_command.c` 64-228, 372-403 | result queue | answer a request, send the nodes and connections |
| timing | `thread.c` 49-71, `engine.c` 323-345 | next deadline, tolerance, priority | sleep until the deadline, measure |
| value conversion | `telemetry.c` 14-68, `telemetry_command.c` 461-508 | - | sample a value, set a parameter |
| thread configuration, probe | `engine.c` 60-145 | - | validate, hand over; forward stage times |
| engine process | `main.c` | signal flag, masks, shared queues | set up, wait for a signal, release |

**Interaction.**  The owner of the engine calls start, join and destroy from one
thread; request_stop may come from any.  `rtsyn_engine_start` creates the
realtime thread and the wait thread.  The three share the atomic flags and
nothing else.  The client process shares the four queues with the realtime
thread only: it is the producer of commands and the consumer of results and
telemetry.  Everything that is not atomic - the counters, the subscription
table, the runtime - belongs to the realtime thread while a run is announced.

**What is hard.**  Three kinds of thread decide by flags what the others are
doing; an engine may be started again before it was joined; either thread
creation may fail half way; destroy frees memory on the word of two flags.
Every queue is bounded and nobody waits for room, so each consumer must be able
to tell what it missed.  The subscription table has few slots, is written by
two commands and names nodes that come and go.

**What makes each component correct.**

- lifecycle: at most one realtime loop; an engine that is not running, not
  started after a call, or released has no live thread; each thread is joined
  once; no stop is lost; start, join after a stop, and destroy return
- command intake: exactly once and in order; a STOP takes effect within the
  cycles its place in the queue implies; no flood starves the runtime
- telemetry: nothing vanishes without account; messages are ordered; without a
  gap in the numbers the picture is complete
- subscriptions: the table is a map from nodes to masks; slots are given back;
  exactly what is wanted and exists is published
- registry: a name has one module; a descriptor in use is never unloaded
- results: one answer for each request, a snapshot marked complete has no holes
- timing: no cycle begins before its time, latencies do not add up, a stop does
  not wait for a late loop to catch up
- creation: an engine is complete or leaves nothing; the runtime never calls back
  one that is gone
- values: what a client sets is read as the type it was written as
- all together: what a client may conclude from one queue about the loop and
  about the other queues; nobody waits for a reader
- process: a signal ends it; whatever was created is released once, in order

PROJECT.json lists the hazards behind these properties, line by line.

## 2. Plan

Most important first.  All steps are done; what is left out is in section 6.

1. `EngineLifecycle`, its abstract specification `EngineSupervisor`
2. `CommandLoop` implementing `CommandChannel`
3. `TelemetryStream`
4. `SubscriptionTable` implementing `SubscriptionMap`
5. `EngineProcess`: signals, the shared queues and the release on each path
6. `NodeRegistry`: loaded modules, the nodes made from them, replacement,
   failure half way, and the order of release
7. `ResultStream`: answers and the runtime snapshot through a full queue
8. `DeadlineClock`: deadlines under late cycles and changes of the period
9. `EngineCreation`: the parts of an engine, failing one by one, and the probe
10. `NodeValues`: parameters and samples with their types and widths
11. `EngineSystem`: loop, graph and the three queues together
12. proofs: `EngineLifecycleProofs`, `QueueProofs` (`CommandLoop` and
    `ResultStream`), `TelemetryStreamProofs`, `SubscriptionTableProofs`,
    `EngineProcessProofs` (`EngineProcess` and `EngineCreation`),
    `NodeRegistryProofs`, `TimeAndValueProofs` (`DeadlineClock` and `NodeValues`),
    `EngineSystemProofs`

Where two models share a module of proofs, the second one prefixes what both
have: `ResultsSpec`, `CreationSpec`, `ValuesSpec`.

## 3. The models

### EngineLifecycle, EngineSupervisor

One controlling thread (`at` is the point in the call it is executing), a
realtime thread `rt[n]` and a wait thread `wait[n]` for every run `n`, that is
for every call of `rtsyn_engine_start` that passed its guard, and anybody who
calls `rtsyn_engine_request_stop`.  The six atomic flags are one function.
Every atomic store is a step; the atomic loads are the guards of the steps they
decide.  `rt_handle` and `wait_handle` say which run's thread the two thread
objects hold, because `rtsyn_engine_start` may overwrite an object whose thread
nobody joined.

| action | code |
|---|---|
| `BeginStart`, `StartStores` | `engine.c` 245, 250-255 |
| `StartRtThread`, `StartWaitThread` | 257, 264: each may fail |
| `StartUndo`, `StartFail` | 264-272, 257-262 |
| `RequestStop` | 277-286, from any thread |
| `BeginJoin`, `JoinThread`, `JoinStores` | 288-309 |
| `BeginDestroy`, `DestroyCheck`, `Free` | 219-240; the join in the middle is that of `rtsyn_engine_join` |
| `CheckStop`, `Dispatch`, `LeaveDrain`, `StepRuntime`, `FinishCycle` | `thread.c` 36, 19-27, 43, 45, 48-73 |
| `WaitJoin`, `WaitSetRtJoined`, `WaitSetRunning` | `thread.c` 84, 85, 86 |

`EngineSupervisor` is what the owner is promised: a run is announced before its
loop lives, a loop dies only in an announced run, a run is withdrawn only when
its loop is dead, the engine is released when nothing is announced, and a dead
loop is withdrawn in the end.

Assumptions: one thread calls start, join and destroy (the header promises
nothing for several; with one, the early return of join on `wait_joined` is
never taken, because join clears `started` too); nobody asks an engine to stop
while it is being released; a join of a thread that exists and was not joined
succeeds.  Acquire loads and release stores are taken as sequentially
consistent: no property here depends on the order of stores to two different
flags as seen by a third thread that wrote neither.  The failures of
`rtsyn_engine_create` are in `EngineCreation`.

An observation the model makes visible: `rtsyn_engine_start` accepts an engine
whose last run ended and was not joined.  The wait thread of that run has then
nothing left to do but return; its thread object is overwritten, so it is never
joined.  No property is hurt - `NoThreadOutlivesRun` holds - but the thread's
resources are not reclaimed.

### CommandLoop, CommandChannel

The client appends commands to the bounded queue; the loop goes through check,
drain, dispatch, step and tail.  `Pop` is `rtsyn_engine_drain_commands` (budget
before queue), `Dispatch` the two dispatchers; what is neither STOP, PAUSE nor
RESUME is `OTHER`.  The queue outlives the loop: commands that were left over
are applied by the next run.  `Start` is one step, because there is no loop that
could see the flags half reset.  `waited` is a history variable that counts the
drains ended since the oldest pending STOP was sent; it exists for `StopLatency`.
`CommandChannel` is a queue that delivers exactly once and in order.

### TelemetryStream

One cycle publishes CYCLE_BEGIN, the values of some of the subscribed nodes,
CYCLE_END, a DROPPED report if there ever was a loss, and perhaps a MEASUREMENT;
a push that finds the queue full is counted.  `Publish` and `FailToPublish` are
the two outcomes of `rtsyn_engine_event_publish_values`: the buffer of values is
external and may be full when the queue is not, so failing is always possible.
The consumer takes messages at any pace.  `frame`, `received` and `lost_batches`
are history.  `frame` is what the consumer has received of the cycle it is
looking at, so that any two messages of a cycle can be compared however far they
are apart (`StreamEnd` is the frame and the queue).  Which nodes have something to
show is arbitrary in each cycle and the order in which their slots are visited is
left open, because the table has its own module.  `cycle` is bookkeeping in a MEASUREMENT message, which carries
the count of the measurement tool.  An engine without a telemetry queue
publishes nothing and is not modelled.

The properties are about what the loop publishes.  The public
`rtsyn_engine_publish_values` (`engine.c` 470-477) hands the samples of its caller to
the same function; a caller that uses it may send several batches of one node in
a cycle, or batches outside of one, and is not modelled.

### SubscriptionTable, SubscriptionMap

The table slot by slot: `Find`, `GetOrCreate`, `CleanUp` and the update of a mask
are the four static functions, `RequestPortValues` and `RequestPortVariables`
the two handlers with their early returns.  Masks are sets of ids.  A cleared
slot holds node id 0 (`Zero`), which is the id of a real node in the instance
checked: `used` has to be looked at.  `AddNode` and `RemoveNode` are the runtime,
which knows nothing of the table.  `Publication` is the sequence of batches a
cycle would publish, collected slot by slot as the loop does.  `SubscriptionMap` is a pair of functions from nodes to
sets, of which a request changes one entry, unless the answer is "no room".

### EngineProcess

`main()` step by step (`at`), with every step of the set-up able to fail and
each failure going to the part of the release that the code performs there.  `held` is
what the process has created and not released; `names` are the names of the
shared queues, which belong to the system and outlive a process that is killed;
the process is run again, one at a time, up to `MaxLives` times.  SIGINT and
SIGTERM are one signal that is pending or not.  A signal mask is `open` or
`shut` for both, and a thread has the mask of the thread that created it.  The
engine is reduced to its loop: `none`, `live`, `stopping`, `ended`.

| action | code in `main.c` |
|---|---|
| `Block`, `InstallHandlers` | 88-92: the mask, the handlers |
| `CreateRuntime`, `UnlinkStale`, `CreateQueues`, `CreateEngine` | 97-150, each failure with its release |
| `Start`, `Unblock` | 152-166 |
| `TestFlag`, `Pause`, `Stop`, `Join`, `Restore` | 168-176 |
| `DestroyEngine`, `Close`, `Unlink`, `DestroyRuntime` | 177-183, and 125-129, 144-148, 154-159 |
| `Send`, `Deliver`, `Kill`, `RunAgain` | the system; `Deliver` runs the handler |

Observations.  The test of the flag and `pause()` are two steps: a signal
handled in between is noted and the process sleeps until the next one, which is
why `SleeperIsWoken` speaks of a signal that finds it asleep.  If the signals
cannot be unblocked, or a STOP command ended the loop, the process waits for a
signal all the same; in the first case with the signals blocked.  No document
promises otherwise.  The engine is released before the runtime, whose nodes come from
modules that the engine has loaded: see the node registry.

### NodeRegistry

A module that was opened is a number; `image` tells what it describes, `open`
which modules are open, `loaded` which are in the list `loaded_nodes`.  A node
remembers the module it was made from.  `rtsyn_engine_load_node_descriptor_as`
is six steps, because it opens, removes nodes, closes and adds one after the
other and may fail before and after:

| action | code in `engine.c` |
|---|---|
| `Open`, `Reject`, `Check` | 369-396: opened; rejected for its descriptor, its type or for want of memory; or not |
| `Sweep` | 398, the nodes of the name leave the runtime |
| `Withdraw` | 400-403, the old module leaves the list and is closed |
| `Register` | 405-411, the new one takes its place, or is closed too |
| `AddNode`, `RemoveNode` | 414-461, and `telemetry_command.c` 405-416 |
| `Destroy`, `DestroyRuntime` | 219-240, `main.c` 181 |

Calls that fail without having changed anything are no steps.  Modules whose
type is neither plugin nor device give no nodes and are left out.  One call at a
time is under way; `TODO.md` leaves open whether the owner may change the graph
while the loop runs, so the model does not have it.  `before` and `answer` are
history for `LoadIsWhole`.

Observations.  A load that fails in its last step has removed the old module and
its nodes; the caller learns only that it failed.  After `Destroy` nodes may be
left in the runtime whose modules are closed; `NodesHaveTheirModule` therefore
speaks of the time before, and whether their release is harmless is up to the
runtime library.

### ResultStream

The handlers that answer, each one step with its one push, and the snapshot of
the runtime message by message, because the client reads meanwhile.  Commands
reach the handlers in order (`CommandChannel`); `seq` numbers them.  A load does
one of the three things that `LoadIsWhole` allows.  The order in which the
runtime visits nodes is left open, and connections come and go arbitrarily, since
they are the runtime's.  `Told` is the client: it keeps the nodes it was told of
and replaces them when a snapshot ends.  The client is not in the repository, so
`Told` is what the messages mean to one that takes them at their word.  `sure` is
history: no answer about a change was lost and no load failed late, since the
last snapshot that was complete.

Observations.  The mark at the end of a snapshot says OK also if a message of it
was lost; only the handler's return value tells, and the loop drops it.  A client
can make sure beforehand: `RoomIsEnough`.  A malformed command is not answered.

### DeadlineClock

The loop's pace.  Time is an integer and only a difference is kept: `ahead` is
`next_deadline_ns` minus the clock.  `Work` is everything a cycle does, taking up
to `MaxWork`, and may change the period, because a SET_RUNTIME_PERIOD may be
among the commands it drains; `period_ns` is read after the step, so the cycle
already goes by it.  `Pace` moves the deadline, `Sleep` ends at the deadline or
up to `MaxLatency` after it, which is what `rtsyn_thread_sleep_until` is relied
on for.  A period of 0 can only come from the configuration of the runtime, which
refuses it as a command (`tests/engine/events/command.cpp`), so `Work` never
changes to it.

| action | code in `engine/thread.c` |
|---|---|
| `Start`, `CheckStop` | 33-34, 36 |
| `Work` | 38-53 |
| `Pace`, `Sleep` | 55-58, 58-60 |

What follows the sleep (`thread.c` 62-73, the measurement and its message) takes no
time of its own in the model; what it takes in the program counts as latency.

`owed` is history: the time since the loop began minus the periods of its cycles,
that is by how much it is behind its schedule.  `excess` is the part of that which
cycles took themselves by working longer than their periods.  `waiting` is how
long ago a stop was asked for.  It is taken for granted that deadline and period
do not add up to 2^64 nanoseconds.

Observations.  The loop does not give up deadlines it missed: after a long cycle
it runs the following ones without sleeping until it is on schedule, and a stop
is seen in each of them.  After a time with period 0 the deadline is where it
was, and the loop catches up in the same way.

### EngineCreation

`rtsyn_engine_create` part by part on one runtime, for any set of engines, and
`rtsyn_engine_destroy` after its join.  `held` says which parts of an engine are
allocated, `probe` whom the runtime calls back.  Each part may be refused and
each refusal gives back what that path of the code gives back.

| action | code in `engine.c` |
|---|---|
| `Allocate` | 147-175, with the default for a budget of 0 |
| `CreateList`, `CreateTool`, `CreateRtThread`, `CreateWaitThread` | 177-184, 186-193, 195-203, 205-217 |
| `Destroy` | 234-240 |
| `RuntimeProbe` | 110-129, 88-108 |

Engines are created and destroyed while none of them runs: the callback is not
synchronised with a step.  A refused configuration, and a refused first
allocation, change nothing and are no steps.  What a thread is configured with is
handed on to the thread library and not kept apart.

Observation.  The runtime has room for one probe.  An engine that is created on a
runtime takes the place of the one before, and one that fails half way or is
destroyed leaves the place empty, though another may still be there and would
then measure nothing of its stages.  `ProbeIsAlive` is about safety: the place
never names an engine that is gone.

### NodeValues

A client sets parameters and sees them as state variables in the telemetry.  It
goes by the descriptors it was sent, at most `Capacity` parameters of each, and
by nothing newer than what it was told (`known`).  One module is loaded from the
start; loading it again may describe other types, and takes the nodes with it.
`SetParam` is `rtsyn_engine_event_set_param`: an I64 becomes an `int` (`ToInt`,
modulo the width, which is what the supported compilers make of the conversion),
a string is cut to its buffer, and the runtime is handed a pointer without a
type.  `misread` notes when the type it was written as is not that of the
parameter.  `Publish` is one sample of `rtsyn_engine_event_sample_value`.

| definition | code |
|---|---|
| `Handed`, `SetParam` | `telemetry_command.c` 461-508 |
| `Sampled`, `Publish` | `telemetry.c` 14-68, 290-313 |
| `Copied`, `Cut` | `telemetry_command.c` 82-137, 64-80 |
| `LoadNode`, `AddNode`, `SendNode` | `engine.c` 395-412, `telemetry_command.c` 339-370, 148-182 |

The runtime is external: it keeps an I64 as the `int` that it is handed and a
string as it is handed it, gives a string back cut to the buffer for it, does not
use an id twice and shows the parameters of a node as its state variables, which
lets the model follow a value all the way.

A string goes through three buffers: that of the command (`ParamSize`), that into
which `rtsyn_value_get` writes it (`PortSize`, the runtime's
`RTSYN_PORT_VALUE_STRING_MAX_SIZE`), and that of the sample (`SampleSize`).  The
sizes are constants of the model and not ordered, because different libraries
define them.

Observations.  Nothing in the engine compares the type of a SET_PARAM with the
descriptor; `NothingIsMisread` holds because nodes never outlive descriptors.  A
descriptor in a result says how many parameters there are, though it has room for
only some of them: a client that goes by the count reads types that were not
sent.

### EngineSystem

The loop, the graph, the subscriptions and three queues, with a client that sends
what it likes and reads the two queues back in any order or not at all.  Each
part is as in its own module, with less detail: a drain takes commands within the
budget, each handler writes its result, a cycle publishes the values of each
subscribed node that exists, and an ended loop may be started again with what is
left in the queues.  Node ids are given out in order and not used twice.

The four commands that are answered are `LOAD`, `ADD`, `REMOVE` and `SNAPSHOT`
(REQUEST_RUNTIME_NODES).  A load may remove nodes, and does so also when it fails
late; which nodes bear the name of the module is left open.  A snapshot is one
result for each node and each connection and then a mark, all with the number of
the command, and the client reads meanwhile; there is a step of the loop for each
of them (`asker`, `untold`).  `done` in a result is false for such an entry, and
`gone` are the nodes of whose removal it tells.  `SILENT` stands for all commands
that neither answer nor touch what is modelled here, and so do malformed ones.

| action | code |
|---|---|
| `CheckStop`, `LeaveDrain`, `StepRuntime`, `FinishCycle` | `thread.c` 36, 43, 45, 51-74 |
| `Drain`, `Dispatch` | `thread.c` 15-28, `command.c` 11-58 |
| `LoadNode`, `AddNode`, `RemoveNode`, `Subscribe` | `telemetry_command.c` 308-337, 339-370, 405-424, 230-260 |
| `RequestRuntimeNodes`, `SendEntry`, `SendDone` | `telemetry_command.c` 372-393, 148-217, 393-403 |
| `Tell`, `GlobalCommand` | `telemetry_command.c` 219-228, `global_command.c` 13-38 |
| `Shown`, `PublishValues` | `telemetry.c` 247-262, 239-324 |

`calm`, `settled`, `removed` and `flushed` are what the client remembers:
`settled` is the last command of which it awaits nothing more, which is the
command of an answer or mark it received, and the one before the snapshot for an
entry (`Settles`).  `unanswered` is history.

Observations.  PAUSE is not answered, but an answer to any later command tells
that it has taken effect (`PauseIsABarrier`): a client can pause, ask for
something, and know.  An answer to REMOVE_NODE says nothing about the values of
the node that are still in the telemetry queue; once that was found empty, no
more come (`NoGhostValues`), though the subscription of the node lives on.  An
answer can be lost, but never comes late (`AnswersAreFinal`): a client that hears
the answer to a later command need not wait for an earlier one any longer, and
one that hears the mark of a snapshot need not wait for more of its entries.

## 4. Runs

| run | bounds | distinct states | what it shows |
|---|---|---|---|
| `lifecycle` | 3 starts, budget 2 | 6 797 | the safety properties of the lifecycle and that it implements `EngineSupervisor` |
| `lifecycle_liveness` | 2 starts, budget 2 | 1 621 | stops end runs; start, join and destroy return |
| `commands` | budget 2, queue of 4 | 83 998 | commands exactly once and in order, STOP latency, no starvation |
| `telemetry` | 2 nodes, 2 values each, queue of 3, 3 cycles | 8.1 million | numbers, losses and order as the consumer sees them |
| `subscriptions` | 3 nodes, 2 slots, 2 ids of which 1 exists | 17 052 | the table is a map; what is published is what is wanted |
| `process` | 2 queues, 2 lives | 721 | what is created is released on every path, in order; a signal ends the sleeping process |
| `registry` | 2 names, 3 loads, 3 nodes | 293 122 | no node without its module, no leak, a load is all or nothing |
| `results` | 2 names, 1 connection, queue of 3, 5 commands, 3 nodes | 557 187 | the client's picture is right |
| `deadlines` | periods 0, 1, 3, cycles of up to 4, latency 2, excess 6 | 2 323 | the schedule is kept and caught up with; a stop takes a cycle |
| `creation` | 2 engines | 2 005 | an engine or nothing; the probe names an engine that is there |
| `system` | budget 2, queues of 2, 4 commands, 1 node, 1 connection | 280 901 | what one queue tells about the loop and the other queue, with answers of one result and of several; the loop waits for nobody |
| `values` | 2 parameters of which 1 is described, 2 nodes, ints from -2 to 1, strings of 1 and 3 in buffers for 3, 2 and 3 | 242 097 | nothing is misread; what is seen is what was asked for, within the widths |

**Why the bounds are enough.**  Three starts allow a failed start, a restart
without a join, and a start after that; the state of an older run is the same
whichever run it is.  A budget of two separates "one command" from "the last one
allowed".  A queue of twice the budget makes a STOP wait for more than one
cycle.  A telemetry queue of three is shorter than a cycle (up to six messages),
so losses occur at every position in a cycle and also the report is lost; three
cycles show a loss, the report of it in the next, and a report after a lost
report.  Two slots for three nodes fill the table and leave gaps in it.  Two queues let
the second fail after the first was created; two lives show what a killed
process leaves to the next.  Three loads of two names replace a module and fail
to replace it again.  Five commands are a load, two nodes, and a snapshot into a
queue that is too short for it, followed by another.

A cycle of 4 is longer than every period, so one cycle can put the loop more than
a period behind, and an excess of 6 lets it fall further behind in a second one;
period 1 is also shorter than the latency.  Two engines let one be created while
the other holds the place of the probe.  In `system` four commands are a PAUSE, an
answered one, and two more, or an addition, a subscription, a removal and one
more; queues of two fill while the client does not read, and a snapshot of a node
and a connection is three results, of which any part can be lost.  In `values` a
number of 3 does not fit an int, a string of 3 is cut by the buffer of the port
and by neither of the others, and the second parameter has no room in a result.

**Fairness.**  Weak fairness of each thread: a thread that can run is scheduled,
which the operating system grants.  There is none for the client, for whoever
asks for a stop, or for the beginning of a call.  The drain needs no fairness of
its own, the budget ends it.  In `EngineProcess` a pending signal that some
thread does not block is delivered, which the system grants, and a loop that was
asked to stop ends, which is `StopEndsRun` of the lifecycle.  Nobody has to send
a signal.  In `DeadlineClock` and `EngineSystem` the loop is scheduled when it can
run; owner and client need not do anything, and `RequestsAreAnswered` holds for a
client that reads nothing.  `CatchesUp` has a premise of its own, that from some
time on cycles are shorter than the period: without it a loop may be late for
ever.

**Mutants.**  Next to the actions the modules define variants with one slip each
(a dropped guard, an off-by-one, a forgotten store, a swapped order).  They are
not part of the specification; PROJECT.json pairs each property with the variant
that breaks it.

## 5. Proofs

### The lifecycle

`EngineLifecycleProofs` proves for every `MaxRuns` and `Budget`, from the single
assumption that both are positive integers:

| theorem | says |
|---|---|
| `LifecycleInvariant` | `Spec => []IInv` |
| `TypeCorrect` | `Spec => []TypeOK` |
| `OneRtLoop` | `Spec => []AtMostOneRtLoop` |
| `NotRunningIsQuiet`, `FreeIsSafe`, `NotStartedIsQuiet` | the three parts of the next |
| `RunsOutliveThreads` | `Spec => []NoThreadOutlivesRun` |
| `JoinsAreValid` | `Spec => []JoinTargetsValid` |
| `PausedIsIdle` | `Spec => []NoStepWhilePaused`: the runtime is never stepped in a paused engine |
| `StopPersists` | `Spec => StopIsNotLost` |
| `ImplementsSupervisor` | the safety part of the refinement |

None of the properties is inductive by itself: that no loop is alive when a
second one is created depends on who was going to join the first one and on
which point the controlling thread has reached.  `IInv` says this in two parts.
`ThreadInv` speaks of threads: a live thread belongs to the latest start and to
an announced run, and a live realtime thread has somebody who will join it, its
wait thread or the controlling thread.  `ControlInv` speaks of the points of the
controlling thread, in five groups: before the run's threads exist, with a
realtime thread and no wait thread, after a failure, with a wait thread at work,
and after the end.  Each action has a lemma that it keeps `IInv`.

### The command loop

`QueueProofs` proves for every budget and every capacity of the queue,
both positive:

| theorem | says |
|---|---|
| `LoopInvariant` | `Spec => []IInv` |
| `TypeCorrect` | `Spec => []TypeOK` |
| `StopWaitsBoundedly` | `Spec => []StopLatency` |
| `ImplementsChannel` | `Spec => ChannelSpec` |

`StopLatency` counts ended drains and is not inductive: in the middle of a drain
the place of the STOP has moved up by what this drain took and the count has not
changed yet.  `Bound` therefore adds what was taken (`Taken`) to the place and
the cycles, and `Waits` says that the count is positive only while a STOP is
pending; the end of a drain that leaves a STOP behind has taken `Budget`
commands, so one cycle more is `Budget` places less.  `ImplementsChannel` maps
the queue with the command in hand in front of it to the channel.

### The results

`QueueProofs` also proves, for every set of names and connections, every capacity
and every number of commands and nodes:

| theorem | says |
|---|---|
| `ResultsInvariant` | `ResultsSpec => []ResultsInv` |
| `ResultsTyped` | `ResultsSpec => []ResultsTypeOK` |
| `ClientsCatchUp` | `ResultsSpec => []ViewCatchesUp` |
| `SnapshotsFit` | `ResultsSpec => []RoomIsEnough` |

The invariant is about `Heard`, the picture the client will have once it has read
all that is queued.  `Telling` compares it with the graph at each point of a
snapshot: what has been shown so far is what is known and not still to be sent.
`Fitting` counts how many messages are left and that they fit, as long as there
was room when the snapshot began; the client only takes messages away.  `Heard`
is defined by recursion over the queue (`Hearing`).  Two facts about it carry all
the steps: a message more at the end is told last (`HearingAppend`), and a message
taken by the client changes nothing (`HearingTail`).  Both hold because the
recursion determines its values, which is shown by looking at the first number
for which it would not (`FirstNumber`); no induction rule is needed.

### The telemetry stream

`TelemetryStreamProofs` proves for every set of nodes, length of the queue,
number of samples and number of cycles:

| theorem | says |
|---|---|
| `StreamInvariant` | `Spec => []IInv` |
| `TypeCorrect` | `Spec => []TypeOK` |
| `ConsumerKnowsLosses` | `Spec => []LossesAreTold` |
| `StreamIsOrdered` | `Spec => []OInv` |
| `FramesComeInOrder` | `Spec => []FramesAreOrdered` |
| `NoGapNoLoss` | `Spec => []GaplessIsComplete` |

`LossesAreTold` has three parts: numbers account for every message
(`NothingVanishes`), the drop count in a message is exact (`StampsAreExact`), and
reports are true (`ReportsAreHonest`).  The last is about messages already sent; what keeps it true is that the
counters a report is made from bound each other in the same way at all times
(`CountersAreHonest`).  Each message is pushed by `PushTelemetry`, so one lemma
about it serves all five types.

`OInv` is about the order of the stream.  That any two messages are in order
(`FramesAreOrdered`) and that neighbours with consecutive numbers follow each other
(`GaplessIsComplete`) are parts of it, but they do not say why the next message
fits at the end.  `AllPassed` says that each message of the stream is behind what
the loop has yet to publish: of an earlier cycle, of an earlier part of this one,
or of a node that is done with.  So what is pushed next is in order with all of
them, not only with the last.  `TipFits` relates the last message to the loop: if no
number was used up since, the loop has published nothing after it.  A push that
fails uses up a number, after which nothing is claimed of the gap.  Receiving
moves a message from the queue to the frame or begins a new frame with it, which
leaves an end of the same stream (`StreamStays`).

### The node registry

`NodeRegistryProofs` proves all properties of the run for every set of names
and every number of modules and nodes (`RegistryInvariant`, `TypeCorrect`,
`NodesHaveTheirCode`, `ModulesAreAccountedFor`, `LoadsAreWhole`).  The
invariant says what they have in common: the open modules are those of the list and the one under way
(`Accounts`), a node comes from the module that the list has under its name
(`Origins`), and `Taken`, for each point of a load, what it has taken away since
it began.

### The deadline clock

`TimeAndValueProofs` proves for every set of periods and all bounds of the model
(`ClockInvariant`, `TypeCorrect`, `ScheduleIsKept`, `StopsArePrompt`):
`Spec => []OnSchedule` and `Spec => []StopIsPrompt`.  The invariant has two parts.
`Distance`: `owed` and `ahead` cancel out, and at each phase the loop is behind by
no more than a wake-up, the excess and, once it has worked, a period; it sleeps
only up to a deadline that is at most a period ahead.  `Patience`: at each phase a
stop has waited for no longer than the part of the cycle that can have passed
since the last test of the flag.

### The values

`TimeAndValueProofs` also proves for every number of parameters, room of a result,
magnitude of a number, width of an `int` and size of the three string buffers
(`ValuesInvariant`, `TypesAgree`, `ValuesArrive`): `ValuesSpec =>
[]NothingIsMisread` and `ValuesSpec => []WhatIsAskedIsSeen`.  The invariant says
that every node is of the loaded module and shows what was asked of it
(`Existing`), that nobody was told otherwise of it, and that a command on its way
to a node that exists has the type of the parameter (`Commanded`).  The last is
what a load would break if it left nodes of the old module behind.  That a number
which went through an `int` comes back as itself exactly within the width is
arithmetic with remainders, in lemmas of its own.

### The process

`EngineProcessProofs` proves for every set of queues and every number of lives:

| theorem | says |
|---|---|
| `ProcessInvariant` | `Spec => []IInv` |
| `TypeCorrect` | `Spec => []TypeOK` |
| `EngineHasWhatItUses` | `Spec => []EngineIsFurnished` |
| `ExitIsClean` | `Spec => []NothingIsLeftBehind` |

The properties speak of what is held when the process ends or while the loop
works; the invariant says for each point of `main()` what is held there
(`Holding`), whose names the system knows (`Naming`), that a signal ends the
process only while there is nothing to release (`Guarded`), and at which points
the loop may be at work (`Working`).

### Creation

`EngineProcessProofs` also proves for every set of engines (`CreationInvariant`,
`CreationTyped`, `CreationIsWhole`, `ProbeIsNeverStale`): `CreationSpec =>
[]CreatedIsComplete` and `CreationSpec => []ProbeIsAlive`.  The invariant says what
the engine under creation holds at each step (`Making`), that all others are
complete or hold nothing (`Keeping`), and that the probe is none, a created
engine, or the one under creation from the step on at which it has its tool
(`Probing`).

### The system

`EngineSystemProofs` proves for every budget, every length of the queues and every
number of commands and nodes:

| theorem | says |
|---|---|
| `SystemInvariant` | `Spec => []IInv` |
| `TypeCorrect` | `Spec => []TypeOK` |
| `PauseIsCertain` | `Spec => []PauseIsABarrier` |
| `RemovedStaySilent` | `Spec => []NoGhostValues` |
| `AnswersInvariant` | `Spec => []AnswersInv` |
| `NothingLateIsHeard` | `Spec => []AnswersAreFinal` |

The invariant has three parts.  `QueuesInOrder`: the commands that wait are the
last ones sent, in order, nothing was answered that was not taken, and a snapshot
under way is that of the command taken last.  `Calming`: the client's PAUSE is
still in the queue, and then nothing newer was answered, or the engine is paused;
no RESUME is behind it, and the runtime is about to be stepped only if the engine is
not paused.  `Gone`: a node that the client was told or will be told is removed is
not in the runtime nor about to be published, and one that is flushed is not in the
telemetry queue either.

`AnswersInv` adds that what is owed an answer is still in the queue of commands or
is the snapshot under way (`Owed`), and that no result settles what a later one is
about, nor the snapshot under way (`InOrder`).  A command that is taken is older
than all that wait and newer than all that was settled, so its answer fits at the
end; if the answer is lost, nothing is owed any more.  An entry of a snapshot has
the number of its command but settles only what was before it (`Settles`), so more
entries and the mark fit behind it, and nothing fits behind the mark but answers
to later commands.

### The subscription table

`SubscriptionTableProofs` proves for every set of nodes and of ids and any number
of slots (`TableInvariant`, `TypeCorrect`, `SlotsAreWellSpent`,
`WhatIsWantedIsPublished`, `ImplementsMap`): `Spec => []SlotsAreNotWasted`, `Spec =>
[]PublishesWhatIsWanted` and `Spec => MapSpec`.  The invariant is the type
invariant, a node in every slot in use, and `SlotsAreNotWasted`.  A search for a
slot finds one when there is one (`FirstIsInSet`: of the intervals from 1 to the
candidates, one contains no other), so every request that changes something
rewrites the only slot its node has or will have (`Rewrites`), and this is to the
map a change at one node.  The slots in use and the subscribed nodes are in
bijection (`RoomIsKnown`), so the table is full only when the map is.

`PublishesWhatIsWanted` follows from the same invariant.  `Publication` is a
recursive function over the slots.  After the first `n` of them the batches sent
are those of the slots that show something, one for each (`SentIs`); if this
failed, it would fail for a first `n`, which `SentOneMore` excludes.  The slots that
show something and the nodes of which something is visible are again in bijection.

### Model-checked only

Every safety property that a run checks is also a theorem; some type invariants
are theorems that no run spends a property on.  What remains with TLC is liveness,
which is out of the prover's reach with its fairness and ENABLED:
`StopEndsRun` and `CallsReturn`, the liveness half of `EngineSupervisor`,
`StepsGoOn`, `SleeperIsWoken`, `CatchesUp` and `RequestsAreAnswered`.

The prover has no induction rule with which to reason about recursive functions.
Where one occurs, in `Hearing` and `Publication`, the proof takes the first number
for which a claim fails, which exists because the natural numbers are well-founded.

## 6. Not modelled

The libraries appear only as far as the engine relies on them.  Of the engine
itself, what is left out has no state that the engine would read again:

- what a thread is configured with (priority, policy, stack size, affinity), one
  check and a hand-over to the thread library; a priority that the thread refuses
  stays in the configuration, where nobody looks
- what the measurement tool calculates, and the deadline tolerance it is given
- PLUGIN_UPDATE and the commands for connections, which are handed to the runtime
  as they are; connections appear as far as a snapshot shows them
- two processes on the same queue names, two threads that start, join and destroy
  one engine, and changes of the graph by the owner while the loop runs, none of
  which the repository promises
- the public `rtsyn_engine_dispatch_command` and `rtsyn_engine_publish_values`
  (`engine.c` 463-477) as calls of the owner; they go straight to the functions that
  the loop calls
- names, paths and the wording of results
