# Verification of the StreamC runtime

StreamC executes a *flow*, a graph of stream operators, on a small pool of worker
threads. Every operator is a coroutine: when it has to wait for tuples, or for room
in a queue downstream, it blocks *in the scheduler* and its thread takes another
operator. This directory holds TLA+ models of that runtime, TLC configurations that
check them on small flows, and proofs that TLAPS checks for every flow.

All paths below are relative to `src/code/StreamWithCoroutines/core/`; `rt/` stands
for `src/streamc/runtime/`, `ops/` for `src/streamc/operators/`.

## 1. The system

| Component | State it keeps | Operations | What makes it correct |
|---|---|---|---|
| **Flow** (`Flow.cpp`, `FlowConnectors.h`) | list of operators; every connection twice, once with each of its ends | `createOperator`, `addConnection`, the `>>`, `&` and `\|` connectors | both records tell of the same connections |
| **Topologies** (`src/streamc/topology/`) | none | build a chain, a tree, a reverse tree or parallel branches | no statement fails; the graph is the one described |
| **Scheduler** (`rt/Scheduler.cpp`, `rt/SchedulerState.cpp`) | state and wait condition of every operator, `readyOperators_`, the two indexes `readBlockedOperators_` and `writeBlockedOperators_`, waiting threads, `stopped_`; one mutex | `getThreadWork`, `markOperatorAs...`, `markInputPortAs...`, `checkOperatorForPreemption`, `stop` | nobody sleeps on a condition that holds; nobody runs twice; threads do not sleep while there is work |
| **Ports** (`rt/InputPortImpl.cpp`, `rt/OutputPortImpl.cpp`) | queue of each input port with a mutex of its own; lists of publishers and subscribers | `waitTuple`, `pushTuple`, `popTuple`, `isClosed` | bounded queues, no tuple lost or repeated, closed means closed |
| **Operator contexts** (`rt/OperatorContextImpl.cpp`) | the coroutine, `isComplete_`, the state store | `runOper`, `yieldOper`, `waitOnAllPorts`, `waitOnAnyPort`, completion | a coroutine is never resumed while its code runs |
| **Worker threads** (`rt/WorkerThread.cpp`) | the operator in hand | take, resume, repeat, exit | exit only at the end |
| **Flow context** (`rt/FlowContext.cpp`) | `isShutdownRequested_`, count of completed operators | construction, start, `markOperatorCompleted`, `requestShutdown`, `wait` | `wait` returns when all is done, and does return |
| **Flow runner** (`rt/FlowRunnerImpl.cpp`) | the context of each flow, one mutex | `run`, `wait`, `requestShutdown` | runs of a flow do not overlap; calls return |
| **Scheduling policies** (`rt/*Scheduling.cpp`) | begin and end times of operators, time stamps of queued tuples, counters and profiles of the ports | `findOperatorToExecute`, `checkOperatorForPreemption` | choose as the name says; find someone if someone is ready |
| **Library operators** (`ops/`) | loop variables, file positions | `process`, `initState`, `saveState` | order, completeness, termination of the whole flow |
| **Tuples** (`include/streamc/Tuple.h`) | attributes by name | set, remove, append, get | an operator finds every attribute it reads, with its type |
| Values, logging, experiments | — | — | not modelled (section 8) |

How they interact. A worker thread calls `getThreadWork` (under the scheduler's
mutex), locks the mutex of the operator it was given and resumes its coroutine. The
coroutine calls ports; a push inserts into the subscriber's queue under the queue's
lock and *then*, in a second critical section, announces it to the scheduler, which
may make the subscriber's operator ready and notify a sleeping thread. An operator
that must wait is marked blocked under the scheduler's mutex and yields *after* the
mutex is released, so that it can be handed to another thread before it has yielded.
Its completion is a flag set under no scheduler mutex, announced later. The client
requests a shutdown by setting a flag, which operators and pushes read.

What is hard about it, in short (the `hazards` of `PROJECT.json` list each at its
line): every decision is made in one critical section on the strength of what was
read in another or in none; indexes are maintained piecemeal, an operator being
dropped from the entry of a port as soon as *that* port satisfies it; notifications
go to a thread that may already have been notified; thresholds of an earlier wait
stay in force; bounded queues turn graphs without cycles into cycles of waiting.

## 2. The modules

| Module | Models | Extends |
|---|---|---|
| `FlowGraph` | the graph of a flow as the runtime sees it: owners, publishers, subscribers | — |
| `Scheduler` | the state and the methods of the scheduler, one action each | `FlowGraph` |
| `StreamRuntime` | a running flow: threads, coroutines, ports, completion, client; the code of the operators is open | `Scheduler` |
| `FlowContract` | the abstract specification: what a flow promises, without queues, threads or operators | — |
| `FlowPrograms` | the library operators as programs over the calls of `StreamRuntime`; the refinement mapping to `FlowContract` | `StreamRuntime` |
| `PortwiseConditions` | the checks and the conditions of waiting over several ports, their reads one at a time | `Scheduler` |
| `FlowRunner` | clients that run, stop, wait for and rerun flows; file positions and state stores | — |
| `SchedulingPolicies` | the five policies over a clock, with the methods of `Scheduler` | `Scheduler` |
| `TupleAttributes` | tuples as maps from names to types; what each operator does to them | — |
| `Topologies`, `FlowBuilder` | the constructors of the topologies and of three test flows; a `Flow` while it is built | `TupleAttributes`; `FlowGraph` (instance) |
| `StreamRuntime_proofs`, `PortwiseConditions_proofs`, `FlowRunner_proofs` | theorems and proofs | the module named |
| `SchedulingPolicies_proofs`, `FlowBuilder_proofs` | theorems and proofs | the module named |
| `WriteBlocking_proofs` | theorems about blocked writers and the limits of the queues | `StreamRuntime_proofs` |
| `PortwiseBlocking_proofs` | theorems about whoever is blocked on counts that were read one at a time | `PortwiseConditions_proofs` |
| `FlowPrograms_proofs` | theorems about the library operators, in any application, and about the contract | `FlowPrograms`, `WriteBlocking_proofs` |
| `MC...` | graphs, sizes and symmetry for TLC | the module named |

### State and actions against the code

`Scheduler`. `opState`, `waitKind` and `threshold` are the fields of
`OperatorState` and `ReadWaitCondition`; `readBlocked` is the set of keys of
`readBlockedOperators_` (the operator under a key is always the owner of the port);
`writeBlocked[p]` are the operators under `p` in `writeBlockedOperators_`;
`waiting` is `waitingThreads_`, newest first, and `notified` those of its threads
whose condition variable was notified and who do not have the mutex again yet.
`readyOperators_` and `readyThreads_` are functions of the rest and are not
variables. Write thresholds are constant in the code (`maxQueueSize_`) and are not
variables either. Every method is an action from its first to its last access under
`mutex_`, with the early returns that skip it as actions of their own
(`SkipReadBlock`, `SkipWriteBlock`). `updateOperatorState` is `UpdateOperators`,
applied at once to all the operators that one critical section moves.

`StreamRuntime`. `threadPc` and `pc` say between which two critical sections a
thread and a coroutine are; in particular `written` and `popped` lie between a queue
operation and its announcement, `readYield`, `writeYield` and `preemptYield` between
the scheduler's decision and the yield, `complete` and `stop` between the setting of
`isComplete_`, the announcement and `Scheduler::stop`. `Executing(o)` is the mutex of
an operator's context. A generic client program makes any call at any time, with any
wait on any set of its ports. Popping needs a tuple (on an empty queue
`getFrontTuple` would throw).

`PortwiseConditions`. `pc` says where in a call an operator is, `wait` what it waits
for and by which call (`waitTuple`, or one of the context's), `left` which ports the
loop it is in has still to look at, in any order since they are keys of an
`unordered_map`. An operator in one of the `Sections` holds the scheduler's mutex for
several steps; `seen` are the queues as it has read them, and the methods of
`Scheduler` are applied to `seen`, not to `queue`. Every operator has a thread at
hand, none is preempted, nothing is shut down; `Asks` limits the waits that the code
of an operator calls.

`FlowPrograms`. `loc`, `port`, `counter` and `heap` are the program counters and the
local variables of each `process()`; `app` is the application that runs, one of
`Apps`: what each operator is, how much each source has, which lines are malformed and
skipped, which files cannot be opened. A tuple carries the set of *(source, number)*
pairs it was made of, and the `seqNo` that `Split` adds. "Filter" is also
`Selective`, "Pass" is `Busy`, `Timestamper` and `ResultCollector`. In `FlowContract`,
`lines` are the tuples that are to reach each sink.

`FlowRunner`. `mutex` is the mutex of `FlowRunnerImpl`, held by a call from its first
statement to its return; `context[f]` says how far the run of a flow is; positions
(`filePos_`, members of the operators) outlive a run, stores (members of the context)
do not.

`SchedulingPolicies`. A clock ticks `Micro` times per microsecond; comparisons
truncate as `duration_cast` does; ready operators are visited in every order, since
they are in an unordered set. A push is a check of all the queues behind an output
port, then a delivery and an announcement for each, a pop is a removal and an
announcement, and others run in between: `pc` and `todo` say how far it is. `ran` and
`endTime` are the times of the operators (`Epoch` is `epochMicrosecs_`), `stamps` those
of the queued tuples, `counted`, `profile` and `conjunctive` the `ProfileAndCounter`s and
the counts of conjunctive and disjunctive waits. Of a floating-point profile the magnitude is kept (nothing, zero, a
positive number, infinite, not a number), with what the divisions, the weighted sums
and the comparisons make of it; between two positive numbers either may be the
greater. Each measurement is kept only in the runs of the policies that read it.

`TupleAttributes`. A tuple is a function from names to types. `Produced`, `Passed` and
`Joined` are what a source, an operator and a barrier make of the attributes;
`Digests` says that what an operator looks up, unchecked, is there.

### Abstractions, and why they lose nothing the properties tell apart

* A critical section of the scheduler reads all the ports of a condition at one
  instant in `StreamRuntime`. In the code it reads one count after the other while
  producers and the consumer change them under the locks of the queues. Likewise the
  checks at the head of `waitOnAllPorts` and `waitOnAnyPort`. `PortwiseConditions` has
  these reads one at a time, and shows that the difference does no harm: what a wait
  answers is true when it is answered, and a section that read too early is followed by
  another that will look again.
* `pushTuple` checks all subscribers in one step and inserts into one after the other.
* The caches `currentCount` and `isClosed_` are dropped: the first is a snapshot a
  caller retries on, the second remembers what never changes back (which
  `ClosedPortsGetNothing` is about).
* `StreamRuntime` lets the policy pick any ready operator and preempt at any check, so
  that its properties hold under every policy but for `LeastRecentlyScheduling` when it picks
  nobody (`SleepsOnlyBesideRecent` below).
* `SchedulingPolicies` lets a search read all the counts, stamps and profiles at one
  instant (`Begin`), where the code reads one after the other while other threads push and
  pop; and a thread is free, its operator's times and profiles updated, when the operator
  is marked (`End`), where the code has yet to yield. Nothing is lost with one worker thread, as in
  the run. The theorems, for any number of threads, say that a policy chooses right among
  the values that it would read at one instant; what it makes of values that change under
  its loop they do not say.
* Contents of tuples are numbers; in `TupleAttributes`, types.
* `Merge`, when a shutdown interrupts it, may leave tuples out; `FlowContract` lets a
  flow do so once a shutdown is requested.

### Bounds

| Bound | Where | Why it is enough |
|---|---|---|
| `MaxQueueSize` 1 or 2 | all | stands for 1000; full, empty and (with 2) neither are all there |
| `MaxWait` | `StreamRuntime` | 2 in Fork, where a wait can want more than there is and less than the limit; library operators ask for one tuple |
| `QueueBound` | `StreamRuntime` | a shutdown lifts the limit of the queues; no new push starts towards a port this full. 9 in the runs of `FlowPrograms`: never reached, the sources have at most three tuples |
| `MaxRuns` 2 | `FlowRunner` | a second run meets everything a run leaves behind |
| `Micro` 2, `LastTick` 5 | `SchedulingPolicies` | the clock goes from the second tick to the fifth, two per microsecond, so that differences that truncation drops and differences that it keeps both occur, and quanta that count as zero |
| `Epoch` 2 ticks | `SchedulingPolicies` | one microsecond for the 100 ms of the code: operators run for less and for more |
| two ports per condition | `PortwiseConditions` | a first port that changes after it was read and a second that has not been read yet; the proofs are for any number |
| chains up to depth 4, trees up to depth 3, fan-out 2 and 3, up to 3 branches | `MCFlowBuilder` | from the smallest for which the code is defined (depth 1, fan-out 2: `depth_-1` wraps around for 0, `Tree` divides by `n_-1`) |

## 3. The runs

Passing runs:

* **Fork** (`StreamRuntime`, 2 threads). A producer whose output port has two
  subscribers, preemption, spurious wake-ups, waits for up to two tuples, shutdown at
  any time. `OneResumption`, `RunningIsCarried`: between the critical section that
  makes an operator ready and its yield a second thread can be given the operator;
  still no coroutine is resumed while it runs and the scheduler is never wrong about
  who runs. `NoStalledReady`: the threads never all sleep while an operator is ready,
  although two operators made ready in a row notify the same thread.
  `NoLostWriteWakeup`, `QueueBounded`: a push to two queues wakes up when both have
  room and overfills neither. `WriteIndex`: the inductive part of the former, what the
  write index knows of a blocked operator. `ExitOnlyWhenDone`: threads leave, and
  `wait` returns, only at the end.
* **Mesh** (`StreamRuntime`, 2 threads). A reader with two ports, one of them with two
  publishers, waiting for either port or for both. `NoLostReadWakeup`: whenever the
  condition of a blocked reader holds, an announcement that will wake it is on its
  way. `NoLostClosure`: likewise when the ports have closed. `QueueBounded`,
  `Reservations`: two publishers overfill their queue by one tuple and no more, since
  room that one of them has found is still there for it when it comes to use it.
  `ClosedPortsGetNothing`. `Inv`: the inductive invariant of the proofs.
* **Portwise** (`PortwiseConditions`). A push to two queues, a reader of two ports
  (either, both, one after the other) that are fed along paths of different lengths.
  `AnswersHold`: no wait is granted or refused on counts and flags that do not hold
  together; in particular none is refused while a tuple it asked for is in a queue or
  can still come. `NobodyIsLeftBlocked`: the critical sections may each see a count too
  early, and decide that there is nothing to do, but not all of them. `Inv` and
  `BlockInv`: the inductive invariants of the proofs.
* **Joining** (`FlowPrograms`, 2 threads, queues of one tuple), **Parallel**
  (1 thread, queues of two): whole applications keep `FlowContract`. Joining is a
  barrier over two files, one of them with a malformed line in the middle, a union of
  two files and a union whose second file cannot be opened. Parallel is a source, a
  `Split` into two branches, a `Merge`, a `RoundRobinSplit`, a `RoundRobinMerge`, a
  filter (in the other application an operator that passes everything on) and a sink on
  the only thread. `KeepsContract` is refinement: every sink gets the tuples of every
  source in order, once, and, without a shutdown, all of them; and `wait` returns only
  then. `FlowEnds`: it does return, under the fairness of section 4. These runs check
  for deadlock too. The finished flow is the only state without a real step.
  `FrontsExist`: no operator looks at, or pops, the front of an empty queue
  (`getFrontTuple` would throw where nobody catches); what a wait has found is still
  there after preemption and blocked pushes, and `Merge` keeps what it has looked at.
* **Reruns** (`FlowRunner`). Two clients, two flows, two runs of each, shutdowns from
  both. `RunsDoNotOverlap`, `CallsReturn`, and `EachRunStartsOver`: although positions and
  files survive a run, what a run has written and what it has queued are exactly the lines
  that it has itself read from the first on, and all of them are in the file after a run
  without a shutdown. This is what the code does and not what is said of it, see
  **Resume**: a second run that is shut down may leave less in the file than the first.
* **Policies** (`SchedulingPolicies`, 1 thread). A source whose output port has two
  subscribers, an operator with both kinds of ports, a reader of two ports.
  `ChoosesByPolicy`: in whatever order the ready operators are visited, and in spite of
  truncation, no operator is passed over that is a microsecond or more ahead by the
  measure of the policy. For
  `MaxThroughputScheduling` the property asks for profiles that are positive numbers: a
  quantum of less than a microsecond divides by zero, the profile is infinite or not a
  number ever after, and then the order of the visits decides. `OthersAttend`: all the
  policies but one find somebody if anybody is ready. `SleepsOnlyBesideRecent`: that one,
  `LeastRecentlyScheduling`, finds nobody only if every ready operator stopped running
  less than a microsecond ago. This too is what the code does and not what is said of it,
  see the end of the next list. `PoliciesInv`: what the policies
  measure by is in order, no stamp lies ahead of the clock and those of a queue ascend.
  `RoomKept`: no queue is over its limit, so that the room that `MaxThroughput` computes
  without a sign is what there is.
* **Topologies** (`FlowBuilder`). `NoStatementFails`, `PublishersAgree` (closure goes by
  one record of the connections, blocking by the other), `FitForRuntime` (what the theorems
  about the runtime assume of a graph holds of these: no port is connected to another
  twice and, but for the two tests with four files, none has two publishers),
  `BuiltAsDocumented`, `TuplesSuitReaders`: along every path of a topology, and of the flows of the filter,
  union and barrier tests, each operator finds the attributes it looks up without a
  check, with the types it asks for.

Runs that show where the code does not do what its own documentation says; each
checks that one property:

* **StaleMerge**, `ShutdownCompletes`. `FlowRunner.h:44-46` says that the completion of
  a flow can be waited for after its shutdown was requested. A threshold that an
  earlier wait set stays in force when the next wait is on another port
  (`rt/Scheduler.cpp:138`: thresholds are reset only when a blocked operator becomes
  ready, and a wait that is satisfied at once never blocks). `Merge` waits on its ports
  in turn: with its first file at the end and the queue empty, a tuple on the second
  port does not satisfy the condition, the publisher then blocks on the full queue, and
  the flow stops for good. A shutdown requested then wakes nobody.
* **BarrierSpin**, `WaitingFreesThread`. `waitOnAllPorts`, with one port closed but not
  empty and another open and short of tuples, is sent back by
  `markOperatorAsReadBlocked` without having yielded, ignores the closed port and
  tries again; `OperatorContext.h:68` says that it blocks. On one thread the producer
  it waits for never runs.
* **ShutdownBlocks**, `RequestShutdownReturns`. `FlowRunner.h:44` says that
  `requestShutdown` does not block. `wait` holds the runner's mutex until its flow has
  ended, and a flow that produces until its shutdown is requested never does.
* **Resume**, `RunsResume`. `../tests/operator_tests/FileFilterSink_test/src/main.cpp:49`
  says of a flow that was shut down and is run again that "it will resume from where it left";
  `Operator.h:110` and `OperatorContext.h:44` say that `initState`, `saveState` and the
  state store are for restarts. `run` replaces the context of the flow and with it the
  stores (`rt/FlowRunnerImpl.cpp:23`), so that what was saved is never read: the source
  begins with the first line again and the sink empties its file. The property holds with
  stores that survive (the mutant of `Run`), but then `EachRunStartsOver` fails, and lines
  that were queued at the shutdown are in neither run's output.

One more divergence is stated the other way round, by what the code does, in Policies:
`rt/SchedulerPlugin.h:13` says that `findOperatorToExecute` returns nullptr "if there is no
operator to execute". `LeastRecentlyScheduling` starts its search from nobody and *now*, and
compares in whole microseconds (`rt/LeastRecentlyScheduling.cpp:39`): an operator that
stopped running less than a microsecond ago is not found. The thread sleeps and, if
everybody else is blocked, nobody notifies it: `OthersAttend` without its restriction to
the other policies fails, when the only thread has preempted the only operator that is
not blocked. `SleepsOnlyBesideRecent` says that this is the only case.

`CHECK_DEADLOCK FALSE` where the system may really stop: Fork, Mesh and Portwise, whose
client code may return leaving full queues behind; `FlowRunner`, whose clients need make no
more calls; `SchedulingPolicies`, whose operators may all block; `FlowBuilder`, when
the flow is built; and the runs that show a violation.

Things learned on the way that are no divergence from a promise: with fan-in,
`NoLostWriteWakeup` fails when one of the publishers of a port has another subscriber
(dropped from the entry of a port that the other publisher fills again, it is
registered nowhere when it is needed); no application in the repository has such a
graph (the tests that have fan-in, `FileBarrierSink_test` for one, have it without). With queues of
a single tuple the flow of Parallel stops for good, because a blocked push waits for
room on *all* the ports of its operator (`rt/SchedulerState.cpp:94`); a hash function
that favours one branch for more than `maxQueueSize_` tuples has the same effect on
`Split` and `Merge` at any size.

What the passing runs do not reach: no flow of Fork has a port with two publishers, so that
`NoLostWriteWakeup` and `WriteIndex` are checked, and proved, without the case above;
`FlowEnds` is checked with a hash that alternates, and in Joining without parallel
branches; `RoomKept` is checked with one thread, and proved for any number, without
fan-in, so that the wrapped difference of `rt/MaxThroughputScheduling.cpp:87` is never
met; the constructors are run from depth 1 and a fan-out of 2 on.

## 4. Fairness

`FairFlowSpec` has weak fairness for each worker thread (its own steps and those of the
coroutine it is in), which is what the operating system's scheduler gives, and for the
client inside `wait`. `FlowRunner` has it for the steps of a client *inside* a call and
for the steps of each flow. There is none for requesting a shutdown, for making a call,
for spurious wake-ups (which are possible steps), for the order in which mutexes are
granted, or for the choice of the scheduling policy.

## 5. What is proved

For every graph, every number of threads, every queue limit and every set of tuples
(assumptions: `FlowGraphAssumption`, `ThreadsAssumption`, `RuntimeAssumption`), in
`StreamRuntime_proofs`: `TypeCorrect` (`TypeOK`), `Invariance` (`Inv`),
`ResumptionIsExclusive` (`OneResumption`), `RunningMeansCarried` (`RunningIsCarried`),
`ReadersAreWoken` (`NoLostReadWakeup`), `ClosuresAreAnnounced` (`NoLostClosure`),
`SomeoneIsAwake` (`NoStalledReady`), `NobodyLeavesEarly` (`ExitOnlyWhenDone`),
`ClosedPortsStayAsTheyAre` (`ClosedPortsGetNothing`).

None of these is inductive by itself. `Inv` is their strengthening:

* `Binding` ties together what three components believe: a thread has an operator
  from its assignment to its leaving, Running is what the threads carry, a coroutine
  at its yield point is still on a thread, Completed is the coroutine's end. Without
  the third, a blocked operator could be made ready and entered twice.
* `Registration`: only blocked operators are in the indexes, each in that of its kind,
  so that whoever is found through an index may be made ready.
* `ReadIndex`: a blocked reader is registered under every port its condition lacks,
  under at least one, under all of them if any would do, and a port it is registered
  under that *has* its tuples is about to be announced. The last clause is what a push
  in two critical sections preserves; the lost wake-up is its negation.
* `NoLostClosure` is inductive with `Pushing`, which also says that a push in progress
  belongs to a publisher that is not complete: nothing reaches a closed port.
* `NoStalledReady`: whoever goes to sleep saw no ready operator; whoever makes one
  ready is a thread that is awake.
* `Ending`: the scheduler is stopped by the last operator, after all have completed.

`WriteBlocking_proofs`, on top of `Inv`. If every input port has one publisher
(`NoFanIn`): `WritersAreRegistered` (`WriteIndex`) and `WritersAreWoken`
(`NoLostWriteWakeup`). `WriteIndex` says that a blocked writer is registered under
every full port downstream of it, under at least one in any case, and that a port it
is registered under that has room is about to be announced. When the last of them is
announced, no port can be full that it is not registered under: only it pushes there,
and it sleeps. This is where fan-in breaks the argument. If no
output port is connected to the same input port twice (`ConnectedOnce`):
`ReservationsAreKept` (`Reservations`) and `QueuesAreBounded` (`QueueBounded`), for
any number of publishers. A push checks for room and inserts in different steps; what
is bounded is the count of a queue plus the pushes that have found room in it. Each
publisher has at most one such push, so a check that sees a count below the limit
leaves room for all of them, and the bound of the queue is one tuple above the limit
for each publisher after the first.

`PortwiseConditions_proofs`, for any graph without fan-in, any queue limit and any
waits (`FlowGraphAssumption`, `PortwiseAssumption`): `Invariance` (`Inv`) and
`AnswersAreRight` (`AnswersHold`). `Remembers` is what makes it inductive: a port that
was found available stays so, for only its owner pops and the owner is in the loop; a
port that was found closed and short stays so, for only a publisher pushes, which has
not completed and, if the port is closed, does not exist. The order of the two reads
of the second loop, closure first and then the count again, is needed for the second.

`PortwiseBlocking_proofs`, under the same assumptions: `Blocking` (`BlockInv`) and
`NobodyStaysBlocked` (`NobodyIsLeftBlocked`). A section that decides who is to be woken
holds the scheduler's mutex, but the queues change while it reads them, and the
condition that it evaluates may never have held. What saves it is that every change of
a queue is followed by a section of its own. `ReadRight` says so for what a section has
read: a count that is no longer what was read differs by a push or a pop that has yet to
be announced. `ReaderIsDue` and `WriterIsDue` say so for the indexes: a blocked operator
is registered under every port that it lacks, and a port that it is registered under
without lacking it is about to be announced, or is being looked at. `ClosureIsDue` says
so for the flags: an open port that a section relied on, and that has closed since, has
a publisher that is about to announce its completion. Without fan-in the announcement
of one port cannot fill another that was already struck off.

`SchedulingPolicies_proofs`, for any graph, any number of threads, any resolution of the
clock and any epoch of a microsecond or more (`PoliciesAssumption`): `Bookkeeping`
(`PoliciesInv`), `Attention` (`OthersAttend`), `RoomIsKept` (`RoomKept`), `Sleeping`
(`SleepsOnlyBesideRecent`) and `Choice`
(`ChoosesByPolicy`), among counts and stamps that are read at one instant (section 2).
The search of a policy is a fold over the ready operators in the
order of a visit. `FoldExists` shows that the function a fold is defined by exists,
`FoldPasses` that its values are those that the loop goes through, and each policy has
a loop invariant, that nobody visited so far is better than the one in hand by as much
as the code can tell apart; for `MaxThroughput` there are two more loops inside, over
the output ports and over the subscribers of each, for each magnitude a profile can
have. The comparisons truncate, so that one that is a tick short of a microsecond ahead
is not seen; it is proved that these do not add up along the loop. The invariant is
needed twice: a stamp that lay ahead of the clock would make a difference wrap around,
and the front of a queue is its oldest tuple only if stamps are ordered. `RoomIsKept` is
for flows without fan-in, and so is `Choice` if `MaxThroughput` is among the policies:
the room of a queue is an unsigned difference
(`rt/MaxThroughputScheduling.cpp:87`), and one over its limit, which two publishers that
check at once can bring about, has more room than any other. A push checks all its
queues and delivers to one after the other while others run; what has been checked and
not yet delivered is in `todo`, and `Reserved` says that there is room for it. `Choice`
says nothing of an operator without connected ports under `MaxThroughput` (`Measured`):
its profile is a sum of nothing.

`FlowBuilder_proofs`, for flows of *every* depth and width: `EveryFlowSound`,
`ConstructorsSucceed` (`NoStatementFails`), `EndsAgree` (`PublishersAgree`), `GraphsFit`
(`FitForRuntime`), `FlowsAsDocumented` (`BuiltAsDocumented`) and `ReadersFindAttributes`
(`TuplesSuitReaders`). `AllFlows` has the chains and trees of any depth from 1, the parallel
branches of any number from 1, the trees of any fan-out from 2, and the three tests. A
constructor is a list of statements that loops make, some of them nested, with index
arithmetic in which an error would connect a branch twice. `Lists(s, f, I)` says that a
list has no repetition and what is on it; it is shown for a concatenation
(`ListsConcat`) and a loop (`ListsLoop`) of lists that have nothing in common. The
numbers of nodes are powers and quotients: `PowerSteps` shows that the recursive
function of `Power` exists and satisfies its recursion, `NodesOfTree` that the
quotient is exact and that every level adds the leaves, `Children` and `Parents` that
the two numberings of a tree connect no port twice. `BuildInv`, the invariant of the
construction, says that what has been recorded at both ends is what the statements
executed so far say. Numbers are those of mathematics: sizes beyond the `int` and the
`double` of the constructors are not covered. `GraphsFit` is the other half of the
theorems that assume `NoFanIn` and `ConnectedOnce`: the graphs of the topologies satisfy
what they ask for.

The last two theorems are about all the paths of a finished flow, which the model
computes in as many rounds as there are operators (`PathCounts`, `Arrivals`). The
functions that count the rounds exist (`Induction`, by `Smallest`), and what a round
keeps, all of them keep. What it keeps is said by a *layout* of the design, which is
proved to exist for every flow (`EveryFlowOrderly`) and is in no variable. `LaidOut`
gives each operator a level, the busy operators on every path to it, and a rank below
the number of rounds that every connection raises: by the levels every path to a sink
counts the depth, by the ranks every operator is reached and the rounds are enough.
`Fed` counts the output ports behind each input port. For a tree the level is the row of
a node in a numbering row by row, and a node has no row of its own in the code: `Rows`
says that there is a function from the numbers of the nodes to rows that agrees with the
children, and it is found by the powers (`InRow`); the reverse tree is a tree read
backwards, and its rows are counted from the sources. `Supplied` has the same names of
attributes for all the tuples that ever come to one port, and says that they agree with
what the operator behind it makes of them and suffice for the one that reads them. That
names are enough, because a name has the same type wherever it is set, is `Carrying` and
`SetNames`.

`FlowPrograms_proofs`, for any connections, roles and numbers of tuples
(`ProgramAssumption`, which says how many ports a role needs; tuples may carry
anything and hash functions are total, `EveryTuple`): `ApplicationsAreRuns`, every
behaviour of `FlowPrograms` is one of `StreamRuntime`, so that what is proved of any
client code holds of the operators of the library (`ApplicationsAreSafe` draws the
conclusion for the main properties); and `FrontsAreThere` (`FrontsExist`). The
invariant `ProgramInv` has the ranges of the local variables at each place
of a program (`Locals`; the ports a barrier has still to pop, for one), what an
operator in a wait waits for (`InWait`), which ties the two modules
together, and `FrontsExist`, which is inductive with them: only the owner pops, from
ports that are pairwise different. The second theorem is needed for the first,
because an operator pushes what it has read.

`ForwardersKeepTheContract`, in the same module, is the refinement of `FlowContract`,
step by step (`KeepsContract`), for the applications that forward: sources, operators
that pass everything on, filters, unions and sinks (`Forwarding`; both applications of
Joining with a union are of this kind), connected in any way in which no input port has
two publishers and no two ports of a union are fed by one source, which would bring a
tuple twice, and whose sinks can open their files; for tuples that can carry anything
(`EveryTuple`). Sources may have any lines malformed and may fail to open their files.
`Upstream(o)` is the least set closed under publishers, so that no path is ever counted.
The invariant `ForwardInv` follows each source: of the tuples of source s, `used[p][s]` is
the number of the last that was popped from port p and `sent[p][s]` that of the last
pushed to it, or left out by a filter since. A queue has exactly those in between that
are to come by there, in their order (`Ordered`); the numbers on the two sides of an
operator differ only by what it has in hand (`Handover`: an operator pushes the front to
one subscriber after the other and pops it afterwards, so that it is in two queues for a
while); a source has sent what it has counted (`Producing`); a sink has written what it
has used (`Sinking`). These numbers are in no variable of the code or of the model, and
`Followed` says that there are some. `Ends` says that an operator that has ended,
without a shutdown, has seen closed and empty ports. That nothing is missing when
`wait` returns, `ContractFinish`, follows from all of them having ended: from the
sources on, along the least set, sent and used are all there is. `Followed` quantifies
over functions to the naturals and is therefore not evaluated in a run.

`FlowRunner_proofs`, for any clients, flows and numbers of runs (`RunnerAssumption`):
`TypeCorrect`, `Invariance`, `RunsAreDisjoint` (`RunsDoNotOverlap`), `RunsStartOver`
(`EachRunStartsOver`). The invariant `LinesOf` says that the output followed by the
queue is the lines read in this run. An operator that has yet to open its file
still has the position, and the file the contents, of an earlier run; hence
`ReadSoFar` and `WrittenSoFar`. `EndsOf` says that an operator that ends without a
shutdown has seen everything. `RunsAreLegal` carries the precondition of `run` from
the call to the point where the mutex is granted.

The modules are laid out alike: what the helpers of the model do (`MarkOperatorAs...`
and its like, as "effect" lemmas, so that the rest never expands them), one lemma per
conjunct of the invariant and group of actions, one that joins them, and the theorems,
whose last step is temporal.

## 6. What is only model-checked

`FlowEnds` and `CallsReturn`: liveness under fairness and ENABLED are outside the reach of
the provers used. `KeepsContract` where tuples are joined or reordered, by a barrier or
between a split and its merge: the numbers that follow a source from queue to queue
would have to follow pairs of tuples and turns. The four properties
that do not hold are shown by their runs.

The library's rules of induction take an operator, which these provers cannot
instantiate. Where a proof needs induction over numbers (the folds of the policies,
loops, powers) it is over a *set*: if a set has 0 and with every n also n + 1, it has
all, because a set of naturals that is not empty has a smallest element (`Smallest`,
from `NatLessThanWellFounded`).

## 7. Does a check bite?

Every property of a passing run has a mutant in `PROJECT.json`, a definition next to
the one it replaces, whose comment says what is wrong with it: a coroutine resumed
without its mutex, a registration before the thresholds are set, a full queue noticed
one tuple late, a port closed by one of two publishers, an operator blocked on counts
that were read before, a loop that ends at the first available port, a merge that takes
the largest first, a union that waits for all its ports, a barrier that waits for any of them, a split that adds no number, a new
context that keeps its state stores. Each violates its property under the
run's own configuration.

## 8. What is not modelled, and why

* `Value.h`: what is in an attribute, its storage and its textual conversions.
  Sequential data code without shared state. Logging: output only. The experiment
  drivers: they start flows and time them.
* What `ResultCollector` measures. Its counters and the mean outlive a run and the
  variance does not, so that a second run reports a mixture; no other part reads them.
* `InputPortImpl::drain` is in no interface and is not called.
* A sink that cannot open its file: `FlowPrograms` has it (`broken`), no run does. It
  completes at once, and a producer that has filled its queue stays blocked for good,
  shutdown or not. No documentation says what should happen.
* The position that `tellg` reports at the end of a file (-1): the state store it goes
  to is not read again, because each run has new stores.
* The width of the sequence numbers (`int` in the queue of `Merge`): 2^31 tuples.
* In `SchedulingPolicies` nobody completes and nothing is shut down. The flow of its run
  has no fan-in, so that the unsigned difference of `rt/MaxThroughputScheduling.cpp:87`
  does not wrap around; where it does, a publisher is chosen that blocks at once.
  Starvation under `MaxQueueLengthScheduling` is by design.
* Programs that call `wait` twice for one run, run a flow whose threads are not
  joined, or name a flow that was never run: the code ends the process.

## 9. Done and left

In this order: the runtime and its indexes (the heart of the system), whole
applications against the contract, the runner, the policies, the construction of flows
and the attributes of tuples, the reads of the conditions one by one; the proofs of
the invariant of the runtime, of blocked writers and bounded queues, of the runner, of
the answers of the waits, of the library operators as clients of the runtime, of
whoever is blocked on counts read one at a time, of the policies, of the construction of
flows of every size, of the contract for applications that forward, and of the paths and
the attributes in finished flows of every size. Left:

1. *Applications*: `KeepsContract` proved for barriers, and for a split with its merge.
2. *The link between the two models of waiting*: `PortwiseConditions` shows that the
   conclusions of `StreamRuntime` survive the finer reads; that it implements
   `StreamRuntime` step by step would need a mapping that looks ahead to the read that
   decides.
3. *Policies* with completing operators and shutdown.
