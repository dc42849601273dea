--------------------------- MODULE StreamRuntime ---------------------------
(***************************************************************************)
(* A running flow: worker threads that take operators from the scheduler   *)
(* and resume their coroutines, the runtime calls an operator's code makes *)
(* (waiting, pushing, popping), the completion of operators and of the     *)
(* flow, and the client that may request a shutdown and waits for the end. *)
(*                                                                         *)
(* An operator's own code is left open: whenever it has control it makes   *)
(* any call its interface allows, or returns.                              *)
(***************************************************************************)
EXTENDS Scheduler

CONSTANTS
  MaxWait,       \* bound: the largest number of tuples a wait asks for
  QueueBound,    \* bound: once shutdown lifts the limit of the queues, no
                 \* new push starts towards a port this full
  Preemption,    \* the answers of the plugin's checkOperatorForPreemption
  NoOperator

ASSUME RuntimeAssumption ==
  /\ MaxWait \in Nat
  /\ QueueBound \in Nat
  /\ Preemption \subseteq BOOLEAN /\ Preemption # {}
  /\ Tuples # {}
  /\ NoOperator \notin Operators

VARIABLES
  threadPc,     \* where each worker thread is
  current,      \* the operator a thread was given by getThreadWork
  pc,           \* where the coroutine of each operator is
  wait,         \* the wait an operator is in
  todo,         \* the input ports the call in progress has still to serve
  item,         \* the tuple being pushed
  full,         \* the full ports found by the push in progress (its waitSpec)
  closedResult, \* the result of an operator's last wait
  client        \* where the caller of FlowContext::wait is

threadVars == <<threadPc, current>>
callVars == <<wait, todo, item, full, closedResult>>
vars == <<portVars, schedVars, threadVars, pc, callVars, client>>

\* "ask": about to call getThreadWork; "asleep": in its condition variable;
\* "assigned": about to lock the mutex of the operator it was given;
\* "inside": holds that mutex and runs the coroutine.
ThreadLocations == {"ask", "asleep", "assigned", "inside", "exited"}

\* "code" is the operator's own code (the start of process() included), the
\* others are places in the runtime where the coroutine can be overtaken.
\* At "readYield", "writeYield" and "preemptYield" the scheduler has already
\* changed the operator's state and the coroutine is about to yield.
YieldPoints == {"readYield", "writeYield", "preemptYield"}
Locations == YieldPoints \cup
  {"code", "waitCheck", "readBlock", "offer", "writeBlock", "deliver",
   "written", "popped", "preempt", "complete", "stop", "done"}

Waits(o) ==
  [spec : UNION {[S -> 1..MaxWait] : S \in (SUBSET InPortsOf(o)) \ {{}}},
   kind : WaitKinds]
NoWait == [spec |-> <<>>, kind |-> "Conjunctive"]

Satisfied(w) ==
  IF w.kind = "Conjunctive" THEN \A p \in DOMAIN w.spec : Count(p) >= w.spec[p]
                            ELSE \E p \in DOMAIN w.spec : Count(p) >= w.spec[p]

OutOfReach(w) ==
  LET over(p) == IsClosed(p) /\ Count(p) < w.spec[p]
  IN IF w.kind = "Conjunctive" THEN \E p \in DOMAIN w.spec : over(p)
                               ELSE \A p \in DOMAIN w.spec : over(p)

-----------------------------------------------------------------------------
(***************************************************************************)
(* Worker threads: WorkerThread::run, getThreadWork and runOper.           *)
(***************************************************************************)
Work(t) ==
  /\ \/ /\ \E o \in Operators : Assign(t, o) /\ current' = [current EXCEPT ![t] = o]
        /\ threadPc' = [threadPc EXCEPT ![t] = "assigned"]
     \/ /\ Sleep(t)
        /\ threadPc' = [threadPc EXCEPT ![t] = "asleep"]
        /\ UNCHANGED current
     \/ /\ Dismiss(t)
        /\ threadPc' = [threadPc EXCEPT ![t] = "exited"]
        /\ UNCHANGED current
  /\ UNCHANGED <<portVars, pc, callVars, client>>

GetThreadWork(t) == threadPc[t] = "ask" /\ Work(t)
WakeUp(t) == threadPc[t] = "asleep" /\ t \in notified /\ Work(t)
SpuriousWakeUp(t) == threadPc[t] = "asleep" /\ t \notin notified /\ Work(t)

Executing(o) == \E t \in Threads : threadPc[t] = "inside" /\ current[t] = o

\* Mutant of Enter: the coroutine is resumed without the operator's mutex.
EnterUnlocked(t) ==
  /\ threadPc[t] = "assigned"
  /\ threadPc' = [threadPc EXCEPT ![t] = "inside"]
  /\ UNCHANGED <<portVars, schedVars, current, pc, callVars, client>>

\* runOper: lock the operator's mutex and resume its coroutine.
Enter(t) ==
  /\ threadPc[t] = "assigned"
  /\ ~Executing(current[t])
  /\ threadPc' = [threadPc EXCEPT ![t] = "inside"]
  /\ UNCHANGED <<portVars, schedVars, current, pc, callVars, client>>

ResumeAt(l) == CASE l = "readYield" -> "waitCheck"
                 [] l = "writeYield" -> "offer"
                 [] l = "preemptYield" -> "code"
                 [] OTHER -> l

\* The coroutine yields, or has ended, and its thread goes back for more.
Leave(t) ==
  /\ threadPc[t] = "inside"
  /\ pc[current[t]] \in YieldPoints \cup {"done"}
  /\ threadPc' = [threadPc EXCEPT ![t] = "ask"]
  /\ current' = [current EXCEPT ![t] = NoOperator]
  /\ pc' = [pc EXCEPT ![current[t]] = ResumeAt(@)]
  /\ UNCHANGED <<portVars, schedVars, callVars, client>>

ThreadStep(t) == GetThreadWork(t) \/ WakeUp(t) \/ Enter(t) \/ Leave(t)

-----------------------------------------------------------------------------
(***************************************************************************)
(* Waiting: InputPortImpl::waitTuple, which is a wait on one port, and     *)
(* OperatorContextImpl::waitOnAllPorts and waitOnAnyPort.                  *)
(***************************************************************************)
At(o, l) == pc[o] = l /\ Executing(o)
Goto(o, l) == pc' = [pc EXCEPT ![o] = l]

CallWait(o, w) ==
  /\ At(o, "code")
  /\ Goto(o, "waitCheck")
  /\ wait' = [wait EXCEPT ![o] = w]
  /\ UNCHANGED <<portVars, schedVars, threadVars, todo, item, full, closedResult, client>>

WaitReturns(o, closed) ==
  /\ At(o, "waitCheck")
  /\ IF closed THEN ~Satisfied(wait[o]) /\ OutOfReach(wait[o])
               ELSE Satisfied(wait[o])
  /\ Goto(o, IF closed THEN "code" ELSE "preempt")
  /\ closedResult' = [closedResult EXCEPT ![o] = closed]
  /\ wait' = [wait EXCEPT ![o] = NoWait]
  /\ UNCHANGED <<portVars, schedVars, threadVars, todo, item, full, client>>

WaitMustBlock(o) ==
  /\ At(o, "waitCheck")
  /\ ~Satisfied(wait[o]) /\ ~OutOfReach(wait[o])
  /\ Goto(o, "readBlock")
  /\ UNCHANGED <<portVars, schedVars, threadVars, callVars, client>>

BlockOnRead(o) ==
  /\ At(o, "readBlock")
  /\ \/ SkipReadBlock(o, wait[o]) /\ Goto(o, "waitCheck")
     \/ MarkOperatorAsReadBlocked(o, wait[o]) /\ Goto(o, "readYield")
  /\ UNCHANGED <<portVars, threadVars, callVars, client>>

-----------------------------------------------------------------------------
(***************************************************************************)
(* Pushing: OutputPortImpl::pushTuple and InputPortImpl::pushTuple.        *)
(***************************************************************************)
CallPush(o, q, x) ==
  /\ At(o, "code")
  /\ shutdown => \A p \in SubscribersOf(q) : Count(p) < QueueBound
  /\ Goto(o, "offer")
  /\ todo' = [todo EXCEPT ![o] = Subscribers[q]]
  /\ item' = [item EXCEPT ![o] = x]
  /\ UNCHANGED <<portVars, schedVars, threadVars, wait, full, closedResult, client>>

\* Mutant of FullPorts: only the first subscriber's queue is looked at.
FirstIfFull(o) == {p \in {todo[o][i] : i \in {1} \cap DOMAIN todo[o]} : ~shutdown /\ Full(p)}

FullPorts(o) == {p \in {todo[o][i] : i \in DOMAIN todo[o]} : ~shutdown /\ Full(p)}

Offer(o) ==
  /\ At(o, "offer")
  /\ IF FullPorts(o) = {}
     THEN Goto(o, IF todo[o] = <<>> THEN "preempt" ELSE "deliver")
     ELSE Goto(o, "writeBlock")
  /\ full' = [full EXCEPT ![o] = FullPorts(o)]
  /\ UNCHANGED <<portVars, schedVars, threadVars, wait, todo, item, closedResult, client>>

\* The next subscriber gets the tuple under the lock of its queue ...
Deliver(o) ==
  /\ At(o, "deliver")
  /\ queue' = [queue EXCEPT ![Head(todo[o])] = Append(@, item[o])]
  /\ Goto(o, "written")
  /\ UNCHANGED <<isComplete, shutdown, schedVars, threadVars, callVars, client>>

\* ... and the scheduler hears of it only after that lock is released.
AnnounceWritten(o) ==
  /\ At(o, "written")
  /\ MarkInputPortAsWritten(Head(todo[o]))
  /\ todo' = [todo EXCEPT ![o] = Tail(@)]
  /\ Goto(o, IF Tail(todo[o]) = <<>> THEN "preempt" ELSE "deliver")
  /\ UNCHANGED <<portVars, threadVars, wait, item, full, closedResult, client>>

BlockOnWrite(o) ==
  /\ At(o, "writeBlock")
  /\ \/ SkipWriteBlock(full[o]) /\ Goto(o, "offer")
     \/ MarkOperatorAsWriteBlocked(o, full[o]) /\ Goto(o, "writeYield")
  /\ full' = [full EXCEPT ![o] = {}]
  /\ UNCHANGED <<portVars, threadVars, wait, todo, item, closedResult, client>>

CheckPreemption(o) ==
  /\ At(o, "preempt")
  /\ \/ FALSE \in Preemption /\ Goto(o, "code") /\ UNCHANGED schedVars
     \/ TRUE \in Preemption /\ Goto(o, "preemptYield") /\ Preempt(o)
  /\ UNCHANGED <<portVars, threadVars, callVars, client>>

-----------------------------------------------------------------------------
(***************************************************************************)
(* Popping: InputPortImpl::popTuple.  An operator pops what it has looked  *)
(* at; on an empty queue getFrontTuple would have thrown.                  *)
(***************************************************************************)
CallPop(o, p) ==
  /\ At(o, "code")
  /\ queue[p] # <<>>
  /\ queue' = [queue EXCEPT ![p] = Tail(@)]
  /\ todo' = [todo EXCEPT ![o] = <<p>>]
  /\ Goto(o, "popped")
  /\ UNCHANGED <<isComplete, shutdown, schedVars, threadVars, wait, item, full,
                 closedResult, client>>

AnnounceRead(o) ==
  /\ At(o, "popped")
  /\ MarkInputPortAsRead(Head(todo[o]))
  /\ todo' = [todo EXCEPT ![o] = <<>>]
  /\ Goto(o, "code")
  /\ UNCHANGED <<portVars, threadVars, wait, item, full, closedResult, client>>

-----------------------------------------------------------------------------
(***************************************************************************)
(* Completion: the end of OperatorContextImpl::coroBody and                *)
(* FlowContext::markOperatorCompleted.  The last operator to complete      *)
(* keeps FlowContext::mutex_ until it has stopped the scheduler.           *)
(***************************************************************************)
CallReturn(o) ==
  /\ At(o, "code")
  /\ isComplete' = [isComplete EXCEPT ![o] = TRUE]
  /\ Goto(o, "complete")
  /\ UNCHANGED <<queue, shutdown, schedVars, threadVars, callVars, client>>

FlowMutexFree == \A o \in Operators : pc[o] # "stop"

\* Mutant of Complete: the scheduler is stopped one operator too early.
CompleteOneShort(o) ==
  /\ At(o, "complete") /\ FlowMutexFree
  /\ MarkOperatorAsCompleted(o)
  /\ Goto(o, IF Cardinality({u \in Operators : opState[u] # "Completed"}) <= 2
             THEN "stop" ELSE "done")
  /\ UNCHANGED <<portVars, threadVars, callVars, client>>

Complete(o) ==
  /\ At(o, "complete") /\ FlowMutexFree
  /\ MarkOperatorAsCompleted(o)
  /\ Goto(o, IF \A u \in Operators \ {o} : opState[u] = "Completed"
             THEN "stop" ELSE "done")
  /\ UNCHANGED <<portVars, threadVars, callVars, client>>

StopScheduler(o) ==
  /\ At(o, "stop")
  /\ Stop
  /\ Goto(o, "done")
  /\ UNCHANGED <<portVars, threadVars, callVars, client>>

-----------------------------------------------------------------------------
(***************************************************************************)
(* The client: FlowContext::requestShutdown and FlowContext::wait, which   *)
(* joins the threads once every operator has completed.                    *)
(***************************************************************************)
RequestShutdown ==
  /\ ~shutdown
  /\ shutdown' = TRUE
  /\ UNCHANGED <<queue, isComplete, schedVars, threadVars, pc, callVars, client>>

AllCompleted ==
  /\ client = "waiting" /\ FlowMutexFree
  /\ \A o \in Operators : opState[o] = "Completed"
  /\ client' = "joining"
  /\ UNCHANGED <<portVars, schedVars, threadVars, pc, callVars>>

Join ==
  /\ client = "joining"
  /\ \A t \in Threads : threadPc[t] = "exited"
  /\ client' = "returned"
  /\ UNCHANGED <<portVars, schedVars, threadVars, pc, callVars>>

-----------------------------------------------------------------------------
\* What the runtime does by itself once an operator has made a call.
CallStep(o) ==
  \/ \E closed \in BOOLEAN : WaitReturns(o, closed)
  \/ WaitMustBlock(o) \/ BlockOnRead(o)
  \/ Offer(o) \/ Deliver(o) \/ AnnounceWritten(o) \/ BlockOnWrite(o)
  \/ CheckPreemption(o) \/ AnnounceRead(o)
  \/ Complete(o) \/ StopScheduler(o)

\* The calls an operator's code can make.
CodeStep(o) ==
  \/ \E w \in Waits(o) : CallWait(o, w)
  \/ \E q \in OutPortsOf(o), x \in Tuples : CallPush(o, q, x)
  \/ \E p \in InPortsOf(o) : CallPop(o, p)
  \/ CallReturn(o)

\* What happens whatever the operators' code is.
RuntimeStep ==
  \/ \E t \in Threads : ThreadStep(t) \/ SpuriousWakeUp(t)
  \/ \E o \in Operators : CallStep(o)
  \/ RequestShutdown \/ AllCompleted \/ Join

Init ==
  /\ queue = [p \in InPorts |-> <<>>]
  /\ isComplete = [o \in Operators |-> FALSE]
  /\ shutdown = FALSE
  /\ SchedInit
  /\ threadPc = [t \in Threads |-> "ask"]
  /\ current = [t \in Threads |-> NoOperator]
  /\ pc = [o \in Operators |-> "code"]
  /\ wait = [o \in Operators |-> NoWait]
  /\ todo = [o \in Operators |-> <<>>]
  /\ item = [o \in Operators |-> CHOOSE x \in Tuples : TRUE]
  /\ full = [o \in Operators |-> {}]
  /\ closedResult = [o \in Operators |-> FALSE]
  /\ client = "waiting"

\* The flow has ended and its client has been told.
Terminated == client = "returned" /\ UNCHANGED vars

Next == RuntimeStep \/ (\E o \in Operators : CodeStep(o)) \/ Terminated

Spec == Init /\ [][Next]_vars

-----------------------------------------------------------------------------
(***************************************************************************)
(* Correctness.                                                            *)
(***************************************************************************)

\* Every variable holds the kind of value the code can put in it.
TypeOK ==
  /\ queue \in [InPorts -> Seq(Tuples)]
  /\ isComplete \in [Operators -> BOOLEAN]
  /\ shutdown \in BOOLEAN
  /\ SchedTypeOK
  /\ threadPc \in [Threads -> ThreadLocations]
  /\ current \in [Threads -> Operators \cup {NoOperator}]
  /\ pc \in [Operators -> Locations]
  /\ \A o \in Operators : wait[o] \in Waits(o) \cup {NoWait}
  /\ DOMAIN wait = Operators
  /\ todo \in [Operators -> Seq(InPorts)]
  /\ item \in [Operators -> Tuples]
  /\ full \in [Operators -> SUBSET InPorts]
  /\ closedResult \in [Operators -> BOOLEAN]
  /\ client \in {"waiting", "joining", "returned"}

\* Between the critical section that makes an operator ready and its yield,
\* another thread can already have been given the operator.  However the two
\* threads interleave, at most one thread is about to resume a coroutine, at
\* most one is inside, and when there is one of each the one inside is at its
\* yield point: a coroutine is never resumed while its code still runs.
OneResumption ==
  \A t, u \in Threads :
    t # u /\ current[t] = current[u] /\ current[t] # NoOperator =>
      /\ threadPc[t] # threadPc[u]
      /\ pc[current[t]] \in YieldPoints

\* The scheduler's Running agrees with the threads: an operator is Running
\* exactly when some thread is about to resume it, or is inside it short of a
\* yield point and of markOperatorAsCompleted.  No operator is left Running
\* with nobody to run it, and no operator runs while the scheduler believes
\* it can be handed out or woken.
RunningIsCarried ==
  \A o \in Operators :
    opState[o] = "Running" <=>
      \E t \in Threads :
        /\ current[t] = o
        /\ \/ threadPc[t] = "assigned"
           \/ threadPc[t] = "inside" /\ pc[o] \notin YieldPoints \cup {"stop", "done"}

\* Someone has put a tuple in the queue of p and has yet to tell the scheduler.
WriteUnannounced(p) ==
  \E o \in Operators : pc[o] = "written" /\ todo[o] # <<>> /\ Head(todo[o]) = p

\* The owner of p has popped from it and has yet to tell the scheduler.
ReadUnannounced(p) ==
  \E o \in Operators : pc[o] = "popped" /\ todo[o] # <<>> /\ Head(todo[o]) = p

\* No lost read wake-up: a push is two critical sections, the queue's and the
\* scheduler's, and entries of readBlockedOperators_ are dropped one by one as
\* ports fill; still, whenever the recorded wait condition of a ReadBlocked
\* operator holds, a port it is registered under is about to be announced.
NoLostReadWakeup ==
  \A o \in Operators :
    opState[o] = "ReadBlocked" /\ ReadReady(o, waitKind[o], threshold) =>
      \E p \in InPortsOf(o) \cap readBlocked : WriteUnannounced(p)

\* No lost closure: when an operator is ReadBlocked on ports whose publishers
\* have all completed, some upstream operator has set isComplete_ and has not
\* yet called markOperatorAsCompleted, which will wake it.
NoLostClosure ==
  \A o \in Operators :
    opState[o] = "ReadBlocked" /\ ClosedForWait(wait[o]) =>
      \E u \in UpstreamOperators(o) : pc[u] = "complete"

\* No lost write wake-up: an operator is not left WriteBlocked with room in
\* every port downstream of it, unless one of the ports it is registered
\* under is about to be announced as read.
NoLostWriteWakeup ==
  \A o \in Operators :
    opState[o] = "WriteBlocked" /\ WriteReady(o) =>
      \E p \in DownstreamPorts(o) : o \in writeBlocked[p] /\ ReadUnannounced(p)

\* How far the publishers of p can overfill it together.
Surplus(p) == IF Publishers(p) = {} THEN 0 ELSE Cardinality(Publishers(p)) - 1

\* Until shutdown is requested a queue exceeds maxQueueSize_ by less than one
\* tuple per publisher: the check of pushTuple and its queue insertion are
\* not atomic, so that publishers of one port can all pass the check.
QueueBounded ==
  ~shutdown => \A p \in InPorts : Count(p) <= MaxQueueSize + Surplus(p)

\* InputPort::isClosed means what its documentation says: nothing is ever
\* added to the queue of a port once it is closed, although isComplete_ is
\* read and set outside the scheduler's mutex.
ClosedPortsGetNothing ==
  [][\A p \in InPorts : IsClosed(p) => Count(p)' <= Count(p)]_vars

\* Work is not forgotten: the threads are never all asleep while an operator is
\* ready, although one of them looks for work and another makes operators ready
\* at the same time, and a notification of a thread that is not waiting is lost.
NoStalledReady ==
  (\A t \in Threads : threadPc[t] = "asleep") => ReadyOperators = {}

\* Threads are dismissed, and the client's wait returns, only when every
\* operator has completed and every coroutine has ended.
ExitOnlyWhenDone ==
  (\E t \in Threads : threadPc[t] = "exited") \/ client = "returned" =>
    \A o \in Operators : opState[o] = "Completed"

-----------------------------------------------------------------------------
(***************************************************************************)
(* The inductive strengthening of the properties above, in named parts;    *)
(* StreamRuntime_proofs shows that it is inductive.                        *)
(***************************************************************************)

\* A call that has still to serve a port knows which one.
CallShape ==
  \A o \in Operators : pc[o] \in {"deliver", "written", "popped"} => todo[o] # <<>>

\* A thread has an operator exactly from its assignment to its leaving; a
\* coroutine at its yield point is still on some thread; the scheduler's
\* Completed is the coroutine's.
Binding ==
  /\ \A t \in Threads :
       current[t] \in Operators <=> threadPc[t] \in {"assigned", "inside"}
  /\ OneResumption
  /\ RunningIsCarried
  /\ \A o \in Operators : pc[o] \in YieldPoints => Executing(o)
  /\ \A o \in Operators : opState[o] = "Completed" <=> pc[o] \in {"stop", "done"}

\* The two indexes only hold operators that are blocked, each in its own way:
\* whoever is found through them may be made ready.
Registration ==
  /\ \A p \in readBlocked : opState[Owner[p]] = "ReadBlocked"
  /\ \A p \in InPorts : \A o \in writeBlocked[p] : opState[o] = "WriteBlocked"

\* A ReadBlocked operator is registered under every port its condition still
\* lacks, under some port at least, and, if any port would do, under all of
\* them; a port it is registered under that has its tuples is unannounced.
ReadIndexOf(o) ==
  /\ \A p \in InPortsOf(o) : p \in readBlocked \/ PortReadable(p, threshold)
  /\ \A p \in InPortsOf(o) \cap readBlocked :
       PortReadable(p, threshold) => WriteUnannounced(p)
  /\ IF waitKind[o] = "Disjunctive" THEN InPortsOf(o) \subseteq readBlocked
                                    ELSE InPortsOf(o) \cap readBlocked # {}

ReadIndex == \A o \in Operators : opState[o] = "ReadBlocked" => ReadIndexOf(o)

\* The scheduler is stopped, and the client goes on to join the threads, only
\* when no operator has any more to do; threads exit only from a stopped
\* scheduler.
Ending ==
  /\ stopped \/ client # "waiting" \/ (\E o \in Operators : pc[o] = "stop") =>
       \A o \in Operators : pc[o] \in {"stop", "done"}
  /\ (\E t \in Threads : threadPc[t] = "exited") => stopped

\* An operator has set isComplete_ exactly when its code has returned; a push in
\* progress is one to ports its operator publishes to.
Pushing ==
  \A o \in Operators :
    /\ isComplete[o] <=> pc[o] \in {"complete", "stop", "done"}
    /\ pc[o] \in {"offer", "writeBlock", "writeYield", "deliver", "written"} =>
         \A i \in DOMAIN todo[o] : todo[o][i] \in DownstreamPorts(o)

\* The inductive invariant.
Inv ==
  /\ TypeOK /\ CallShape /\ Binding /\ Registration /\ ReadIndex
  /\ NoLostClosure /\ Ending /\ Pushing /\ NoStalledReady

-----------------------------------------------------------------------------
(***************************************************************************)
(* What makes the two promises to publishers inductive.  The first needs   *)
(* a graph without fan-in, the second one in which no output port is       *)
(* connected to the same input port twice (ConnectedOnce).                 *)
(***************************************************************************)

\* A WriteBlocked operator is registered under every full port downstream of it
\* and under some port at least; a port it is registered under that has room is
\* unannounced.
WriteIndexOf(o) ==
  /\ \A p \in DownstreamPorts(o) : Full(p) => o \in writeBlocked[p]
  /\ \A p \in DownstreamPorts(o) : o \in writeBlocked[p] => Full(p) \/ ReadUnannounced(p)
  /\ \E p \in DownstreamPorts(o) : o \in writeBlocked[p]

WriteIndex == \A o \in Operators : opState[o] = "WriteBlocked" => WriteIndexOf(o)

\* Who has found room in p and has yet to use it.
Granted(p) ==
  {o \in Operators : \E i \in DOMAIN todo[o] :
     todo[o][i] = p /\ (pc[o] = "deliver" \/ (pc[o] = "written" /\ i > 1))}

\* A push serves no port twice, and a port has room, within the limit and what its
\* publishers may add to it, for everybody who has found room in it.
Reservations ==
  /\ \A o \in Operators :
       pc[o] \in {"offer", "writeBlock", "writeYield", "deliver", "written"} => Once(todo[o])
  /\ ~shutdown => \A p \in InPorts :
       Count(p) + Cardinality(Granted(p)) <= MaxQueueSize + Surplus(p)
=============================================================================
