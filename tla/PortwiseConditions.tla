-------------------------- MODULE PortwiseConditions --------------------------
(***************************************************************************)
(* The checks and the conditions of waiting over several ports, with their *)
(* reads one at a time.  StreamRuntime takes each of them for one step;    *)
(* here the counts of the queues and the closure of the ports are read     *)
(* port by port, in any order (they are keys of an unordered_map), while   *)
(* publishers push and complete and subscribers pop.  Only the queues have *)
(* locks; the scheduler's mutex keeps others out of its own state.         *)
(*                                                                         *)
(* Every operator has a worker thread at hand, none is preempted, nothing  *)
(* is shut down.  An operator's own code makes any calls, as in            *)
(* StreamRuntime.                                                          *)
(***************************************************************************)
EXTENDS Scheduler, SequencesExt

CONSTANT Asks     \* Asks[o]: the waits that the code of o calls

Waits(o) ==
  LET over(sets) == {[p \in S |-> 1] : S \in sets}
  IN [spec : over((SUBSET InPortsOf(o)) \ {{}}), kind : WaitKinds, via : {"context"}]
     \cup [spec : over({{p} : p \in InPortsOf(o)}), kind : {"Conjunctive"}, via : {"port"}]

ASSUME PortwiseAssumption ==
  /\ NoFanIn /\ Tuples # {}
  /\ \A o \in Operators : Asks[o] \subseteq Waits(o)

VARIABLES
  pc,       \* where the coroutine of each operator is
  wait,     \* the wait an operator is in; via tells waitTuple from the others
  todo,     \* the input ports the call in progress has still to serve
  left,     \* the ports the loop in progress has still to look at
  seen      \* the queues as the holder of the mutex has read them: their
            \* lengths are the currentCounts of the condition it computes

callVars == <<pc, wait, todo, left>>
vars == <<portVars, schedVars, callVars, seen>>

\* Where the operator holds Scheduler::mutex_ for more than one step.
Sections == {"closures", "readCounts", "writeCounts", "writtenCounts", "poppedCounts"}
Yields == {"start", "readYield", "writeYield"}
Locations == Sections \cup Yields \cup
  {"code", "queueCheck", "counting", "closing", "recountOpen", "recountClosed",
   "readBlock", "granted", "refused", "offer", "writeBlock", "deliver", "written",
   "popped", "complete", "done"}

NoWait == [spec |-> <<>>, kind |-> "Conjunctive", via |-> "port"]

At(o, l) == pc[o] = l
Goto(o, l) == pc' = [pc EXCEPT ![o] = l]
Look(o, S) == left' = [left EXCEPT ![o] = S]

\* Whoever needs the mutex for a moment finds it free.
MutexFree == \A o \in Operators : pc[o] \notin Sections

Available(o, p) == Count(p) >= wait[o].spec[p]
All(o) == wait[o].kind = "Conjunctive"

\* Where the loop of waitTuple, and those of waitOnAllPorts and waitOnAnyPort, start.
LoopStart(o, w) ==
  /\ Goto(o, IF w.via = "port" THEN "queueCheck" ELSE "counting")
  /\ Look(o, DOMAIN w.spec)

-----------------------------------------------------------------------------
(***************************************************************************)
(* The checks that a wait begins with.                                     *)
(***************************************************************************)
CallWait(o, w) ==
  /\ At(o, "code")
  /\ wait' = [wait EXCEPT ![o] = w]
  /\ LoopStart(o, w)
  /\ UNCHANGED <<portVars, schedVars, todo, seen>>

\* waitTuple: count and closure under the lock of the queue.
QueueCheck(o) ==
  /\ At(o, "queueCheck")
  /\ \E p \in DOMAIN wait[o].spec :
       Goto(o, CASE Available(o, p) -> "granted"
                 [] ~Available(o, p) /\ IsClosed(p) -> "refused"
                 [] OTHER -> "readBlock")
  /\ UNCHANGED <<portVars, schedVars, wait, todo, left, seen>>

\* Mutant of CountPort: an available port ends the loop although all are wanted.
CountAnyPort(o) ==
  /\ At(o, "counting")
  /\ \E p \in left[o] :
       \/ /\ Available(o, p) \/ left[o] = {p}
          /\ Goto(o, IF Available(o, p) THEN "granted" ELSE "closing")
          /\ Look(o, DOMAIN wait[o].spec)
       \/ /\ ~Available(o, p) /\ left[o] # {p}
          /\ Look(o, left[o] \ {p}) /\ UNCHANGED pc
  /\ UNCHANGED <<portVars, schedVars, wait, todo, seen>>

\* The first loop ends at a short port when all are wanted, at an available one
\* when any will do.
CountPort(o) ==
  /\ At(o, "counting")
  /\ \E p \in left[o] :
       \/ /\ Available(o, p) # All(o) \/ left[o] = {p}
          /\ Goto(o, IF Available(o, p) THEN "granted" ELSE "closing")
          /\ Look(o, DOMAIN wait[o].spec)
       \/ /\ Available(o, p) = All(o) /\ left[o] # {p}
          /\ Look(o, left[o] \ {p}) /\ UNCHANGED pc
  /\ UNCHANGED <<portVars, schedVars, wait, todo, seen>>

\* The second loop asks whether a port is closed ...
AskClosed(o) ==
  /\ At(o, "closing")
  /\ \E p \in left[o] :
       /\ todo' = [todo EXCEPT ![o] = <<p>>]
       /\ Goto(o, IF IsClosed(p) THEN "recountClosed" ELSE "recountOpen")
  /\ UNCHANGED <<portVars, schedVars, wait, left, seen>>

\* Mutant of Recount: a closed port is taken to be short, as it was before.
NoRecount(o) ==
  /\ pc[o] \in {"recountOpen", "recountClosed"}
  /\ LET over == At(o, "recountClosed")
         last == left[o] = {Head(todo[o])}
     IN /\ Goto(o, CASE over /\ (All(o) \/ last) -> "refused"
                     [] ~over /\ (All(o) => last) -> "readBlock"
                     [] OTHER -> "closing")
        /\ Look(o, left[o] \ {Head(todo[o])})
  /\ todo' = [todo EXCEPT ![o] = <<>>]
  /\ UNCHANGED <<portVars, schedVars, wait, seen>>

\* ... and then counts again: "tuple count may have changed since our last check".
Recount(o) ==
  /\ pc[o] \in {"recountOpen", "recountClosed"}
  /\ LET p == Head(todo[o])
         over == At(o, "recountClosed") /\ ~Available(o, p)
         last == left[o] = {p}
     IN /\ Goto(o, CASE over /\ (All(o) \/ last) -> "refused"
                     [] ~over /\ ~All(o) /\ Available(o, p) -> "granted"
                     [] ~over /\ (last \/ ~All(o)) /\ (All(o) \/ ~Available(o, p)) -> "readBlock"
                     [] OTHER -> "closing")
        /\ Look(o, left[o] \ {p})
  /\ todo' = [todo EXCEPT ![o] = <<>>]
  /\ UNCHANGED <<portVars, schedVars, wait, seen>>

\* The wait returns, with true if it was refused.
WaitReturns(o) ==
  /\ pc[o] \in {"granted", "refused"}
  /\ Goto(o, "code") /\ Look(o, {})
  /\ wait' = [wait EXCEPT ![o] = NoWait]
  /\ UNCHANGED <<portVars, schedVars, todo, seen>>

-----------------------------------------------------------------------------
(***************************************************************************)
(* The critical sections of the scheduler.  A condition is computed from   *)
(* the counts as they were read, while the queues go on changing; what is  *)
(* done with the result is Scheduler's, over the queues as seen.           *)
(***************************************************************************)
Seen == INSTANCE Scheduler WITH queue <- seen
NothingSeen == [p \in InPorts |-> <<>>]

\* computeReadiness, one port; all are read, whatever the first ones say.
ReadCount(o) ==
  /\ pc[o] \in Sections \ {"closures"}
  /\ \E p \in left[o] : seen' = [seen EXCEPT ![p] = queue[p]] /\ Look(o, left[o] \ {p})
  /\ UNCHANGED <<portVars, schedVars, pc, wait, todo>>

\* The section o is in has read all that it reads, and ends.
Decides(o, section) == At(o, section) /\ left[o] = {} /\ seen' = NothingSeen

\* markOperatorAsReadBlocked: closed ports first, port by port.
EnterReadBlock(o) ==
  /\ At(o, "readBlock") /\ MutexFree
  /\ Goto(o, "closures") /\ Look(o, DOMAIN wait[o].spec)
  /\ UNCHANGED <<portVars, schedVars, wait, todo, seen>>

\* One closed port, or all of them, send the caller back to its loop.
CheckClosure(o) ==
  /\ At(o, "closures")
  /\ \E p \in left[o] :
       \/ /\ IsClosed(p) /\ (All(o) \/ left[o] = {p})
          /\ SkipReadBlock(o, wait[o]) /\ LoopStart(o, wait[o])
       \/ /\ IF All(o) THEN ~IsClosed(p) /\ left[o] = {p} ELSE ~IsClosed(p)
          /\ Goto(o, "readCounts") /\ Look(o, InPortsOf(o)) /\ UNCHANGED schedVars
       \/ /\ IsClosed(p) # All(o) /\ left[o] # {p}
          /\ Look(o, left[o] \ {p}) /\ UNCHANGED <<schedVars, pc>>
  /\ UNCHANGED <<portVars, wait, todo, seen>>

\* Mutant of BlockOnRead: an operator that has to block is entered in the index
\* according to the counts of that moment.
RegisterLate(o) ==
  LET w == wait[o]
      thresh == w.spec @@ threshold
  IN /\ Decides(o, "readCounts")
     /\ IF Seen!ReadReady(o, w.kind, thresh) THEN Seen!RegisterReader(o, w)
        ELSE /\ waitKind' = [waitKind EXCEPT ![o] = w.kind]
             /\ UpdateOperators(Moved({o}, "ReadBlocked"), thresh)
             /\ UNCHANGED <<waiting, stopped>>
     /\ Goto(o, "readYield")
     /\ UNCHANGED <<portVars, wait, todo, left>>

BlockOnRead(o) ==
  /\ Decides(o, "readCounts")
  /\ Seen!RegisterReader(o, wait[o])
  /\ Goto(o, "readYield")
  /\ UNCHANGED <<portVars, wait, todo, left>>

\* markOperatorAsWriteBlocked.
EnterWriteBlock(o) ==
  /\ At(o, "writeBlock") /\ MutexFree
  /\ Goto(o, "writeCounts") /\ Look(o, DownstreamPorts(o))
  /\ UNCHANGED <<portVars, schedVars, wait, todo, seen>>

BlockOnWrite(o) ==
  /\ Decides(o, "writeCounts")
  /\ Seen!MarkOperatorAsWriteBlocked(o, {})
  /\ Goto(o, "writeYield")
  /\ UNCHANGED <<portVars, wait, todo, left>>

\* markInputPortAsWritten, after which the push goes on to the next subscriber.
NextSubscriber(o) ==
  /\ todo' = [todo EXCEPT ![o] = Tail(@)]
  /\ Goto(o, IF Len(todo[o]) = 1 THEN "code" ELSE "deliver")

AnnounceWritten(o) ==
  LET p == Head(todo[o])
  IN /\ At(o, "written") /\ MutexFree
     /\ \/ p \notin readBlocked /\ NextSubscriber(o) /\ UNCHANGED left
        \/ /\ p \in readBlocked /\ Goto(o, "writtenCounts")
           /\ Look(o, InPortsOf(Owner[p])) /\ UNCHANGED todo
     /\ UNCHANGED <<portVars, schedVars, wait, seen>>

WakeReader(o) ==
  /\ Decides(o, "writtenCounts")
  /\ Seen!MarkInputPortAsWritten(Head(todo[o]))
  /\ NextSubscriber(o)
  /\ UNCHANGED <<portVars, wait, left>>

\* markInputPortAsRead, for the one operator that can be blocked on the port.
AnnounceRead(o) ==
  LET p == Head(todo[o])
  IN /\ At(o, "popped") /\ MutexFree
     /\ \/ /\ writeBlocked[p] = {} /\ Goto(o, "code")
           /\ todo' = [todo EXCEPT ![o] = <<>>] /\ UNCHANGED left
        \/ /\ writeBlocked[p] # {} /\ Goto(o, "poppedCounts")
           /\ Look(o, UNION {DownstreamPorts(u) : u \in writeBlocked[p]}) /\ UNCHANGED todo
     /\ UNCHANGED <<portVars, schedVars, wait, seen>>

WakeWriter(o) ==
  /\ Decides(o, "poppedCounts")
  /\ Seen!MarkInputPortAsRead(Head(todo[o]))
  /\ Goto(o, "code") /\ todo' = [todo EXCEPT ![o] = <<>>]
  /\ UNCHANGED <<portVars, wait, left>>

\* getThreadWork and the resumption of the coroutine.
Resume(o) ==
  /\ pc[o] \in Yields /\ MutexFree
  /\ opState[o] = "Ready" /\ opState' = [opState EXCEPT ![o] = "Running"]
  /\ CASE At(o, "start") -> Goto(o, "code") /\ UNCHANGED left
       [] At(o, "readYield") -> LoopStart(o, wait[o])
       [] At(o, "writeYield") -> Goto(o, "offer") /\ Look(o, ToSet(todo[o]))
  /\ UNCHANGED <<portVars, waitKind, threshold, readBlocked, writeBlocked, waiting,
                 notified, stopped, wait, todo, seen>>

-----------------------------------------------------------------------------
(***************************************************************************)
(* Pushing, popping and completing.                                        *)
(***************************************************************************)
CallPush(o, q) ==
  /\ At(o, "code")
  /\ Goto(o, IF Subscribers[q] = <<>> THEN "code" ELSE "offer")
  /\ Look(o, SubscribersOf(q))
  /\ todo' = [todo EXCEPT ![o] = Subscribers[q]]
  /\ UNCHANGED <<portVars, schedVars, wait, seen>>

\* The subscribers' queues are looked at one by one; a full one decides.
Offer(o) ==
  /\ At(o, "offer")
  /\ \E p \in left[o] :
       /\ Look(o, IF Full(p) THEN {} ELSE left[o] \ {p})
       /\ Goto(o, CASE Full(p) -> "writeBlock"
                    [] ~Full(p) /\ left[o] = {p} -> "deliver"
                    [] OTHER -> "offer")
  /\ UNCHANGED <<portVars, schedVars, wait, todo, seen>>

Deliver(o) ==
  /\ At(o, "deliver")
  /\ \E x \in Tuples : queue' = [queue EXCEPT ![Head(todo[o])] = Append(@, x)]
  /\ Goto(o, "written")
  /\ UNCHANGED <<isComplete, shutdown, schedVars, wait, todo, left, seen>>

CallPop(o, p) ==
  /\ At(o, "code") /\ queue[p] # <<>>
  /\ queue' = [queue EXCEPT ![p] = Tail(@)]
  /\ todo' = [todo EXCEPT ![o] = <<p>>]
  /\ Goto(o, "popped")
  /\ UNCHANGED <<isComplete, shutdown, schedVars, wait, left, seen>>

CallReturn(o) ==
  /\ At(o, "code")
  /\ isComplete' = [isComplete EXCEPT ![o] = TRUE]
  /\ Goto(o, "complete")
  /\ UNCHANGED <<queue, shutdown, schedVars, wait, todo, left, seen>>

Complete(o) ==
  /\ At(o, "complete") /\ MutexFree
  /\ MarkOperatorAsCompleted(o)
  /\ Goto(o, "done")
  /\ UNCHANGED <<portVars, wait, todo, left, seen>>

-----------------------------------------------------------------------------
Init ==
  /\ queue = [p \in InPorts |-> <<>>]
  /\ isComplete = [o \in Operators |-> FALSE]
  /\ shutdown = FALSE
  /\ SchedInit
  /\ pc = [o \in Operators |-> "start"]
  /\ wait = [o \in Operators |-> NoWait]
  /\ todo = [o \in Operators |-> <<>>]
  /\ left = [o \in Operators |-> {}]
  /\ seen = NothingSeen

OperatorStep(o) ==
  \/ Resume(o) \/ QueueCheck(o) \/ CountPort(o) \/ AskClosed(o) \/ Recount(o)
  \/ WaitReturns(o) \/ EnterReadBlock(o) \/ CheckClosure(o) \/ ReadCount(o)
  \/ BlockOnRead(o) \/ EnterWriteBlock(o) \/ BlockOnWrite(o) \/ AnnounceWritten(o)
  \/ WakeReader(o) \/ AnnounceRead(o) \/ WakeWriter(o) \/ Offer(o) \/ Deliver(o)
  \/ Complete(o) \/ CallReturn(o)
  \/ \E w \in Asks[o] : CallWait(o, w)
  \/ \E q \in OutPortsOf(o) : CallPush(o, q)
  \/ \E p \in InPortsOf(o) : CallPop(o, p)

Next == \E o \in Operators : OperatorStep(o)

Spec == Init /\ [][Next]_vars

-----------------------------------------------------------------------------
(***************************************************************************)
(* Correctness.                                                            *)
(***************************************************************************)

\* What o waits on, and when no more of it can come: the port is closed and short.
Asked(o) == DOMAIN wait[o].spec
Hopeless(o, p) == IsClosed(p) /\ ~Available(o, p)

AnswerHolds(o) ==
  /\ At(o, "granted") => IF All(o) THEN \A p \in Asked(o) : Available(o, p)
                                   ELSE \E p \in Asked(o) : Available(o, p)
  /\ At(o, "refused") => IF All(o) THEN \E p \in Asked(o) : Hopeless(o, p)
                                   ELSE \A p \in Asked(o) : Hopeless(o, p)

\* What a wait answers is true when it is answered, although no two of the
\* counts and flags it was put together from were read at the same time.  Above
\* all, a wait is refused only if what it asked for can never come: a reader that
\* is refused stops reading, and the tuples it was not told of would be lost.
AnswersHold == \A o \in Operators : AnswerHolds(o)

\* Someone has put a tuple in the queue of p, and the scheduler has not decided yet.
WriteUndecided(p) ==
  \E o \in Operators : pc[o] \in {"written", "writtenCounts"} /\ Head(todo[o]) = p
ReadUndecided(p) ==
  \E o \in Operators : pc[o] \in {"popped", "poppedCounts"} /\ Head(todo[o]) = p

\* No operator is left blocked for good: when the condition of a blocked operator
\* holds, or its ports have closed, a step that will look at the condition again
\* is still to come, even if each of those who read the counts under the mutex
\* saw some of them too early and decided that there was nothing to do.
NobodyIsLeftBlocked ==
  \A o \in Operators :
    /\ opState[o] = "ReadBlocked" /\ ReadReady(o, waitKind[o], threshold) =>
         \E p \in InPortsOf(o) \cap readBlocked : WriteUndecided(p)
    /\ opState[o] = "ReadBlocked" /\ ClosedForWait(wait[o]) =>
         \E u \in UpstreamOperators(o) : At(u, "complete")
    /\ opState[o] = "WriteBlocked" /\ WriteReady(o) =>
         \E p \in DownstreamPorts(o) : o \in writeBlocked[p] /\ ReadUndecided(p)

-----------------------------------------------------------------------------
(***************************************************************************)
(* The inductive invariant: what an operator has read before is still so.  *)
(***************************************************************************)
CallTypes ==
  /\ queue \in [InPorts -> Seq(Tuples)]
  /\ isComplete \in [Operators -> BOOLEAN]
  /\ pc \in [Operators -> Locations]
  /\ wait = [o \in Operators |-> wait[o]]
  /\ \A o \in Operators : wait[o] \in Waits(o) \cup {NoWait}
  /\ todo \in [Operators -> Seq(InPorts)]
  /\ left \in [Operators -> SUBSET InPorts]

Pushing == {"offer", "writeBlock", "writeCounts", "writeYield", "deliver", "written",
            "writtenCounts"}
Recounting == {"recountOpen", "recountClosed"}
Closing == {"closing"} \cup Recounting

\* Only an operator that has not completed pushes, and only to ports it publishes
\* to: so a closed port gets nothing, and what was found closed and short, or
\* available, remains it for as long as its owner does not pop.
Remembers(o) ==
  LET looked == Asked(o) \ left[o]
  IN /\ isComplete[o] => pc[o] \in {"complete", "done"}
     /\ pc[o] \in Pushing =>
          todo[o] # <<>> /\ \A i \in DOMAIN todo[o] : todo[o][i] \in DownstreamPorts(o)
     /\ At(o, "queueCheck") => wait[o].via = "port"
     /\ pc[o] \in Closing \cup {"counting"} => left[o] \subseteq Asked(o)
     /\ At(o, "counting") /\ All(o) => \A p \in looked : Available(o, p)
     /\ pc[o] \in Closing /\ ~All(o) => \A p \in looked : Hopeless(o, p)
     /\ pc[o] \in Recounting => todo[o] # <<>> /\ Head(todo[o]) \in left[o]
     /\ At(o, "recountClosed") => IsClosed(Head(todo[o]))

\* The types of what the calls keep, what makes AnswersHold inductive, and
\* AnswersHold.
Inv == CallTypes /\ (\A o \in Operators : Remembers(o)) /\ AnswersHold

-----------------------------------------------------------------------------
(***************************************************************************)
(* The inductive invariant behind NobodyIsLeftBlocked.                     *)
(***************************************************************************)
SectionsExclude ==
  \A o, u \in Operators : pc[o] \in Sections /\ pc[u] \in Sections => o = u

\* What the scheduler takes an operator for, and where its coroutine is.
Placed(o) ==
  /\ pc[o] \in Yields <=> opState[o] \in {"Ready", "ReadBlocked", "WriteBlocked"}
  /\ opState[o] = "ReadBlocked" => At(o, "readYield")
  /\ opState[o] = "WriteBlocked" => At(o, "writeYield")
  /\ pc[o] \in {"popped", "poppedCounts"} =>
       todo[o] # <<>> /\ Head(todo[o]) \in InPortsOf(o)

Registered(p) ==
  /\ p \in readBlocked => opState[Owner[p]] = "ReadBlocked"
  /\ \A o \in writeBlocked[p] : opState[o] = "WriteBlocked" /\ p \in DownstreamPorts(o)

\* A blocked operator is in the index under each port that it lacks and under
\* one in any case (a reader that any port would do for, under all); a port that
\* it is under and does not lack is yet to be decided on.
ReaderIsDue(o) ==
  opState[o] = "ReadBlocked" =>
    /\ IF waitKind[o] = "Disjunctive" THEN InPortsOf(o) \subseteq readBlocked
                                      ELSE InPortsOf(o) \cap readBlocked # {}
    /\ \A p \in InPortsOf(o) :
         /\ ~PortReadable(p, threshold) => p \in readBlocked
         /\ PortReadable(p, threshold) /\ p \in readBlocked => WriteUndecided(p)

WriterIsDue(o) ==
  opState[o] = "WriteBlocked" =>
    /\ \E p \in DownstreamPorts(o) : o \in writeBlocked[p]
    /\ \A p \in DownstreamPorts(o) :
         /\ Full(p) => o \in writeBlocked[p]
         /\ ~Full(p) /\ o \in writeBlocked[p] => ReadUndecided(p)

\* A port found open that has been closed since: its publisher is yet to say so.
Announced(p) == IsClosed(p) => \E u \in Publishers(p) : At(u, "complete")

ClosureIsDue(o) ==
  /\ At(o, "closures") => left[o] \subseteq Asked(o)
  /\ At(o, "closures") /\ All(o) => \A p \in Asked(o) \ left[o] : Announced(p)
  /\ At(o, "readCounts") \/ opState[o] = "ReadBlocked" =>
       IF All(o) THEN \A p \in Asked(o) : Announced(p)
                 ELSE \E p \in Asked(o) : Announced(p)

\* The ports that the section o is in reads.
Scope(o) ==
  CASE At(o, "readCounts") -> InPortsOf(o)
    [] At(o, "writeCounts") -> DownstreamPorts(o)
    [] At(o, "writtenCounts") -> InPortsOf(Owner[Head(todo[o])])
    [] At(o, "poppedCounts") -> UNION {DownstreamPorts(u) : u \in writeBlocked[Head(todo[o])]}
    [] OTHER -> {}

\* What o has read under the mutex is still so, but for a push and a pop that wait
\* for the mutex to announce themselves; and it bears the index out.
ReadRight(o) ==
  /\ At(o, "writtenCounts") => Head(todo[o]) \in readBlocked
  /\ \A p \in Scope(o) \ left[o] :
       /\ Len(seen[p]) < Count(p) => \E u \in Operators : At(u, "written") /\ Head(todo[u]) = p
       /\ Len(seen[p]) > Count(p) => \E u \in Operators : At(u, "popped") /\ Head(todo[u]) = p
       /\ At(o, "writtenCounts") /\ p \notin readBlocked => Len(seen[p]) >= threshold[p]
       /\ At(o, "poppedCounts") =>
            \A u \in writeBlocked[Head(todo[o])] :
              p \in DownstreamPorts(u) /\ u \notin writeBlocked[p] => Len(seen[p]) < MaxQueueSize

BlockTypes ==
  /\ opState \in [Operators -> OperatorStates] /\ waitKind \in [Operators -> WaitKinds]
  /\ threshold \in [InPorts -> Nat]
  /\ readBlocked \subseteq InPorts /\ writeBlocked \in [InPorts -> SUBSET Operators]
  /\ seen \in [InPorts -> Seq(Tuples)] /\ ~shutdown

\* NobodyIsLeftBlocked made inductive: one section at a time, whatever it has read
\* so far is true but for announcements to come, a blocked operator is registered
\* under every port that it lacks, and a closure that it could not see is about
\* to be announced (SchedulerState::updateOperatorState and its callers).
BlockInv ==
  /\ BlockTypes /\ SectionsExclude
  /\ \A p \in InPorts : Registered(p)
  /\ \A o \in Operators : /\ Placed(o) /\ ReaderIsDue(o) /\ WriterIsDue(o)
                          /\ ClosureIsDue(o) /\ ReadRight(o)
=============================================================================
