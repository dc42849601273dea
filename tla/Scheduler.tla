----------------------------- MODULE Scheduler -----------------------------
(***************************************************************************)
(* The central scheduler: the state it keeps about operators and worker    *)
(* threads, and its methods.  A method runs under Scheduler::mutex_ from   *)
(* its first to its last access of that state, so each is one atomic       *)
(* action here.  The queues, the isComplete_ flags and the shutdown flag   *)
(* belong to the ports and contexts; the scheduler only reads them.        *)
(***************************************************************************)
EXTENDS FlowGraph

CONSTANTS
  Threads,      \* the worker threads of the run
  Tuples        \* the tuples that travel through the queues

ASSUME ThreadsAssumption == IsFiniteSet(Threads) /\ Threads # {}

VARIABLES
  queue,        \* queue[p]: contents of input port p (InputPortImpl::portQueue_)
  isComplete,   \* isComplete[o]: process() of o has returned
  shutdown,     \* FlowContext::isShutdownRequested_
  opState,      \* state of each operator; readyOperators_ is ReadyOperators
  waitKind,     \* ReadWaitCondition::kind_ of each operator
  threshold,    \* read threshold of each input port, in its owner's condition
  readBlocked,  \* input ports registered in readBlockedOperators_ (the
                \* operator registered under a port is always its owner)
  writeBlocked, \* writeBlocked[p]: operators registered under p in
                \* writeBlockedOperators_
  waiting,      \* waitingThreads_, newest first
  notified,     \* waiting threads whose condition variable was notified and
                \* that have not got the mutex back yet
  stopped       \* Scheduler::stopped_

portVars == <<queue, isComplete, shutdown>>
operVars == <<opState, waitKind, threshold, readBlocked, writeBlocked>>
schedVars == <<operVars, waiting, notified, stopped>>

OperatorStates == {"Running", "ReadBlocked", "WriteBlocked", "Ready", "Completed"}
WaitKinds == {"Conjunctive", "Disjunctive"}

Count(p) == Len(queue[p])
\* Mutant of Full: the limit is noticed one tuple too late.
FullTooLate(p) == Count(p) > MaxQueueSize

Full(p) == Count(p) >= MaxQueueSize
\* Mutant of IsClosed: one publisher that has completed is enough.
ClosedByOne(p) == \E o \in Publishers(p) : isComplete[o]

IsClosed(p) == \A o \in Publishers(p) : isComplete[o]
ReadyOperators == {o \in Operators : opState[o] = "Ready"}

-----------------------------------------------------------------------------
(***************************************************************************)
(* Wait conditions.  A read condition ranges over all the input ports of   *)
(* its operator, a write condition over all the ports downstream of it;    *)
(* the threshold of a write condition is always MaxQueueSize.              *)
(***************************************************************************)
PortReadable(p, thresh) == Count(p) >= thresh[p]

ReadReady(o, kind, thresh) ==
  IF kind = "Disjunctive" THEN \E p \in InPortsOf(o) : PortReadable(p, thresh)
                          ELSE \A p \in InPortsOf(o) : PortReadable(p, thresh)

WriteReady(o) == \A p \in DownstreamPorts(o) : ~Full(p)

-----------------------------------------------------------------------------
(***************************************************************************)
(* updateOperatorState, for all the operators one critical section moves:  *)
(* next is the new state of every operator, thresh the read thresholds in  *)
(* force.  Everyone it makes ready notifies the same thread, the one that  *)
(* has waited longest, which stays in the list until it has the mutex.     *)
(***************************************************************************)
Leaves(o, next, s) == opState[o] = s /\ next[o] # s
Enters(o, next, s) == opState[o] # s /\ next[o] = s

\* Mutant of ReadIndexAfter: an operator that wakes up keeps its entries.
ReadIndexKept(next, thresh) ==
  readBlocked \cup {p \in InPorts : Enters(Owner[p], next, "ReadBlocked")
                                    /\ ~PortReadable(p, thresh)}

\* Mutant of ReadIndexAfter: an operator is registered before its thresholds
\* are set.
ReadIndexTooEarly(next, thresh) ==
  {p \in InPorts :
     \/ p \in readBlocked /\ ~Leaves(Owner[p], next, "ReadBlocked")
     \/ Enters(Owner[p], next, "ReadBlocked") /\ ~PortReadable(p, threshold)}

ReadIndexAfter(next, thresh) ==
  {p \in InPorts :
     \/ p \in readBlocked /\ ~Leaves(Owner[p], next, "ReadBlocked")
     \/ Enters(Owner[p], next, "ReadBlocked") /\ ~PortReadable(p, thresh)}

\* Mutant of WriteIndexAfter: an operator is registered under one full port only.
WriteIndexOfOne(next) ==
  LET fullOnes(o) == {p \in DownstreamPorts(o) : Full(p)}
  IN [p \in InPorts |->
        {o \in Operators :
           \/ o \in writeBlocked[p] /\ ~Leaves(o, next, "WriteBlocked")
           \/ /\ Enters(o, next, "WriteBlocked") /\ fullOnes(o) # {}
              /\ p = CHOOSE f \in fullOnes(o) : TRUE}]

WriteIndexAfter(next) ==
  [p \in InPorts |->
     {o \in Operators :
        \/ o \in writeBlocked[p] /\ ~Leaves(o, next, "WriteBlocked")
        \/ Enters(o, next, "WriteBlocked") /\ p \in DownstreamPorts(o) /\ Full(p)}]

\* Only an operator that was ReadBlocked has its thresholds reset.
ThresholdsAfter(next, thresh) ==
  [p \in InPorts |->
     IF Leaves(Owner[p], next, "ReadBlocked") /\ next[Owner[p]] = "Ready"
     THEN 0 ELSE thresh[p]]

NotifiedAfter(next) ==
  IF waiting # <<>> /\ \E o \in Operators : Enters(o, next, "Ready")
  THEN notified \cup {waiting[Len(waiting)]}
  ELSE notified

UpdateOperators(next, thresh) ==
  /\ opState' = next
  /\ readBlocked' = ReadIndexAfter(next, thresh)
  /\ writeBlocked' = WriteIndexAfter(next)
  /\ threshold' = ThresholdsAfter(next, thresh)
  /\ notified' = NotifiedAfter(next)

\* The states after the operators in S have moved to state s.
Moved(S, s) == [o \in Operators |-> IF o \in S THEN s ELSE opState[o]]

-----------------------------------------------------------------------------
(***************************************************************************)
(* The methods.  A wait w is the request of an operator's code: w.spec maps *)
(* the ports waited on to the number of tuples wanted, w.kind says whether *)
(* all of them or any of them is enough.                                   *)
(***************************************************************************)

\* The wait need not be entered: closed ports decide it.
ClosedForWait(w) ==
  IF w.kind = "Conjunctive" THEN \E p \in DOMAIN w.spec : IsClosed(p)
                            ELSE \A p \in DOMAIN w.spec : IsClosed(p)

\* markOperatorAsReadBlocked, the return without yielding.
SkipReadBlock(o, w) ==
  /\ ClosedForWait(w)
  /\ waitKind' = [waitKind EXCEPT ![o] = w.kind]
  /\ UNCHANGED <<opState, threshold, readBlocked, writeBlocked, waiting, notified, stopped>>

\* Mutant of MarkOperatorAsReadBlocked: it is told how many tuples are missing,
\* which can have become a negative number.
BlockOnMissing(o, w) ==
  LET thresh == [p \in InPorts |-> IF p \in DOMAIN w.spec THEN w.spec[p] - Count(p)
                                                          ELSE threshold[p]]
  IN /\ ~ClosedForWait(w)
     /\ waitKind' = [waitKind EXCEPT ![o] = w.kind]
     /\ UpdateOperators(Moved({o}, IF ReadReady(o, w.kind, thresh)
                                   THEN "Ready" ELSE "ReadBlocked"), thresh)
     /\ UNCHANGED <<waiting, stopped>>

\* The thresholds are set and the condition decides: blocked, or ready at once.
RegisterReader(o, w) ==
  LET thresh == [p \in InPorts |-> IF p \in DOMAIN w.spec THEN w.spec[p]
                                                          ELSE threshold[p]]
  IN /\ waitKind' = [waitKind EXCEPT ![o] = w.kind]
     /\ UpdateOperators(Moved({o}, IF ReadReady(o, w.kind, thresh)
                                   THEN "Ready" ELSE "ReadBlocked"), thresh)
     /\ UNCHANGED <<waiting, stopped>>

\* Mutant of MarkOperatorAsReadBlocked: it does not look again for closed ports.
BlockThoughClosed(o, w) == RegisterReader(o, w)

\* markOperatorAsReadBlocked, up to the yield.
MarkOperatorAsReadBlocked(o, w) == ~ClosedForWait(w) /\ RegisterReader(o, w)

\* markOperatorAsWriteBlocked, the return without yielding: the owner of one
\* of the full ports has completed and shutdown is requested.
SkipWriteBlock(full) ==
  /\ shutdown /\ \E p \in full : isComplete[Owner[p]]
  /\ UNCHANGED schedVars

\* Mutant of MarkOperatorAsWriteBlocked: the condition is not evaluated again.
BlockOnStaleCounts(o, full) ==
  /\ ~(shutdown /\ \E p \in full : isComplete[Owner[p]])
  /\ UpdateOperators(Moved({o}, "WriteBlocked"), threshold)
  /\ UNCHANGED <<waitKind, waiting, stopped>>

\* markOperatorAsWriteBlocked, up to the yield.
MarkOperatorAsWriteBlocked(o, full) ==
  /\ ~(shutdown /\ \E p \in full : isComplete[Owner[p]])
  /\ UpdateOperators(Moved({o}, IF WriteReady(o) THEN "Ready" ELSE "WriteBlocked"),
                     threshold)
  /\ UNCHANGED <<waitKind, waiting, stopped>>

\* A port that has become readable without waking its operator is dropped
\* from the index.
MarkInputPortAsWritten(p) ==
  LET o == Owner[p]
      wakes == p \in readBlocked /\ ReadReady(o, waitKind[o], threshold)
  IN \/ /\ wakes
        /\ UpdateOperators(Moved({o}, "Ready"), threshold)
        /\ UNCHANGED <<waitKind, waiting, stopped>>
     \/ /\ ~wakes
        /\ readBlocked' = IF PortReadable(p, threshold) THEN readBlocked \ {p}
                                                        ELSE readBlocked
        /\ UNCHANGED <<opState, waitKind, threshold, writeBlocked,
                       waiting, notified, stopped>>

\* Of the operators registered under p, those with room downstream become
\* ready; if p itself has room the others are dropped from its entry.
MarkInputPortAsRead(p) ==
  LET woken == {o \in writeBlocked[p] : WriteReady(o)}
      next == Moved(woken, "Ready")
      left == WriteIndexAfter(next)
  IN /\ opState' = next
     /\ writeBlocked' = IF Full(p) THEN left ELSE [left EXCEPT ![p] = {}]
     /\ notified' = NotifiedAfter(next)
     /\ UNCHANGED <<waitKind, threshold, readBlocked, waiting, stopped>>

\* checkOperatorForPreemption when the plugin answers yes, up to the yield.
Preempt(o) ==
  /\ UpdateOperators(Moved({o}, "Ready"), threshold)
  /\ UNCHANGED <<waitKind, waiting, stopped>>

\* Mutant of MarkOperatorAsCompleted: it does not look at the states of the
\* downstream operators.
CompletedWakesAll(o) ==
  /\ UpdateOperators([Moved(DownstreamOperators(o), "Ready") EXCEPT ![o] = "Completed"],
                     threshold)
  /\ UNCHANGED <<waitKind, waiting, stopped>>

\* Wakes readers whose ports may have closed and, under shutdown, writers
\* that no one else would wake.
MarkOperatorAsCompleted(o) ==
  LET readers == {d \in DownstreamOperators(o) : opState[d] = "ReadBlocked"}
      writers == {u \in UpstreamOperators(o) : shutdown /\ opState[u] = "WriteBlocked"}
  IN /\ UpdateOperators([Moved((readers \cup writers) \ {o}, "Ready")
                           EXCEPT ![o] = "Completed"], threshold)
     /\ UNCHANGED <<waitKind, waiting, stopped>>

\* stop: a notification only reaches a thread that is waiting.
Stop ==
  /\ stopped' = TRUE
  /\ notified' = {waiting[i] : i \in DOMAIN waiting}
  /\ UNCHANGED <<operVars, waiting>>

-----------------------------------------------------------------------------
(***************************************************************************)
(* getThreadWork.  The plugin may pick any ready operator and finds none   *)
(* only when there is none.  Entering the waiting list and leaving it in   *)
(* the same critical section is no change of the list.                     *)
(***************************************************************************)
InSeq(t, s) == \E i \in DOMAIN s : s[i] = t

Without(s, t) ==
  IF InSeq(t, s)
  THEN LET i == CHOOSE i \in DOMAIN s : s[i] = t
       IN SubSeq(s, 1, i - 1) \o SubSeq(s, i + 1, Len(s))
  ELSE s

\* Thread t leaves with operator o.
Assign(t, o) ==
  /\ ~stopped
  /\ opState[o] = "Ready"
  /\ opState' = [opState EXCEPT ![o] = "Running"]
  /\ waiting' = Without(waiting, t)
  /\ notified' = notified \ {t}
  /\ UNCHANGED <<waitKind, threshold, readBlocked, writeBlocked, stopped>>

\* Mutant of Sleep: the thread does not look for work once it has the mutex.
SleepAtOnce(t) ==
  /\ ~stopped
  /\ waiting' = IF InSeq(t, waiting) THEN waiting ELSE <<t>> \o waiting
  /\ notified' = notified \ {t}
  /\ UNCHANGED <<operVars, stopped>>

\* Thread t finds nothing to run and waits (again, if it is in the list).
Sleep(t) ==
  /\ ~stopped
  /\ ReadyOperators = {}
  /\ waiting' = IF InSeq(t, waiting) THEN waiting ELSE <<t>> \o waiting
  /\ notified' = notified \ {t}
  /\ UNCHANGED <<operVars, stopped>>

\* Thread t is told that there is no more work to come.
Dismiss(t) ==
  /\ stopped
  /\ waiting' = Without(waiting, t)
  /\ notified' = notified \ {t}
  /\ UNCHANGED <<operVars, stopped>>

-----------------------------------------------------------------------------
SchedInit ==
  /\ opState = [o \in Operators |-> "Ready"]
  /\ waitKind = [o \in Operators |-> "Conjunctive"]
  /\ threshold = [p \in InPorts |-> 0]
  /\ readBlocked = {}
  /\ writeBlocked = [p \in InPorts |-> {}]
  /\ waiting = <<>>
  /\ notified = {}
  /\ stopped = FALSE

SchedTypeOK ==
  /\ opState \in [Operators -> OperatorStates]
  /\ waitKind \in [Operators -> WaitKinds]
  /\ threshold \in [InPorts -> Nat]
  /\ readBlocked \subseteq InPorts
  /\ writeBlocked \in [InPorts -> SUBSET Operators]
  /\ waiting \in Seq(Threads)
  /\ notified \subseteq Threads
  /\ stopped \in BOOLEAN
=============================================================================
