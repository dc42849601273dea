----------------------- MODULE PortwiseBlocking_proofs -----------------------
(***************************************************************************)
(* Nobody is left blocked, in PortwiseConditions, for every flow graph     *)
(* without fan-in, every queue limit and all the waits that may be called. *)
(*                                                                         *)
(* The inductive invariant, BlockInv, relates the scheduler's indexes to   *)
(* the queues (ReaderIsDue, WriterIsDue, ClosureIsDue) and, while a        *)
(* critical section is reading counts, what it has read to what the counts *)
(* are now (ReadRight).  First comes who changes what, then what the       *)
(* critical sections do to operators and indexes, then each part of the    *)
(* invariant: for the operator that takes the step, and for the others.    *)
(***************************************************************************)
EXTENDS PortwiseConditions_proofs

-----------------------------------------------------------------------------
(***************************************************************************)
(* Who can change what.                                                    *)
(***************************************************************************)
LEMMA OnlyPublisher ==
  ASSUME PortwiseAssumption, FlowGraphAssumption, NEW u, NEW v, NEW p \in DownstreamPorts(u),
         p \in DownstreamPorts(v)
  PROVE  u = v
<1>1. PICK q \in OutPorts : Source[q] = u /\ \E i \in DOMAIN Subscribers[q] : Subscribers[q][i] = p
  BY DEF DownstreamPorts, SubscribersOf, OutPortsOf
<1>2. PICK r \in OutPorts : Source[r] = v /\ \E i \in DOMAIN Subscribers[r] : Subscribers[r][i] = p
  BY DEF DownstreamPorts, SubscribersOf, OutPortsOf
<1> QED BY <1>1, <1>2 DEF PortwiseAssumption, NoFanIn

\* A queue grows by the push of one operator, which announces it next, and
\* shrinks by a pop of its owner, who announces that.
LEMMA QueueStep ==
  ASSUME CallTypes, NEW o \in Operators, OperatorStep(o), NEW p \in InPorts
  PROVE  /\ Len(queue[p]) \in Nat /\ Len(queue'[p]) \in Nat
         /\ Len(queue[p]) < Len(queue'[p]) =>
              At(o, "deliver") /\ pc'[o] = "written" /\ todo' = todo /\ p = Head(todo[o])
         /\ Len(queue'[p]) < Len(queue[p]) =>
              At(o, "code") /\ pc'[o] = "popped" /\ todo'[o] = <<p>> /\ p \in InPortsOf(o)
<1> queue[p] \in Seq(Tuples)
  BY DEF CallTypes
<1> Len(queue[p]) \in Nat
  OBVIOUS
<1>1. CASE UNCHANGED portVars
  BY <1>1 DEF portVars
<1>2. CASE Deliver(o)
  <2>1. PICK x \in Tuples : queue' = [queue EXCEPT ![Head(todo[o])] = Append(@, x)]
    BY <1>2 DEF Deliver
  <2>2. queue'[p] = IF p = Head(todo[o]) THEN Append(queue[p], x) ELSE queue[p]
    BY <2>1 DEF CallTypes
  <2>3. Len(Append(queue[p], x)) = Len(queue[p]) + 1
    OBVIOUS
  <2> QED BY <1>2, <2>2, <2>3 DEF Deliver, At, Goto, CallTypes
<1>3. CASE CallReturn(o)
  BY <1>3 DEF CallReturn
<1>4. CASE \E h \in InPortsOf(o) : CallPop(o, h)
  <2>1. PICK h \in InPortsOf(o) : CallPop(o, h)
    BY <1>4
  <2>2. queue'[p] = IF p = h THEN Tail(queue[p]) ELSE queue[p]
    BY <2>1 DEF CallPop, CallTypes
  <2>3. p = h => Len(Tail(queue[p])) = Len(queue[p]) - 1 /\ Len(queue[p]) > 0
    BY <2>1 DEF CallPop
  <2> QED BY <2>1, <2>2, <2>3 DEF CallPop, At, Goto, CallTypes
<1> QED BY <1>1, <1>2, <1>3, <1>4, PortSteps

\* The steps that change the scheduler's view of an operator; the others.
Locked(o) ==
  \/ BlockOnRead(o) \/ BlockOnWrite(o) \/ WakeReader(o) \/ WakeWriter(o)
  \/ Complete(o) \/ Resume(o)

Free(o) ==
  \/ QueueCheck(o) \/ CountPort(o) \/ AskClosed(o) \/ Recount(o) \/ WaitReturns(o)
  \/ Offer(o) \/ Deliver(o) \/ CallReturn(o)
  \/ (\E w \in Asks[o] : CallWait(o, w))
  \/ (\E q \in OutPortsOf(o) : CallPush(o, q))
  \/ (\E p \in InPortsOf(o) : CallPop(o, p))

Within(o) ==
  \/ EnterReadBlock(o) \/ CheckClosure(o) \/ ReadCount(o) \/ EnterWriteBlock(o)
  \/ AnnounceWritten(o) \/ AnnounceRead(o)

LEMMA StepKinds ==
  ASSUME NEW o, OperatorStep(o)
  PROVE  Locked(o) \/ Free(o) \/ Within(o)
BY DEF OperatorStep, Locked, Free, Within

LEMMA FreeStep ==
  ASSUME CallTypes, NEW o \in Operators, Free(o)
  PROVE  /\ UNCHANGED <<opState, waitKind, threshold, readBlocked, writeBlocked, seen, shutdown>>
         /\ pc[o] \notin Sections \cup Yields /\ pc'[o] \notin Sections \cup Yields
         /\ pc[o] \notin {"written", "popped", "complete"}
         /\ pc'[o] = "popped" => \E p \in InPortsOf(o) : CallPop(o, p)
         /\ pc[o] # "readBlock" /\ pc[o] # "writeBlock" /\ pc[o] # "done" /\ pc'[o] # "done"
<1> USE DEF CallTypes, At, Goto, Sections, Yields, portVars, schedVars, operVars
<1>1. CASE QueueCheck(o)
  BY <1>1 DEF QueueCheck
<1>2. CASE CountPort(o)
  BY <1>2 DEF CountPort
<1>3. CASE AskClosed(o)
  BY <1>3 DEF AskClosed
<1>4. CASE Recount(o)
  BY <1>4 DEF Recount
<1>5. CASE WaitReturns(o) \/ Offer(o) \/ Deliver(o) \/ CallReturn(o)
  BY <1>5 DEF WaitReturns, Offer, Deliver, CallReturn
<1>6. CASE \E w \in Asks[o] : CallWait(o, w)
  BY <1>6 DEF CallWait, LoopStart
<1>7. CASE \E q \in OutPortsOf(o) : CallPush(o, q)
  BY <1>7 DEF CallPush
<1>8. CASE \E p \in InPortsOf(o) : CallPop(o, p)
  BY <1>8 DEF CallPop
<1> QED BY <1>1, <1>2, <1>3, <1>4, <1>5, <1>6, <1>7, <1>8 DEF Free

LEMMA WithinStep ==
  ASSUME CallTypes, BlockTypes, NEW o \in Operators, Within(o)
  PROVE  /\ UNCHANGED <<opState, threshold, readBlocked, writeBlocked, shutdown>>
         /\ UNCHANGED <<queue, isComplete>>
         /\ \A u \in Operators \ {o} : waitKind'[u] = waitKind[u]
         /\ pc[o] \notin Yields /\ pc'[o] \notin Yields
         /\ pc[o] \notin {"complete", "done"} /\ pc'[o] \notin {"popped", "done"}
         /\ pc'[o] = "poppedCounts" => todo' = todo /\ pc[o] \in {"popped", "poppedCounts"}
<1> USE DEF CallTypes, At, Goto, Sections, Yields, portVars, schedVars, operVars, Look
<1>1. CASE EnterReadBlock(o) \/ ReadCount(o) \/ EnterWriteBlock(o)
  BY <1>1 DEF EnterReadBlock, ReadCount, EnterWriteBlock
<1>2. CASE CheckClosure(o)
  BY <1>2 DEF CheckClosure, LoopStart, SkipReadBlock, BlockTypes
<1>3. CASE AnnounceWritten(o)
  BY <1>3 DEF AnnounceWritten, NextSubscriber
<1>4. CASE AnnounceRead(o)
  BY <1>4 DEF AnnounceRead
<1> QED BY <1>1, <1>2, <1>3, <1>4 DEF Within

-----------------------------------------------------------------------------
(***************************************************************************)
(* What the critical sections do to operators and indexes.                 *)
(***************************************************************************)
ReadableAsSeen(p, t) == Len(seen[p]) >= t[p]
FullAsSeen(p) == Len(seen[p]) >= MaxQueueSize

Readies(o) ==
  opState' = [opState EXCEPT ![o] = "Ready"] /\ UNCHANGED <<readBlocked, writeBlocked>>

ThresholdsChange(o) ==
  /\ threshold' \in [InPorts -> Nat]
  /\ \A p \in InPorts \ InPortsOf(o) : threshold'[p] = threshold[p]

BlocksReader(o) ==
  /\ opState' = [opState EXCEPT ![o] = "ReadBlocked"]
  /\ UNCHANGED writeBlocked
  /\ readBlocked' = readBlocked \cup {p \in InPortsOf(o) : ~ReadableAsSeen(p, threshold')}
  /\ IF waitKind'[o] = "Disjunctive"
     THEN \A p \in InPortsOf(o) : ~ReadableAsSeen(p, threshold')
     ELSE \E p \in InPortsOf(o) : ~ReadableAsSeen(p, threshold')

BlocksWriter(o) ==
  /\ opState' = [opState EXCEPT ![o] = "WriteBlocked"]
  /\ \E p \in DownstreamPorts(o) : FullAsSeen(p)
  /\ \A p \in InPorts : writeBlocked'[p] =
       IF p \in DownstreamPorts(o) /\ FullAsSeen(p) THEN writeBlocked[p] \cup {o}
                                                   ELSE writeBlocked[p]

\* A push to p wakes the reader d of p, or leaves it blocked, perhaps on fewer ports.
WakesReader(d) ==
  /\ opState' = [opState EXCEPT ![d] = "Ready"]
  /\ readBlocked' = readBlocked \ InPortsOf(d)
  /\ ThresholdsChange(d)

LeavesReader(d, p) ==
  /\ UNCHANGED <<opState, threshold>>
  /\ readBlocked' = IF ReadableAsSeen(p, threshold) THEN readBlocked \ {p} ELSE readBlocked
  /\ IF waitKind[d] = "Disjunctive"
     THEN \A r \in InPortsOf(d) : ~ReadableAsSeen(r, threshold)
     ELSE \E r \in InPortsOf(d) : ~ReadableAsSeen(r, threshold)

\* A pop from p wakes those that are blocked on it and find all their ports free.
FreedAsSeen(p) == {u \in writeBlocked[p] : \A r \in DownstreamPorts(u) : ~FullAsSeen(r)}

WakesWriters(p) ==
  /\ \A u \in FreedAsSeen(p) : u \in Operators /\ opState[u] = "WriteBlocked"
  /\ opState' = [u \in Operators |-> IF u \in FreedAsSeen(p) THEN "Ready" ELSE opState[u]]
  /\ \A r \in InPorts : writeBlocked'[r] =
       IF r = p /\ ~FullAsSeen(p) THEN {} ELSE writeBlocked[r] \ FreedAsSeen(p)

LEMMA BlockOnReadEffect ==
  ASSUME CallTypes, BlockTypes, FlowGraphAssumption, \A p \in InPorts : Registered(p),
         NEW o \in Operators, Placed(o), BlockOnRead(o)
  PROVE  /\ At(o, "readCounts") /\ left[o] = {} /\ pc'[o] = "readYield"
         /\ waitKind' = [waitKind EXCEPT ![o] = wait[o].kind]
         /\ ThresholdsChange(o)
         /\ Readies(o) \/ BlocksReader(o)
<1> DEFINE w == wait[o]
           thresh == [p \in InPorts |-> IF p \in DOMAIN w.spec THEN w.spec[p] ELSE threshold[p]]
           ready == Seen!ReadReady(o, w.kind, thresh)
           next == Moved({o}, IF ready THEN "Ready" ELSE "ReadBlocked")
<1>1. DOMAIN w.spec \subseteq InPortsOf(o) /\ \A p \in DOMAIN w.spec : w.spec[p] \in Nat
  BY WaitShape DEF CallTypes
<1>2. thresh \in [InPorts -> Nat] /\ \A p \in InPorts \ InPortsOf(o) : thresh[p] = threshold[p]
  BY <1>1 DEF BlockTypes
<1>3. At(o, "readCounts") /\ left[o] = {} /\ pc'[o] = "readYield"
  BY DEF BlockOnRead, Decides, Goto, CallTypes
<1>4. opState[o] \notin {"Ready", "ReadBlocked", "WriteBlocked"}
  BY <1>3 DEF Placed, At, Yields
<1>5. /\ waitKind' = [waitKind EXCEPT ![o] = w.kind]
      /\ opState' = next
      /\ readBlocked' = Seen!ReadIndexAfter(next, thresh)
      /\ writeBlocked' = Seen!WriteIndexAfter(next)
      /\ threshold' = Seen!ThresholdsAfter(next, thresh)
  BY DEF BlockOnRead, Seen!RegisterReader, Seen!UpdateOperators, Moved, Seen!Moved
<1> HIDE DEF w, thresh, ready
<1>6. \A u \in Operators : next[u] = IF u = o THEN (IF ready THEN "Ready" ELSE "ReadBlocked")
                                             ELSE opState[u]
  BY DEF Moved
<1>7. next = [opState EXCEPT ![o] = IF ready THEN "Ready" ELSE "ReadBlocked"]
  BY <1>6 DEF Moved, BlockTypes
<1> HIDE DEF next
<1>8. threshold' = thresh
  BY <1>2, <1>4, <1>5, <1>6 DEF Seen!ThresholdsAfter, Seen!Leaves, FlowGraphAssumption
<1>9. writeBlocked' = writeBlocked
  <2>1. \A p \in InPorts : Seen!WriteIndexAfter(next)[p] = writeBlocked[p]
    BY <1>4, <1>6 DEF Seen!WriteIndexAfter, Seen!Leaves, Seen!Enters, BlockTypes
  <2> QED BY <1>5, <2>1 DEF Seen!WriteIndexAfter, BlockTypes
<1>10. readBlocked' = readBlocked \cup
         {p \in InPortsOf(o) : ~ready /\ ~ReadableAsSeen(p, thresh)}
  <2>1. \A p \in readBlocked : opState[Owner[p]] = "ReadBlocked" /\ p \in InPorts
    BY DEF Registered, BlockTypes
  <2>2. \A p \in InPorts : p \in Seen!ReadIndexAfter(next, thresh) <=>
           p \in readBlocked \/ (p \in InPortsOf(o) /\ ~ready /\ ~ReadableAsSeen(p, thresh))
    BY <2>1, <1>4, <1>6 DEF Seen!ReadIndexAfter, Seen!Leaves, Seen!Enters, Seen!PortReadable,
       Seen!Count, ReadableAsSeen, InPortsOf, FlowGraphAssumption
  <2> QED BY <1>5, <2>1, <2>2 DEF Seen!ReadIndexAfter, InPortsOf
<1>11. ready = IF w.kind = "Disjunctive"
               THEN \E p \in InPortsOf(o) : ReadableAsSeen(p, thresh)
               ELSE \A p \in InPortsOf(o) : ReadableAsSeen(p, thresh)
  BY DEF ready, Seen!ReadReady, Seen!PortReadable, Seen!Count, ReadableAsSeen, Seen!InPortsOf, InPortsOf
<1>12. waitKind'[o] = w.kind
  BY <1>5 DEF BlockTypes
<1>13. ready => Readies(o)
  BY <1>5, <1>7, <1>9, <1>10 DEF Readies
<1>14. ~ready => BlocksReader(o)
  BY <1>5, <1>7, <1>8, <1>9, <1>10, <1>11, <1>12 DEF BlocksReader
<1> QED BY <1>2, <1>3, <1>5, <1>8, <1>13, <1>14 DEF w, ThresholdsChange

LEMMA BlockOnWriteEffect ==
  ASSUME CallTypes, BlockTypes, FlowGraphAssumption, \A p \in InPorts : Registered(p),
         NEW o \in Operators, Placed(o), BlockOnWrite(o)
  PROVE  /\ At(o, "writeCounts") /\ left[o] = {} /\ pc'[o] = "writeYield"
         /\ UNCHANGED <<waitKind, threshold, readBlocked>>
         /\ Readies(o) \/ BlocksWriter(o)
         /\ writeBlocked' \in [InPorts -> SUBSET Operators]
<1> DEFINE ready == Seen!WriteReady(o)
           next == Moved({o}, IF ready THEN "Ready" ELSE "WriteBlocked")
<1>3. At(o, "writeCounts") /\ left[o] = {} /\ pc'[o] = "writeYield"
  BY DEF BlockOnWrite, Decides, Goto, CallTypes
<1>4. opState[o] \notin {"Ready", "ReadBlocked", "WriteBlocked"}
  BY <1>3 DEF Placed, At, Yields
<1>5. /\ waitKind' = waitKind
      /\ opState' = next
      /\ readBlocked' = Seen!ReadIndexAfter(next, threshold)
      /\ writeBlocked' = Seen!WriteIndexAfter(next)
      /\ threshold' = Seen!ThresholdsAfter(next, threshold)
  BY DEF BlockOnWrite, Seen!MarkOperatorAsWriteBlocked, Seen!UpdateOperators, Moved, Seen!Moved
<1> HIDE DEF ready
<1>6. \A u \in Operators : next[u] = IF u = o THEN (IF ready THEN "Ready" ELSE "WriteBlocked")
                                             ELSE opState[u]
  BY DEF Moved
<1>7. next = [opState EXCEPT ![o] = IF ready THEN "Ready" ELSE "WriteBlocked"]
  BY <1>6 DEF Moved, BlockTypes
<1> HIDE DEF next
<1>8. threshold' = threshold
  BY <1>4, <1>5, <1>6 DEF Seen!ThresholdsAfter, Seen!Leaves, FlowGraphAssumption, BlockTypes
<1>9. readBlocked' = readBlocked
  <2>1. \A p \in readBlocked : opState[Owner[p]] = "ReadBlocked" /\ p \in InPorts
    BY DEF Registered, BlockTypes
  <2>2. \A p \in InPorts : p \in Seen!ReadIndexAfter(next, threshold) <=> p \in readBlocked
    BY <2>1, <1>4, <1>6 DEF Seen!ReadIndexAfter, Seen!Leaves, Seen!Enters, FlowGraphAssumption
  <2> QED BY <1>5, <2>1, <2>2 DEF Seen!ReadIndexAfter
<1>10. writeBlocked' = [p \in InPorts |->
         IF ~ready /\ p \in DownstreamPorts(o) /\ Len(seen[p]) >= MaxQueueSize
         THEN writeBlocked[p] \cup {o} ELSE writeBlocked[p]]
  <2>1. \A p \in InPorts : \A u \in writeBlocked[p] : opState[u] = "WriteBlocked" /\ u \in Operators
    BY DEF Registered, BlockTypes
  <2>2. \A p \in InPorts : Seen!WriteIndexAfter(next)[p] =
          IF ~ready /\ p \in DownstreamPorts(o) /\ Len(seen[p]) >= MaxQueueSize
          THEN writeBlocked[p] \cup {o} ELSE writeBlocked[p]
    BY <2>1, <1>4, <1>6 DEF Seen!WriteIndexAfter, Seen!Leaves, Seen!Enters, Seen!Full,
       Seen!Count, Seen!DownstreamPorts, DownstreamPorts, Seen!SubscribersOf, SubscribersOf,
       Seen!OutPortsOf, OutPortsOf
  <2> QED BY <1>5, <2>2 DEF Seen!WriteIndexAfter
<1>11. ready = \A p \in DownstreamPorts(o) : ~(Len(seen[p]) >= MaxQueueSize)
  BY DEF ready, Seen!WriteReady, Seen!Full, Seen!Count, Seen!DownstreamPorts, DownstreamPorts,
     Seen!SubscribersOf, SubscribersOf, Seen!OutPortsOf, OutPortsOf
<1>12. ready => writeBlocked' = writeBlocked
  BY <1>10 DEF BlockTypes
<1>13. ready => Readies(o)
  BY <1>5, <1>7, <1>9, <1>12 DEF Readies
<1>14. ~ready => BlocksWriter(o)
  BY <1>5, <1>7, <1>10, <1>11 DEF BlocksWriter, FullAsSeen
<1>15. writeBlocked' \in [InPorts -> SUBSET Operators]
  <2>1. \A p \in InPorts : writeBlocked[p] \cup {o} \in SUBSET Operators
    BY DEF BlockTypes
  <2> QED BY <1>10, <2>1 DEF BlockTypes
<1> QED BY <1>3, <1>5, <1>8, <1>9, <1>13, <1>14, <1>15

LEMMA WakeReaderEffect ==
  ASSUME CallTypes, BlockTypes, FlowGraphAssumption, \A p \in InPorts : Registered(p),
         NEW o \in Operators, WakeReader(o), NEW p \in readBlocked, p = Head(todo[o])
  PROVE  /\ At(o, "writtenCounts") /\ left[o] = {} /\ pc'[o] \in {"code", "deliver"}
         /\ Owner[p] \in Operators /\ opState[Owner[p]] = "ReadBlocked" /\ p \in InPortsOf(Owner[p])
         /\ UNCHANGED <<waitKind, writeBlocked>>
         /\ WakesReader(Owner[p]) \/ LeavesReader(Owner[p], p)
<1> DEFINE d == Owner[p]
           ready == Seen!ReadReady(d, waitKind[d], threshold)
           next == Moved({d}, "Ready")
<1>1. p \in InPorts /\ d \in Operators /\ opState[d] = "ReadBlocked" /\ p \in InPortsOf(d)
  BY DEF Registered, BlockTypes, InPortsOf, FlowGraphAssumption
<1>2. At(o, "writtenCounts") /\ left[o] = {} /\ pc'[o] \in {"code", "deliver"}
  BY DEF WakeReader, Decides, NextSubscriber, Goto, CallTypes
<1>3. \/ /\ ready
         /\ opState' = next
         /\ readBlocked' = Seen!ReadIndexAfter(next, threshold)
         /\ writeBlocked' = Seen!WriteIndexAfter(next)
         /\ threshold' = Seen!ThresholdsAfter(next, threshold)
         /\ waitKind' = waitKind
      \/ /\ ~ready
         /\ readBlocked' = IF ReadableAsSeen(p, threshold) THEN readBlocked \ {p} ELSE readBlocked
         /\ UNCHANGED <<opState, waitKind, threshold, writeBlocked>>
  BY DEF WakeReader, Seen!MarkInputPortAsWritten, Seen!UpdateOperators, Moved, Seen!Moved,
     ReadableAsSeen, Seen!PortReadable, Seen!Count
<1>4. ready = IF waitKind[d] = "Disjunctive"
              THEN \E r \in InPortsOf(d) : ReadableAsSeen(r, threshold)
              ELSE \A r \in InPortsOf(d) : ReadableAsSeen(r, threshold)
  BY DEF Seen!ReadReady, Seen!PortReadable, Seen!Count, ReadableAsSeen, Seen!InPortsOf, InPortsOf
<1> HIDE DEF d, ready
<1>5. \A u \in Operators : next[u] = IF u = d THEN "Ready" ELSE opState[u]
  BY DEF Moved
<1>6. next = [opState EXCEPT ![d] = "Ready"]
  BY <1>5 DEF Moved, BlockTypes
<1> HIDE DEF next
<1>7. CASE ready
  <2>1. readBlocked' = readBlocked \ InPortsOf(d)
    <3>1. \A r \in InPorts : r \in Seen!ReadIndexAfter(next, threshold) <=>
            r \in readBlocked \ InPortsOf(d)
      BY <1>1, <1>5 DEF Seen!ReadIndexAfter, Seen!Leaves, Seen!Enters, FlowGraphAssumption, InPortsOf
    <3> QED BY <1>3, <1>7, <3>1 DEF Seen!ReadIndexAfter, BlockTypes
  <2>2. writeBlocked' = writeBlocked
    <3>1. \A r \in InPorts : \A u \in writeBlocked[r] : opState[u] = "WriteBlocked" /\ u \in Operators
      BY DEF Registered, BlockTypes
    <3>2. \A r \in InPorts : Seen!WriteIndexAfter(next)[r] = writeBlocked[r]
      BY <1>1, <1>5, <3>1 DEF Seen!WriteIndexAfter, Seen!Leaves, Seen!Enters, BlockTypes
    <3> QED BY <1>3, <1>7, <3>2 DEF Seen!WriteIndexAfter, BlockTypes
  <2>3. /\ threshold' \in [InPorts -> Nat]
        /\ \A r \in InPorts \ InPortsOf(d) : threshold'[r] = threshold[r]
    <3>1. threshold' = [r \in InPorts |->
            IF Seen!Leaves(Owner[r], next, "ReadBlocked") /\ next[Owner[r]] = "Ready"
            THEN 0 ELSE threshold[r]]
      BY <1>3, <1>7 DEF Seen!ThresholdsAfter
    <3>2. \A r \in InPorts \ InPortsOf(d) : ~Seen!Leaves(Owner[r], next, "ReadBlocked")
      BY <1>5 DEF Seen!Leaves, FlowGraphAssumption, InPortsOf
    <3> QED BY <3>1, <3>2 DEF BlockTypes
  <2>4. WakesReader(d)
    BY <1>3, <1>6, <1>7, <2>1, <2>3 DEF WakesReader, ThresholdsChange
  <2> QED BY <1>1, <1>2, <1>3, <1>7, <2>2, <2>4 DEF d
<1>8. CASE ~ready
  <2>1. LeavesReader(d, p)
    BY <1>3, <1>4, <1>8 DEF LeavesReader
  <2> QED BY <1>1, <1>2, <1>3, <1>8, <2>1 DEF d
<1> QED BY <1>7, <1>8

LEMMA WakeWriterEffect ==
  ASSUME CallTypes, BlockTypes, FlowGraphAssumption, \A p \in InPorts : Registered(p),
         NEW o \in Operators, WakeWriter(o), NEW p \in InPorts, p = Head(todo[o])
  PROVE  /\ At(o, "poppedCounts") /\ left[o] = {} /\ pc'[o] = "code"
         /\ UNCHANGED <<waitKind, threshold, readBlocked>>
         /\ WakesWriters(p)
         /\ writeBlocked' \in [InPorts -> SUBSET Operators]
<1> DEFINE woken == {u \in writeBlocked[p] :
                       \A r \in DownstreamPorts(u) : Len(seen[r]) < MaxQueueSize}
           next == Moved(woken, "Ready")
<1>1. \A r \in InPorts : Len(seen[r]) \in Nat /\ MaxQueueSize \in Nat
  BY DEF BlockTypes, FlowGraphAssumption
<1>2. At(o, "poppedCounts") /\ left[o] = {} /\ pc'[o] = "code"
  BY DEF WakeWriter, Decides, Goto, CallTypes
<1>3. {u \in writeBlocked[p] : Seen!WriteReady(u)} = woken
  <2>1. \A u : DownstreamPorts(u) \subseteq InPorts
    BY PushedTo
  <2>2. ASSUME NEW u
        PROVE  Seen!WriteReady(u) <=> \A r \in DownstreamPorts(u) : Len(seen[r]) < MaxQueueSize
    <3>1. Seen!DownstreamPorts(u) = DownstreamPorts(u)
      BY DEF Seen!DownstreamPorts, DownstreamPorts, Seen!SubscribersOf, SubscribersOf,
         Seen!OutPortsOf, OutPortsOf
    <3> QED BY <1>1, <2>1, <3>1 DEF Seen!WriteReady, Seen!Full, Seen!Count
  <2> QED BY <2>2
<1>4. /\ opState' = next
      /\ writeBlocked' = IF Len(seen[p]) < MaxQueueSize
                         THEN [Seen!WriteIndexAfter(next) EXCEPT ![p] = {}]
                         ELSE Seen!WriteIndexAfter(next)
      /\ UNCHANGED <<waitKind, threshold, readBlocked>>
  <2> DEFINE ready == {u \in writeBlocked[p] : Seen!WriteReady(u)}
  <2>1. /\ opState' = Moved(ready, "Ready")
        /\ writeBlocked' = IF Len(seen[p]) < MaxQueueSize
                           THEN [Seen!WriteIndexAfter(Moved(ready, "Ready")) EXCEPT ![p] = {}]
                           ELSE Seen!WriteIndexAfter(Moved(ready, "Ready"))
        /\ UNCHANGED <<waitKind, threshold, readBlocked>>
    BY <1>1 DEF WakeWriter, Seen!MarkInputPortAsRead, Moved, Seen!Moved, Seen!Full, Seen!Count
  <2>2. ready = woken
    BY <1>3
  <2> HIDE DEF ready, woken
  <2> QED BY <2>1, <2>2
<1> HIDE DEF woken
<1>5. \A u \in Operators : next[u] = IF u \in woken THEN "Ready" ELSE opState[u]
  BY DEF Moved
<1>6. next = [u \in Operators |-> IF u \in woken THEN "Ready" ELSE opState[u]]
  BY DEF Moved
<1>7. \A u \in woken : u \in Operators /\ opState[u] = "WriteBlocked"
  BY DEF woken, Registered, BlockTypes
<1> HIDE DEF next
<1>8. Seen!WriteIndexAfter(next) = [r \in InPorts |-> writeBlocked[r] \ woken]
  <2>1. \A r \in InPorts : \A u \in writeBlocked[r] : opState[u] = "WriteBlocked" /\ u \in Operators
    BY DEF Registered, BlockTypes
  <2>2. \A r \in InPorts : Seen!WriteIndexAfter(next)[r] = writeBlocked[r] \ woken
    BY <1>5, <1>7, <2>1 DEF Seen!WriteIndexAfter, Seen!Leaves, Seen!Enters, BlockTypes
  <2> QED BY <2>2 DEF Seen!WriteIndexAfter
<1>9. writeBlocked' = [r \in InPorts |->
        IF r = p /\ Len(seen[p]) < MaxQueueSize THEN {} ELSE writeBlocked[r] \ woken]
  BY <1>4, <1>8
<1>10. FreedAsSeen(p) = woken
  <2>1. \A u : DownstreamPorts(u) \subseteq InPorts
    BY PushedTo
  <2> QED BY <1>1, <2>1 DEF woken, FreedAsSeen, FullAsSeen
<1>11. WakesWriters(p)
  <2>1. Len(seen[p]) < MaxQueueSize <=> ~FullAsSeen(p)
    BY <1>1 DEF FullAsSeen
  <2> QED BY <1>4, <1>6, <1>7, <1>9, <1>10, <2>1 DEF WakesWriters
<1>12. writeBlocked' \in [InPorts -> SUBSET Operators]
  BY <1>9 DEF BlockTypes
<1> QED BY <1>2, <1>4, <1>11, <1>12

LEMMA CompleteEffect ==
  ASSUME CallTypes, BlockTypes, FlowGraphAssumption, \A p \in InPorts : Registered(p),
         NEW o \in Operators, Placed(o), Complete(o)
  PROVE  /\ At(o, "complete") /\ MutexFree /\ pc'[o] = "done"
         /\ UNCHANGED <<waitKind, writeBlocked>>
         /\ opState' = [u \in Operators |->
              IF u = o THEN "Completed"
              ELSE IF u \in DownstreamOperators(o) /\ opState[u] = "ReadBlocked" THEN "Ready"
              ELSE opState[u]]
         /\ threshold' \in [InPorts -> Nat]
         /\ \A p \in InPorts : opState'[Owner[p]] = opState[Owner[p]] => threshold'[p] = threshold[p]
         /\ readBlocked' = {p \in readBlocked : opState'[Owner[p]] = opState[Owner[p]]}
<1> DEFINE readers == {d \in DownstreamOperators(o) : opState[d] = "ReadBlocked"}
           next == [Moved(readers \ {o}, "Ready") EXCEPT ![o] = "Completed"]
<1>1. At(o, "complete") /\ MutexFree /\ pc'[o] = "done"
  BY DEF Complete, Goto, CallTypes
<1>2. opState[o] \notin {"Ready", "ReadBlocked", "WriteBlocked"}
  BY <1>1 DEF Placed, At, Yields
<1>3. /\ waitKind' = waitKind
      /\ opState' = next
      /\ readBlocked' = ReadIndexAfter(next, threshold)
      /\ writeBlocked' = WriteIndexAfter(next)
      /\ threshold' = ThresholdsAfter(next, threshold)
  <2>1. {u \in UpstreamOperators(o) : shutdown /\ opState[u] = "WriteBlocked"} = {}
    BY DEF BlockTypes
  <2>2. (readers \cup {}) \ {o} = readers \ {o}
    OBVIOUS
  <2> QED BY <2>1, <2>2 DEF Complete, MarkOperatorAsCompleted, UpdateOperators
<1>4. next = [u \in Operators |->
              IF u = o THEN "Completed"
              ELSE IF u \in DownstreamOperators(o) /\ opState[u] = "ReadBlocked" THEN "Ready"
              ELSE opState[u]]
  BY DEF Moved
<1> HIDE DEF next
<1>5. /\ threshold' \in [InPorts -> Nat]
      /\ \A p \in InPorts : next[Owner[p]] = opState[Owner[p]] => threshold'[p] = threshold[p]
  BY <1>2, <1>3, <1>4 DEF ThresholdsAfter, Leaves, FlowGraphAssumption, BlockTypes
<1>6. readBlocked' = {p \in readBlocked : next[Owner[p]] = opState[Owner[p]]}
  <2>1. \A p \in readBlocked : opState[Owner[p]] = "ReadBlocked" /\ p \in InPorts
    BY DEF Registered, BlockTypes
  <2>2. \A p \in InPorts : p \in ReadIndexAfter(next, threshold) <=>
          p \in readBlocked /\ next[Owner[p]] = opState[Owner[p]]
    BY <2>1, <1>2, <1>4 DEF ReadIndexAfter, Leaves, Enters, FlowGraphAssumption
  <2> QED BY <1>3, <2>1, <2>2 DEF ReadIndexAfter
<1>7. writeBlocked' = writeBlocked
  <2>1. \A p \in InPorts : \A u \in writeBlocked[p] : opState[u] = "WriteBlocked" /\ u \in Operators
    BY DEF Registered, BlockTypes
  <2>2. \A p \in InPorts : WriteIndexAfter(next)[p] = writeBlocked[p]
    BY <2>1, <1>2, <1>4 DEF WriteIndexAfter, Leaves, Enters, BlockTypes
  <2> QED BY <1>3, <2>2 DEF WriteIndexAfter, BlockTypes
<1> QED BY <1>1, <1>3, <1>4, <1>5, <1>6, <1>7

LEMMA ResumeEffect ==
  ASSUME CallTypes, BlockTypes, NEW o \in Operators, Resume(o)
  PROVE  /\ pc[o] \in Yields /\ MutexFree /\ opState[o] = "Ready"
         /\ pc'[o] \in {"code", "queueCheck", "counting", "offer"}
         /\ opState' = [opState EXCEPT ![o] = "Running"]
         /\ UNCHANGED <<waitKind, threshold, readBlocked, writeBlocked>>
BY DEF Resume, Yields, Goto, LoopStart, CallTypes, At

-----------------------------------------------------------------------------
(***************************************************************************)
(* The parts of the invariant, one by one.                                 *)
(***************************************************************************)
LEMMA Context ==
  ASSUME FlowGraphAssumption, PortwiseAssumption, Inv, BlockInv,
         NEW o \in Operators, OperatorStep(o)
  PROVE  /\ CallTypes /\ CallTypes' /\ BlockTypes /\ Sound(o) /\ SectionsExclude
         /\ \A u \in Operators : Placed(u) /\ ReaderIsDue(u) /\ WriterIsDue(u)
                                 /\ ClosureIsDue(u) /\ ReadRight(u) /\ Remembers(u)
         /\ \A p \in InPorts : Registered(p)
         /\ \A u \in Operators \ {o} : /\ pc'[u] = pc[u] /\ wait'[u] = wait[u]
                                       /\ todo'[u] = todo[u] /\ left'[u] = left[u]
BY OthersUndisturbed, InvIsSoundness, OwnStep DEF BlockInv, Sound

\* Who is being written to, or popped, is one of the ports of the index.
LEMMA Heads ==
  ASSUME FlowGraphAssumption, CallTypes, NEW o \in Operators, Remembers(o), Placed(o)
  PROVE  /\ pc[o] \in {"written", "writtenCounts", "deliver"} =>
              Head(todo[o]) \in InPorts /\ Head(todo[o]) \in DownstreamPorts(o)
         /\ pc[o] \in {"popped", "poppedCounts"} =>
              Head(todo[o]) \in InPorts /\ Head(todo[o]) \in InPortsOf(o)
BY PushedTo DEF Remembers, Placed, Pushing, CallTypes, InPortsOf

\* What waking does to the other operators and to the types.
LEMMA WakingReaders ==
  ASSUME BlockTypes, NEW d \in Operators, opState[d] = "ReadBlocked", NEW p,
         WakesReader(d) \/ LeavesReader(d, p)
  PROVE  /\ opState' \in [Operators -> OperatorStates] /\ threshold' \in [InPorts -> Nat]
         /\ readBlocked' \subseteq readBlocked
         /\ \A u \in Operators : \/ opState'[u] = opState[u]
                                 \/ u = d /\ opState'[u] = "Ready"
<1>1. CASE WakesReader(d)
  BY <1>1 DEF WakesReader, ThresholdsChange, BlockTypes, OperatorStates
<1>2. CASE LeavesReader(d, p)
  <2>1. opState' = opState /\ threshold' = threshold
    BY <1>2 DEF LeavesReader
  <2>2. readBlocked' \subseteq readBlocked
    BY <1>2 DEF LeavesReader
  <2> QED BY <2>1, <2>2 DEF BlockTypes
<1> QED BY <1>1, <1>2

LEMMA WakingWriters ==
  ASSUME BlockTypes, NEW p, WakesWriters(p)
  PROVE  /\ opState' \in [Operators -> OperatorStates]
         /\ \A u \in Operators : \/ opState'[u] = opState[u] /\ u \notin FreedAsSeen(p)
                                 \/ /\ opState[u] = "WriteBlocked" /\ opState'[u] = "Ready"
                                    /\ u \in FreedAsSeen(p)
         /\ \A r \in InPorts : \A u \in writeBlocked'[r] :
              u \in writeBlocked[r] /\ u \notin FreedAsSeen(p)
<1> DEFINE freed == FreedAsSeen(p)
<1>1. /\ \A u \in freed : u \in Operators /\ opState[u] = "WriteBlocked"
      /\ opState' = [u \in Operators |-> IF u \in freed THEN "Ready" ELSE opState[u]]
      /\ \A r \in InPorts : writeBlocked'[r] =
           IF r = p /\ ~FullAsSeen(p) THEN {} ELSE writeBlocked[r] \ freed
  BY DEF WakesWriters
<1> HIDE DEF freed
<1>2. \A r \in InPorts : \A u \in writeBlocked'[r] : u \in writeBlocked[r] /\ u \notin freed
  BY <1>1
<1> QED BY <1>1, <1>2 DEF BlockTypes, OperatorStates, freed

LEMMA BlockingWriters ==
  ASSUME BlockTypes, NEW o \in Operators, Readies(o) \/ BlocksWriter(o)
  PROVE  \A p \in InPorts : \A u \in writeBlocked'[p] :
           u \in writeBlocked[p] \/ (u = o /\ p \in DownstreamPorts(o) /\ opState'[o] = "WriteBlocked")
<1>1. CASE Readies(o)
  BY <1>1 DEF Readies
<1>2. CASE BlocksWriter(o)
  <2>1. opState'[o] = "WriteBlocked"
    BY <1>2 DEF BlocksWriter, BlockTypes
  <2> SUFFICES ASSUME NEW p \in InPorts, NEW u \in writeBlocked'[p], u \notin writeBlocked[p]
               PROVE  u = o /\ p \in DownstreamPorts(o)
    BY <2>1
  <2>2. writeBlocked'[p] = IF p \in DownstreamPorts(o) /\ FullAsSeen(p) THEN writeBlocked[p] \cup {o}
                                                   ELSE writeBlocked[p]
    BY <1>2 DEF BlocksWriter
  <2> QED BY <2>2
<1> QED BY <1>1, <1>2

\* The two steps that wake others, with what the invariant knows of their ports.
LEMMA WakeReaderInContext ==
  ASSUME FlowGraphAssumption, PortwiseAssumption, Inv, BlockInv,
         NEW o \in Operators, OperatorStep(o), WakeReader(o)
  PROVE  \E p \in readBlocked :
           /\ p = Head(todo[o]) /\ p \in DownstreamPorts(o) /\ p \in InPortsOf(Owner[p])
           /\ At(o, "writtenCounts") /\ left[o] = {} /\ pc'[o] \in {"code", "deliver"}
           /\ Owner[p] \in Operators \ {o} /\ opState[Owner[p]] = "ReadBlocked"
           /\ UNCHANGED <<waitKind, writeBlocked>>
           /\ WakesReader(Owner[p]) \/ LeavesReader(Owner[p], p)
           /\ opState' \in [Operators -> OperatorStates] /\ threshold' \in [InPorts -> Nat]
           /\ readBlocked' \subseteq readBlocked
           /\ \A u \in Operators : \/ opState'[u] = opState[u]
                                   \/ u = Owner[p] /\ opState'[u] = "Ready"
<1> USE Context
<1> DEFINE p == Head(todo[o])
<1>1. p \in readBlocked /\ At(o, "writtenCounts")
  BY DEF ReadRight, WakeReader, Decides
<1>2. p \in DownstreamPorts(o)
  BY <1>1, Heads DEF At
<1>3. Owner[p] # o
  BY <1>1 DEF Registered, BlockTypes, Placed, At
<1> HIDE DEF p
<1>4. p = Head(todo[o])
  BY DEF p
<1>5. /\ At(o, "writtenCounts") /\ left[o] = {} /\ pc'[o] \in {"code", "deliver"}
      /\ Owner[p] \in Operators /\ opState[Owner[p]] = "ReadBlocked" /\ p \in InPortsOf(Owner[p])
      /\ UNCHANGED <<waitKind, writeBlocked>>
      /\ WakesReader(Owner[p]) \/ LeavesReader(Owner[p], p)
  BY <1>1, <1>4, WakeReaderEffect
<1>6. /\ opState' \in [Operators -> OperatorStates] /\ threshold' \in [InPorts -> Nat]
      /\ readBlocked' \subseteq readBlocked
      /\ \A u \in Operators : \/ opState'[u] = opState[u]
                              \/ u = Owner[p] /\ opState'[u] = "Ready"
  BY <1>5, WakingReaders
<1> QED BY <1>1, <1>2, <1>3, <1>4, <1>5, <1>6

LEMMA WakeWriterInContext ==
  ASSUME FlowGraphAssumption, PortwiseAssumption, Inv, BlockInv,
         NEW o \in Operators, OperatorStep(o), WakeWriter(o)
  PROVE  \E p \in InPortsOf(o) :
           /\ p = Head(todo[o]) /\ p \in InPorts
           /\ At(o, "poppedCounts") /\ left[o] = {} /\ pc'[o] = "code"
           /\ UNCHANGED <<waitKind, threshold, readBlocked>>
           /\ o \notin FreedAsSeen(p) /\ WakesWriters(p)
           /\ writeBlocked' \in [InPorts -> SUBSET Operators]
           /\ opState' \in [Operators -> OperatorStates]
           /\ \A u \in Operators : \/ opState'[u] = opState[u] /\ u \notin FreedAsSeen(p)
                                   \/ /\ opState[u] = "WriteBlocked" /\ opState'[u] = "Ready"
                                      /\ u \in FreedAsSeen(p)
           /\ \A r \in InPorts : \A u \in writeBlocked'[r] :
                u \in writeBlocked[r] /\ u \notin FreedAsSeen(p)
<1> USE Context
<1> DEFINE p == Head(todo[o])
<1>1. p \in InPortsOf(o) /\ p \in InPorts /\ At(o, "poppedCounts")
  BY Heads DEF WakeWriter, Decides, At
<1> HIDE DEF p
<1>2. p = Head(todo[o])
  BY DEF p
<1>3. /\ left[o] = {} /\ pc'[o] = "code"
      /\ UNCHANGED <<waitKind, threshold, readBlocked>>
      /\ WakesWriters(p)
      /\ writeBlocked' \in [InPorts -> SUBSET Operators]
  BY <1>1, <1>2, WakeWriterEffect
<1>4. o \notin FreedAsSeen(p)
  BY <1>1, <1>3 DEF WakesWriters, Placed, At
<1>5. /\ opState' \in [Operators -> OperatorStates]
      /\ \A u \in Operators : \/ opState'[u] = opState[u] /\ u \notin FreedAsSeen(p)
                              \/ /\ opState[u] = "WriteBlocked" /\ opState'[u] = "Ready"
                                 /\ u \in FreedAsSeen(p)
      /\ \A r \in InPorts : \A u \in writeBlocked'[r] :
           u \in writeBlocked[r] /\ u \notin FreedAsSeen(p)
  BY <1>3, WakingWriters
<1> QED BY <1>1, <1>2, <1>3, <1>4, <1>5

LEMMA TypesStay ==
  ASSUME FlowGraphAssumption, PortwiseAssumption, Inv, BlockInv,
         NEW o \in Operators, OperatorStep(o)
  PROVE  BlockTypes'
<1> USE Context
<1>1. ~shutdown'
  BY DEF OperatorStep, Resume, QueueCheck, CountPort, AskClosed, Recount, WaitReturns,
       EnterReadBlock, CheckClosure, ReadCount, BlockOnRead, EnterWriteBlock, BlockOnWrite,
       AnnounceWritten, WakeReader, AnnounceRead, WakeWriter, Offer, Complete, CallWait,
       CallPush, CallPop, Deliver, CallReturn, portVars, BlockTypes
<1>2. seen' \in [InPorts -> Seq(Tuples)]
  <2>1. CASE Free(o)
    BY <2>1, FreeStep DEF BlockTypes
  <2>2. CASE Within(o)
    BY <2>2 DEF Within, EnterReadBlock, CheckClosure, ReadCount, EnterWriteBlock,
       AnnounceWritten, AnnounceRead, BlockTypes, CallTypes
  <2>3. CASE Complete(o) \/ Resume(o)
    BY <2>3 DEF Complete, Resume, BlockTypes
  <2>4. CASE BlockOnRead(o) \/ BlockOnWrite(o) \/ WakeReader(o) \/ WakeWriter(o)
    <3>1. seen' = NothingSeen
      BY <2>4 DEF BlockOnRead, BlockOnWrite, WakeReader, WakeWriter, Decides
    <3> QED BY <3>1 DEF NothingSeen
  <2> QED BY <2>1, <2>2, <2>3, <2>4, StepKinds DEF Locked
<1>3. waitKind' \in [Operators -> WaitKinds]
  <2>0. wait[o].kind \in WaitKinds
    BY DEF CallTypes, Waits, NoWait, WaitKinds
  <2>1. CASE Free(o)
    BY <2>1, FreeStep DEF BlockTypes
  <2>2. CASE Within(o)
    BY <2>0, <2>2 DEF Within, EnterReadBlock, CheckClosure, SkipReadBlock, ReadCount, EnterWriteBlock,
       AnnounceWritten, AnnounceRead, BlockTypes, schedVars, operVars
  <2>3. CASE Locked(o)
    <3>1. CASE BlockOnRead(o)
      BY <2>0, <3>1, BlockOnReadEffect DEF BlockTypes
    <3>2. waitKind' = waitKind \/ BlockOnRead(o)
      BY <2>3, BlockOnWriteEffect, CompleteEffect, ResumeEffect, WakeReaderInContext,
         WakeWriterInContext DEF Locked
    <3> QED BY <3>1, <3>2 DEF BlockTypes
  <2> QED BY <2>1, <2>2, <2>3, StepKinds
<1>4. /\ opState' \in [Operators -> OperatorStates] /\ threshold' \in [InPorts -> Nat]
      /\ readBlocked' \subseteq InPorts /\ writeBlocked' \in [InPorts -> SUBSET Operators]
  <2> USE DEF BlockTypes, OperatorStates
  <2>1. CASE Free(o)
    BY <2>1, FreeStep
  <2>2. CASE Within(o)
    BY <2>2, WithinStep
  <2>3. CASE BlockOnRead(o)
    BY <2>3, BlockOnReadEffect DEF InPortsOf, BlocksReader, Readies, ThresholdsChange
  <2>4. CASE BlockOnWrite(o)
    BY <2>4, BlockOnWriteEffect DEF Readies, BlocksWriter
  <2>5. CASE WakeReader(o)
    BY <2>5, WakeReaderInContext
  <2>6. CASE WakeWriter(o)
    BY <2>6, WakeWriterInContext DEF WakesWriters
  <2>7. CASE Complete(o)
    BY <2>7, CompleteEffect
  <2>8. CASE Resume(o)
    BY <2>8, ResumeEffect
  <2> QED BY <2>1, <2>2, <2>3, <2>4, <2>5, <2>6, <2>7, <2>8, StepKinds DEF Locked
<1> QED BY <1>1, <1>2, <1>3, <1>4 DEF BlockTypes

LEMMA PlacesStay ==
  ASSUME FlowGraphAssumption, PortwiseAssumption, Inv, BlockInv,
         NEW o \in Operators, OperatorStep(o)
  PROVE  /\ Placed(o)'
         /\ \A u \in Operators \ {o} :
              opState'[u] = opState[u] \/ (opState[u] \in {"ReadBlocked", "WriteBlocked"}
                                           /\ opState'[u] = "Ready")
<1> USE Context DEF BlockTypes
<1>1. CASE Free(o)
  <2>1. pc'[o] = "popped" => todo'[o] # <<>> /\ Head(todo'[o]) \in InPortsOf(o)
    BY <1>1, FreeStep DEF CallPop, CallTypes
  <2> QED BY <1>1, <2>1, FreeStep DEF Placed, At, Yields, Sections
<1>2. CASE Within(o)
  BY <1>2, WithinStep DEF Placed, At, Yields
<1>3. CASE BlockOnRead(o)
  <2>1. pc'[o] = "readYield" /\ (Readies(o) \/ BlocksReader(o))
    BY <1>3, BlockOnReadEffect
  <2> QED BY <2>1 DEF Placed, At, Yields, Readies, BlocksReader
<1>4. CASE BlockOnWrite(o)
  <2>1. pc'[o] = "writeYield" /\ (Readies(o) \/ BlocksWriter(o))
    BY <1>4, BlockOnWriteEffect
  <2> QED BY <2>1 DEF Placed, At, Yields, Readies, BlocksWriter
<1>5. CASE WakeReader(o)
  <2>1. PICK p \in readBlocked :
          /\ At(o, "writtenCounts") /\ pc'[o] \in {"code", "deliver"}
          /\ Owner[p] \in Operators \ {o} /\ opState[Owner[p]] = "ReadBlocked"
          /\ \A u \in Operators : \/ opState'[u] = opState[u]
                                  \/ u = Owner[p] /\ opState'[u] = "Ready"
    BY <1>5, WakeReaderInContext
  <2> QED BY <2>1 DEF Placed, At, Yields
<1>6. CASE WakeWriter(o)
  <2>1. PICK p \in InPortsOf(o) : /\ At(o, "poppedCounts") /\ pc'[o] = "code"
                                  /\ o \notin FreedAsSeen(p)
                                  /\ \A u \in Operators :
                                       \/ opState'[u] = opState[u] /\ u \notin FreedAsSeen(p)
                                       \/ /\ opState[u] = "WriteBlocked" /\ opState'[u] = "Ready"
                                          /\ u \in FreedAsSeen(p)
    BY <1>6, WakeWriterInContext
  <2>2. /\ opState'[o] = opState[o]
        /\ \A u \in Operators \ {o} :
             opState'[u] = opState[u] \/ (opState[u] = "WriteBlocked" /\ opState'[u] = "Ready")
    BY <2>1
  <2> QED BY <2>1, <2>2 DEF Placed, At, Yields
<1>7. CASE Complete(o)
  BY <1>7, CompleteEffect DEF Placed, At, Yields
<1>8. CASE Resume(o)
  BY <1>8, ResumeEffect DEF Placed, At, Yields
<1> QED BY <1>1, <1>2, <1>3, <1>4, <1>5, <1>6, <1>7, <1>8, StepKinds DEF Locked

LEMMA SectionsStay ==
  ASSUME FlowGraphAssumption, PortwiseAssumption, Inv, BlockInv,
         NEW o \in Operators, OperatorStep(o)
  PROVE  SectionsExclude'
<1> USE Context
<1>1. pc'[o] \in Sections => pc[o] \in Sections \/ MutexFree
  <2>1. CASE Free(o)
    BY <2>1, FreeStep
  <2>2. CASE Within(o)
    BY <2>2 DEF Within, EnterReadBlock, CheckClosure, ReadCount, EnterWriteBlock,
       AnnounceWritten, AnnounceRead, Sections, At
  <2>3. CASE Locked(o)
    BY <2>3 DEF Locked, BlockOnRead, BlockOnWrite, WakeReader, WakeWriter, Complete, Resume,
       Decides, Sections, At
  <2> QED BY <2>1, <2>2, <2>3, StepKinds
<1> QED BY <1>1 DEF SectionsExclude, MutexFree

LEMMA RegisteredStay ==
  ASSUME FlowGraphAssumption, PortwiseAssumption, Inv, BlockInv,
         NEW o \in Operators, OperatorStep(o), NEW p \in InPorts
  PROVE  Registered(p)'
<1> USE Context DEF Registered, BlockTypes
<1>0. Owner[p] \in Operators
  BY DEF FlowGraphAssumption
<1>1. CASE Free(o) \/ Within(o)
  BY <1>1, FreeStep, WithinStep
<1>3. CASE BlockOnRead(o)
  <2>1. /\ opState[o] \notin {"Ready", "ReadBlocked", "WriteBlocked"}
        /\ Readies(o) \/ BlocksReader(o)
    BY <1>3, BlockOnReadEffect DEF Placed, At, Yields
  <2> QED BY <2>1, <1>0 DEF InPortsOf, Readies, BlocksReader
<1>4. CASE BlockOnWrite(o)
  <2>1. /\ opState[o] \notin {"Ready", "ReadBlocked", "WriteBlocked"}
        /\ Readies(o) \/ BlocksWriter(o)
        /\ UNCHANGED readBlocked
    BY <1>4, BlockOnWriteEffect DEF Placed, At, Yields
  <2>2. CASE Readies(o)
    BY <2>1, <2>2, <1>0 DEF Readies
  <2>3. CASE BlocksWriter(o)
    <3>1. readBlocked' = readBlocked
      BY <1>4, BlockOnWriteEffect
    <3>2. \A u \in writeBlocked'[p] : u \in writeBlocked[p] \/ (u = o /\ p \in DownstreamPorts(o))
      BY <2>3, BlockingWriters
    <3>3. opState' = [opState EXCEPT ![o] = "WriteBlocked"]
      BY <2>3 DEF BlocksWriter
    <3> QED BY <2>1, <3>1, <3>2, <3>3, <1>0
  <2> QED BY <2>1, <2>2, <2>3
<1>5. CASE WakeReader(o)
  <2>1. PICK h \in readBlocked :
          /\ UNCHANGED writeBlocked
          /\ Owner[h] \in Operators \ {o} /\ opState[Owner[h]] = "ReadBlocked"
          /\ WakesReader(Owner[h]) \/ LeavesReader(Owner[h], h)
    BY <1>5, WakeReaderInContext
  <2> QED BY <1>0, <2>1 DEF InPortsOf, WakesReader, LeavesReader
<1>6. CASE WakeWriter(o)
  <2>1. PICK h \in InPortsOf(o) :
           /\ UNCHANGED readBlocked
           /\ \A u \in Operators : \/ opState'[u] = opState[u] /\ u \notin FreedAsSeen(h)
                                   \/ /\ opState[u] = "WriteBlocked" /\ opState'[u] = "Ready"
                                      /\ u \in FreedAsSeen(h)
           /\ \A r \in InPorts : \A u \in writeBlocked'[r] :
                u \in writeBlocked[r] /\ u \notin FreedAsSeen(h)
    BY <1>6, WakeWriterInContext
  <2>2. \A u \in writeBlocked'[p] : u \in Operators /\ opState'[u] = "WriteBlocked" /\ u \in writeBlocked[p]
    BY <2>1
  <2>3. p \in readBlocked => opState'[Owner[p]] = "ReadBlocked"
    BY <1>0, <2>1
  <2> QED BY <2>1, <2>2, <2>3
<1>7. CASE Complete(o)
  <2>1. opState[o] \notin {"Ready", "ReadBlocked", "WriteBlocked"}
    BY <1>7, CompleteEffect DEF Placed, At, Yields
  <2> QED BY <1>0, <1>7, <2>1, CompleteEffect
<1>8. CASE Resume(o)
  BY <1>0, <1>8, ResumeEffect
<1> QED BY <1>1, <1>3, <1>4, <1>5, <1>6, <1>7, <1>8, StepKinds DEF Locked

-----------------------------------------------------------------------------
(***************************************************************************)
(* What has been read under the mutex.                                     *)
(***************************************************************************)

\* While one operator is in a critical section, the others only do what needs no
\* mutex, or wait for it.
LEMMA InSection ==
  ASSUME FlowGraphAssumption, PortwiseAssumption, Inv, BlockInv,
         NEW o \in Operators, OperatorStep(o), NEW u \in Operators \ {o}, pc[u] \in Sections
  PROVE  Free(o)
<1>1. ~MutexFree /\ pc[o] \notin Sections
  BY DEF MutexFree, BlockInv, SectionsExclude
<1>2. ~Within(o)
  BY <1>1 DEF Within, EnterReadBlock, CheckClosure, ReadCount, EnterWriteBlock,
     AnnounceWritten, AnnounceRead, At, Sections
<1>3. ~Locked(o)
  BY <1>1 DEF Locked, BlockOnRead, BlockOnWrite, WakeReader, WakeWriter, Complete, Resume,
     Decides, At, Sections
<1> QED BY <1>2, <1>3, StepKinds

LEMMA ScopeInPorts ==
  ASSUME FlowGraphAssumption, NEW o
  PROVE  Scope(o) \subseteq InPorts
BY PushedTo DEF Scope, InPortsOf

\* A push or a pop since the count was read is still to be announced.
LEMMA ReadElsewhereStays ==
  ASSUME FlowGraphAssumption, PortwiseAssumption, Inv, BlockInv,
         NEW o \in Operators, OperatorStep(o), NEW u \in Operators \ {o}
  PROVE  ReadRight(u)'
<1> USE Context
<1>1. pc'[u] = pc[u] /\ todo'[u] = todo[u] /\ left'[u] = left[u]
  OBVIOUS
<1>2. CASE pc[u] \notin Sections
  BY <1>1, <1>2 DEF ReadRight, Scope, At, Sections
<1>3. CASE pc[u] \in Sections
  <2>1. Free(o)
    BY <1>3, InSection
  <2>2. UNCHANGED <<opState, threshold, readBlocked, writeBlocked, seen>> /\ pc[o] \notin {"written", "popped"}
    BY <2>1, FreeStep
  <2>3. Scope(u)' = Scope(u) /\ \A l \in Locations : At(u, l)' = At(u, l)
    BY <1>1, <2>2 DEF Scope, At
  <2>4. At(u, "writtenCounts")' => Head(todo'[u]) \in readBlocked'
    BY <1>1, <2>2 DEF ReadRight, At
  <2>5. ASSUME NEW p \in Scope(u) \ left[u]
        PROVE  /\ Len(seen[p]) < Len(queue'[p]) =>
                    \E v \in Operators : pc'[v] = "written" /\ Head(todo'[v]) = p
               /\ Len(seen[p]) > Len(queue'[p]) =>
                    \E v \in Operators : pc'[v] = "popped" /\ Head(todo'[v]) = p
    <3>1. p \in InPorts
      BY ScopeInPorts
    <3>2. Len(seen[p]) \in Nat
      BY <3>1 DEF BlockTypes
    <3>3. /\ Len(queue[p]) \in Nat /\ Len(queue'[p]) \in Nat
          /\ Len(queue[p]) < Len(queue'[p]) => pc'[o] = "written" /\ todo' = todo /\ p = Head(todo[o])
          /\ Len(queue'[p]) < Len(queue[p]) => pc'[o] = "popped" /\ todo'[o] = <<p>>
      BY <3>1, QueueStep
    <3>4. ASSUME Len(seen[p]) < Len(queue'[p]), Len(queue'[p]) <= Len(queue[p])
          PROVE  \E v \in Operators : pc'[v] = "written" /\ Head(todo'[v]) = p
      <4>1. PICK v \in Operators : At(v, "written") /\ Head(todo[v]) = p
        BY <3>2, <3>3, <3>4 DEF ReadRight, Count
      <4> QED BY <4>1, <2>2 DEF At
    <3>5. ASSUME Len(seen[p]) > Len(queue'[p]), Len(queue'[p]) >= Len(queue[p])
          PROVE  \E v \in Operators : pc'[v] = "popped" /\ Head(todo'[v]) = p
      <4>1. PICK v \in Operators : At(v, "popped") /\ Head(todo[v]) = p
        BY <3>2, <3>3, <3>5 DEF ReadRight, Count
      <4> QED BY <4>1, <2>2 DEF At
    <3>6. Head(<<p>>) = p
      OBVIOUS
    <3> QED BY <3>2, <3>3, <3>4, <3>5, <3>6
  <2>6. ASSUME NEW p \in Scope(u) \ left[u]
        PROVE  /\ At(u, "writtenCounts") /\ p \notin readBlocked => Len(seen[p]) >= threshold[p]
               /\ At(u, "poppedCounts") =>
                    \A v \in writeBlocked[Head(todo[u])] :
                      p \in DownstreamPorts(v) /\ v \notin writeBlocked[p] => Len(seen[p]) < MaxQueueSize
    BY DEF ReadRight
  <2>7. At(u, "writtenCounts")' = At(u, "writtenCounts") /\ At(u, "poppedCounts")' = At(u, "poppedCounts")
    BY <1>1 DEF At
  <2> QED BY <1>1, <2>2, <2>3, <2>4, <2>5, <2>6, <2>7 DEF ReadRight, Count, At
<1> QED BY <1>2, <1>3

\* What the operator itself reads under the mutex.
LEMMA ReadHereStays ==
  ASSUME FlowGraphAssumption, PortwiseAssumption, Inv, BlockInv,
         NEW o \in Operators, OperatorStep(o)
  PROVE  ReadRight(o)'
<1> USE Context
<1>1. CASE pc'[o] \notin {"readCounts", "writeCounts", "writtenCounts", "poppedCounts"}
  BY <1>1 DEF ReadRight, Scope, At
<1>2. CASE /\ Scope(o)' \subseteq left'[o]
           /\ At(o, "writtenCounts")' => Head(todo'[o]) \in readBlocked'
  BY <1>2 DEF ReadRight
<1>3. CASE ReadCount(o)
  <2>1. PICK p \in left[o] : seen' = [seen EXCEPT ![p] = queue[p]] /\ left' = [left EXCEPT ![o] = left[o] \ {p}]
    BY <1>3 DEF ReadCount, Look
  <2>2. UNCHANGED <<queue, schedVars, pc, todo>>
    BY <1>3 DEF ReadCount, portVars
  <2>3. Scope(o)' = Scope(o)
    BY <2>2 DEF Scope, At, schedVars, operVars
  <2>4. p \in InPorts /\ seen'[p] = queue[p] /\ left'[o] = left[o] \ {p}
    BY <2>1 DEF CallTypes, BlockTypes
  <2>5. At(o, "writtenCounts") => Head(todo[o]) \in readBlocked
    BY DEF ReadRight
  <2>6. ASSUME NEW r \in Scope(o) \ left'[o]
        PROVE  /\ Len(seen'[r]) < Count(r) => \E u \in Operators : At(u, "written") /\ Head(todo[u]) = r
               /\ Len(seen'[r]) > Count(r) => \E u \in Operators : At(u, "popped") /\ Head(todo[u]) = r
               /\ At(o, "writtenCounts") /\ r \notin readBlocked => Len(seen'[r]) >= threshold[r]
               /\ At(o, "poppedCounts") =>
                    \A u \in writeBlocked[Head(todo[o])] :
                      r \in DownstreamPorts(u) /\ u \notin writeBlocked[r] => Len(seen'[r]) < MaxQueueSize
    <3>1. r \in InPorts
      BY ScopeInPorts
    <3>2. CASE r # p
      <4>1. seen'[r] = seen[r] /\ r \in Scope(o) \ left[o]
        BY <2>1, <2>4, <3>1, <3>2 DEF BlockTypes
      <4> QED BY <4>1 DEF ReadRight
    <3>3. CASE r = p
      <4>1. Len(seen'[r]) = Count(r) /\ Count(r) \in Nat
        BY <2>4, <3>1, <3>3 DEF Count, CallTypes
      <4>2. ASSUME At(o, "writtenCounts"), r \notin readBlocked
            PROVE  Len(seen'[r]) >= threshold[r]
        <5> DEFINE d == Owner[Head(todo[o])]
        <5>1. d \in Operators /\ opState[d] = "ReadBlocked"
          BY <2>5, <4>2 DEF Registered, BlockTypes, FlowGraphAssumption
        <5>2. r \in InPortsOf(d)
          BY <4>2 DEF Scope, At
        <5>3. PortReadable(r, threshold)
          BY <4>2, <5>1, <5>2 DEF ReaderIsDue
        <5> QED BY <4>1, <5>3 DEF PortReadable
      <4>3. ASSUME At(o, "poppedCounts"), NEW u \in writeBlocked[Head(todo[o])],
                   r \in DownstreamPorts(u), u \notin writeBlocked[r]
            PROVE  Len(seen'[r]) < MaxQueueSize
        <5>1. Head(todo[o]) \in InPorts
          BY <4>3, Heads DEF At
        <5>2. u \in Operators /\ opState[u] = "WriteBlocked"
          BY <5>1 DEF Registered, BlockTypes
        <5>3. ~Full(r)
          BY <4>3, <5>2 DEF WriterIsDue
        <5> QED BY <4>1, <5>3 DEF Full, FlowGraphAssumption
      <4> QED BY <4>1, <4>2, <4>3
    <3> QED BY <3>2, <3>3
  <2> QED BY <2>2, <2>3, <2>5, <2>6 DEF ReadRight, At, Count, schedVars, operVars
<1>4. CASE EnterWriteBlock(o)
  BY <1>2, <1>4 DEF EnterWriteBlock, Scope, At, Goto, Look, CallTypes
<1>5. CASE CheckClosure(o)
  <2>1. \/ pc'[o] \in {"queueCheck", "counting", "closures"}
        \/ pc'[o] = "readCounts" /\ left'[o] = InPortsOf(o)
    BY <1>5 DEF CheckClosure, LoopStart, Goto, Look, CallTypes, At
  <2> QED BY <2>1, <1>1, <1>2 DEF Scope, At
<1>6. CASE AnnounceWritten(o)
  <2>1. \/ pc'[o] \in {"code", "deliver"}
        \/ /\ Head(todo[o]) \in readBlocked /\ pc'[o] = "writtenCounts"
           /\ left'[o] = InPortsOf(Owner[Head(todo[o])]) /\ todo' = todo /\ readBlocked' = readBlocked
    <3>1. UNCHANGED readBlocked
      BY <1>6 DEF AnnounceWritten, schedVars, operVars
    <3>2. CASE NextSubscriber(o)
      BY <3>2 DEF NextSubscriber, Goto, CallTypes
    <3>3. CASE /\ Head(todo[o]) \in readBlocked /\ Goto(o, "writtenCounts")
               /\ Look(o, InPortsOf(Owner[Head(todo[o])])) /\ UNCHANGED todo
      BY <3>1, <3>3 DEF Goto, Look, CallTypes
    <3> QED BY <1>6, <3>2, <3>3 DEF AnnounceWritten
  <2> QED BY <2>1, <1>1, <1>2 DEF Scope, At
<1>7. CASE AnnounceRead(o)
  <2>1. \/ pc'[o] = "code"
        \/ /\ pc'[o] = "poppedCounts" /\ todo' = todo /\ writeBlocked' = writeBlocked
           /\ left'[o] = UNION {DownstreamPorts(u) : u \in writeBlocked[Head(todo[o])]}
    <3> DEFINE S == UNION {DownstreamPorts(u) : u \in writeBlocked[Head(todo[o])]}
    <3>1. UNCHANGED writeBlocked
      BY <1>7 DEF AnnounceRead, schedVars, operVars
    <3>2. CASE Goto(o, "code")
      BY <3>2 DEF Goto, CallTypes
    <3>3. CASE Goto(o, "poppedCounts") /\ Look(o, S) /\ UNCHANGED todo
      <4> HIDE DEF S
      <4>1. pc'[o] = "poppedCounts" /\ todo' = todo /\ left'[o] = S
        BY <3>3 DEF Goto, Look, CallTypes
      <4> QED BY <3>1, <4>1 DEF S
    <3> QED BY <1>7, <3>2, <3>3 DEF AnnounceRead
  <2> QED BY <2>1, <1>1, <1>2 DEF Scope, At
<1>8. CASE Free(o) \/ EnterReadBlock(o)
  BY <1>1, <1>8, FreeStep DEF EnterReadBlock, Goto, CallTypes, Sections
<1>9. CASE Locked(o)
  BY <1>1, <1>9, BlockOnReadEffect, BlockOnWriteEffect, CompleteEffect, ResumeEffect,
     WakeReaderInContext, WakeWriterInContext DEF Locked
<1> QED BY <1>3, <1>4, <1>5, <1>6, <1>7, <1>8, <1>9, StepKinds DEF Within

-----------------------------------------------------------------------------
(***************************************************************************)
(* Closure.                                                                *)
(***************************************************************************)

\* A closed port whose closure is yet to be announced stays one until that is done.
LEMMA AnnouncedStays ==
  ASSUME FlowGraphAssumption, PortwiseAssumption, Inv, BlockInv,
         NEW o \in Operators, OperatorStep(o), ~Complete(o), NEW p, Announced(p)
  PROVE  Announced(p)'
<1> SUFFICES ASSUME IsClosed(p)' PROVE \E u \in Publishers(p) : pc'[u] = "complete"
  BY DEF Announced, At
<1>1. CallTypes /\ \A u \in Operators \ {o} : pc'[u] = pc[u]
  BY Context
<1>2. Publishers(p) \subseteq Operators
  BY PublishersAreOperators
<1>3. CASE IsClosed(p)
  <2>1. PICK u \in Publishers(p) : pc[u] = "complete"
    BY <1>3 DEF Announced, At
  <2>2. pc[o] # "complete"
    BY DEF OperatorStep, Resume, QueueCheck, CountPort, AskClosed, Recount, WaitReturns,
       EnterReadBlock, CheckClosure, ReadCount, BlockOnRead, EnterWriteBlock, BlockOnWrite,
       AnnounceWritten, WakeReader, AnnounceRead, WakeWriter, Offer, Deliver, CallReturn,
       CallWait, CallPush, CallPop, Decides, At, Sections, Yields
  <2> QED BY <1>1, <1>2, <2>1, <2>2
<1>4. CASE ~IsClosed(p)
  <2>1. PICK u \in Publishers(p) : ~isComplete[u] /\ isComplete'[u]
    BY <1>4 DEF IsClosed
  <2>2. CallReturn(o)
    BY <2>1, PortSteps DEF portVars, Deliver, CallPop
  <2>3. u = o /\ pc'[o] = "complete"
    BY <1>1, <1>2, <2>1, <2>2 DEF CallReturn, Goto, CallTypes
  <2> QED BY <2>1, <2>3
<1> QED BY <1>3, <1>4

\* Completing wakes all that are blocked downstream, whatever they wait for.
LEMMA CompletionIsTold ==
  ASSUME FlowGraphAssumption, PortwiseAssumption, Inv, BlockInv,
         NEW o \in Operators, OperatorStep(o), Complete(o),
         NEW u \in Operators \ {o}, opState'[u] = "ReadBlocked",
         NEW p \in InPortsOf(u), Announced(p)
  PROVE  Announced(p)'
<1>1. /\ CallTypes /\ BlockTypes /\ Placed(o)
      /\ \A r \in InPorts : Registered(r)
      /\ \A v \in Operators \ {o} : pc'[v] = pc[v]
  BY Context
<1>2. u \notin DownstreamOperators(o)
  BY <1>1, CompleteEffect
<1>3. o \notin Publishers(p)
  BY <1>2 DEF Publishers, PublisherPorts, DownstreamOperators, DownstreamPorts, OutPortsOf, InPortsOf
<1>4. isComplete' = isComplete
  BY DEF Complete, portVars
<1>5. Publishers(p) \subseteq Operators
  BY PublishersAreOperators
<1> QED BY <1>1, <1>3, <1>4, <1>5 DEF Announced, IsClosed, At

LEMMA ClosureElsewhereStays ==
  ASSUME FlowGraphAssumption, PortwiseAssumption, Inv, BlockInv,
         NEW o \in Operators, OperatorStep(o), NEW u \in Operators \ {o}
  PROVE  ClosureIsDue(u)'
<1>1. pc'[u] = pc[u] /\ wait'[u] = wait[u] /\ left'[u] = left[u] /\ ClosureIsDue(u) /\ CallTypes
  BY Context
<1>2. Asked(u)' = Asked(u) /\ All(u)' = All(u)
  BY <1>1 DEF Asked, All
<1>3. pc[u] \in Sections => ~Complete(o)
  BY InSection, FreeStep, <1>1 DEF Complete, At
<1>4. opState'[u] = "ReadBlocked" => opState[u] = "ReadBlocked"
  BY PlacesStay
<1>5. Asked(u) \subseteq InPortsOf(u)
  BY <1>1, WaitShape DEF CallTypes, Asked
<1>6. ASSUME pc[u] \in Sections \/ opState'[u] = "ReadBlocked", NEW p \in Asked(u), Announced(p)
      PROVE  Announced(p)'
  BY <1>3, <1>5, <1>6, AnnouncedStays, CompletionIsTold
<1>7. At(u, "closures")' => left'[u] \subseteq Asked(u)
  BY <1>1 DEF ClosureIsDue, At
<1>8. At(u, "closures")' /\ All(u) => \A p \in Asked(u) \ left'[u] : Announced(p)'
  BY <1>1, <1>6 DEF ClosureIsDue, At, Sections
<1>9. At(u, "readCounts")' \/ opState'[u] = "ReadBlocked" =>
        IF All(u) THEN \A p \in Asked(u) : Announced(p)' ELSE \E p \in Asked(u) : Announced(p)'
  BY <1>1, <1>4, <1>6 DEF ClosureIsDue, At, Sections
<1> QED BY <1>2, <1>7, <1>8, <1>9 DEF ClosureIsDue

LEMMA ClosureHereStays ==
  ASSUME FlowGraphAssumption, PortwiseAssumption, Inv, BlockInv,
         NEW o \in Operators, OperatorStep(o)
  PROVE  ClosureIsDue(o)'
<1> USE Context
<1>1. CASE EnterReadBlock(o)
  <2>1. /\ pc'[o] = "closures" /\ left'[o] = Asked(o) /\ wait' = wait
        /\ opState' = opState /\ pc[o] = "readBlock"
    BY <1>1 DEF EnterReadBlock, Goto, Look, At, Asked, CallTypes, schedVars, operVars
  <2>2. opState[o] # "ReadBlocked"
    BY <2>1 DEF Placed, At
  <2> QED BY <2>1, <2>2 DEF ClosureIsDue, At, Asked
<1>2. CASE CheckClosure(o)
  <2> USE DEF ClosureIsDue, At
  <2>1. PICK p \in left[o] :
       \/ /\ IsClosed(p) /\ (All(o) \/ left[o] = {p})
          /\ SkipReadBlock(o, wait[o]) /\ LoopStart(o, wait[o])
       \/ /\ IF All(o) THEN ~IsClosed(p) /\ left[o] = {p} ELSE ~IsClosed(p)
          /\ Goto(o, "readCounts") /\ Look(o, InPortsOf(o)) /\ UNCHANGED schedVars
       \/ /\ IsClosed(p) # All(o) /\ left[o] # {p}
          /\ Look(o, left[o] \ {p}) /\ UNCHANGED <<schedVars, pc>>
    BY <1>2 DEF CheckClosure
  <2>2. /\ wait' = wait /\ isComplete' = isComplete /\ pc[o] = "closures"
        /\ opState'[o] = opState[o] /\ opState[o] # "ReadBlocked"
    BY <1>2, WithinStep DEF CheckClosure, portVars, Within, Placed
  <2>3. Asked(o)' = Asked(o) /\ All(o)' = All(o)
    BY <2>2 DEF Asked, All, Announced
  <2>4. left[o] \subseteq Asked(o) /\ (All(o) => \A r \in Asked(o) \ left[o] : Announced(r))
    BY <2>2
  <2>5. \A r : Announced(r) => Announced(r)'
    BY <2>2, AnnouncedStays, WithinStep, <1>2 DEF Complete, Within
  <2>6. ~IsClosed(p) => Announced(p)
    BY DEF Announced
  <2>7. CASE LoopStart(o, wait[o])
    <3>1. pc'[o] \notin {"closures", "readCounts"}
      BY <2>7 DEF LoopStart, Goto, CallTypes
    <3> QED BY <2>2, <3>1
  <2>8. CASE /\ IF All(o) THEN ~IsClosed(p) /\ left[o] = {p} ELSE ~IsClosed(p)
             /\ Goto(o, "readCounts")
    <3>1. pc'[o] = "readCounts"
      BY <2>8 DEF Goto, CallTypes
    <3>2. IF All(o) THEN \A r \in Asked(o) : Announced(r) ELSE \E r \in Asked(o) : Announced(r)
      BY <2>4, <2>6, <2>8
    <3> QED BY <2>3, <2>5, <3>1, <3>2
  <2>9. CASE IsClosed(p) # All(o) /\ left' = [left EXCEPT ![o] = left[o] \ {p}] /\ pc' = pc
    <3>1. left'[o] = left[o] \ {p}
      BY <2>9 DEF CallTypes
    <3> QED BY <2>2, <2>3, <2>4, <2>5, <2>6, <2>9, <3>1
  <2> QED BY <2>1, <2>7, <2>8, <2>9 DEF Look
<1>3. CASE ReadCount(o)
  <2>1. /\ pc' = pc /\ opState' = opState /\ pc[o] # "closures" /\ wait' = wait
        /\ isComplete' = isComplete
    BY <1>3 DEF ReadCount, At, schedVars, operVars, portVars
  <2> QED BY <2>1 DEF ClosureIsDue, At, Announced, IsClosed, Asked, All
<1>4. CASE BlockOnRead(o)
  <2>1. pc[o] = "readCounts" /\ pc'[o] = "readYield" /\ wait' = wait
    BY <1>4, BlockOnReadEffect DEF At, BlockOnRead
  <2>2. ~Complete(o)
    BY <2>1 DEF Complete, At
  <2>3. \A p : Announced(p) => Announced(p)'
    BY <2>2, AnnouncedStays
  <2>4. Asked(o)' = Asked(o) /\ All(o)' = All(o)
    BY <2>1 DEF Asked, All
  <2> QED BY <2>1, <2>3, <2>4 DEF ClosureIsDue, At
<1>5. CASE pc'[o] \notin {"closures", "readCounts", "readYield"}
  BY <1>5, PlacesStay DEF ClosureIsDue, Placed, At
<1>6. CASE EnterWriteBlock(o) \/ AnnounceWritten(o) \/ AnnounceRead(o) \/ Free(o)
  BY <1>5, <1>6, FreeStep DEF EnterWriteBlock, AnnounceWritten, AnnounceRead, NextSubscriber, Goto,
     CallTypes, Sections, Yields
<1>7. CASE Locked(o)
  BY <1>4, <1>5, <1>7, BlockOnWriteEffect, CompleteEffect, ResumeEffect,
     WakeReaderInContext, WakeWriterInContext DEF Locked
<1> QED BY <1>1, <1>2, <1>3, <1>6, <1>7, StepKinds DEF Within

-----------------------------------------------------------------------------
(***************************************************************************)
(* Blocked readers.                                                        *)
(***************************************************************************)

\* A push stays undecided until the mutex is taken for it, and left again.
LEMMA WriteUndecidedStays ==
  ASSUME FlowGraphAssumption, PortwiseAssumption, Inv, BlockInv,
         NEW o \in Operators, OperatorStep(o), NEW p, WriteUndecided(p),
         ~(WakeReader(o) /\ p = Head(todo[o])),
         ~(AnnounceWritten(o) /\ p \notin readBlocked /\ p = Head(todo[o]))
  PROVE  WriteUndecided(p)'
<1>1. CallTypes /\ \A u \in Operators \ {o} : pc'[u] = pc[u] /\ todo'[u] = todo[u]
  BY Context
<1>2. PICK v \in Operators : pc[v] \in {"written", "writtenCounts"} /\ Head(todo[v]) = p
  BY DEF WriteUndecided
<1>3. CASE v # o
  BY <1>1, <1>2, <1>3 DEF WriteUndecided
<1>4. CASE v = o
  <2>1. AnnounceWritten(o) \/ ReadCount(o)
    BY <1>2, <1>4 DEF OperatorStep, Resume, QueueCheck, CountPort, AskClosed, Recount, WaitReturns,
       EnterReadBlock, CheckClosure, BlockOnRead, EnterWriteBlock, BlockOnWrite,
       AnnounceRead, WakeReader, WakeWriter, Offer, Deliver, CallReturn, Complete,
       CallWait, CallPush, CallPop, Decides, At, Sections, Yields
  <2>2. pc'[o] \in {"written", "writtenCounts"} /\ todo' = todo
    BY <1>1, <1>2, <1>4, <2>1 DEF AnnounceWritten, ReadCount, Goto, CallTypes
  <2> QED BY <1>2, <1>4, <2>2 DEF WriteUndecided
<1> QED BY <1>3, <1>4

\* What a step of another operator does to a blocked reader.
LEMMA ReaderElsewhere ==
  ASSUME FlowGraphAssumption, PortwiseAssumption, Inv, BlockInv,
         NEW o \in Operators, OperatorStep(o), NEW u \in Operators \ {o},
         opState'[u] = "ReadBlocked"
  PROVE  /\ opState[u] = "ReadBlocked" /\ waitKind'[u] = waitKind[u]
         /\ \A p \in InPortsOf(u) :
              /\ p \in InPorts /\ threshold'[p] = threshold[p]
              /\ Len(queue[p]) \in Nat /\ Len(queue'[p]) \in Nat /\ Len(queue[p]) <= Len(queue'[p])
              /\ p \in readBlocked' => p \in readBlocked
              /\ p \in readBlocked => \/ p \in readBlocked'
                                      \/ /\ WakeReader(o) /\ LeavesReader(u, p)
                                         /\ ReadableAsSeen(p, threshold)
         /\ WakeReader(o) /\ Head(todo[o]) \in InPortsOf(u) => LeavesReader(u, Head(todo[o]))
<1>0. /\ CallTypes /\ BlockTypes /\ Placed(o) /\ \A r \in InPorts : Registered(r)
      /\ opState[u] = "ReadBlocked"
  BY Context, PlacesStay
<1>1. ASSUME NEW p \in InPortsOf(u)
      PROVE  p \in InPorts /\ Owner[p] = u /\ p \notin InPortsOf(o)
  BY DEF InPortsOf
<1>2. ASSUME NEW p \in InPortsOf(u)
      PROVE  Len(queue[p]) \in Nat /\ Len(queue'[p]) \in Nat /\ Len(queue[p]) <= Len(queue'[p])
  BY <1>0, <1>1, QueueStep
<1>3. CASE /\ waitKind'[u] = waitKind[u] /\ ~WakeReader(o)
           /\ \A p \in InPortsOf(u) : threshold'[p] = threshold[p] /\ (p \in readBlocked' <=> p \in readBlocked)
  BY <1>0, <1>1, <1>2, <1>3
<1>4. CASE Free(o)
  <2>1. ~WakeReader(o)
    BY <1>0, <1>4, FreeStep DEF WakeReader, Decides, At, Sections
  <2>2. UNCHANGED <<waitKind, threshold, readBlocked>>
    BY <1>0, <1>4, FreeStep
  <2> QED BY <1>3, <2>1, <2>2
<1>5. CASE Within(o)
  <2>1. ~WakeReader(o)
    BY <1>0, <1>5 DEF WakeReader, Decides, At, Within, EnterReadBlock, CheckClosure, ReadCount,
       EnterWriteBlock, AnnounceWritten, AnnounceRead, Sections, CallTypes
  <2>2. waitKind'[u] = waitKind[u] /\ UNCHANGED <<threshold, readBlocked>>
    BY <1>0, <1>5, WithinStep
  <2> QED BY <1>3, <2>1, <2>2
<1>6. CASE BlockOnRead(o)
  <2>1. /\ ~WakeReader(o) /\ waitKind'[u] = waitKind[u] /\ ThresholdsChange(o)
        /\ readBlocked' = readBlocked \/
             readBlocked' = readBlocked \cup {p \in InPortsOf(o) : ~ReadableAsSeen(p, threshold')}
    BY <1>0, <1>6, BlockOnReadEffect DEF BlockTypes, Readies, BlocksReader, At, WakeReader, Decides
  <2> QED BY <1>1, <1>3, <2>1 DEF ThresholdsChange
<1>7. CASE BlockOnWrite(o)
  <2>1. ~WakeReader(o) /\ UNCHANGED <<waitKind, threshold, readBlocked>>
    BY <1>0, <1>7, BlockOnWriteEffect DEF At, WakeReader, Decides
  <2> QED BY <1>3, <2>1
<1>8. CASE WakeReader(o)
  <2>1. PICK h \in readBlocked :
           /\ h = Head(todo[o]) /\ h \in InPortsOf(Owner[h]) /\ Owner[h] \in Operators
           /\ UNCHANGED waitKind
           /\ WakesReader(Owner[h]) \/ LeavesReader(Owner[h], h)
    BY <1>8, WakeReaderInContext
  <2>2. CASE WakesReader(Owner[h])
    <3>1. Owner[h] # u
      BY <1>0, <2>1, <2>2 DEF WakesReader, BlockTypes
    <3>2. Head(todo[o]) \notin InPortsOf(u)
      BY <2>1, <3>1 DEF InPortsOf
    <3>3. \A p \in InPortsOf(u) : threshold'[p] = threshold[p] /\ (p \in readBlocked' <=> p \in readBlocked)
      BY <2>2, <3>1 DEF WakesReader, ThresholdsChange, InPortsOf
    <3> QED BY <1>0, <1>1, <1>2, <2>1, <3>2, <3>3
  <2>3. CASE LeavesReader(Owner[h], h)
    <3>1. threshold' = threshold /\ waitKind' = waitKind
      BY <2>1, <2>3 DEF LeavesReader
    <3>2. readBlocked' = IF ReadableAsSeen(h, threshold) THEN readBlocked \ {h} ELSE readBlocked
      BY <2>3 DEF LeavesReader
    <3>3. h \in InPortsOf(u) => LeavesReader(u, h)
      BY <2>3 DEF InPortsOf
    <3> QED BY <1>0, <1>1, <1>2, <1>8, <2>1, <3>1, <3>2, <3>3
  <2> QED BY <2>1, <2>2, <2>3
<1>9. CASE WakeWriter(o)
  <2>1. ~WakeReader(o) /\ UNCHANGED <<waitKind, threshold, readBlocked>>
    BY <1>0, <1>9, WakeWriterInContext DEF At, WakeReader, Decides
  <2> QED BY <1>3, <2>1
<1>10. CASE Complete(o)
  <2>1. /\ ~WakeReader(o) /\ waitKind' = waitKind
        /\ \A p \in InPorts : opState'[Owner[p]] = opState[Owner[p]] => threshold'[p] = threshold[p]
        /\ readBlocked' = {p \in readBlocked : opState'[Owner[p]] = opState[Owner[p]]}
    BY <1>0, <1>10, CompleteEffect DEF At, WakeReader, Decides
  <2>2. \A p \in InPortsOf(u) : opState'[Owner[p]] = opState[Owner[p]]
    BY <1>0, <1>1
  <2> QED BY <1>1, <1>3, <2>1, <2>2
<1>11. CASE Resume(o)
  <2>1. ~WakeReader(o) /\ UNCHANGED <<waitKind, threshold, readBlocked>>
    BY <1>0, <1>11, ResumeEffect DEF At, WakeReader, Decides, Yields
  <2> QED BY <1>3, <2>1
<1> QED BY <1>4, <1>5, <1>6, <1>7, <1>8, <1>9, <1>10, <1>11, StepKinds DEF Locked

LEMMA ReaderElsewhereStays ==
  ASSUME FlowGraphAssumption, PortwiseAssumption, Inv, BlockInv,
         NEW o \in Operators, OperatorStep(o), NEW u \in Operators \ {o}
  PROVE  ReaderIsDue(u)'
<1> SUFFICES ASSUME opState'[u] = "ReadBlocked" PROVE ReaderIsDue(u)'
  BY DEF ReaderIsDue
<1>1. /\ CallTypes /\ BlockTypes /\ ReaderIsDue(u) /\ Placed(u) /\ ReadRight(o)
      /\ \A v \in Operators : Placed(v) /\ Remembers(v)
  BY Context
<1>2. /\ opState[u] = "ReadBlocked" /\ waitKind'[u] = waitKind[u]
      /\ \A p \in InPortsOf(u) :
           /\ p \in InPorts /\ threshold'[p] = threshold[p]
           /\ Len(queue[p]) \in Nat /\ Len(queue'[p]) \in Nat /\ Len(queue[p]) <= Len(queue'[p])
           /\ p \in readBlocked' => p \in readBlocked
           /\ p \in readBlocked => \/ p \in readBlocked'
                                   \/ /\ WakeReader(o) /\ LeavesReader(u, p)
                                      /\ ReadableAsSeen(p, threshold)
      /\ WakeReader(o) /\ Head(todo[o]) \in InPortsOf(u) => LeavesReader(u, Head(todo[o]))
  BY ReaderElsewhere
<1>3. \A p \in InPortsOf(u) : threshold[p] \in Nat /\ Len(seen[p]) \in Nat
  BY <1>1, <1>2 DEF BlockTypes
<1>4. ASSUME WakeReader(o), Head(todo[o]) \in InPortsOf(u), NEW p \in InPortsOf(u)
      PROVE  /\ Len(seen[p]) <= Len(queue[p])
             /\ p = Head(todo[o]) => Len(seen[p]) >= Len(queue[p])
             /\ p \notin readBlocked => Len(seen[p]) >= threshold[p]
  <2>1. At(o, "writtenCounts") /\ left[o] = {} /\ Head(todo[o]) \in DownstreamPorts(o)
    BY <1>4, WakeReaderInContext
  <2>2. p \in Scope(o) \ left[o]
    BY <1>4, <2>1 DEF Scope, At, InPortsOf
  <2>3. ASSUME Len(seen[p]) > Len(queue[p]) PROVE FALSE
    <3>1. PICK v \in Operators : At(v, "popped") /\ Head(todo[v]) = p
      BY <1>1, <2>2, <2>3 DEF ReadRight, Count
    <3>2. p \in InPortsOf(v)
      BY <1>1, <3>1, Heads DEF At
    <3> QED BY <1>1, <1>2, <3>1, <3>2 DEF InPortsOf, Placed, At
  <2>4. ASSUME p = Head(todo[o]), Len(seen[p]) < Len(queue[p]) PROVE FALSE
    <3>1. PICK v \in Operators : At(v, "written") /\ Head(todo[v]) = p
      BY <1>1, <2>2, <2>4 DEF ReadRight, Count
    <3>2. p \in DownstreamPorts(v)
      BY <1>1, <3>1, Heads DEF At
    <3>3. v = o
      BY <2>1, <2>4, <3>2, OnlyPublisher
    <3> QED BY <2>1, <3>1, <3>3 DEF At
  <2>5. p \notin readBlocked => Len(seen[p]) >= threshold[p]
    BY <1>1, <2>1, <2>2 DEF ReadRight
  <2> QED BY <1>2, <1>3, <2>3, <2>4, <2>5
<1>5. ASSUME NEW p \in InPortsOf(u), p \in readBlocked, p \notin readBlocked'
      PROVE  /\ Len(queue'[p]) >= threshold'[p]
             /\ waitKind[u] # "Disjunctive" /\ \E r \in InPortsOf(u) : r \in readBlocked'
  <2>1. WakeReader(o) /\ LeavesReader(u, p) /\ ReadableAsSeen(p, threshold)
    BY <1>2, <1>5
  <2>2. p = Head(todo[o])
    <3>1. PICK h \in readBlocked : h = Head(todo[o]) /\ (WakesReader(Owner[h]) \/ LeavesReader(Owner[h], h))
                                   /\ Owner[h] \in Operators
      BY <2>1, WakeReaderInContext
    <3>2. ~WakesReader(Owner[h])
      <4> SUFFICES ASSUME WakesReader(Owner[h]) PROVE FALSE
        OBVIOUS
      <4>1. Owner[h] # u
        BY <1>1, <1>2, <3>1 DEF WakesReader, BlockTypes
      <4> QED BY <1>5, <4>1 DEF WakesReader, InPortsOf
    <3>3. readBlocked \ {h} \subseteq readBlocked'
      BY <3>1, <3>2 DEF LeavesReader
    <3> QED BY <1>5, <3>1, <3>3
  <2>3. Len(seen[p]) >= threshold[p] /\ Len(seen[p]) <= Len(queue[p])
    BY <1>4, <2>1, <2>2 DEF ReadableAsSeen
  <2>4. waitKind[u] # "Disjunctive"
    BY <1>5, <2>1 DEF LeavesReader
  <2>5. PICK r \in InPortsOf(u) : ~ReadableAsSeen(r, threshold)
    BY <2>1, <2>4 DEF LeavesReader
  <2>6. r \in readBlocked /\ r # p
    BY <1>4, <2>1, <2>2, <2>5 DEF ReadableAsSeen
  <2>7. r \in readBlocked'
    BY <2>1, <2>6 DEF LeavesReader
  <2> QED BY <1>2, <1>3, <2>3, <2>4, <2>7
<1>6. IF waitKind'[u] = "Disjunctive" THEN InPortsOf(u) \subseteq readBlocked'
                                      ELSE InPortsOf(u) \cap readBlocked' # {}
  <2>1. CASE waitKind[u] = "Disjunctive"
    BY <1>1, <1>2, <1>5, <2>1 DEF ReaderIsDue
  <2>2. CASE waitKind[u] # "Disjunctive"
    <3>1. PICK r \in InPortsOf(u) : r \in readBlocked
      BY <1>1, <1>2, <2>2 DEF ReaderIsDue
    <3> QED BY <1>2, <1>5, <2>2, <3>1
  <2> QED BY <2>1, <2>2
<1>7. ASSUME NEW p \in InPortsOf(u), ~(Len(queue'[p]) >= threshold'[p])
      PROVE  p \in readBlocked'
  <2>1. ~PortReadable(p, threshold)
    BY <1>2, <1>3, <1>7 DEF PortReadable, Count
  <2>2. p \in readBlocked
    BY <1>1, <1>2, <2>1 DEF ReaderIsDue
  <2> QED BY <1>5, <1>7, <2>2
<1>8. ASSUME NEW p \in InPortsOf(u), Len(queue'[p]) >= threshold'[p], p \in readBlocked'
      PROVE  WriteUndecided(p)'
  <2>1. CASE PortReadable(p, threshold)
    <3>1. WriteUndecided(p) /\ p \in readBlocked
      BY <1>1, <1>2, <1>8, <2>1 DEF ReaderIsDue
    <3>2. ~(WakeReader(o) /\ p = Head(todo[o]))
      <4> SUFFICES ASSUME WakeReader(o), p = Head(todo[o]) PROVE FALSE
        OBVIOUS
      <4>1. Len(seen[p]) >= Len(queue[p])
        BY <1>4
      <4>2. LeavesReader(u, p)
        BY <1>2
      <4>3. ~ReadableAsSeen(p, threshold)
        BY <1>8, <4>2 DEF LeavesReader
      <4> QED BY <1>2, <1>3, <2>1, <4>1, <4>3 DEF ReadableAsSeen, PortReadable, Count
    <3> QED BY <3>1, <3>2, WriteUndecidedStays
  <2>2. CASE ~PortReadable(p, threshold)
    <3>1. Len(queue[p]) < Len(queue'[p])
      BY <1>2, <1>3, <1>8, <2>2 DEF PortReadable, Count
    <3>2. pc'[o] = "written" /\ todo' = todo /\ p = Head(todo[o])
      BY <1>1, <1>2, <3>1, QueueStep
    <3> QED BY <3>2 DEF WriteUndecided
  <2> QED BY <2>1, <2>2
<1> QED BY <1>6, <1>7, <1>8 DEF ReaderIsDue, PortReadable, Count

\* An operator that has just blocked.
LEMMA ReaderHereStays ==
  ASSUME FlowGraphAssumption, PortwiseAssumption, Inv, BlockInv,
         NEW o \in Operators, OperatorStep(o)
  PROVE  ReaderIsDue(o)'
<1> SUFFICES ASSUME opState'[o] = "ReadBlocked" PROVE ReaderIsDue(o)'
  BY DEF ReaderIsDue
<1>1. /\ CallTypes /\ CallTypes' /\ BlockTypes /\ BlockTypes' /\ Placed(o) /\ Placed(o)' /\ ReadRight(o)
      /\ \A r \in InPorts : Registered(r)
      /\ \A v \in Operators : Placed(v) /\ Remembers(v)
      /\ \A v \in Operators \ {o} : pc'[v] = pc[v] /\ todo'[v] = todo[v]
  BY Context, PlacesStay, TypesStay
<1>2. pc'[o] = "readYield"
  BY <1>1 DEF Placed, At
<1>3. BlockOnRead(o)
  <2>1. ~Free(o) /\ ~Within(o)
    BY <1>1, <1>2, FreeStep, WithinStep DEF Yields
  <2>2. ~BlockOnWrite(o) /\ ~WakeReader(o) /\ ~WakeWriter(o) /\ ~Complete(o) /\ ~Resume(o)
    BY <1>1, <1>2, BlockOnWriteEffect, CompleteEffect, ResumeEffect, WakeReaderInContext,
       WakeWriterInContext
  <2> QED BY <2>1, <2>2, StepKinds DEF Locked
<1>4. /\ At(o, "readCounts") /\ left[o] = {} /\ (Readies(o) \/ BlocksReader(o))
  BY <1>1, <1>3, BlockOnReadEffect
<1>5. BlocksReader(o)
  BY <1>1, <1>4 DEF Readies, BlockTypes
<1>6. queue' = queue
  BY <1>3 DEF BlockOnRead, portVars
<1>7. /\ readBlocked' = readBlocked \cup {p \in InPortsOf(o) : ~ReadableAsSeen(p, threshold')}
      /\ IF waitKind'[o] = "Disjunctive"
         THEN \A p \in InPortsOf(o) : ~ReadableAsSeen(p, threshold')
         ELSE \E p \in InPortsOf(o) : ~ReadableAsSeen(p, threshold')
  BY <1>5 DEF BlocksReader
<1>8. ASSUME NEW p \in InPortsOf(o)
      PROVE  /\ p \in InPorts /\ Len(queue[p]) \in Nat /\ Len(seen[p]) \in Nat /\ threshold'[p] \in Nat
             /\ p \notin readBlocked /\ p \in Scope(o) \ left[o]
  BY <1>1, <1>4 DEF InPortsOf, CallTypes, BlockTypes, Registered, Placed, At, Yields, Scope
<1>9. IF waitKind'[o] = "Disjunctive" THEN InPortsOf(o) \subseteq readBlocked'
                                      ELSE InPortsOf(o) \cap readBlocked' # {}
  BY <1>7
<1>10. ASSUME NEW p \in InPortsOf(o), ~(Len(queue[p]) >= threshold'[p])
       PROVE  p \in readBlocked'
  <2> SUFFICES ASSUME ReadableAsSeen(p, threshold') PROVE FALSE
    BY <1>7
  <2>1. Len(seen[p]) > Len(queue[p])
    BY <1>8, <1>10 DEF ReadableAsSeen
  <2>2. PICK v \in Operators : At(v, "popped") /\ Head(todo[v]) = p
    BY <1>1, <1>8, <2>1 DEF ReadRight, Count
  <2>3. p \in InPortsOf(v)
    BY <1>1, <2>2, Heads DEF At
  <2> QED BY <1>4, <2>2, <2>3 DEF InPortsOf, At
<1>11. ASSUME NEW p \in InPortsOf(o), Len(queue[p]) >= threshold'[p], p \in readBlocked'
       PROVE  WriteUndecided(p)'
  <2>1. Len(seen[p]) < Len(queue[p])
    BY <1>7, <1>8, <1>11 DEF ReadableAsSeen
  <2>2. PICK v \in Operators : At(v, "written") /\ Head(todo[v]) = p
    BY <1>1, <1>8, <2>1 DEF ReadRight, Count
  <2>3. v # o
    BY <1>4, <2>2 DEF At
  <2> QED BY <1>1, <2>2, <2>3 DEF WriteUndecided, At
<1> QED BY <1>6, <1>9, <1>10, <1>11 DEF ReaderIsDue, PortReadable, Count

-----------------------------------------------------------------------------
(***************************************************************************)
(* Blocked writers.                                                        *)
(***************************************************************************)
LEMMA ReadUndecidedStays ==
  ASSUME FlowGraphAssumption, PortwiseAssumption, Inv, BlockInv,
         NEW o \in Operators, OperatorStep(o), NEW p, ReadUndecided(p),
         ~(WakeWriter(o) /\ p = Head(todo[o])),
         ~(AnnounceRead(o) /\ writeBlocked[p] = {} /\ p = Head(todo[o]))
  PROVE  ReadUndecided(p)'
<1>1. CallTypes /\ \A u \in Operators \ {o} : pc'[u] = pc[u] /\ todo'[u] = todo[u]
  BY Context
<1>2. PICK v \in Operators : pc[v] \in {"popped", "poppedCounts"} /\ Head(todo[v]) = p
  BY DEF ReadUndecided
<1>3. CASE v # o
  BY <1>1, <1>2, <1>3 DEF ReadUndecided
<1>4. CASE v = o
  <2>1. AnnounceRead(o) \/ ReadCount(o)
    BY <1>2, <1>4 DEF OperatorStep, Resume, QueueCheck, CountPort, AskClosed, Recount, WaitReturns,
       EnterReadBlock, CheckClosure, BlockOnRead, EnterWriteBlock, BlockOnWrite,
       AnnounceWritten, WakeReader, WakeWriter, Offer, Deliver, CallReturn, Complete,
       CallWait, CallPush, CallPop, Decides, At, Sections, Yields
  <2>2. pc'[o] \in {"popped", "poppedCounts"} /\ todo' = todo
    BY <1>1, <1>2, <1>4, <2>1 DEF AnnounceRead, ReadCount, Goto, CallTypes
  <2> QED BY <1>2, <1>4, <2>2 DEF ReadUndecided
<1> QED BY <1>3, <1>4

\* What a step of another operator does to a blocked writer.
LEMMA WriterElsewhere ==
  ASSUME FlowGraphAssumption, PortwiseAssumption, Inv, BlockInv,
         NEW o \in Operators, OperatorStep(o), NEW u \in Operators \ {o},
         opState'[u] = "WriteBlocked"
  PROVE  /\ opState[u] = "WriteBlocked"
         /\ \A p \in DownstreamPorts(u) :
              /\ p \in InPorts
              /\ Len(queue[p]) \in Nat /\ Len(queue'[p]) \in Nat /\ Len(queue'[p]) <= Len(queue[p])
              /\ u \in writeBlocked'[p] => u \in writeBlocked[p]
              /\ u \in writeBlocked[p] => \/ u \in writeBlocked'[p]
                                          \/ WakeWriter(o) /\ p = Head(todo[o]) /\ ~FullAsSeen(p)
              /\ u \in writeBlocked'[p] /\ WakeWriter(o) /\ p = Head(todo[o]) => FullAsSeen(p)
         /\ WakeWriter(o) /\ u \in writeBlocked[Head(todo[o])] =>
              \E r \in DownstreamPorts(u) : FullAsSeen(r)
<1>0. /\ CallTypes /\ BlockTypes /\ Placed(o) /\ Remembers(o) /\ \A r \in InPorts : Registered(r)
      /\ opState[u] = "WriteBlocked"
  BY Context, PlacesStay
<1>1. DownstreamPorts(u) \subseteq InPorts
  BY PushedTo
<1>2. ASSUME NEW p \in DownstreamPorts(u)
      PROVE  Len(queue[p]) \in Nat /\ Len(queue'[p]) \in Nat /\ Len(queue'[p]) <= Len(queue[p])
  <2>1. p \notin DownstreamPorts(o)
    BY OnlyPublisher
  <2>2. ~(At(o, "deliver") /\ p = Head(todo[o]))
    BY <1>0, <2>1, Heads DEF At
  <2> QED BY <1>0, <1>1, <2>2, QueueStep
<1>3. CASE /\ ~WakeWriter(o)
           /\ \A p \in InPorts : u \in writeBlocked'[p] <=> u \in writeBlocked[p]
  BY <1>0, <1>1, <1>2, <1>3
<1>4. CASE WakeWriter(o)
  <2>1. PICK h \in InPortsOf(o) : h = Head(todo[o]) /\ h \in InPorts /\ WakesWriters(h)
    BY <1>4, WakeWriterInContext
  <2>2. u \notin FreedAsSeen(h)
    BY <1>0, <2>1 DEF WakesWriters
  <2>3. \A p \in InPorts : writeBlocked'[p] =
          IF p = h /\ ~FullAsSeen(h) THEN {} ELSE writeBlocked[p] \ FreedAsSeen(h)
    BY <2>1 DEF WakesWriters
  <2>4. u \in writeBlocked[h] => \E r \in DownstreamPorts(u) : FullAsSeen(r)
    BY <2>2 DEF FreedAsSeen
  <2> QED BY <1>0, <1>1, <1>2, <1>4, <2>1, <2>2, <2>3, <2>4
<1>5. CASE Free(o) \/ Within(o)
  <2>1. ~WakeWriter(o) /\ UNCHANGED writeBlocked
    BY <1>0, <1>5, FreeStep, WithinStep DEF WakeWriter, Decides, At, Sections, Within,
       EnterReadBlock, CheckClosure, ReadCount, EnterWriteBlock, AnnounceWritten, AnnounceRead, CallTypes
  <2> QED BY <1>3, <2>1
<1>6. CASE BlockOnRead(o)
  <2>1. ~WakeWriter(o) /\ UNCHANGED writeBlocked
    BY <1>0, <1>6, BlockOnReadEffect DEF Readies, BlocksReader, At, WakeWriter, Decides
  <2> QED BY <1>3, <2>1
<1>7. CASE BlockOnWrite(o)
  <2>1. ~WakeWriter(o) /\ (Readies(o) \/ BlocksWriter(o))
    BY <1>0, <1>7, BlockOnWriteEffect DEF At, WakeWriter, Decides
  <2>2. CASE Readies(o)
    BY <1>3, <2>1, <2>2 DEF Readies
  <2>3. CASE BlocksWriter(o)
    <3>1. \A p \in InPorts : writeBlocked'[p] = writeBlocked[p] \/ writeBlocked'[p] = writeBlocked[p] \cup {o}
      BY <2>3 DEF BlocksWriter
    <3> QED BY <1>3, <2>1, <3>1
  <2> QED BY <2>1, <2>2, <2>3
<1>8. CASE WakeReader(o) \/ Complete(o) \/ Resume(o)
  <2>1. ~WakeWriter(o) /\ UNCHANGED writeBlocked
    BY <1>0, <1>8, WakeReaderInContext, CompleteEffect, ResumeEffect DEF At, WakeWriter, Decides, Yields
  <2> QED BY <1>3, <2>1
<1> QED BY <1>4, <1>5, <1>6, <1>7, <1>8, StepKinds DEF Locked

LEMMA WriterElsewhereStays ==
  ASSUME FlowGraphAssumption, PortwiseAssumption, Inv, BlockInv,
         NEW o \in Operators, OperatorStep(o), NEW u \in Operators \ {o}
  PROVE  WriterIsDue(u)'
<1> SUFFICES ASSUME opState'[u] = "WriteBlocked" PROVE WriterIsDue(u)'
  BY DEF WriterIsDue
<1>1. /\ CallTypes /\ BlockTypes /\ WriterIsDue(u) /\ Placed(u) /\ ReadRight(o)
      /\ \A v \in Operators : Placed(v) /\ Remembers(v)
  BY Context
<1>2. /\ opState[u] = "WriteBlocked"
      /\ \A p \in DownstreamPorts(u) :
           /\ p \in InPorts
           /\ Len(queue[p]) \in Nat /\ Len(queue'[p]) \in Nat /\ Len(queue'[p]) <= Len(queue[p])
           /\ u \in writeBlocked'[p] => u \in writeBlocked[p]
           /\ u \in writeBlocked[p] => \/ u \in writeBlocked'[p]
                                       \/ WakeWriter(o) /\ p = Head(todo[o]) /\ ~FullAsSeen(p)
           /\ u \in writeBlocked'[p] /\ WakeWriter(o) /\ p = Head(todo[o]) => FullAsSeen(p)
      /\ WakeWriter(o) /\ u \in writeBlocked[Head(todo[o])] =>
           \E r \in DownstreamPorts(u) : FullAsSeen(r)
  BY WriterElsewhere
<1>3. MaxQueueSize \in Nat /\ \A p \in DownstreamPorts(u) : Len(seen[p]) \in Nat
  BY <1>1, <1>2 DEF BlockTypes, FlowGraphAssumption
<1>4. ASSUME WakeWriter(o), u \in writeBlocked[Head(todo[o])], NEW p \in DownstreamPorts(u)
      PROVE  /\ Len(seen[p]) >= Len(queue[p])
             /\ p = Head(todo[o]) => Len(seen[p]) <= Len(queue[p])
             /\ u \notin writeBlocked[p] => Len(seen[p]) < MaxQueueSize
  <2>1. At(o, "poppedCounts") /\ left[o] = {} /\ Head(todo[o]) \in InPortsOf(o)
    BY <1>4, WakeWriterInContext
  <2>2. p \in Scope(o) \ left[o]
    BY <1>4, <2>1 DEF Scope, At
  <2>3. ASSUME Len(seen[p]) < Len(queue[p]) PROVE FALSE
    <3>1. PICK v \in Operators : At(v, "written") /\ Head(todo[v]) = p
      BY <1>1, <2>2, <2>3 DEF ReadRight, Count
    <3>2. p \in DownstreamPorts(v)
      BY <1>1, <3>1, Heads DEF At
    <3>3. v = u
      BY <3>2, OnlyPublisher
    <3> QED BY <1>1, <1>2, <3>1, <3>3 DEF Placed, At
  <2>4. ASSUME p = Head(todo[o]), Len(seen[p]) > Len(queue[p]) PROVE FALSE
    <3>1. PICK v \in Operators : At(v, "popped") /\ Head(todo[v]) = p
      BY <1>1, <2>2, <2>4 DEF ReadRight, Count
    <3>2. p \in InPortsOf(v)
      BY <1>1, <3>1, Heads DEF At
    <3> QED BY <2>1, <2>4, <3>1, <3>2 DEF InPortsOf, At
  <2>5. u \notin writeBlocked[p] => Len(seen[p]) < MaxQueueSize
    BY <1>1, <1>4, <2>1, <2>2 DEF ReadRight
  <2> QED BY <1>2, <1>3, <2>3, <2>4, <2>5
<1>5. ASSUME NEW p \in DownstreamPorts(u), u \in writeBlocked[p], u \notin writeBlocked'[p]
      PROVE  /\ ~(Len(queue'[p]) >= MaxQueueSize)
             /\ \E r \in DownstreamPorts(u) : u \in writeBlocked'[r]
  <2>1. WakeWriter(o) /\ p = Head(todo[o]) /\ ~FullAsSeen(p)
    BY <1>2, <1>5
  <2>2. PICK r \in DownstreamPorts(u) : FullAsSeen(r)
    BY <1>2, <1>5, <2>1
  <2>3. u \in writeBlocked[r] /\ r # p
    BY <1>3, <1>4, <1>5, <2>1, <2>2 DEF FullAsSeen
  <2>4. u \in writeBlocked'[r]
    BY <1>2, <2>1, <2>3
  <2>5. Len(queue[p]) <= Len(seen[p]) /\ Len(seen[p]) < MaxQueueSize
    BY <1>3, <1>4, <1>5, <2>1 DEF FullAsSeen
  <2> QED BY <1>2, <1>3, <2>4, <2>5
<1>6. \E p \in DownstreamPorts(u) : u \in writeBlocked'[p]
  <2>1. PICK p \in DownstreamPorts(u) : u \in writeBlocked[p]
    BY <1>1, <1>2 DEF WriterIsDue
  <2> QED BY <1>5, <2>1
<1>7. ASSUME NEW p \in DownstreamPorts(u), Len(queue'[p]) >= MaxQueueSize
      PROVE  u \in writeBlocked'[p]
  <2>1. Full(p)
    BY <1>2, <1>3, <1>7 DEF Full, Count
  <2>2. u \in writeBlocked[p]
    BY <1>1, <1>2, <2>1 DEF WriterIsDue
  <2> QED BY <1>5, <1>7, <2>2
<1>8. ASSUME NEW p \in DownstreamPorts(u), ~(Len(queue'[p]) >= MaxQueueSize), u \in writeBlocked'[p]
      PROVE  ReadUndecided(p)'
  <2>1. u \in writeBlocked[p]
    BY <1>2, <1>8
  <2>2. CASE ~Full(p)
    <3>1. ReadUndecided(p)
      BY <1>1, <1>2, <2>1, <2>2 DEF WriterIsDue
    <3>2. ~(WakeWriter(o) /\ p = Head(todo[o]))
      <4> SUFFICES ASSUME WakeWriter(o), p = Head(todo[o]) PROVE FALSE
        OBVIOUS
      <4>1. Len(seen[p]) <= Len(queue[p])
        BY <1>4, <2>1
      <4>2. FullAsSeen(p)
        BY <1>2, <1>8
      <4> QED BY <1>2, <1>3, <2>2, <4>1, <4>2 DEF FullAsSeen, Full, Count
    <3>3. ~(AnnounceRead(o) /\ writeBlocked[p] = {} /\ p = Head(todo[o]))
      BY <2>1
    <3> QED BY <3>1, <3>2, <3>3, ReadUndecidedStays
  <2>3. CASE Full(p)
    <3>1. Len(queue'[p]) < Len(queue[p])
      BY <1>2, <1>3, <1>8, <2>3 DEF Full, Count
    <3>2. pc'[o] = "popped" /\ todo'[o] = <<p>>
      BY <1>1, <1>2, <3>1, QueueStep
    <3>3. Head(todo'[o]) = p
      BY <3>2
    <3> QED BY <3>2, <3>3 DEF ReadUndecided
  <2> QED BY <2>2, <2>3
<1> QED BY <1>6, <1>7, <1>8 DEF WriterIsDue, Full, Count

LEMMA WriterHereStays ==
  ASSUME FlowGraphAssumption, PortwiseAssumption, Inv, BlockInv,
         NEW o \in Operators, OperatorStep(o)
  PROVE  WriterIsDue(o)'
<1> SUFFICES ASSUME opState'[o] = "WriteBlocked" PROVE WriterIsDue(o)'
  BY DEF WriterIsDue
<1>1. /\ CallTypes /\ CallTypes' /\ BlockTypes /\ BlockTypes' /\ Placed(o) /\ Placed(o)' /\ ReadRight(o)
      /\ \A r \in InPorts : Registered(r)
      /\ \A v \in Operators : Placed(v) /\ Remembers(v)
      /\ \A v \in Operators \ {o} : pc'[v] = pc[v] /\ todo'[v] = todo[v]
  BY Context, PlacesStay, TypesStay
<1>2. pc'[o] = "writeYield"
  BY <1>1 DEF Placed, At
<1>3. BlockOnWrite(o)
  <2>1. ~Free(o) /\ ~Within(o)
    BY <1>1, <1>2, FreeStep, WithinStep DEF Yields
  <2>2. ~BlockOnRead(o) /\ ~WakeReader(o) /\ ~WakeWriter(o) /\ ~Complete(o) /\ ~Resume(o)
    BY <1>1, <1>2, BlockOnReadEffect, CompleteEffect, ResumeEffect, WakeReaderInContext,
       WakeWriterInContext
  <2> QED BY <2>1, <2>2, StepKinds DEF Locked
<1>4. At(o, "writeCounts") /\ left[o] = {} /\ (Readies(o) \/ BlocksWriter(o))
  BY <1>1, <1>3, BlockOnWriteEffect
<1>5. BlocksWriter(o)
  BY <1>1, <1>4 DEF Readies, BlockTypes
<1>6. queue' = queue
  BY <1>3 DEF BlockOnWrite, portVars
<1>7. /\ \E p \in DownstreamPorts(o) : FullAsSeen(p)
      /\ \A p \in InPorts : writeBlocked'[p] =
           IF p \in DownstreamPorts(o) /\ FullAsSeen(p) THEN writeBlocked[p] \cup {o} ELSE writeBlocked[p]
  BY <1>5 DEF BlocksWriter
<1>8. MaxQueueSize \in Nat
  BY DEF FlowGraphAssumption
<1>9. ASSUME NEW p \in DownstreamPorts(o)
      PROVE  /\ p \in InPorts /\ Len(queue[p]) \in Nat /\ Len(seen[p]) \in Nat
             /\ o \notin writeBlocked[p] /\ p \in Scope(o) \ left[o]
  BY <1>1, <1>4, PushedTo DEF CallTypes, BlockTypes, Registered, Placed, At, Yields, Scope
<1>10. \E p \in DownstreamPorts(o) : o \in writeBlocked'[p]
  BY <1>7, <1>9
<1>11. ASSUME NEW p \in DownstreamPorts(o), Len(queue[p]) >= MaxQueueSize
       PROVE  o \in writeBlocked'[p]
  <2> SUFFICES ASSUME ~FullAsSeen(p) PROVE FALSE
    BY <1>7, <1>9
  <2>1. Len(seen[p]) < Len(queue[p])
    BY <1>8, <1>9, <1>11 DEF FullAsSeen
  <2>2. PICK v \in Operators : At(v, "written") /\ Head(todo[v]) = p
    BY <1>1, <1>9, <2>1 DEF ReadRight, Count
  <2>3. p \in DownstreamPorts(v)
    BY <1>1, <2>2, Heads DEF At
  <2>4. v = o
    BY <2>3, OnlyPublisher
  <2> QED BY <1>4, <2>2, <2>4 DEF At
<1>12. ASSUME NEW p \in DownstreamPorts(o), ~(Len(queue[p]) >= MaxQueueSize), o \in writeBlocked'[p]
       PROVE  ReadUndecided(p)'
  <2>0. FullAsSeen(p)
    BY <1>7, <1>9, <1>12
  <2>1. Len(seen[p]) > Len(queue[p])
    BY <1>8, <1>9, <1>12, <2>0 DEF FullAsSeen
  <2>2. PICK v \in Operators : At(v, "popped") /\ Head(todo[v]) = p
    BY <1>1, <1>9, <2>1 DEF ReadRight, Count
  <2>3. v # o
    BY <1>4, <2>2 DEF At
  <2> QED BY <1>1, <2>2, <2>3 DEF ReadUndecided, At
<1> QED BY <1>6, <1>10, <1>11, <1>12 DEF WriterIsDue, Full, Count

-----------------------------------------------------------------------------
(***************************************************************************)
(* The invariant.                                                          *)
(***************************************************************************)
LEMMA PlacedElsewhere ==
  ASSUME FlowGraphAssumption, PortwiseAssumption, Inv, BlockInv,
         NEW o \in Operators, OperatorStep(o), NEW u \in Operators \ {o}
  PROVE  Placed(u)'
<1>1. pc'[u] = pc[u] /\ todo'[u] = todo[u] /\ Placed(u)
  BY Context
<1>2. \/ opState'[u] = opState[u]
      \/ opState[u] \in {"ReadBlocked", "WriteBlocked"} /\ opState'[u] = "Ready"
  BY PlacesStay
<1> QED BY <1>1, <1>2 DEF Placed, At, Yields

LEMMA BlockInitially ==
  ASSUME FlowGraphAssumption, Init
  PROVE  BlockInv
<1>1. \A p \in InPorts : <<>> \in Seq(Tuples)
  OBVIOUS
<1>2. BlockTypes
  BY <1>1 DEF Init, SchedInit, BlockTypes, OperatorStates, WaitKinds, NothingSeen
<1>3. \A o \in Operators : pc[o] = "start" /\ opState[o] = "Ready"
  BY DEF Init, SchedInit
<1>4. \A p \in InPorts : Registered(p)
  BY DEF Init, SchedInit, Registered
<1>5. SectionsExclude /\ \A o \in Operators : Placed(o) /\ ReaderIsDue(o) /\ WriterIsDue(o)
  BY <1>3 DEF SectionsExclude, Sections, Placed, At, Yields, ReaderIsDue, WriterIsDue
<1>6. \A o \in Operators : ClosureIsDue(o) /\ ReadRight(o)
  BY <1>3 DEF ClosureIsDue, ReadRight, Scope, At
<1> QED BY <1>2, <1>4, <1>5, <1>6 DEF BlockInv

LEMMA BlockStep ==
  ASSUME FlowGraphAssumption, PortwiseAssumption, Inv, BlockInv,
         NEW o \in Operators, OperatorStep(o)
  PROVE  BlockInv'
<1>1. BlockTypes' /\ SectionsExclude' /\ \A p \in InPorts : Registered(p)'
  BY TypesStay, SectionsStay, RegisteredStay
<1>2. ASSUME NEW u \in Operators
      PROVE  Placed(u)' /\ ReaderIsDue(u)' /\ WriterIsDue(u)' /\ ClosureIsDue(u)' /\ ReadRight(u)'
  <2>1. CASE u = o
    BY <2>1, PlacesStay, ReaderHereStays, WriterHereStays, ClosureHereStays, ReadHereStays
  <2>2. CASE u # o
    BY <2>2, PlacedElsewhere, ReaderElsewhereStays, WriterElsewhereStays, ClosureElsewhereStays,
       ReadElsewhereStays
  <2> QED BY <2>1, <2>2
<1> QED BY <1>1, <1>2 DEF BlockInv

LEMMA BlockStutter ==
  ASSUME BlockInv, UNCHANGED vars
  PROVE  BlockInv'
<1> USE DEF vars, portVars, schedVars, operVars, callVars
<1>1. BlockTypes' /\ SectionsExclude' /\ \A p \in InPorts : Registered(p)'
  BY DEF BlockInv, BlockTypes, SectionsExclude, Registered
<1>2. \A p : Count(p)' = Count(p) /\ IsClosed(p)' = IsClosed(p)
             /\ WriteUndecided(p)' = WriteUndecided(p) /\ ReadUndecided(p)' = ReadUndecided(p)
  BY DEF Count, IsClosed, WriteUndecided, ReadUndecided
<1>3. ASSUME NEW o \in Operators
      PROVE  Placed(o)' /\ ReaderIsDue(o)' /\ WriterIsDue(o)'
  BY <1>2 DEF BlockInv, Placed, ReaderIsDue, WriterIsDue, At, PortReadable, Full
<1>4. ASSUME NEW o \in Operators
      PROVE  ClosureIsDue(o)'
  BY <1>2 DEF BlockInv, ClosureIsDue, Announced, At, Asked, All
<1>5. ASSUME NEW o \in Operators
      PROVE  ReadRight(o)'
  <2>1. Scope(o)' = Scope(o)
    BY DEF Scope, At
  <2> QED BY <1>2, <2>1 DEF BlockInv, ReadRight, At
<1> QED BY <1>1, <1>3, <1>4, <1>5 DEF BlockInv

\* However a run interleaves the reads of counts under the mutex with pushes, pops
\* and completions, the scheduler's indexes list what its blocked operators lack.
THEOREM Blocking == Spec => []BlockInv
<1> USE FlowGraphAssumption, PortwiseAssumption
<1>1. Init => BlockInv
  BY BlockInitially
<1>2. Inv /\ BlockInv /\ [Next]_vars => BlockInv'
  BY BlockStep, BlockStutter DEF Next
<1>3. Spec => []Inv
  BY Invariance
<1> QED BY <1>1, <1>2, <1>3, PTL DEF Spec

LEMMA BlockedAreDue ==
  ASSUME FlowGraphAssumption, PortwiseAssumption, Inv, BlockInv
  PROVE  NobodyIsLeftBlocked
<1> SUFFICES ASSUME NEW o \in Operators
             PROVE  /\ opState[o] = "ReadBlocked" /\ ReadReady(o, waitKind[o], threshold) =>
                         \E p \in InPortsOf(o) \cap readBlocked : WriteUndecided(p)
                    /\ opState[o] = "ReadBlocked" /\ ClosedForWait(wait[o]) =>
                         \E u \in UpstreamOperators(o) : At(u, "complete")
                    /\ opState[o] = "WriteBlocked" /\ WriteReady(o) =>
                         \E p \in DownstreamPorts(o) : o \in writeBlocked[p] /\ ReadUndecided(p)
  BY DEF NobodyIsLeftBlocked
<1>1. ReaderIsDue(o) /\ WriterIsDue(o) /\ ClosureIsDue(o) /\ CallTypes
  BY DEF BlockInv, Inv
<1>2. ASSUME opState[o] = "ReadBlocked", ReadReady(o, waitKind[o], threshold)
      PROVE  \E p \in InPortsOf(o) \cap readBlocked : WriteUndecided(p)
  <2>1. CASE waitKind[o] = "Disjunctive"
    <3>1. PICK p \in InPortsOf(o) : PortReadable(p, threshold)
      BY <1>2, <2>1 DEF ReadReady
    <3> QED BY <1>1, <1>2, <2>1, <3>1 DEF ReaderIsDue
  <2>2. CASE waitKind[o] # "Disjunctive"
    <3>1. PICK p \in InPortsOf(o) \cap readBlocked : TRUE
      BY <1>1, <1>2, <2>2 DEF ReaderIsDue
    <3>2. PortReadable(p, threshold)
      BY <1>2, <2>2, <3>1 DEF ReadReady
    <3> QED BY <1>1, <1>2, <3>1, <3>2 DEF ReaderIsDue
  <2> QED BY <2>1, <2>2
<1>3. ASSUME opState[o] = "ReadBlocked", ClosedForWait(wait[o])
      PROVE  \E u \in UpstreamOperators(o) : At(u, "complete")
  <2>1. PICK p \in Asked(o) : Announced(p) /\ IsClosed(p)
    BY <1>1, <1>3 DEF ClosureIsDue, ClosedForWait, All, Asked
  <2>2. p \in InPortsOf(o)
    BY <1>1, WaitShape DEF CallTypes, Asked
  <2> QED BY <2>1, <2>2 DEF Announced, UpstreamOperators
<1>4. ASSUME opState[o] = "WriteBlocked", WriteReady(o)
      PROVE  \E p \in DownstreamPorts(o) : o \in writeBlocked[p] /\ ReadUndecided(p)
  BY <1>1, <1>4 DEF WriterIsDue, WriteReady
<1> QED BY <1>2, <1>3, <1>4

\* No operator is left blocked: whenever the condition of a blocked operator holds,
\* or its ports have closed, a step that will look at the condition is still to come.
THEOREM NobodyStaysBlocked == Spec => []NobodyIsLeftBlocked
<1>1. Inv /\ BlockInv => NobodyIsLeftBlocked
  BY BlockedAreDue, FlowGraphAssumption, PortwiseAssumption
<1> QED BY <1>1, Invariance, Blocking, PTL
=============================================================================
