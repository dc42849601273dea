------------------------ MODULE WriteBlocking_proofs ------------------------
(***************************************************************************)
(* Proofs about blocked publishers and bounded queues, for every flow      *)
(* graph without fan-in, and for every one whose output ports are          *)
(* connected to no input port twice.                                       *)
(***************************************************************************)
EXTENDS StreamRuntime_proofs, FiniteSetTheorems

-----------------------------------------------------------------------------
(***************************************************************************)
(* Blocked publishers.                                                     *)
(***************************************************************************)

LEMMA DownstreamTypes ==
  ASSUME FlowGraphAssumption, NEW o \in Operators
  PROVE  DownstreamPorts(o) \subseteq InPorts
BY DEF FlowGraphAssumption, DownstreamPorts, OutPortsOf, SubscribersOf

\* Without fan-in two operators push to no common port.
LEMMA OwnDownstream ==
  ASSUME NoFanIn, NEW o \in Operators, NEW c \in Operators, c # o,
         NEW p \in DownstreamPorts(c)
  PROVE  p \notin DownstreamPorts(o)
BY DEF NoFanIn, DownstreamPorts, OutPortsOf, SubscribersOf

\* Announcements of others are still due after a step of c.
LEMMA StillUnread ==
  ASSUME NEW c \in Operators, pc[c] # "popped",
         \A u \in Operators \ {c} : pc'[u] = pc[u] /\ todo'[u] = todo[u],
         NEW p, ReadUnannounced(p)
  PROVE  ReadUnannounced(p)'
BY DEF ReadUnannounced

\* A blocked publisher whose entries stay and whose ports do not fill.
LEMMA QuietWriter ==
  ASSUME NEW o \in Operators, WriteIndexOf(o),
         \A p \in DownstreamPorts(o) :
           /\ o \in writeBlocked'[p] <=> o \in writeBlocked[p]
           /\ Full(p)' => Full(p)
           /\ Full(p) \/ ReadUnannounced(p) => Full(p)' \/ ReadUnannounced(p)'
  PROVE  WriteIndexOf(o)'
<1> DownstreamPorts(o)' = DownstreamPorts(o)
  BY DEF DownstreamPorts
<1> QED BY DEF WriteIndexOf

\* updateOperatorState leaves the entries of a publisher that stays blocked.
LEMMA UpdateWriter ==
  ASSUME NEW next, NEW thresh, UpdateOperators(next, thresh),
         NEW o \in Operators, opState[o] = "WriteBlocked", opState'[o] = "WriteBlocked"
  PROVE  \A p \in InPorts : o \in writeBlocked'[p] <=> o \in writeBlocked[p]
BY DEF UpdateOperators, WriteIndexAfter, Leaves, Enters

\* A step of c that changes no queue and announces no pop.
LEMMA QuietForWriters ==
  ASSUME FlowGraphAssumption, WriteIndex, NEW c \in Operators, pc[c] # "popped",
         UNCHANGED queue,
         \A u \in Operators \ {c} : pc'[u] = pc[u] /\ todo'[u] = todo[u],
         \A o \in Operators : opState'[o] = "WriteBlocked" =>
           /\ opState[o] = "WriteBlocked"
           /\ \A p \in InPorts : o \in writeBlocked'[p] <=> o \in writeBlocked[p]
  PROVE  WriteIndex'
<1>1. \A p : ReadUnannounced(p) => ReadUnannounced(p)'
  BY StillUnread
<1>2. \A p : Full(p)' <=> Full(p)
  BY DEF Full, Count
<1> SUFFICES ASSUME NEW o \in Operators, opState'[o] = "WriteBlocked"
             PROVE  WriteIndexOf(o)'
  BY DEF WriteIndex
<1> QED BY <1>1, <1>2, QuietWriter, DownstreamTypes DEF WriteIndex

\* The same when the step updates operator states and c does not block on a write.
LEMMA UpdateForWriters ==
  ASSUME FlowGraphAssumption, WriteIndex, NEW c \in Operators, pc[c] # "popped",
         UNCHANGED queue,
         \A u \in Operators \ {c} : pc'[u] = pc[u] /\ todo'[u] = todo[u],
         OnlyWakes(c), opState'[c] # "WriteBlocked",
         NEW next, NEW thresh, UpdateOperators(next, thresh)
  PROVE  WriteIndex'
<1>1. ASSUME NEW o \in Operators, opState'[o] = "WriteBlocked"
      PROVE  /\ opState[o] = "WriteBlocked"
             /\ \A p \in InPorts : o \in writeBlocked'[p] <=> o \in writeBlocked[p]
  <2>1. opState[o] = "WriteBlocked"
    BY <1>1 DEF OnlyWakes
  <2> QED BY <1>1, <2>1, UpdateWriter
<1> QED BY <1>1, QuietForWriters

\* A push in progress: its operator runs, and the port it inserts into is its own.
LEMMA HeadIsDownstream ==
  ASSUME TypeOK, CallShape, Pushing, NEW c \in Operators, pc[c] \in {"deliver", "written"}
  PROVE  Head(todo[c]) \in DownstreamPorts(c)
<1>1. todo[c] \in Seq(InPorts) /\ todo[c] # <<>>
  BY DEF TypeOK, CallShape
<1>2. Head(todo[c]) = todo[c][1] /\ 1 \in DOMAIN todo[c]
  BY <1>1
<1>3. \A i \in DOMAIN todo[c] : todo[c][i] \in DownstreamPorts(c)
  BY DEF Pushing
<1> QED BY <1>2, <1>3

LEMMA DeliverForWriters ==
  ASSUME TypeOK, CallShape, Binding, Pushing, WriteIndex, FlowGraphAssumption, NoFanIn,
         NEW c \in Operators, Deliver(c)
  PROVE  WriteIndex'
<1>1. /\ pc[c] = "deliver" /\ Executing(c)
      /\ UNCHANGED <<opState, writeBlocked>>
      /\ \A u \in Operators \ {c} : pc'[u] = pc[u] /\ todo'[u] = todo[u]
  BY DEF Deliver, At, Goto, schedVars, operVars, callVars, TypeOK
<1>2. opState[c] = "Running"
  BY <1>1, ExecutingIsRunning DEF YieldPoints
<1> SUFFICES ASSUME NEW o \in Operators, opState'[o] = "WriteBlocked"
             PROVE  WriteIndexOf(o)'
  BY DEF WriteIndex
<1>3. c # o /\ WriteIndexOf(o)
  BY <1>1, <1>2 DEF WriteIndex
<1>4. ASSUME NEW p \in DownstreamPorts(o) PROVE Full(p)' <=> Full(p)
  <2>1. p # Head(todo[c])
    BY <1>1, <1>3, HeadIsDownstream, OwnDownstream
  <2>2. p \in InPorts
    BY DownstreamTypes
  <2>3. queue'[p] = queue[p]
    BY <2>1, <2>2 DEF Deliver, TypeOK
  <2> QED BY <2>3 DEF Full, Count
<1>5. \A p : ReadUnannounced(p) => ReadUnannounced(p)'
  BY <1>1, StillUnread
<1> QED BY <1>1, <1>3, <1>4, <1>5, QuietWriter

\* A pop makes room, in a port that is then unannounced.
LEMMA CodeForWriters ==
  ASSUME TypeOK, Binding, WriteIndex, FlowGraphAssumption, NEW c \in Operators, CodeStep(c)
  PROVE  WriteIndex'
<1>1. /\ pc[c] = "code"
      /\ UNCHANGED <<opState, writeBlocked>>
      /\ \A u \in Operators \ {c} : pc'[u] = pc[u] /\ todo'[u] = todo[u]
  BY DEF CodeStep, CallWait, CallPush, CallPop, CallReturn, At, Goto, schedVars, operVars,
         callVars, TypeOK
<1>2. CASE queue' = queue
  BY <1>1, <1>2, QuietForWriters
<1>3. ASSUME NEW r \in InPortsOf(c), CallPop(c, r) PROVE WriteIndex'
  <2>1. ReadUnannounced(r)'
    <3>1. pc'[c] = "popped" /\ todo'[c] = <<r>>
      BY <1>3 DEF CallPop, Goto, TypeOK
    <3>2. todo'[c] # <<>> /\ Head(todo'[c]) = r
      BY <3>1
    <3> QED BY <3>1, <3>2 DEF ReadUnannounced
  <2>2. \A p \in InPorts : p # r => (Full(p)' <=> Full(p))
    BY <1>3 DEF CallPop, Full, Count, TypeOK
  <2>3. Full(r)' => Full(r)
    <3>1. queue[r] \in Seq(Tuples) /\ queue[r] # <<>> /\ queue'[r] = Tail(queue[r])
      BY <1>3 DEF CallPop, TypeOK, InPortsOf
    <3>2. Len(queue'[r]) = Len(queue[r]) - 1 /\ Len(queue[r]) \in Nat
      BY <3>1, HeadTailProperties
    <3> QED BY <3>2 DEF Full, Count, FlowGraphAssumption
  <2>4. \A p : ReadUnannounced(p) => ReadUnannounced(p)'
    BY <1>1, StillUnread
  <2> SUFFICES ASSUME NEW o \in Operators, opState'[o] = "WriteBlocked"
               PROVE  WriteIndexOf(o)'
    BY DEF WriteIndex
  <2>5. WriteIndexOf(o)
    BY <1>1 DEF WriteIndex
  <2> QED BY <1>1, <2>1, <2>2, <2>3, <2>4, <2>5, QuietWriter, DownstreamTypes
<1> QED BY <1>2, <1>3 DEF CodeStep, CallWait, CallPush, CallReturn, portVars

\* An announcement of a pop: the port leaves the entries of those that it does not
\* wake only if it has room, and then another port of theirs is full.
LEMMA ReadForWriters ==
  ASSUME TypeOK, CallShape, Binding, Registration, WriteIndex, FlowGraphAssumption,
         NEW c \in Operators, AnnounceRead(c)
  PROVE  WriteIndex'
<1> DEFINE r == Head(todo[c])
           woken == {u \in writeBlocked[r] : WriteReady(u)}
<1>1. /\ pc[c] = "popped" /\ MarkInputPortAsRead(r) /\ UNCHANGED queue
      /\ \A u \in Operators \ {c} : pc'[u] = pc[u] /\ todo'[u] = todo[u]
  BY DEF AnnounceRead, At, Goto, portVars, callVars, TypeOK
<1>2. \A p : p # r /\ ReadUnannounced(p) => ReadUnannounced(p)'
  BY <1>1 DEF ReadUnannounced
<1>3. \A p : Full(p)' <=> Full(p)
  BY <1>1 DEF Full, Count
<1> HIDE DEF r
<1> SUFFICES ASSUME NEW o \in Operators, opState'[o] = "WriteBlocked"
             PROVE  WriteIndexOf(o)'
  BY DEF WriteIndex
<1>4. opState' = Moved(woken, "Ready")
  BY <1>1 DEF MarkInputPortAsRead
<1>5. opState[o] = "WriteBlocked" /\ o \notin woken
  BY <1>4 DEF Moved
<1>6. WriteIndexOf(o)
  BY <1>5 DEF WriteIndex
<1>7. \A p \in InPorts :
        o \in writeBlocked'[p] <=> o \in writeBlocked[p] /\ (p # r \/ Full(r))
  BY <1>1, <1>4, <1>5 DEF MarkInputPortAsRead, WriteIndexAfter, Leaves, Enters, Moved
<1>8. DownstreamPorts(o)' = DownstreamPorts(o) /\ DownstreamPorts(o) \subseteq InPorts
  BY DownstreamTypes DEF DownstreamPorts
<1>9. \A p \in DownstreamPorts(o) : Full(p) => o \in writeBlocked'[p]
  BY <1>6, <1>7, <1>8 DEF WriteIndexOf
<1>10. \A p \in DownstreamPorts(o) :
         o \in writeBlocked'[p] => Full(p) \/ ReadUnannounced(p)'
  BY <1>2, <1>6, <1>7, <1>8 DEF WriteIndexOf
<1>11. \E p \in DownstreamPorts(o) : o \in writeBlocked'[p]
  <2>1. CASE o \in writeBlocked[r]
    BY <1>5, <1>9, <2>1 DEF WriteReady
  <2>2. CASE o \notin writeBlocked[r]
    BY <1>6, <1>7, <1>8, <2>2 DEF WriteIndexOf
  <2> QED BY <2>1, <2>2
<1> QED BY <1>3, <1>8, <1>9, <1>10, <1>11 DEF WriteIndexOf

\* A publisher that blocks is registered under exactly the ports that are full.
LEMMA BlockForWriters ==
  ASSUME TypeOK, Binding, Registration, WriteIndex, FlowGraphAssumption,
         NEW c \in Operators, BlockOnWrite(c), MarkOperatorAsWriteBlocked(c, full[c])
  PROVE  WriteIndex'
<1> DEFINE s == IF WriteReady(c) THEN "Ready" ELSE "WriteBlocked"
<1>1. /\ pc[c] = "writeBlock" /\ Executing(c) /\ UNCHANGED queue
      /\ \A u \in Operators \ {c} : pc'[u] = pc[u] /\ todo'[u] = todo[u]
  BY DEF BlockOnWrite, At, Goto, portVars, callVars, TypeOK
<1>2. UpdateOperators(Moved({c}, s), threshold)
  BY DEF MarkOperatorAsWriteBlocked
<1>3. opState[c] = "Running"
  BY <1>1, ExecutingIsRunning DEF YieldPoints
<1>4. \A u \in Operators \ {c} : opState'[u] = opState[u]
  BY <1>2 DEF UpdateOperators, Moved
<1>5. opState'[c] = s
  BY <1>2 DEF UpdateOperators, Moved, TypeOK, SchedTypeOK
<1>6. \A p : Full(p)' <=> Full(p)
  BY <1>1 DEF Full, Count
<1> SUFFICES ASSUME NEW o \in Operators, opState'[o] = "WriteBlocked"
             PROVE  WriteIndexOf(o)'
  BY DEF WriteIndex
<1>7. CASE o # c
  <2>1. opState[o] = "WriteBlocked"
    BY <1>4, <1>7
  <2>2. \A p \in InPorts : o \in writeBlocked'[p] <=> o \in writeBlocked[p]
    BY <1>2, <2>1, UpdateWriter
  <2>3. \A p : ReadUnannounced(p) => ReadUnannounced(p)'
    BY <1>1, StillUnread
  <2> QED BY <1>6, <2>1, <2>2, <2>3, QuietWriter, DownstreamTypes DEF WriteIndex
<1>8. CASE o = c
  <2>1. ~WriteReady(c)
    BY <1>5, <1>8
  <2>2. \A p \in InPorts : c \notin writeBlocked[p]
    BY <1>3 DEF Registration
  <2>3. \A p \in InPorts : c \in writeBlocked'[p] <=> p \in DownstreamPorts(c) /\ Full(p)
    BY <1>2, <1>3, <1>5, <1>8, <2>2 DEF UpdateOperators, WriteIndexAfter, Leaves, Enters
  <2>4. DownstreamPorts(c)' = DownstreamPorts(c) /\ DownstreamPorts(c) \subseteq InPorts
    BY DownstreamTypes DEF DownstreamPorts
  <2> QED BY <1>6, <1>8, <2>1, <2>3, <2>4 DEF WriteIndexOf, WriteReady
<1> QED BY <1>7, <1>8

LEMMA WrittenForWriters ==
  ASSUME TypeOK, CallShape, Binding, Registration, WriteIndex, FlowGraphAssumption,
         NEW c \in Operators, AnnounceWritten(c)
  PROVE  WriteIndex'
<1> DEFINE h == Head(todo[c])
           wakes == h \in readBlocked /\ ReadReady(Owner[h], waitKind[Owner[h]], threshold)
<1>1. /\ MarkInputPortAsWritten(h) /\ UNCHANGED queue
      /\ pc[c] = "written" /\ Executing(c)
      /\ \A u \in Operators \ {c} : pc'[u] = pc[u] /\ todo'[u] = todo[u]
  BY DEF AnnounceWritten, At, Goto, portVars, callVars, TypeOK
<1>2. opState[c] = "Running"
  BY <1>1, ExecutingIsRunning DEF YieldPoints
<1>3. h \in InPorts
  <2>1. todo[c] \in Seq(InPorts) /\ todo[c] # <<>>
    BY <1>1 DEF TypeOK, CallShape
  <2> QED BY <2>1
<1> HIDE DEF h
<1>4. OnlyWakes(c) /\ opState'[c] # "WriteBlocked"
  BY <1>1, <1>2, <1>3, WrittenEffect
<1>5. CASE wakes
  BY <1>1, <1>4, <1>5, UpdateForWriters DEF MarkInputPortAsWritten
<1>6. CASE ~wakes
  <2>1. UNCHANGED <<opState, writeBlocked>>
    BY <1>1, <1>6 DEF MarkInputPortAsWritten
  <2> QED BY <1>1, <2>1, QuietForWriters
<1> QED BY <1>5, <1>6

LEMMA CallForWriters ==
  ASSUME TypeOK, CallShape, Binding, Registration, Pushing, WriteIndex, FlowGraphAssumption,
         NoFanIn, NEW c \in Operators, CallStep(c)
  PROVE  WriteIndex'
<1> USE DEF At, Goto, portVars, callVars
<1>1. CASE \/ \E closed \in BOOLEAN : WaitReturns(c, closed)
           \/ WaitMustBlock(c) \/ Offer(c) \/ StopScheduler(c)
           \/ BlockOnRead(c) /\ SkipReadBlock(c, wait[c])
           \/ BlockOnWrite(c) /\ SkipWriteBlock(full[c])
           \/ CheckPreemption(c) /\ UNCHANGED schedVars
  <2>1. pc[c] # "popped" /\ UNCHANGED <<queue, opState, writeBlocked>>
    BY <1>1 DEF WaitReturns, WaitMustBlock, Offer, StopScheduler, Stop, BlockOnRead,
                SkipReadBlock, BlockOnWrite, SkipWriteBlock, CheckPreemption, schedVars, operVars
  <2>2. \A u \in Operators \ {c} : pc'[u] = pc[u] /\ todo'[u] = todo[u]
    BY <1>1 DEF WaitReturns, WaitMustBlock, Offer, StopScheduler, BlockOnRead, BlockOnWrite,
                CheckPreemption, TypeOK
  <2> QED BY <2>1, <2>2, QuietForWriters
<1>2. CASE BlockOnRead(c) /\ MarkOperatorAsReadBlocked(c, wait[c])
  <2>1. OnlyWakes(c) /\ opState'[c] # "WriteBlocked"
    BY <1>2, ReadBlockEffect
  <2>2. \E next, thresh : UpdateOperators(next, thresh)
    BY <1>2 DEF MarkOperatorAsReadBlocked, RegisterReader
  <2>3. /\ pc[c] # "popped" /\ UNCHANGED queue
        /\ \A u \in Operators \ {c} : pc'[u] = pc[u] /\ todo'[u] = todo[u]
    BY <1>2 DEF BlockOnRead, TypeOK
  <2> QED BY <2>1, <2>2, <2>3, UpdateForWriters
<1>3. CASE CheckPreemption(c) /\ Preempt(c)
  <2>1. OnlyWakes(c) /\ opState'[c] # "WriteBlocked"
    BY <1>3, PreemptEffect
  <2>2. \E next : UpdateOperators(next, threshold)
    BY <1>3 DEF Preempt
  <2>3. /\ pc[c] # "popped" /\ UNCHANGED queue
        /\ \A u \in Operators \ {c} : pc'[u] = pc[u] /\ todo'[u] = todo[u]
    BY <1>3 DEF CheckPreemption, TypeOK
  <2> QED BY <2>1, <2>2, <2>3, UpdateForWriters
<1>4. CASE Complete(c)
  <2>1. OnlyWakes(c) /\ opState'[c] # "WriteBlocked"
    BY <1>4, CompletedEffect DEF Complete
  <2>2. \E next : UpdateOperators(next, threshold)
    BY <1>4 DEF Complete, MarkOperatorAsCompleted
  <2>3. /\ pc[c] # "popped" /\ UNCHANGED queue
        /\ \A u \in Operators \ {c} : pc'[u] = pc[u] /\ todo'[u] = todo[u]
    BY <1>4 DEF Complete, TypeOK
  <2> QED BY <2>1, <2>2, <2>3, UpdateForWriters
<1> QED
  BY <1>1, <1>2, <1>3, <1>4, DeliverForWriters, WrittenForWriters, BlockForWriters,
     ReadForWriters
     DEF CallStep, BlockOnRead, BlockOnWrite, CheckPreemption

\* Threads and the client make nobody a blocked publisher, and announce nothing.
LEMMA ThreadForWriters ==
  ASSUME TypeOK, FlowGraphAssumption, WriteIndex,
         NEW t \in Threads, ThreadStep(t) \/ SpuriousWakeUp(t)
  PROVE  WriteIndex'
<1>1. UNCHANGED <<queue, writeBlocked, todo>>
  BY DEF ThreadStep, SpuriousWakeUp, GetThreadWork, WakeUp, Work, Assign, Sleep, Dismiss, Enter,
         Leave, portVars, schedVars, operVars, callVars
<1>2. \A o \in Operators : opState'[o] = "WriteBlocked" => opState[o] = "WriteBlocked"
  BY DEF ThreadStep, SpuriousWakeUp, GetThreadWork, WakeUp, Work, Assign, Sleep, Dismiss, Enter,
         Leave, schedVars, operVars, TypeOK, SchedTypeOK
<1>3. \A u \in Operators : pc[u] = "popped" => pc'[u] = pc[u]
  BY DEF ThreadStep, SpuriousWakeUp, GetThreadWork, WakeUp, Work, Enter, Leave, YieldPoints, TypeOK
<1>4. \A p : ReadUnannounced(p) => ReadUnannounced(p)'
  BY <1>1, <1>3 DEF ReadUnannounced
<1>5. \A p : Full(p)' <=> Full(p)
  BY <1>1 DEF Full, Count
<1> QED BY <1>1, <1>2, <1>4, <1>5, QuietWriter DEF WriteIndex

LEMMA NextForWriters ==
  ASSUME Inv, WriteIndex, FlowGraphAssumption, NoFanIn, [Next]_vars
  PROVE  WriteIndex'
<1> USE DEF Inv
<1>1. CASE RequestShutdown \/ AllCompleted \/ Join \/ UNCHANGED vars
  <2>1. UNCHANGED <<queue, schedVars, pc, callVars>>
    BY <1>1 DEF RequestShutdown, AllCompleted, Join, vars, portVars
  <2> QED BY <2>1 DEF WriteIndex, WriteIndexOf, DownstreamPorts, Full, Count,
                      ReadUnannounced, schedVars, operVars, callVars
<1> QED BY <1>1, CallForWriters, CodeForWriters, ThreadForWriters
        DEF Next, RuntimeStep, Terminated

\* Without fan-in the write index of the scheduler is complete: a blocked publisher
\* is registered under every full port downstream of it.
THEOREM WritersAreRegistered ==
  ASSUME NoFanIn
  PROVE  Spec => []WriteIndex
<1>1. Init => WriteIndex
  BY DEF Init, SchedInit, WriteIndex
<1>2. Inv /\ WriteIndex /\ [Next]_vars => WriteIndex'
  BY NextForWriters, FlowGraphAssumption
<1> QED BY <1>1, <1>2, Invariance, PTL DEF Spec

\* Without fan-in no publisher stays blocked when every port downstream of it has
\* room: a pop that the scheduler has yet to be told of will wake it.
THEOREM WritersAreWoken ==
  ASSUME NoFanIn
  PROVE  Spec => []NoLostWriteWakeup
<1>1. WriteIndex => NoLostWriteWakeup
  BY DEF WriteIndex, WriteIndexOf, NoLostWriteWakeup, WriteReady
<1> QED BY <1>1, WritersAreRegistered, PTL

-----------------------------------------------------------------------------
(***************************************************************************)
(* Bounded queues.                                                         *)
(***************************************************************************)

\* Nobody pushes to a port but its publishers, of which there are finitely many.
LEMMA GrantedArePublishers ==
  ASSUME FlowGraphAssumption, TypeOK, Pushing, NEW p \in InPorts
  PROVE  /\ Granted(p) \subseteq Publishers(p)
         /\ IsFiniteSet(Publishers(p)) /\ IsFiniteSet(Granted(p))
         /\ Cardinality(Granted(p)) \in Nat /\ Cardinality(Publishers(p)) \in Nat
         /\ Cardinality(Granted(p)) <= Cardinality(Publishers(p))
<1>1. Publishers(p) \subseteq Operators
  BY DEF FlowGraphAssumption, Publishers, PublisherPorts
<1>2. \A o \in Operators : p \in DownstreamPorts(o) => o \in Publishers(p)
  BY DEF DownstreamPorts, OutPortsOf, Publishers, PublisherPorts
<1>3. Granted(p) \subseteq Publishers(p)
  BY <1>2 DEF Granted, Pushing
<1>4. IsFiniteSet(Publishers(p))
  BY <1>1, FS_Subset DEF FlowGraphAssumption
<1> QED BY <1>3, <1>4, FS_Subset, FS_CardinalityType

LEMMA GrantedWillBePublishers ==
  ASSUME FlowGraphAssumption, TypeOK, Pushing, Pushing', NEW p \in InPorts
  PROVE  /\ Granted(p)' \subseteq Publishers(p)
         /\ Cardinality(Granted(p)') \in Nat
         /\ Cardinality(Granted(p)') <= Cardinality(Publishers(p))
<1>1. \A o \in Operators : p \in DownstreamPorts(o)' => o \in Publishers(p)
  BY DEF DownstreamPorts, OutPortsOf, SubscribersOf, Publishers, PublisherPorts
<1>2. Granted(p)' \subseteq Publishers(p)
  BY <1>1 DEF Granted, Pushing
<1> QED BY <1>2, GrantedArePublishers, FS_Subset, FS_CardinalityType

LEMMA SurplusType ==
  ASSUME FlowGraphAssumption, TypeOK, Pushing, NEW p \in InPorts
  PROVE  /\ Surplus(p) \in Nat /\ Surplus(p)' = Surplus(p)
         /\ \A o \in Publishers(p) : Surplus(p) = Cardinality(Publishers(p)) - 1
<1>1. Surplus(p)' = Surplus(p)
  BY DEF Surplus, Publishers, PublisherPorts
<1>2. CASE Publishers(p) = {}
  BY <1>1, <1>2 DEF Surplus
<1>3. CASE Publishers(p) # {}
  <2>1. Cardinality(Publishers(p)) # 0
    BY <1>3, GrantedArePublishers, FS_EmptySet
  <2> QED BY <1>1, <1>3, <2>1, GrantedArePublishers DEF Surplus
<1> QED BY <1>2, <1>3

\* The part of Reservations about one port.
Fits(p) == Count(p) + Cardinality(Granted(p)) <= MaxQueueSize + Surplus(p)

\* A step that gives nobody a reservation in p and adds nothing to its queue.
LEMMA QuietPort ==
  ASSUME FlowGraphAssumption, TypeOK, Pushing, TypeOK', Pushing',
         NEW p \in InPorts, Fits(p), Count(p)' <= Count(p), Granted(p)' \subseteq Granted(p)
  PROVE  Fits(p)'
<1>1. Cardinality(Granted(p)') <= Cardinality(Granted(p)) /\ Cardinality(Granted(p)') \in Nat
  BY GrantedArePublishers, FS_Subset, FS_CardinalityType
<1>2. Count(p) \in Nat /\ Count(p)' \in Nat /\ Cardinality(Granted(p)) \in Nat
  BY GrantedArePublishers DEF Count, TypeOK
<1> QED BY <1>1, <1>2, SurplusType DEF Fits, FlowGraphAssumption

\* The same for all ports, when whoever delivers delivered before.
LEMMA QuietPorts ==
  ASSUME FlowGraphAssumption, TypeOK, Pushing, TypeOK', Pushing',
         \A p \in InPorts : Fits(p) /\ Count(p)' <= Count(p),
         \A u \in Operators : pc'[u] \in {"deliver", "written"} =>
                                pc'[u] = pc[u] /\ todo'[u] = todo[u]
  PROVE  \A p \in InPorts : Fits(p)'
<1> SUFFICES ASSUME NEW p \in InPorts PROVE Fits(p)'
  OBVIOUS
<1>1. Granted(p)' \subseteq Granted(p)
  BY DEF Granted
<1> QED BY <1>1, QuietPort

\* The check: a port in which room is found has room for all its publishers.
LEMMA OfferFits ==
  ASSUME FlowGraphAssumption, TypeOK, Pushing, TypeOK', Pushing', ~shutdown,
         NEW c \in Operators, Offer(c), \A p \in InPorts : Fits(p)
  PROVE  \A p \in InPorts : Fits(p)'
<1> SUFFICES ASSUME NEW p \in InPorts PROVE Fits(p)'
  OBVIOUS
<1>1. /\ pc[c] = "offer" /\ pc'[c] \in Locations /\ UNCHANGED <<queue, todo>>
      /\ \A u \in Operators \ {c} : pc'[u] = pc[u]
      /\ pc'[c] \in {"deliver", "written"} => FullPorts(c) = {}
  BY DEF Offer, At, Goto, portVars, TypeOK
<1>2. Count(p)' = Count(p) /\ Count(p) \in Nat
  BY <1>1 DEF Count, TypeOK
<1>3. CASE c \in Granted(p)'
  <2>1. (\E i \in DOMAIN todo[c] : todo[c][i] = p) /\ FullPorts(c) = {}
    BY <1>1, <1>3 DEF Granted
  <2>2. Count(p) < MaxQueueSize
    BY <1>2, <2>1 DEF FullPorts, Full, FlowGraphAssumption
  <2>3. c \in Publishers(p)
    BY <1>3, GrantedWillBePublishers
  <2>4. Surplus(p)' = Cardinality(Publishers(p)) - 1
    BY <2>3, SurplusType
  <2>5. /\ Cardinality(Granted(p)') <= Cardinality(Publishers(p))
        /\ Cardinality(Granted(p)') \in Nat /\ Cardinality(Publishers(p)) \in Nat
    BY GrantedWillBePublishers, GrantedArePublishers
  <2> QED BY <1>2, <2>2, <2>4, <2>5 DEF Fits, FlowGraphAssumption
<1>4. CASE c \notin Granted(p)'
  <2>1. Granted(p)' \subseteq Granted(p)
    BY <1>1, <1>4 DEF Granted
  <2> QED BY <1>2, <2>1, QuietPort
<1> QED BY <1>3, <1>4

\* An insertion uses up the reservation of the port that gets longer.
LEMMA DeliverFits ==
  ASSUME FlowGraphAssumption, TypeOK, CallShape, Pushing, TypeOK', Pushing',
         NEW c \in Operators, Deliver(c), Once(todo[c]), \A p \in InPorts : Fits(p)
  PROVE  \A p \in InPorts : Fits(p)'
<1> DEFINE h == Head(todo[c])
<1>1. /\ pc[c] = "deliver" /\ pc'[c] = "written" /\ todo' = todo
      /\ \A u \in Operators \ {c} : pc'[u] = pc[u]
  BY DEF Deliver, At, Goto, callVars, TypeOK
<1>2. h = todo[c][1] /\ 1 \in DOMAIN todo[c] /\ h \in InPorts
  <2>1. todo[c] \in Seq(InPorts) /\ todo[c] # <<>>
    BY <1>1 DEF TypeOK, CallShape
  <2> QED BY <2>1
<1>3. DOMAIN todo[c] \subseteq Nat \ {0}
  BY DEF TypeOK
<1>4. queue' = [queue EXCEPT ![h] = Append(queue[h], item[c])]
  BY DEF Deliver
<1> HIDE DEF h
<1> SUFFICES ASSUME NEW p \in InPorts PROVE Fits(p)'
  OBVIOUS
<1>5. CASE p = h
  <2>1. c \in Granted(p)
    BY <1>1, <1>2, <1>5 DEF Granted
  <2>2. c \notin Granted(p)'
    BY <1>1, <1>2, <1>3, <1>5 DEF Granted, Once
  <2>3. Granted(p)' = Granted(p) \ {c}
    BY <1>1, <2>2 DEF Granted
  <2>4. Cardinality(Granted(p)') = Cardinality(Granted(p)) - 1
    BY <2>1, <2>3, GrantedArePublishers, FS_RemoveElement
  <2>5. Count(p)' = Count(p) + 1 /\ Count(p) \in Nat
    <3>1. queue'[p] = Append(queue[p], item[c]) /\ queue[p] \in Seq(Tuples) /\ item[c] \in Tuples
      BY <1>4, <1>5 DEF TypeOK
    <3> QED BY <3>1, AppendProperties, LenProperties DEF Count
  <2> QED BY <2>4, <2>5, SurplusType, GrantedArePublishers DEF Fits, FlowGraphAssumption
<1>6. CASE p # h
  <2>1. Count(p)' = Count(p) /\ Count(p) \in Nat
    BY <1>4, <1>6 DEF Count, TypeOK
  <2>2. Granted(p)' \subseteq Granted(p)
    BY <1>1, <1>2, <1>6 DEF Granted
  <2> QED BY <2>1, <2>2, QuietPort
<1> QED BY <1>5, <1>6

\* An announcement: the reservations of the rest of the push stay.
LEMMA WrittenFits ==
  ASSUME FlowGraphAssumption, TypeOK, CallShape, Pushing, TypeOK', Pushing',
         NEW c \in Operators, AnnounceWritten(c), \A p \in InPorts : Fits(p)
  PROVE  \A p \in InPorts : Fits(p)'
<1>1. /\ pc[c] = "written" /\ todo'[c] = Tail(todo[c]) /\ UNCHANGED queue
      /\ pc'[c] \in {"preempt", "deliver"}
      /\ \A u \in Operators \ {c} : pc'[u] = pc[u] /\ todo'[u] = todo[u]
  BY DEF AnnounceWritten, At, Goto, portVars, TypeOK
<1>2. \A j \in DOMAIN Tail(todo[c]) :
        j + 1 \in DOMAIN todo[c] /\ j + 1 > 1 /\ Tail(todo[c])[j] = todo[c][j + 1]
  <2>1. todo[c] \in Seq(InPorts) /\ todo[c] # <<>>
    BY <1>1 DEF TypeOK, CallShape
  <2> QED BY <2>1
<1> SUFFICES ASSUME NEW p \in InPorts PROVE Fits(p)'
  OBVIOUS
<1>3. c \in Granted(p)' => c \in Granted(p)
  BY <1>1, <1>2 DEF Granted
<1>4. Granted(p)' \subseteq Granted(p)
  BY <1>1, <1>3 DEF Granted
<1>5. Count(p)' = Count(p) /\ Count(p) \in Nat
  BY <1>1 DEF Count, TypeOK
<1> QED BY <1>4, <1>5, QuietPort

\* Whoever is in the middle of a push serves no port twice.
NoRepetition ==
  \A o \in Operators :
    pc[o] \in {"offer", "writeBlock", "writeYield", "deliver", "written"} => Once(todo[o])

LEMMA NextRepetition ==
  ASSUME FlowGraphAssumption, ConnectedOnce, TypeOK, CallShape, NoRepetition, [Next]_vars
  PROVE  NoRepetition'
<1> USE DEF At, Goto, portVars, callVars
<1>1. ASSUME NEW t \in Threads, ThreadStep(t) \/ SpuriousWakeUp(t) PROVE NoRepetition'
  BY <1>1 DEF ThreadStep, SpuriousWakeUp, GetThreadWork, WakeUp, Work, Enter, Leave, ResumeAt,
              YieldPoints, NoRepetition, Once, TypeOK
<1>2. ASSUME NEW c \in Operators, CallStep(c) PROVE NoRepetition'
  <2>1. CASE AnnounceWritten(c)
    <3>1. Once(Tail(todo[c]))
      <4>1. todo[c] \in Seq(InPorts) /\ todo[c] # <<>> /\ Once(todo[c])
        BY <2>1 DEF AnnounceWritten, TypeOK, CallShape, NoRepetition
      <4> QED BY <4>1 DEF Once
    <3> QED BY <2>1, <3>1 DEF AnnounceWritten, NoRepetition, TypeOK
  <2>2. CASE ~AnnounceWritten(c)
    BY <1>2, <2>2 DEF CallStep, WaitReturns, WaitMustBlock, BlockOnRead, Offer, Deliver,
       BlockOnWrite, CheckPreemption, AnnounceRead, Complete, StopScheduler, NoRepetition, TypeOK
  <2> QED BY <2>1, <2>2
<1>3. ASSUME NEW c \in Operators, CodeStep(c) PROVE NoRepetition'
  BY <1>3 DEF CodeStep, CallWait, CallPush, CallPop, CallReturn, NoRepetition, ConnectedOnce,
              OutPortsOf, TypeOK
<1>4. CASE RequestShutdown \/ AllCompleted \/ Join \/ UNCHANGED vars
  BY <1>4 DEF RequestShutdown, AllCompleted, Join, vars, NoRepetition
<1> QED BY <1>1, <1>2, <1>3, <1>4 DEF Next, RuntimeStep, Terminated

\* Until the shutdown every step keeps room for the reservations.
LEMMA NextFits ==
  ASSUME FlowGraphAssumption, Inv, Inv', NoRepetition, ~shutdown, [Next]_vars,
         \A p \in InPorts : Fits(p)
  PROVE  \A p \in InPorts : Fits(p)'
<1> USE DEF Inv, At, Goto, portVars, callVars
<1> DEFINE Shorter == \A p \in InPorts : Count(p)' <= Count(p)
           Same == \A u \in Operators : pc'[u] \in {"deliver", "written"} =>
                                          pc'[u] = pc[u] /\ todo'[u] = todo[u]
<1>1. queue' = queue => Shorter
  BY DEF Count, TypeOK
<1>2. ASSUME NEW t \in Threads, ThreadStep(t) \/ SpuriousWakeUp(t) PROVE queue' = queue /\ Same
  BY <1>2 DEF ThreadStep, SpuriousWakeUp, GetThreadWork, WakeUp, Work, Enter, Leave, ResumeAt,
              YieldPoints, TypeOK
<1>3. ASSUME NEW c \in Operators, CallStep(c),
             ~(Offer(c) \/ Deliver(c) \/ AnnounceWritten(c))
      PROVE  queue' = queue /\ Same
  BY <1>3 DEF CallStep, WaitReturns, WaitMustBlock, BlockOnRead, BlockOnWrite, CheckPreemption,
              AnnounceRead, Complete, StopScheduler, TypeOK
<1>4. ASSUME NEW c \in Operators, CodeStep(c) PROVE Shorter /\ Same
  <2>1. Same
    BY <1>4 DEF CodeStep, CallWait, CallPush, CallPop, CallReturn, TypeOK
  <2>2. ASSUME NEW r \in InPorts, CallPop(c, r), NEW p \in InPorts PROVE Count(p)' <= Count(p)
    <3>1. CASE r = p
      BY <2>2, <3>1, HeadTailProperties DEF CallPop, Count, TypeOK
    <3>2. CASE r # p
      BY <2>2, <3>2 DEF CallPop, Count, TypeOK
    <3> QED BY <3>1, <3>2
  <2>3. queue' = queue \/ \E r \in InPorts : CallPop(c, r)
    BY <1>4 DEF CodeStep, CallWait, CallPush, CallReturn, InPortsOf
  <2> QED BY <1>1, <2>1, <2>2, <2>3
<1>5. CASE RequestShutdown \/ AllCompleted \/ Join \/ UNCHANGED vars
  <2>1. queue' = queue /\ Same
    BY <1>5 DEF RequestShutdown, AllCompleted, Join, vars
  <2> QED BY <1>1, <2>1, QuietPorts
<1>6. ASSUME NEW c \in Operators, Deliver(c) PROVE \A p \in InPorts : Fits(p)'
  <2>1. Once(todo[c])
    BY <1>6 DEF Deliver, NoRepetition
  <2> QED BY <1>6, <2>1, DeliverFits
<1> QED BY <1>1, <1>2, <1>3, <1>4, <1>5, <1>6, OfferFits, WrittenFits, QuietPorts
        DEF Next, RuntimeStep, Terminated

LEMMA ShutdownIsFinal ==
  ASSUME [Next]_vars, shutdown
  PROVE  shutdown'
<1> USE DEF portVars
<1>1. ASSUME NEW t \in Threads, ThreadStep(t) \/ SpuriousWakeUp(t) PROVE shutdown'
  BY <1>1 DEF ThreadStep, SpuriousWakeUp, GetThreadWork, WakeUp, Work, Enter, Leave
<1>2. ASSUME NEW c \in Operators, CallStep(c) \/ CodeStep(c) PROVE shutdown'
  BY <1>2 DEF CallStep, CodeStep, WaitReturns, WaitMustBlock, BlockOnRead, Offer, Deliver,
     AnnounceWritten, BlockOnWrite, CheckPreemption, AnnounceRead, Complete, StopScheduler,
     CallWait, CallPush, CallPop, CallReturn
<1>3. CASE RequestShutdown \/ AllCompleted \/ Join \/ UNCHANGED vars
  BY <1>3 DEF RequestShutdown, AllCompleted, Join, vars
<1> QED BY <1>1, <1>2, <1>3 DEF Next, RuntimeStep, Terminated

\* Room that a push has found stays reserved for it until it has used it, whoever
\* else pushes to the port, if no output port is connected to a port twice.
THEOREM ReservationsAreKept ==
  ASSUME ConnectedOnce
  PROVE  Spec => []Reservations
<1>1. Inv => (Reservations <=> NoRepetition /\ (~shutdown => \A p \in InPorts : Fits(p)))
  BY DEF Reservations, NoRepetition, Fits
<1>2. ASSUME Init, Inv PROVE Reservations
  <2>1. NoRepetition
    BY <1>2 DEF Init, NoRepetition
  <2>2. ASSUME NEW p \in InPorts PROVE Fits(p)
    <3>1. Count(p) = 0 /\ Granted(p) = {}
      BY <1>2 DEF Init, Count, Granted
    <3> QED BY <1>2, <3>1, FS_EmptySet, SurplusType, FlowGraphAssumption
            DEF Fits, Inv, FlowGraphAssumption
  <2> QED BY <1>1, <1>2, <2>1, <2>2
<1>3. ASSUME Inv, Inv', Reservations, [Next]_vars PROVE Reservations'
  <2>1. NoRepetition'
    BY <1>1, <1>3, NextRepetition, FlowGraphAssumption DEF Inv
  <2>2. ~shutdown' => \A p \in InPorts : Fits(p)'
    BY <1>1, <1>3, NextFits, ShutdownIsFinal, FlowGraphAssumption
  <2> QED BY <2>1, <2>2 DEF Reservations, NoRepetition, Fits
<1> QED BY <1>2, <1>3, Invariance, PTL DEF Spec

\* Until a shutdown is requested a queue exceeds maxQueueSize_ by less than one
\* tuple per publisher.
THEOREM QueuesAreBounded ==
  ASSUME ConnectedOnce
  PROVE  Spec => []QueueBounded
<1>1. Inv /\ Reservations => QueueBounded
  <2> SUFFICES ASSUME Inv, Reservations, ~shutdown, NEW p \in InPorts
               PROVE  Count(p) <= MaxQueueSize + Surplus(p)
    BY DEF QueueBounded
  <2>1. Cardinality(Granted(p)) \in Nat /\ Count(p) \in Nat /\ Surplus(p) \in Nat
    BY FlowGraphAssumption, GrantedArePublishers, SurplusType DEF Inv, Count, TypeOK
  <2> QED BY <2>1, FlowGraphAssumption DEF Reservations, FlowGraphAssumption
<1> QED BY <1>1, ReservationsAreKept, Invariance, PTL
=============================================================================
