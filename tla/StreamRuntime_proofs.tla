----------------------- MODULE StreamRuntime_proofs ------------------------
(***************************************************************************)
(* Proofs about StreamRuntime, for every flow graph, every number of       *)
(* threads, every queue limit and every operator code.                     *)
(***************************************************************************)
EXTENDS StreamRuntime, SequenceTheorems, TLAPS

-----------------------------------------------------------------------------
(***************************************************************************)
(* Types.                                                                  *)
(***************************************************************************)

\* updateOperatorState keeps the scheduler's tables well typed.
LEMMA UpdateTypes ==
  ASSUME SchedTypeOK,
         NEW next \in [Operators -> OperatorStates],
         NEW thresh \in [InPorts -> Nat],
         UpdateOperators(next, thresh)
  PROVE  /\ opState' \in [Operators -> OperatorStates]
         /\ threshold' \in [InPorts -> Nat]
         /\ readBlocked' \subseteq InPorts
         /\ writeBlocked' \in [InPorts -> SUBSET Operators]
         /\ notified' \subseteq Threads
<1>1. opState' \in [Operators -> OperatorStates]
  BY DEF UpdateOperators, ReadIndexAfter, WriteIndexAfter, ThresholdsAfter, NotifiedAfter, Leaves, Enters
<1>2. threshold' \in [InPorts -> Nat]
  BY DEF UpdateOperators, ReadIndexAfter, WriteIndexAfter, ThresholdsAfter, NotifiedAfter, Leaves, Enters
<1>3. readBlocked' \subseteq InPorts
  BY DEF UpdateOperators, ReadIndexAfter, WriteIndexAfter, ThresholdsAfter, NotifiedAfter, Leaves, Enters
<1>4. writeBlocked' \in [InPorts -> SUBSET Operators]
  BY DEF UpdateOperators, ReadIndexAfter, WriteIndexAfter, ThresholdsAfter, NotifiedAfter, Leaves, Enters, SchedTypeOK
<1>5. notified' \subseteq Threads
  BY DEF UpdateOperators, ReadIndexAfter, WriteIndexAfter, ThresholdsAfter, NotifiedAfter, Leaves, Enters, SchedTypeOK
<1> QED BY <1>1, <1>2, <1>3, <1>4, <1>5

LEMMA MovedType ==
  ASSUME SchedTypeOK, NEW S, NEW s \in OperatorStates
  PROVE  Moved(S, s) \in [Operators -> OperatorStates]
BY DEF SchedTypeOK, Moved

LEMMA WithoutType ==
  ASSUME NEW s \in Seq(Threads), NEW t
  PROVE  Without(s, t) \in Seq(Threads)
<1>1. CASE InSeq(t, s)
  <2> DEFINE i == CHOOSE i \in DOMAIN s : s[i] = t
  <2>1. i \in 1..Len(s)
    BY <1>1 DEF InSeq
  <2>2. SubSeq(s, 1, i - 1) \in Seq(Threads) /\ SubSeq(s, i + 1, Len(s)) \in Seq(Threads)
    <3>1. \A k \in 1..(i - 1) : s[k] \in Threads
      BY <2>1
    <3>2. \A k \in (i + 1)..Len(s) : s[k] \in Threads
      BY <2>1
    <3> HIDE DEF i
    <3> QED BY <2>1, <3>1, <3>2, SubSeqProperties
  <2> HIDE DEF i
  <2>3. SubSeq(s, 1, i - 1) \o SubSeq(s, i + 1, Len(s)) \in Seq(Threads)
    BY <2>2
  <2> QED BY <1>1, <2>3 DEF Without, i
<1>2. CASE ~InSeq(t, s)
  BY <1>2 DEF Without
<1> QED BY <1>1, <1>2

\* Every method of the scheduler keeps its tables well typed.
LEMMA ReadBlockTypes ==
  ASSUME SchedTypeOK, FlowGraphAssumption, RuntimeAssumption,
         NEW o \in Operators, NEW w \in Waits(o) \cup {NoWait},
         SkipReadBlock(o, w) \/ MarkOperatorAsReadBlocked(o, w)
  PROVE  SchedTypeOK'
<1>1. w.kind \in WaitKinds
  BY DEF Waits, NoWait, WaitKinds
<1>2. \A p \in DOMAIN w.spec : w.spec[p] \in Nat
  <2>1. CASE w \in Waits(o)
    BY <2>1 DEF Waits, RuntimeAssumption
  <2>2. CASE w = NoWait
    BY <2>2 DEF NoWait
  <2> QED BY <2>1, <2>2
<1>3. waitKind' \in [Operators -> WaitKinds]
  BY <1>1 DEF SkipReadBlock, MarkOperatorAsReadBlocked, RegisterReader, SchedTypeOK
<1>4. CASE SkipReadBlock(o, w)
  BY <1>3, <1>4 DEF SkipReadBlock, SchedTypeOK
<1>5. CASE MarkOperatorAsReadBlocked(o, w)
  <2> DEFINE thresh == [p \in InPorts |-> IF p \in DOMAIN w.spec THEN w.spec[p]
                                                                ELSE threshold[p]]
             next == Moved({o}, IF ReadReady(o, w.kind, thresh)
                                THEN "Ready" ELSE "ReadBlocked")
  <2>1. thresh \in [InPorts -> Nat]
    BY <1>2 DEF SchedTypeOK
  <2>2. next \in [Operators -> OperatorStates]
    BY MovedType DEF OperatorStates
  <2>3. UpdateOperators(next, thresh) /\ UNCHANGED <<waiting, stopped>>
    BY <1>5 DEF MarkOperatorAsReadBlocked, RegisterReader
  <2> HIDE DEF thresh, next
  <2> QED BY <1>3, <2>1, <2>2, <2>3, UpdateTypes DEF SchedTypeOK
<1> QED BY <1>4, <1>5

LEMMA MoveTypes ==
  ASSUME SchedTypeOK, NEW S, NEW s \in OperatorStates,
         UpdateOperators(Moved(S, s), threshold),
         UNCHANGED <<waitKind, waiting, stopped>>
  PROVE  SchedTypeOK'
<1> threshold \in [InPorts -> Nat] /\ Moved(S, s) \in [Operators -> OperatorStates]
  BY MovedType DEF SchedTypeOK
<1> QED BY UpdateTypes DEF SchedTypeOK

LEMMA WriteBlockTypes ==
  ASSUME SchedTypeOK, NEW o, NEW f,
         SkipWriteBlock(f) \/ MarkOperatorAsWriteBlocked(o, f)
  PROVE  SchedTypeOK'
<1>1. CASE SkipWriteBlock(f)
  BY <1>1 DEF SkipWriteBlock, schedVars, operVars, SchedTypeOK
<1>2. CASE MarkOperatorAsWriteBlocked(o, f)
  BY <1>2, MoveTypes DEF MarkOperatorAsWriteBlocked, OperatorStates
<1> QED BY <1>1, <1>2

LEMMA WrittenTypes ==
  ASSUME SchedTypeOK, NEW p, MarkInputPortAsWritten(p)
  PROVE  SchedTypeOK'
<1> DEFINE wakes == p \in readBlocked /\ ReadReady(Owner[p], waitKind[Owner[p]], threshold)
<1>1. CASE wakes
  BY <1>1, MoveTypes DEF MarkInputPortAsWritten, OperatorStates
<1>2. CASE ~wakes
  BY <1>2 DEF MarkInputPortAsWritten, SchedTypeOK
<1> QED BY <1>1, <1>2

LEMMA ReadTypes ==
  ASSUME SchedTypeOK, NEW p, MarkInputPortAsRead(p)
  PROVE  SchedTypeOK'
<1>1. opState' \in [Operators -> OperatorStates]
  BY MovedType DEF MarkInputPortAsRead, OperatorStates
<1> DEFINE next == Moved({o \in writeBlocked[p] : WriteReady(o)}, "Ready")
           left == WriteIndexAfter(next)
<1>2. left \in [InPorts -> SUBSET Operators]
  BY DEF WriteIndexAfter
<1>3. writeBlocked' \in [InPorts -> SUBSET Operators]
  <2>1. writeBlocked' = IF Full(p) THEN left ELSE [left EXCEPT ![p] = {}]
    BY DEF MarkInputPortAsRead
  <2> QED BY <1>2, <2>1
<1>4. notified' \subseteq Threads
  BY DEF MarkInputPortAsRead, NotifiedAfter, SchedTypeOK
<1> QED BY <1>1, <1>3, <1>4 DEF MarkInputPortAsRead, SchedTypeOK

LEMMA PreemptTypes ==
  ASSUME SchedTypeOK, NEW o, Preempt(o)
  PROVE  SchedTypeOK'
BY MoveTypes DEF Preempt, OperatorStates

LEMMA CompletedTypes ==
  ASSUME SchedTypeOK, NEW o, MarkOperatorAsCompleted(o)
  PROVE  SchedTypeOK'
<1> DEFINE S == ({d \in DownstreamOperators(o) : opState[d] = "ReadBlocked"} \cup
                 {u \in UpstreamOperators(o) : shutdown /\ opState[u] = "WriteBlocked"}) \ {o}
           next == [Moved(S, "Ready") EXCEPT ![o] = "Completed"]
<1>1. next \in [Operators -> OperatorStates] /\ threshold \in [InPorts -> Nat]
  <2> HIDE DEF S
  <2> Moved(S, "Ready") \in [Operators -> OperatorStates]
    BY MovedType DEF OperatorStates
  <2> QED BY DEF OperatorStates, SchedTypeOK
<1>2. UpdateOperators(next, threshold) /\ UNCHANGED <<waitKind, waiting, stopped>>
  BY DEF MarkOperatorAsCompleted
<1> HIDE DEF next
<1> QED BY <1>1, <1>2, UpdateTypes DEF SchedTypeOK

LEMMA StopTypes ==
  ASSUME SchedTypeOK, Stop
  PROVE  SchedTypeOK'
BY DEF Stop, operVars, SchedTypeOK

LEMMA WorkTypes ==
  ASSUME SchedTypeOK, NEW t \in Threads,
         (\E o \in Operators : Assign(t, o)) \/ Sleep(t) \/ Dismiss(t)
  PROVE  SchedTypeOK'
<1>1. Without(waiting, t) \in Seq(Threads) /\ <<t>> \o waiting \in Seq(Threads)
  BY WithoutType DEF SchedTypeOK
<1>2. ASSUME NEW o \in Operators, Assign(t, o) PROVE SchedTypeOK'
  BY <1>1, <1>2 DEF Assign, SchedTypeOK, OperatorStates
<1>3. CASE Sleep(t)
  BY <1>1, <1>3 DEF Sleep, operVars, SchedTypeOK
<1>4. CASE Dismiss(t)
  BY <1>1, <1>4 DEF Dismiss, operVars, SchedTypeOK
<1> QED BY <1>2, <1>3, <1>4

-----------------------------------------------------------------------------
(***************************************************************************)
(* Type correctness.  CallShape comes along: the head of todo must exist.  *)
(***************************************************************************)
LEMMA InitTypes ==
  ASSUME FlowGraphAssumption, RuntimeAssumption, Init
  PROVE  TypeOK /\ CallShape
<1>1. SchedTypeOK
  <2>1. waiting \in Seq(Threads)
    BY EmptySeq DEF Init, SchedInit
  <2>2. /\ opState \in [Operators -> OperatorStates]
        /\ waitKind \in [Operators -> WaitKinds]
    BY DEF Init, SchedInit, OperatorStates, WaitKinds
  <2>3. /\ threshold \in [InPorts -> Nat]
        /\ writeBlocked \in [InPorts -> SUBSET Operators]
    BY DEF Init, SchedInit
  <2> QED BY <2>1, <2>2, <2>3 DEF Init, SchedInit, SchedTypeOK
<1>2. (CHOOSE x \in Tuples : TRUE) \in Tuples
  BY DEF RuntimeAssumption
<1>3. queue \in [InPorts -> Seq(Tuples)] /\ todo \in [Operators -> Seq(InPorts)]
  BY EmptySeq DEF Init
<1>4. pc \in [Operators -> Locations] /\ CallShape
  BY DEF Init, CallShape, Locations
<1>5. full \in [Operators -> SUBSET InPorts]
  BY DEF Init
<1>6. threadPc \in [Threads -> ThreadLocations]
  BY DEF Init, ThreadLocations
<1> QED
  BY <1>1, <1>2, <1>3, <1>4, <1>5, <1>6 DEF Init, TypeOK

\* The threads' own steps.
LEMMA ThreadTypes ==
  ASSUME TypeOK, CallShape, FlowGraphAssumption,
         NEW t \in Threads, ThreadStep(t) \/ SpuriousWakeUp(t)
  PROVE  TypeOK' /\ CallShape'
<1>1. CASE Work(t)
  <2>1. SchedTypeOK'
    BY <1>1, WorkTypes DEF Work, TypeOK
  <2>2. /\ threadPc' \in [Threads -> ThreadLocations]
        /\ current' \in [Threads -> Operators \cup {NoOperator}]
    BY <1>1 DEF Work, TypeOK, ThreadLocations
  <2> QED BY <1>1, <2>1, <2>2 DEF Work, portVars, callVars, TypeOK, CallShape
<1>2. CASE Enter(t)
  BY <1>2 DEF Enter, TypeOK, CallShape, SchedTypeOK, ThreadLocations, portVars, schedVars,
              operVars, callVars
<1>3. CASE Leave(t)
  <2>1. pc' \in [Operators -> Locations]
    BY <1>3 DEF Leave, TypeOK, ResumeAt, Locations, YieldPoints
  <2>2. CallShape'
    <3> SUFFICES ASSUME NEW o \in Operators, pc'[o] \in {"deliver", "written", "popped"}
                 PROVE  todo'[o] # <<>>
      BY DEF CallShape
    <3>1. pc[o] = pc'[o]
      BY <1>3 DEF Leave, ResumeAt, YieldPoints, TypeOK
    <3> QED BY <1>3, <3>1 DEF Leave, callVars, CallShape
  <2>3. /\ threadPc' \in [Threads -> ThreadLocations]
        /\ current' \in [Threads -> Operators \cup {NoOperator}]
    BY <1>3 DEF Leave, TypeOK, ThreadLocations
  <2> QED BY <1>3, <2>1, <2>2, <2>3 DEF Leave, TypeOK, SchedTypeOK, portVars, schedVars,
                                        operVars, callVars
<1> QED BY <1>1, <1>2, <1>3 DEF ThreadStep, GetThreadWork, WakeUp, SpuriousWakeUp

\* What the runtime does inside a call.
LEMMA CallTypes ==
  ASSUME TypeOK, CallShape, FlowGraphAssumption, RuntimeAssumption,
         NEW o \in Operators, CallStep(o)
  PROVE  TypeOK' /\ CallShape'
<1> USE DEF At, Goto, portVars, threadVars, callVars, Locations, YieldPoints
<1>1. ASSUME NEW closed \in BOOLEAN, WaitReturns(o, closed) PROVE TypeOK' /\ CallShape'
  BY <1>1 DEF WaitReturns, TypeOK, CallShape, SchedTypeOK, schedVars, operVars
<1>2. CASE WaitMustBlock(o)
  BY <1>2 DEF WaitMustBlock, TypeOK, CallShape, SchedTypeOK, schedVars, operVars
<1>3. CASE BlockOnRead(o)
  <2>1. SchedTypeOK'
    BY <1>3, ReadBlockTypes DEF BlockOnRead, TypeOK
  <2> QED BY <1>3, <2>1 DEF BlockOnRead, TypeOK, CallShape
<1>4. CASE Offer(o)
  <2>1. full' \in [Operators -> SUBSET InPorts]
    <3>1. {todo[o][i] : i \in DOMAIN todo[o]} \subseteq InPorts
      BY DEF TypeOK
    <3>2. FullPorts(o) \subseteq InPorts
      BY <3>1 DEF FullPorts
    <3> QED BY <1>4, <3>2 DEF Offer, TypeOK
  <2> QED BY <1>4, <2>1 DEF Offer, TypeOK, CallShape, SchedTypeOK, schedVars, operVars
<1>5. CASE Deliver(o)
  <2>1. queue' \in [InPorts -> Seq(Tuples)]
    <3>1. Head(todo[o]) \in InPorts
      BY <1>5, HeadTailProperties DEF Deliver, CallShape, TypeOK
    <3>2. Append(queue[Head(todo[o])], item[o]) \in Seq(Tuples)
      BY <3>1, AppendProperties DEF TypeOK
    <3> QED BY <1>5, <3>1, <3>2 DEF Deliver, TypeOK
  <2> QED BY <1>5, <2>1 DEF Deliver, TypeOK, CallShape, SchedTypeOK, schedVars, operVars
<1>6. CASE AnnounceWritten(o)
  <2>1. SchedTypeOK'
    BY <1>6, WrittenTypes DEF AnnounceWritten, TypeOK
  <2>2. todo[o] # <<>> /\ Tail(todo[o]) \in Seq(InPorts)
    BY <1>6, HeadTailProperties DEF AnnounceWritten, CallShape, TypeOK
  <2> QED BY <1>6, <2>1, <2>2 DEF AnnounceWritten, TypeOK, CallShape
<1>7. CASE BlockOnWrite(o)
  <2>1. SchedTypeOK'
    BY <1>7, WriteBlockTypes DEF BlockOnWrite, TypeOK
  <2> QED BY <1>7, <2>1 DEF BlockOnWrite, TypeOK, CallShape
<1>8. CASE CheckPreemption(o)
  <2>1. SchedTypeOK'
    BY <1>8, PreemptTypes DEF CheckPreemption, TypeOK, SchedTypeOK, schedVars, operVars
  <2> QED BY <1>8, <2>1 DEF CheckPreemption, TypeOK, CallShape
<1>9. CASE AnnounceRead(o)
  <2>1. SchedTypeOK'
    BY <1>9, ReadTypes DEF AnnounceRead, TypeOK
  <2> QED BY <1>9, <2>1 DEF AnnounceRead, TypeOK, CallShape
<1>10. CASE Complete(o)
  <2>1. SchedTypeOK'
    BY <1>10, CompletedTypes DEF Complete, TypeOK
  <2> QED BY <1>10, <2>1 DEF Complete, TypeOK, CallShape
<1>11. CASE StopScheduler(o)
  <2>1. SchedTypeOK'
    BY <1>11, StopTypes DEF StopScheduler, TypeOK
  <2> QED BY <1>11, <2>1 DEF StopScheduler, TypeOK, CallShape
<1> QED
  BY <1>1, <1>2, <1>3, <1>4, <1>5, <1>6, <1>7, <1>8, <1>9, <1>10, <1>11 DEF CallStep

\* The calls of an operator's code.
LEMMA CodeTypes ==
  ASSUME TypeOK, CallShape, FlowGraphAssumption,
         NEW o \in Operators, CodeStep(o)
  PROVE  TypeOK' /\ CallShape'
<1> USE DEF At, Goto, portVars, threadVars, callVars, Locations, YieldPoints,
            SchedTypeOK, schedVars, operVars
<1>1. ASSUME NEW w \in Waits(o), CallWait(o, w) PROVE TypeOK' /\ CallShape'
  BY <1>1 DEF CallWait, TypeOK, CallShape
<1>2. ASSUME NEW q \in OutPortsOf(o), NEW x \in Tuples, CallPush(o, q, x)
      PROVE  TypeOK' /\ CallShape'
  <2>1. Subscribers[q] \in Seq(InPorts)
    BY DEF OutPortsOf, FlowGraphAssumption
  <2> QED BY <1>2, <2>1 DEF CallPush, TypeOK, CallShape
<1>3. ASSUME NEW p \in InPortsOf(o), CallPop(o, p) PROVE TypeOK' /\ CallShape'
  <2>1. p \in InPorts
    BY DEF InPortsOf
  <2>2. queue' \in [InPorts -> Seq(Tuples)]
    BY <1>3, <2>1, HeadTailProperties DEF CallPop, TypeOK
  <2>3. todo' \in [Operators -> Seq(InPorts)] /\ todo'[o] # <<>>
    BY <1>3, <2>1 DEF CallPop, TypeOK
  <2> QED BY <1>3, <2>2, <2>3 DEF CallPop, TypeOK, CallShape
<1>4. CASE CallReturn(o)
  BY <1>4 DEF CallReturn, TypeOK, CallShape
<1> QED BY <1>1, <1>2, <1>3, <1>4 DEF CodeStep

LEMMA NextTypes ==
  ASSUME TypeOK, CallShape, FlowGraphAssumption, RuntimeAssumption, [Next]_vars
  PROVE  TypeOK' /\ CallShape'
<1>1. CASE RequestShutdown \/ AllCompleted \/ Join
  BY <1>1 DEF RequestShutdown, AllCompleted, Join, TypeOK, CallShape, SchedTypeOK, portVars,
              schedVars, operVars, threadVars, callVars
<1>2. CASE UNCHANGED vars
  BY <1>2 DEF vars, TypeOK, CallShape, SchedTypeOK, portVars, schedVars, operVars, threadVars,
              callVars
<1> QED
  BY <1>1, <1>2, ThreadTypes, CallTypes, CodeTypes DEF Next, RuntimeStep, Terminated

\* TypeOK is an invariant: no step of the scheduler, of a thread or of a
\* runtime call puts into a variable what the code could not put there.
THEOREM TypeCorrect == Spec => []TypeOK
<1>1. Init => TypeOK /\ CallShape
  BY InitTypes, FlowGraphAssumption, RuntimeAssumption
<1>2. TypeOK /\ CallShape /\ [Next]_vars => (TypeOK /\ CallShape)'
  BY NextTypes, FlowGraphAssumption, RuntimeAssumption
<1> QED BY <1>1, <1>2, PTL DEF Spec

-----------------------------------------------------------------------------
(***************************************************************************)
(* Threads, coroutines and the scheduler's operator states.                *)
(***************************************************************************)

\* The only other operators a critical section of o moves are blocked ones,
\* which it makes ready.
OnlyWakes(o) ==
  \A u \in Operators \ {o} :
    \/ opState'[u] = opState[u]
    \/ opState[u] \in {"ReadBlocked", "WriteBlocked"} /\ opState'[u] = "Ready"

\* Away from its yield points a coroutine is on one thread and on no other.
LEMMA SoleThread ==
  ASSUME TypeOK, Binding, NoOperator \notin Operators,
         NEW o \in Operators, Executing(o), pc[o] \notin YieldPoints
  PROVE  \E t \in Threads : /\ threadPc[t] = "inside" /\ current[t] = o
                            /\ \A u \in Threads : current[u] = o => u = t
BY DEF Executing, Binding, OneResumption, TypeOK

\* A step of a coroutine keeps Binding if the coroutine's place and its state
\* change together: nothing happens to the state short of a yield point, the
\* operator is handed back to the scheduler at one, and it ends Completed.
LEMMA CoroutineStepBinding ==
  ASSUME TypeOK, Binding, NoOperator \notin Operators,
         NEW o \in Operators, Executing(o), pc[o] \notin YieldPoints \cup {"done"},
         NEW l \in Locations, pc' = [pc EXCEPT ![o] = l],
         UNCHANGED threadVars,
         \/ /\ l \notin YieldPoints \cup {"stop", "done"} /\ pc[o] # "stop"
            /\ opState'[o] = opState[o]
         \/ /\ l \in YieldPoints /\ pc[o] # "stop"
            /\ opState'[o] \in {"Ready", "ReadBlocked", "WriteBlocked"}
         \/ /\ l \in {"stop", "done"}
            /\ opState'[o] = "Completed",
         OnlyWakes(o)
  PROVE  Binding'
<1> USE DEF threadVars
<1>1. PICK t \in Threads : /\ threadPc[t] = "inside" /\ current[t] = o
                           /\ \A u \in Threads : current[u] = o => u = t
  BY SoleThread
<1>2. \A u \in Operators \ {o} : pc'[u] = pc[u]
  BY DEF TypeOK
<1>3. pc'[o] = l
  BY DEF TypeOK
<1>4. (\A v \in Threads :
         current[v] \in Operators <=> threadPc[v] \in {"assigned", "inside"})'
  BY DEF Binding
<1>5. OneResumption'
  BY <1>1, <1>2 DEF OneResumption, Binding, TypeOK
<1>6. RunningIsCarried'
  <2> SUFFICES ASSUME NEW u \in Operators
               PROVE  opState'[u] = "Running" <=>
                        \E v \in Threads :
                          /\ current[v] = u
                          /\ \/ threadPc[v] = "assigned"
                             \/ /\ threadPc[v] = "inside"
                                /\ pc'[u] \notin YieldPoints \cup {"stop", "done"}
    BY DEF RunningIsCarried
  <2>1. CASE u = o
    <3>1. opState[o] = "Running" \/ pc[o] = "stop"
      BY <1>1 DEF Binding, RunningIsCarried
    <3> QED BY <1>1, <1>3, <2>1, <3>1
  <2>2. CASE u # o
    <3>1. opState'[u] = "Running" <=> opState[u] = "Running"
      BY <2>2 DEF OnlyWakes
    <3> QED BY <1>2, <2>2, <3>1 DEF Binding, RunningIsCarried
  <2> QED BY <2>1, <2>2
<1>7. (\A u \in Operators : pc[u] \in YieldPoints => Executing(u))'
  BY <1>1, <1>2 DEF Binding, Executing
<1>8. (\A u \in Operators : opState[u] = "Completed" <=> pc[u] \in {"stop", "done"})'
  <2> SUFFICES ASSUME NEW u \in Operators
               PROVE  opState'[u] = "Completed" <=> pc'[u] \in {"stop", "done"}
    OBVIOUS
  <2>1. CASE u = o
    <3>1. CASE l \in {"stop", "done"}
      BY <1>3, <2>1, <3>1 DEF YieldPoints
    <3>2. CASE l \notin {"stop", "done"}
      <4>1. opState[o] # "Completed"
        BY <3>2 DEF Binding
      <4> QED BY <1>3, <2>1, <3>2, <4>1
    <3> QED BY <3>1, <3>2
  <2>2. CASE u # o
    BY <1>2, <2>2 DEF OnlyWakes, Binding
  <2> QED BY <2>1, <2>2
<1> QED BY <1>4, <1>5, <1>6, <1>7, <1>8 DEF Binding

\* updateOperatorState keeps the indexes in step with the states.
LEMMA UpdateRegistration ==
  ASSUME TypeOK, Registration, FlowGraphAssumption,
         NEW next \in [Operators -> OperatorStates], NEW thresh,
         UpdateOperators(next, thresh)
  PROVE  Registration'
<1>1. ASSUME NEW p \in readBlocked' PROVE opState'[Owner[p]] = "ReadBlocked"
  BY <1>1 DEF UpdateOperators, ReadIndexAfter, WriteIndexAfter, ThresholdsAfter, NotifiedAfter, Leaves, Enters, Registration, FlowGraphAssumption
<1>2. ASSUME NEW p \in InPorts, NEW o \in writeBlocked'[p] PROVE opState'[o] = "WriteBlocked"
  BY <1>2 DEF UpdateOperators, ReadIndexAfter, WriteIndexAfter, ThresholdsAfter, NotifiedAfter, Leaves, Enters, Registration, TypeOK, SchedTypeOK
<1> QED BY <1>1, <1>2 DEF Registration

LEMMA MovedRegistration ==
  ASSUME TypeOK, Registration, FlowGraphAssumption,
         NEW S, NEW s \in OperatorStates, NEW thresh,
         UpdateOperators(Moved(S, s), thresh)
  PROVE  Registration'
BY MovedType, UpdateRegistration DEF TypeOK

\* A running coroutine that is not yielding is Running for the scheduler.
LEMMA ExecutingIsRunning ==
  ASSUME TypeOK, Binding, NEW o \in Operators,
         Executing(o), pc[o] \notin YieldPoints \cup {"stop", "done"}
  PROVE  opState[o] = "Running"
BY DEF Executing, Binding, RunningIsCarried

\* What each method does to the states of the operators, and to the indexes.
LEMMA ReadBlockEffect ==
  ASSUME TypeOK, Registration, FlowGraphAssumption, NEW o \in Operators, NEW w,
         MarkOperatorAsReadBlocked(o, w)
  PROVE  Registration' /\ OnlyWakes(o) /\ opState'[o] \in {"Ready", "ReadBlocked"}
<1> DEFINE thresh == [p \in InPorts |-> IF p \in DOMAIN w.spec THEN w.spec[p]
                                                              ELSE threshold[p]]
           s == IF ReadReady(o, w.kind, thresh) THEN "Ready" ELSE "ReadBlocked"
<1>1. UpdateOperators(Moved({o}, s), thresh)
  BY DEF MarkOperatorAsReadBlocked, RegisterReader
<1>2. s \in {"Ready", "ReadBlocked"}
  OBVIOUS
<1> HIDE DEF s, thresh
<1>3. Registration'
  BY <1>1, <1>2, MovedRegistration DEF OperatorStates
<1> QED BY <1>1, <1>2, <1>3 DEF UpdateOperators, ReadIndexAfter, WriteIndexAfter, ThresholdsAfter, NotifiedAfter, Leaves, Enters, Moved, OnlyWakes

LEMMA WriteBlockEffect ==
  ASSUME TypeOK, Registration, FlowGraphAssumption, NEW o \in Operators, NEW f,
         MarkOperatorAsWriteBlocked(o, f)
  PROVE  Registration' /\ OnlyWakes(o) /\ opState'[o] \in {"Ready", "WriteBlocked"}
<1> DEFINE s == IF WriteReady(o) THEN "Ready" ELSE "WriteBlocked"
<1>1. UpdateOperators(Moved({o}, s), threshold)
  BY DEF MarkOperatorAsWriteBlocked
<1>2. s \in {"Ready", "WriteBlocked"}
  OBVIOUS
<1> HIDE DEF s
<1>3. Registration'
  BY <1>1, <1>2, MovedRegistration DEF OperatorStates
<1> QED BY <1>1, <1>2, <1>3 DEF UpdateOperators, ReadIndexAfter, WriteIndexAfter, ThresholdsAfter, NotifiedAfter, Leaves, Enters, Moved, OnlyWakes

LEMMA PreemptEffect ==
  ASSUME TypeOK, Registration, FlowGraphAssumption, NEW o \in Operators, Preempt(o)
  PROVE  Registration' /\ OnlyWakes(o) /\ opState'[o] = "Ready"
<1>1. Registration'
  BY MovedRegistration DEF Preempt, OperatorStates
<1> QED BY <1>1 DEF Preempt, UpdateOperators, ReadIndexAfter, WriteIndexAfter, ThresholdsAfter, NotifiedAfter, Leaves, Enters, Moved, OnlyWakes

LEMMA WrittenEffect ==
  ASSUME TypeOK, Registration, FlowGraphAssumption, NEW o \in Operators, NEW p \in InPorts,
         opState[o] = "Running", MarkInputPortAsWritten(p)
  PROVE  Registration' /\ OnlyWakes(o) /\ opState'[o] = opState[o]
<1> DEFINE wakes == p \in readBlocked /\ ReadReady(Owner[p], waitKind[Owner[p]], threshold)
<1>1. CASE wakes
  <2>1. UpdateOperators(Moved({Owner[p]}, "Ready"), threshold)
    BY <1>1 DEF MarkInputPortAsWritten
  <2>2. opState[Owner[p]] = "ReadBlocked"
    BY <1>1 DEF Registration
  <2>3. Registration'
    BY <2>1, MovedRegistration DEF OperatorStates
  <2> QED BY <2>1, <2>2, <2>3 DEF UpdateOperators, ReadIndexAfter, WriteIndexAfter, ThresholdsAfter, NotifiedAfter, Leaves, Enters, Moved, OnlyWakes
<1>2. CASE ~wakes
  BY <1>2 DEF MarkInputPortAsWritten, Registration, OnlyWakes
<1> QED BY <1>1, <1>2

LEMMA ReadEffect ==
  ASSUME TypeOK, Registration, FlowGraphAssumption, NEW o \in Operators, NEW p \in InPorts,
         opState[o] = "Running", MarkInputPortAsRead(p)
  PROVE  Registration' /\ OnlyWakes(o) /\ opState'[o] = opState[o]
<1> DEFINE woken == {u \in writeBlocked[p] : WriteReady(u)}
<1>1. \A u \in woken : opState[u] = "WriteBlocked"
  BY DEF Registration
<1>2. opState' = Moved(woken, "Ready")
  BY DEF MarkInputPortAsRead
<1>3. \A x \in InPorts : \A u \in writeBlocked'[x] : u \in writeBlocked[x] /\ u \notin woken
  <2> DEFINE left == WriteIndexAfter(Moved(woken, "Ready"))
  <2>1. writeBlocked' = IF Full(p) THEN left ELSE [left EXCEPT ![p] = {}]
    BY DEF MarkInputPortAsRead
  <2>2. \A x \in InPorts : \A u \in left[x] : u \in writeBlocked[x] /\ u \notin woken
    <3> SUFFICES ASSUME NEW x \in InPorts, NEW u \in left[x]
                 PROVE  u \in writeBlocked[x] /\ u \notin woken
      OBVIOUS
    <3>1. u \in Operators /\ ~Enters(u, Moved(woken, "Ready"), "WriteBlocked")
      BY DEF WriteIndexAfter, Moved, Enters
    <3>2. u \in writeBlocked[x] /\ ~Leaves(u, Moved(woken, "Ready"), "WriteBlocked")
      BY <3>1 DEF WriteIndexAfter
    <3>3. opState[u] = "WriteBlocked"
      BY <3>2 DEF Registration
    <3> QED BY <3>1, <3>2, <3>3 DEF Leaves, Moved
  <2>3. left = [x \in InPorts |-> left[x]]
    BY DEF WriteIndexAfter
  <2> HIDE DEF left
  <2> QED BY <2>1, <2>2, <2>3
<1> HIDE DEF woken
<1>4. \A q \in readBlocked' : opState'[Owner[q]] = "ReadBlocked"
  BY <1>1, <1>2, SMTT(30)
     DEF MarkInputPortAsRead, Registration, Moved, TypeOK, SchedTypeOK, FlowGraphAssumption
<1>5. \A x \in InPorts : \A u \in writeBlocked'[x] : opState'[u] = "WriteBlocked"
  BY <1>2, <1>3 DEF Registration, Moved, TypeOK, SchedTypeOK
<1> QED BY <1>1, <1>2, <1>4, <1>5 DEF Registration, Moved, OnlyWakes

LEMMA CompletedEffect ==
  ASSUME TypeOK, Registration, FlowGraphAssumption, NEW o \in Operators,
         MarkOperatorAsCompleted(o)
  PROVE  Registration' /\ OnlyWakes(o) /\ opState'[o] = "Completed"
<1> DEFINE S == ({d \in DownstreamOperators(o) : opState[d] = "ReadBlocked"} \cup
                 {u \in UpstreamOperators(o) : shutdown /\ opState[u] = "WriteBlocked"}) \ {o}
           next == [Moved(S, "Ready") EXCEPT ![o] = "Completed"]
<1>1. UpdateOperators(next, threshold)
  BY DEF MarkOperatorAsCompleted
<1>2. \A u \in S : opState[u] \in {"ReadBlocked", "WriteBlocked"} /\ u # o
  OBVIOUS
<1> HIDE DEF S
<1>3. next \in [Operators -> OperatorStates]
  BY DEF Moved, OperatorStates, TypeOK, SchedTypeOK
<1>4. /\ next[o] = "Completed"
      /\ \A u \in Operators \ {o} : next[u] = IF u \in S THEN "Ready" ELSE opState[u]
  BY DEF Moved
<1> HIDE DEF next
<1>5. Registration'
  BY <1>1, <1>3, UpdateRegistration
<1> QED BY <1>1, <1>2, <1>4, <1>5 DEF UpdateOperators, ReadIndexAfter, WriteIndexAfter, ThresholdsAfter, NotifiedAfter, Leaves, Enters, OnlyWakes

\* No step of a coroutine inside a runtime call, nor of its code, disturbs
\* Binding or Registration: one application of CoroutineStepBinding each.
LEMMA CallBinding ==
  ASSUME TypeOK, CallShape, Binding, Registration, FlowGraphAssumption, RuntimeAssumption,
         NEW o \in Operators, CallStep(o)
  PROVE  Binding' /\ Registration'
<1> USE DEF At, Goto
<1> NoOperator \notin Operators
  BY DEF RuntimeAssumption
<1> DEFINE Same == opState' = opState /\ readBlocked' = readBlocked /\ writeBlocked' = writeBlocked
<1>0. ASSUME Same PROVE Registration' /\ OnlyWakes(o) /\ opState'[o] = opState[o]
  BY <1>0 DEF Registration, OnlyWakes
<1>1. ASSUME NEW closed \in BOOLEAN, WaitReturns(o, closed) PROVE Binding' /\ Registration'
  <2>1. Same
    BY <1>1 DEF WaitReturns, schedVars, operVars
  <2>2. \E l \in {"code", "preempt"} : pc' = [pc EXCEPT ![o] = l]
    BY <1>1 DEF WaitReturns
  <2> QED BY <1>0, <1>1, <2>1, <2>2, CoroutineStepBinding DEF WaitReturns, Locations, YieldPoints
<1>2. CASE WaitMustBlock(o)
  <2>1. Same
    BY <1>2 DEF WaitMustBlock, schedVars, operVars
  <2> QED BY <1>0, <1>2, <2>1, CoroutineStepBinding DEF WaitMustBlock, Locations, YieldPoints
<1>3. CASE BlockOnRead(o)
  <2>1. CASE SkipReadBlock(o, wait[o]) /\ Goto(o, "waitCheck")
    <3>1. Same
      BY <2>1 DEF SkipReadBlock
    <3> QED BY <1>0, <1>3, <2>1, <3>1, CoroutineStepBinding DEF BlockOnRead, Locations, YieldPoints
  <2>2. CASE MarkOperatorAsReadBlocked(o, wait[o]) /\ Goto(o, "readYield")
    BY <1>3, <2>2, ReadBlockEffect, CoroutineStepBinding DEF BlockOnRead, Locations, YieldPoints
  <2> QED BY <1>3, <2>1, <2>2 DEF BlockOnRead
<1>4. CASE Offer(o)
  <2>1. Same
    BY <1>4 DEF Offer, schedVars, operVars
  <2>2. \E l \in {"preempt", "deliver", "writeBlock"} : pc' = [pc EXCEPT ![o] = l]
    BY <1>4 DEF Offer
  <2> QED BY <1>0, <1>4, <2>1, <2>2, CoroutineStepBinding DEF Offer, Locations, YieldPoints
<1>5. CASE Deliver(o)
  <2>1. Same
    BY <1>5 DEF Deliver, schedVars, operVars
  <2> QED BY <1>0, <1>5, <2>1, CoroutineStepBinding DEF Deliver, Locations, YieldPoints
<1>6. CASE AnnounceWritten(o)
  <2>1. Head(todo[o]) \in InPorts
    BY <1>6, HeadTailProperties DEF AnnounceWritten, CallShape, TypeOK
  <2>2. opState[o] = "Running"
    BY <1>6, ExecutingIsRunning DEF AnnounceWritten, YieldPoints
  <2>3. Registration' /\ OnlyWakes(o) /\ opState'[o] = opState[o]
    BY <1>6, <2>1, <2>2, WrittenEffect DEF AnnounceWritten
  <2>4. \E l \in {"preempt", "deliver"} : pc' = [pc EXCEPT ![o] = l]
    BY <1>6 DEF AnnounceWritten
  <2> QED BY <1>6, <2>3, <2>4, CoroutineStepBinding DEF AnnounceWritten, Locations, YieldPoints
<1>7. CASE BlockOnWrite(o)
  <2>1. CASE SkipWriteBlock(full[o]) /\ Goto(o, "offer")
    <3>1. Same
      BY <2>1 DEF SkipWriteBlock, schedVars, operVars
    <3> QED BY <1>0, <1>7, <2>1, <3>1, CoroutineStepBinding DEF BlockOnWrite, Locations, YieldPoints
  <2>2. CASE MarkOperatorAsWriteBlocked(o, full[o]) /\ Goto(o, "writeYield")
    BY <1>7, <2>2, WriteBlockEffect, CoroutineStepBinding DEF BlockOnWrite, Locations, YieldPoints
  <2> QED BY <1>7, <2>1, <2>2 DEF BlockOnWrite
<1>8. CASE CheckPreemption(o)
  <2>1. CASE Goto(o, "code") /\ UNCHANGED schedVars
    <3>1. Same
      BY <2>1 DEF schedVars, operVars
    <3> QED BY <1>0, <1>8, <2>1, <3>1, CoroutineStepBinding DEF CheckPreemption, Locations, YieldPoints
  <2>2. CASE Goto(o, "preemptYield") /\ Preempt(o)
    BY <1>8, <2>2, PreemptEffect, CoroutineStepBinding DEF CheckPreemption, Locations, YieldPoints
  <2> QED BY <1>8, <2>1, <2>2 DEF CheckPreemption
<1>9. CASE AnnounceRead(o)
  <2>1. Head(todo[o]) \in InPorts
    BY <1>9, HeadTailProperties DEF AnnounceRead, CallShape, TypeOK
  <2>2. opState[o] = "Running"
    BY <1>9, ExecutingIsRunning DEF AnnounceRead, YieldPoints
  <2>3. Registration' /\ OnlyWakes(o) /\ opState'[o] = opState[o]
    BY <1>9, <2>1, <2>2, ReadEffect DEF AnnounceRead
  <2> QED BY <1>9, <2>3, CoroutineStepBinding DEF AnnounceRead, Locations, YieldPoints
<1>10. CASE Complete(o)
  <2>1. Registration' /\ OnlyWakes(o) /\ opState'[o] = "Completed"
    BY <1>10, CompletedEffect DEF Complete
  <2>2. \E l \in {"stop", "done"} : pc' = [pc EXCEPT ![o] = l]
    BY <1>10 DEF Complete
  <2> QED BY <1>10, <2>1, <2>2, CoroutineStepBinding DEF Complete, Locations, YieldPoints
<1>11. CASE StopScheduler(o)
  <2>1. Same
    BY <1>11 DEF StopScheduler, Stop, operVars
  <2>2. opState[o] = "Completed"
    BY <1>11 DEF StopScheduler, Binding
  <2> QED BY <1>0, <1>11, <2>1, <2>2, CoroutineStepBinding DEF StopScheduler, Locations, YieldPoints
<1> QED
  BY <1>1, <1>2, <1>3, <1>4, <1>5, <1>6, <1>7, <1>8, <1>9, <1>10, <1>11 DEF CallStep

LEMMA CodeBinding ==
  ASSUME TypeOK, Binding, Registration, RuntimeAssumption,
         NEW o \in Operators, CodeStep(o)
  PROVE  Binding' /\ Registration'
<1>1. \E l \in {"waitCheck", "offer", "popped", "complete"} : pc' = [pc EXCEPT ![o] = l]
  BY DEF CodeStep, CallWait, CallPush, CallPop, CallReturn, Goto
<1>2. pc[o] = "code" /\ Executing(o) /\ UNCHANGED threadVars /\ UNCHANGED schedVars
  BY DEF CodeStep, CallWait, CallPush, CallPop, CallReturn, At
<1>3. Registration' /\ OnlyWakes(o) /\ opState'[o] = opState[o]
  BY <1>2 DEF Registration, OnlyWakes, schedVars, operVars
<1> QED BY <1>1, <1>2, <1>3, CoroutineStepBinding DEF RuntimeAssumption, Locations, YieldPoints

\* A thread is given an operator: only a Ready one, so that any other thread
\* still bound to it is about to leave.
LEMMA AssignBinding ==
  ASSUME TypeOK, Binding, Registration, FlowGraphAssumption, RuntimeAssumption,
         NEW t \in Threads, NEW o \in Operators, threadPc[t] \in {"ask", "asleep"},
         Assign(t, o), current' = [current EXCEPT ![t] = o],
         threadPc' = [threadPc EXCEPT ![t] = "assigned"], pc' = pc
  PROVE  Binding' /\ Registration'
<1>1. /\ current[t] \notin Operators
      /\ current'[t] = o /\ threadPc'[t] = "assigned"
      /\ \A u \in Threads \ {t} : current'[u] = current[u] /\ threadPc'[u] = threadPc[u]
  BY DEF Binding, TypeOK
<1>2. /\ opState[o] = "Ready" /\ opState'[o] = "Running"
      /\ \A u \in Operators \ {o} : opState'[u] = opState[u]
  BY DEF Assign, TypeOK, SchedTypeOK
<1>3. \A u \in Threads : current[u] = o => threadPc[u] = "inside" /\ pc[o] \in YieldPoints
  <2> SUFFICES ASSUME NEW u \in Threads, current[u] = o
               PROVE  threadPc[u] = "inside" /\ pc[o] \in YieldPoints
    OBVIOUS
  <2>1. threadPc[u] \in {"assigned", "inside"}
    BY DEF Binding
  <2>2. pc[o] \notin {"stop", "done"}
    BY <1>2 DEF Binding
  <2> QED BY <1>2, <2>1, <2>2 DEF Binding, RunningIsCarried
<1>4. OneResumption'
  BY <1>1, <1>3 DEF Binding, OneResumption, RuntimeAssumption
<1>5. RunningIsCarried'
  BY <1>1, <1>2 DEF Binding, RunningIsCarried
<1>6. (\A u \in Operators : pc[u] \in YieldPoints => Executing(u))'
  BY <1>1 DEF Binding, Executing
<1>7. Registration'
  BY <1>2 DEF Assign, Registration, FlowGraphAssumption, TypeOK, SchedTypeOK
<1> QED BY <1>1, <1>2, <1>4, <1>5, <1>6, <1>7 DEF Binding

LEMMA ThreadBinding ==
  ASSUME TypeOK, Binding, Registration, FlowGraphAssumption, RuntimeAssumption,
         NEW t \in Threads, ThreadStep(t) \/ SpuriousWakeUp(t)
  PROVE  Binding' /\ Registration'
<1>1. CASE threadPc[t] \in {"ask", "asleep"} /\ Work(t)
  <2>1. CASE \E o \in Operators : Assign(t, o) /\ current' = [current EXCEPT ![t] = o]
                                 /\ threadPc' = [threadPc EXCEPT ![t] = "assigned"]
    BY <1>1, <2>1, AssignBinding DEF Work
  <2>2. CASE (Sleep(t) \/ Dismiss(t)) /\ UNCHANGED current /\ \E l \in {"asleep", "exited"} :
                                           threadPc' = [threadPc EXCEPT ![t] = l]
    <3>1. current[t] \notin Operators
      BY <1>1 DEF Binding
    <3>2. UNCHANGED <<opState, readBlocked, writeBlocked, pc, current>>
      BY <1>1, <2>2 DEF Sleep, Dismiss, operVars, Work
    <3>3. /\ threadPc'[t] \in {"asleep", "exited"}
          /\ \A u \in Threads \ {t} : threadPc'[u] = threadPc[u]
      BY <2>2 DEF TypeOK
    <3>4. OneResumption'
      <4> SUFFICES ASSUME NEW u \in Threads, NEW v \in Threads, u # v,
                          current[u] = current[v], current[u] # NoOperator
                   PROVE  threadPc'[u] # threadPc'[v] /\ pc[current[u]] \in YieldPoints
        BY <3>2 DEF OneResumption
      <4>1. u # t /\ v # t
        BY <3>1 DEF TypeOK
      <4> QED BY <3>3, <4>1 DEF Binding, OneResumption
    <3>5. RunningIsCarried'
      <4> SUFFICES ASSUME NEW o \in Operators
                   PROVE  opState[o] = "Running" <=>
                            \E v \in Threads :
                              /\ current[v] = o
                              /\ \/ threadPc'[v] = "assigned"
                                 \/ /\ threadPc'[v] = "inside"
                                    /\ pc[o] \notin YieldPoints \cup {"stop", "done"}
        BY <3>2 DEF RunningIsCarried
      <4>1. \A v \in Threads : current[v] = o => threadPc'[v] = threadPc[v]
        BY <3>1, <3>3
      <4>2. opState[o] = "Running" <=>
              \E v \in Threads :
                /\ current[v] = o
                /\ \/ threadPc[v] = "assigned"
                   \/ /\ threadPc[v] = "inside"
                      /\ pc[o] \notin YieldPoints \cup {"stop", "done"}
        BY DEF Binding, RunningIsCarried
      <4> QED BY <4>1, <4>2
    <3>6. (\A u \in Operators : pc[u] \in YieldPoints => Executing(u))'
      BY <3>1, <3>2, <3>3 DEF Binding, Executing
    <3> QED BY <3>1, <3>2, <3>3, <3>4, <3>5, <3>6 DEF Binding, Registration
  <2> QED BY <1>1, <2>1, <2>2 DEF Work
<1>2. CASE Enter(t)
  <2>1. /\ threadPc[t] = "assigned" /\ ~Executing(current[t])
        /\ UNCHANGED <<opState, readBlocked, writeBlocked, pc, current>>
    BY <1>2 DEF Enter, schedVars, operVars
  <2>2. /\ threadPc'[t] = "inside"
        /\ \A u \in Threads \ {t} : threadPc'[u] = threadPc[u]
    BY <1>2 DEF Enter, TypeOK
  <2>3. current[t] \in Operators
    BY <2>1 DEF Binding
  <2>4. \A u \in Threads \ {t} : current[u] # current[t]
    BY <2>1, <2>3 DEF Binding, OneResumption, Executing, RuntimeAssumption
  <2>5. pc[current[t]] \notin YieldPoints \cup {"stop", "done"}
    <3>1. opState[current[t]] = "Running"
      BY <2>1, <2>3 DEF Binding, RunningIsCarried
    <3> QED BY <2>1, <2>3, <3>1 DEF Binding
  <2>6. OneResumption'
    BY <2>1, <2>2, <2>4 DEF Binding, OneResumption
  <2>7. RunningIsCarried'
    <3> SUFFICES ASSUME NEW o \in Operators
                 PROVE  opState[o] = "Running" <=>
                          \E v \in Threads :
                            /\ current[v] = o
                            /\ \/ threadPc'[v] = "assigned"
                               \/ /\ threadPc'[v] = "inside"
                                  /\ pc[o] \notin YieldPoints \cup {"stop", "done"}
      BY <2>1 DEF RunningIsCarried
    <3>1. CASE o = current[t]
      BY <2>1, <2>2, <2>5, <3>1 DEF Binding, RunningIsCarried
    <3>2. CASE o # current[t]
      <4>1. \A v \in Threads : current[v] = o => threadPc'[v] = threadPc[v]
        BY <2>2, <3>2
      <4>2. opState[o] = "Running" <=>
              \E v \in Threads :
                /\ current[v] = o
                /\ \/ threadPc[v] = "assigned"
                   \/ /\ threadPc[v] = "inside"
                      /\ pc[o] \notin YieldPoints \cup {"stop", "done"}
        BY DEF Binding, RunningIsCarried
      <4> QED BY <4>1, <4>2
    <3> QED BY <3>1, <3>2
  <2>8. (\A u \in Operators : pc[u] \in YieldPoints => Executing(u))'
    BY <2>1, <2>2 DEF Binding, Executing
  <2> QED BY <2>1, <2>2, <2>3, <2>6, <2>7, <2>8 DEF Binding, Registration
<1>3. CASE Leave(t)
  <2> DEFINE o == current[t]
  <2>1. /\ threadPc[t] = "inside" /\ pc[o] \in YieldPoints \cup {"done"}
        /\ UNCHANGED <<opState, readBlocked, writeBlocked>>
    BY <1>3 DEF Leave, schedVars, operVars
  <2>2. o \in Operators
    BY <2>1 DEF Binding
  <2>3. /\ threadPc'[t] = "ask" /\ current'[t] = NoOperator
        /\ \A u \in Threads \ {t} : threadPc'[u] = threadPc[u] /\ current'[u] = current[u]
        /\ pc'[o] = ResumeAt(pc[o])
        /\ \A u \in Operators \ {o} : pc'[u] = pc[u]
    BY <1>3, <2>2 DEF Leave, TypeOK
  <2>4. /\ ResumeAt(pc[o]) \notin YieldPoints \cup {"stop"}
        /\ ResumeAt(pc[o]) = "done" <=> pc[o] = "done"
    BY <2>1 DEF ResumeAt, YieldPoints
  <2> HIDE DEF o
  <2>5. \A u \in Threads \ {t} : current[u] = o => threadPc[u] = "assigned"
    BY <2>1, <2>2 DEF Binding, OneResumption, RuntimeAssumption, o
  <2>6. OneResumption'
    <3> SUFFICES ASSUME NEW u \in Threads, NEW v \in Threads, u # v,
                        current'[u] = current'[v], current'[u] # NoOperator
                 PROVE  threadPc'[u] # threadPc'[v] /\ pc'[current'[u]] \in YieldPoints
      BY DEF OneResumption
    <3>1. u # t /\ v # t
      BY <2>3
    <3>2. current[u] # o
      BY <2>2, <2>3, <2>5, <3>1 DEF Binding, OneResumption, RuntimeAssumption
    <3>3. current[u] \in Operators
      BY <2>3, <3>1 DEF TypeOK
    <3> QED BY <2>3, <3>1, <3>2, <3>3 DEF Binding, OneResumption
  <2>7. RunningIsCarried'
    <3> SUFFICES ASSUME NEW u \in Operators
                 PROVE  opState'[u] = "Running" <=>
                          \E v \in Threads :
                            /\ current'[v] = u
                            /\ \/ threadPc'[v] = "assigned"
                               \/ /\ threadPc'[v] = "inside"
                                  /\ pc'[u] \notin YieldPoints \cup {"stop", "done"}
      BY DEF RunningIsCarried
    <3>1. CASE u = o
      <4>1. opState[o] = "Running" <=>
              \E v \in Threads \ {t} : current[v] = o /\ threadPc[v] = "assigned"
        <5>1. opState[o] = "Running" <=>
                \E v \in Threads :
                  /\ current[v] = o
                  /\ \/ threadPc[v] = "assigned"
                     \/ /\ threadPc[v] = "inside"
                        /\ pc[o] \notin YieldPoints \cup {"stop", "done"}
          BY <2>2 DEF Binding, RunningIsCarried
        <5>2. threadPc[t] # "assigned" /\ pc[o] \in YieldPoints \cup {"stop", "done"}
          BY <2>1
        <5>3. \A v \in Threads \ {t} : current[v] = o => threadPc[v] = "assigned"
          BY <2>5
        <5> QED BY <5>1, <5>2, <5>3
      <4>2. \A v \in Threads : current'[v] = o <=> v # t /\ current[v] = o
        BY <2>2, <2>3 DEF RuntimeAssumption
      <4> QED BY <2>1, <2>3, <2>5, <3>1, <4>1, <4>2
    <3>2. CASE u # o
      <4>1. pc'[u] = pc[u] /\ current[t] # u
        BY <2>3, <3>2 DEF o
      <4>2. opState[u] = "Running" <=>
              \E v \in Threads :
                /\ current[v] = u
                /\ \/ threadPc[v] = "assigned"
                   \/ /\ threadPc[v] = "inside"
                      /\ pc[u] \notin YieldPoints \cup {"stop", "done"}
        BY DEF Binding, RunningIsCarried
      <4>3. \A v \in Threads : current[v] = u \/ current'[v] = u => v # t
        BY <2>3, <4>1 DEF RuntimeAssumption
      <4> QED BY <2>1, <2>3, <4>1, <4>2, <4>3
    <3> QED BY <3>1, <3>2
  <2>8. (\A u \in Operators : pc[u] \in YieldPoints => Executing(u))'
    <3> SUFFICES ASSUME NEW u \in Operators, pc'[u] \in YieldPoints
                 PROVE  \E v \in Threads : threadPc'[v] = "inside" /\ current'[v] = u
      BY DEF Executing
    <3>1. u # o /\ pc[u] \in YieldPoints
      BY <2>3, <2>4
    <3>2. PICK v \in Threads : threadPc[v] = "inside" /\ current[v] = u
      BY <3>1 DEF Binding, Executing
    <3>3. v # t
      BY <3>1, <3>2 DEF o
    <3> QED BY <2>3, <3>2, <3>3
  <2>9. (\A u \in Operators : opState[u] = "Completed" <=> pc[u] \in {"stop", "done"})'
    <3> SUFFICES ASSUME NEW u \in Operators
                 PROVE  opState'[u] = "Completed" <=> pc'[u] \in {"stop", "done"}
      OBVIOUS
    <3>1. CASE u = o
      <4>1. pc'[u] \in {"stop", "done"} <=> pc[u] \in {"stop", "done"}
        BY <2>1, <2>3, <2>4, <3>1 DEF YieldPoints
      <4> QED BY <2>1, <4>1 DEF Binding
    <3>2. CASE u # o
      BY <2>1, <2>3, <3>2 DEF Binding
    <3> QED BY <3>1, <3>2
  <2>10. (\A u \in Threads :
            current[u] \in Operators <=> threadPc[u] \in {"assigned", "inside"})'
    BY <2>3 DEF Binding, RuntimeAssumption
  <2> QED BY <2>1, <2>6, <2>7, <2>8, <2>9, <2>10 DEF Binding, Registration
<1> QED BY <1>1, <1>2, <1>3 DEF ThreadStep, GetThreadWork, WakeUp, SpuriousWakeUp

-----------------------------------------------------------------------------
(***************************************************************************)
(* The index of blocked readers.                                           *)
(***************************************************************************)

\* Nothing a coroutine does short of an announcement of its own makes an
\* unannounced push announced.
LEMMA StillUnannounced ==
  ASSUME NEW c \in Operators, pc[c] # "written",
         \A u \in Operators \ {c} : pc'[u] = pc[u] /\ todo'[u] = todo[u],
         NEW p, WriteUnannounced(p)
  PROVE  WriteUnannounced(p)'
BY DEF WriteUnannounced

\* A reader none of whose ports, thresholds and entries changes.
LEMMA QuietReader ==
  ASSUME NEW o \in Operators, ReadIndexOf(o),
         waitKind'[o] = waitKind[o],
         \A p \in InPortsOf(o) : /\ threshold'[p] = threshold[p]
                                 /\ queue'[p] = queue[p]
                                 /\ p \in readBlocked' <=> p \in readBlocked
                                 /\ WriteUnannounced(p) => WriteUnannounced(p)'
  PROVE  ReadIndexOf(o)'
<1>1. \A p \in InPortsOf(o) : PortReadable(p, threshold)' <=> PortReadable(p, threshold)
  BY DEF PortReadable, Count
<1>2. (InPortsOf(o) \cap readBlocked)' = InPortsOf(o) \cap readBlocked
  BY DEF InPortsOf
<1>3. InPortsOf(o)' = InPortsOf(o)
  BY DEF InPortsOf
<1> QED BY <1>1, <1>2, <1>3 DEF ReadIndexOf

\* updateOperatorState does not touch the readers it leaves blocked.
LEMMA UpdateReader ==
  ASSUME NEW next, NEW thresh, UpdateOperators(next, thresh),
         NEW o \in Operators, opState[o] = "ReadBlocked", opState'[o] = "ReadBlocked"
  PROVE  \A p \in InPortsOf(o) : /\ threshold'[p] = thresh[p]
                                 /\ p \in readBlocked' <=> p \in readBlocked
BY DEF UpdateOperators, ReadIndexAfter, WriteIndexAfter, ThresholdsAfter, NotifiedAfter, Leaves, Enters, InPortsOf

\* An operator that enters ReadBlocked is registered under exactly the ports
\* that lack tuples.
LEMMA NewReader ==
  ASSUME TypeOK, Registration, FlowGraphAssumption,
         NEW next, NEW thresh \in [InPorts -> Nat], UpdateOperators(next, thresh),
         NEW o \in Operators, opState[o] # "ReadBlocked", opState'[o] = "ReadBlocked",
         UNCHANGED queue, ~ReadReady(o, waitKind'[o], thresh)
  PROVE  ReadIndexOf(o)'
<1>1. \A p \in InPortsOf(o) : /\ threshold'[p] = thresh[p]
                              /\ p \in readBlocked' <=> ~PortReadable(p, thresh)
  BY DEF UpdateOperators, ReadIndexAfter, WriteIndexAfter, ThresholdsAfter, NotifiedAfter, Leaves, Enters, InPortsOf, Registration
<1>2. \A p \in InPortsOf(o) : PortReadable(p, threshold)' <=> PortReadable(p, thresh)
  BY <1>1 DEF PortReadable, Count
<1>3. InPortsOf(o)' = InPortsOf(o)
  BY DEF InPortsOf
<1> QED BY <1>1, <1>2, <1>3 DEF ReadIndexOf, ReadReady

\* The code of an operator: it is Running, so it is no reader's port it pops.
LEMMA CodeReadIndex ==
  ASSUME TypeOK, Binding, ReadIndex, NEW c \in Operators, CodeStep(c)
  PROVE  ReadIndex'
<1>1. pc[c] = "code" /\ Executing(c) /\ UNCHANGED schedVars
  BY DEF CodeStep, CallWait, CallPush, CallPop, CallReturn, At
<1>2. opState[c] = "Running"
  BY <1>1, ExecutingIsRunning DEF YieldPoints
<1>3. \A u \in Operators \ {c} : pc'[u] = pc[u] /\ todo'[u] = todo[u]
  BY DEF CodeStep, CallWait, CallPush, CallPop, CallReturn, Goto, callVars, TypeOK
<1>4. \A p \in InPorts : Owner[p] # c => queue'[p] = queue[p]
  BY DEF CodeStep, CallWait, CallPush, CallPop, CallReturn, portVars, TypeOK, InPortsOf
<1> SUFFICES ASSUME NEW o \in Operators, opState'[o] = "ReadBlocked"
             PROVE  ReadIndexOf(o)'
  BY DEF ReadIndex
<1>5. opState[o] = "ReadBlocked" /\ o # c
  BY <1>1, <1>2 DEF schedVars, operVars
<1>6. \A p \in InPortsOf(o) : queue'[p] = queue[p]
  BY <1>4, <1>5 DEF InPortsOf
<1>7. \A p : WriteUnannounced(p) => WriteUnannounced(p)'
  BY <1>1, <1>3, StillUnannounced
<1> QED BY <1>1, <1>5, <1>6, <1>7, QuietReader DEF ReadIndex, schedVars, operVars

\* Threads: whoever is taken was Ready, and the rest is as it was.
LEMMA ThreadReadIndex ==
  ASSUME TypeOK, Binding, ReadIndex, NEW t \in Threads, ThreadStep(t) \/ SpuriousWakeUp(t)
  PROVE  ReadIndex'
<1>1. UNCHANGED <<queue, waitKind, threshold, readBlocked, todo>>
  BY DEF ThreadStep, SpuriousWakeUp, GetThreadWork, WakeUp, Work, Assign, Sleep, Dismiss, Enter,
         Leave, portVars, schedVars, operVars, callVars
<1>2. \A o \in Operators : opState'[o] = "ReadBlocked" => opState[o] = "ReadBlocked"
  BY DEF ThreadStep, SpuriousWakeUp, GetThreadWork, WakeUp, Work, Assign, Sleep, Dismiss, Enter,
         Leave, schedVars, operVars, TypeOK, SchedTypeOK
<1>3. \A u \in Operators : pc[u] = "written" => pc'[u] = pc[u]
  BY DEF ThreadStep, SpuriousWakeUp, GetThreadWork, WakeUp, Work, Enter, Leave, YieldPoints, TypeOK
<1>4. \A p : WriteUnannounced(p) => WriteUnannounced(p)'
  BY <1>1, <1>3 DEF WriteUnannounced
<1> QED BY <1>1, <1>2, <1>4, QuietReader DEF ReadIndex

\* A step inside a call that pushes nothing, announces no push and makes
\* nobody a reader.
LEMMA QuietCall ==
  ASSUME ReadIndex, NEW c \in Operators, pc[c] # "written", UNCHANGED queue,
         \A u \in Operators \ {c} : pc'[u] = pc[u] /\ todo'[u] = todo[u],
         \A o \in Operators : opState'[o] = "ReadBlocked" =>
           /\ opState[o] = "ReadBlocked" /\ waitKind'[o] = waitKind[o]
           /\ \A p \in InPortsOf(o) : /\ threshold'[p] = threshold[p]
                                      /\ p \in readBlocked' <=> p \in readBlocked
  PROVE  ReadIndex'
<1>1. \A p : WriteUnannounced(p) => WriteUnannounced(p)'
  BY StillUnannounced
<1> SUFFICES ASSUME NEW o \in Operators, opState'[o] = "ReadBlocked"
             PROVE  ReadIndexOf(o)'
  BY DEF ReadIndex
<1> QED BY <1>1, QuietReader DEF ReadIndex

\* The same when the step is an update of operator states that leaves no
\* operator ReadBlocked that was not so before.
LEMMA QuietUpdate ==
  ASSUME TypeOK, ReadIndex, NEW c \in Operators, pc[c] # "written", UNCHANGED <<queue, waitKind>>,
         \A u \in Operators \ {c} : pc'[u] = pc[u] /\ todo'[u] = todo[u],
         OnlyWakes(c), opState'[c] # "ReadBlocked",
         NEW next, UpdateOperators(next, threshold)
  PROVE  ReadIndex'
<1>1. ASSUME NEW o \in Operators, opState'[o] = "ReadBlocked"
      PROVE  opState[o] = "ReadBlocked"
  BY <1>1 DEF OnlyWakes
<1>2. ASSUME NEW o \in Operators, opState'[o] = "ReadBlocked"
      PROVE  \A p \in InPortsOf(o) : /\ threshold'[p] = threshold[p]
                                     /\ p \in readBlocked' <=> p \in readBlocked
  BY <1>1, <1>2, UpdateReader
<1> QED BY <1>1, <1>2, QuietCall

\* A push: the only port that becomes readable is the one now unannounced.
LEMMA DeliverReadIndex ==
  ASSUME TypeOK, CallShape, ReadIndex, NEW c \in Operators, Deliver(c)
  PROVE  ReadIndex'
<1> DEFINE h == Head(todo[c])
<1>1. pc[c] = "deliver" /\ pc'[c] = "written" /\ todo'[c] = todo[c] /\ todo[c] # <<>>
  BY DEF Deliver, At, Goto, callVars, CallShape, TypeOK
<1>2. \A u \in Operators \ {c} : pc'[u] = pc[u] /\ todo'[u] = todo[u]
  BY DEF Deliver, Goto, callVars, TypeOK
<1>3. \A p : p = h => WriteUnannounced(p)'
  BY <1>1 DEF WriteUnannounced
<1>4. \A p : WriteUnannounced(p) => WriteUnannounced(p)'
  BY <1>1, <1>2, StillUnannounced
<1>5. UNCHANGED <<opState, waitKind, threshold, readBlocked>>
  BY DEF Deliver, schedVars, operVars
<1>6. \A p \in InPorts : /\ p # h => queue'[p] = queue[p]
                         /\ PortReadable(p, threshold) => PortReadable(p, threshold)'
  <2> SUFFICES ASSUME NEW p \in InPorts
               PROVE  /\ p # h => queue'[p] = queue[p]
                      /\ PortReadable(p, threshold) => PortReadable(p, threshold)'
    OBVIOUS
  <2>1. CASE p # h
    BY <1>5, <2>1 DEF Deliver, PortReadable, Count, TypeOK
  <2>2. CASE p = h
    <3>1. queue'[p] = Append(queue[p], item[c])
      BY <2>2 DEF Deliver, TypeOK
    <3>2. Len(queue'[p]) = Len(queue[p]) + 1 /\ Len(queue[p]) \in Nat
      BY <3>1, AppendProperties, LenProperties DEF TypeOK
    <3>3. threshold[p] \in Nat
      BY DEF TypeOK, SchedTypeOK
    <3> QED BY <1>5, <2>2, <3>2, <3>3 DEF PortReadable, Count
  <2> QED BY <2>1, <2>2
<1> SUFFICES ASSUME NEW o \in Operators, opState'[o] = "ReadBlocked"
             PROVE  ReadIndexOf(o)'
  BY DEF ReadIndex
<1>7. ReadIndexOf(o)
  BY <1>5 DEF ReadIndex
<1>8. InPortsOf(o)' = InPortsOf(o)
  BY DEF InPortsOf
<1>9. ASSUME NEW p \in InPortsOf(o), p \in readBlocked, Len(queue'[p]) >= threshold[p]
      PROVE  WriteUnannounced(p)'
  <2>1. CASE p = h
    BY <1>3, <2>1
  <2>2. CASE p # h
    <3>1. PortReadable(p, threshold)
      BY <1>6, <1>9, <2>2 DEF PortReadable, Count, InPortsOf
    <3> QED BY <1>4, <1>7, <1>9, <3>1 DEF ReadIndexOf
  <2> QED BY <2>1, <2>2
<1>10. \A p \in InPortsOf(o) : p \in readBlocked \/ PortReadable(p, threshold)'
  BY <1>6, <1>7 DEF ReadIndexOf, InPortsOf
<1>11. (\A p \in InPortsOf(o) \cap readBlocked :
          PortReadable(p, threshold) => WriteUnannounced(p))'
  BY <1>5, <1>9, <1>8 DEF PortReadable, Count
<1> QED BY <1>5, <1>7, <1>8, <1>10, <1>11 DEF ReadIndexOf

\* An announcement: it wakes the reader, or it drops the port from the index
\* because the reader's condition lacks another port.
LEMMA AnnounceReadIndex ==
  ASSUME TypeOK, CallShape, Binding, Registration, ReadIndex, FlowGraphAssumption,
         NEW c \in Operators, AnnounceWritten(c)
  PROVE  ReadIndex'
<1> DEFINE h == Head(todo[c])
           wakes == h \in readBlocked /\ ReadReady(Owner[h], waitKind[Owner[h]], threshold)
<1>1. /\ MarkInputPortAsWritten(h) /\ UNCHANGED queue
      /\ \A u \in Operators \ {c} : pc'[u] = pc[u] /\ todo'[u] = todo[u]
      /\ pc[c] = "written" /\ todo[c] # <<>>
  BY DEF AnnounceWritten, At, Goto, portVars, CallShape, TypeOK
<1>2. h \in InPorts
  BY <1>1, HeadTailProperties DEF TypeOK
<1>3. \A p : p # h /\ WriteUnannounced(p) => WriteUnannounced(p)'
  BY <1>1 DEF WriteUnannounced
<1>4. waitKind' = waitKind
  BY <1>1 DEF MarkInputPortAsWritten
<1> HIDE DEF h
<1> SUFFICES ASSUME NEW o \in Operators, opState'[o] = "ReadBlocked"
             PROVE  ReadIndexOf(o)'
  BY DEF ReadIndex
<1>5. CASE wakes
  <2>1. UpdateOperators(Moved({Owner[h]}, "Ready"), threshold)
    BY <1>1, <1>5 DEF MarkInputPortAsWritten
  <2>2. opState[o] = "ReadBlocked" /\ o # Owner[h]
    BY <2>1 DEF UpdateOperators, ReadIndexAfter, WriteIndexAfter, ThresholdsAfter, NotifiedAfter, Leaves, Enters, Moved
  <2>3. \A p \in InPortsOf(o) : p # h
    BY <2>2 DEF InPortsOf
  <2> QED BY <1>1, <1>3, <1>4, <2>1, <2>2, <2>3, UpdateReader, QuietReader DEF ReadIndex
<1>6. CASE ~wakes
  <2>1. /\ UNCHANGED <<opState, threshold>>
        /\ readBlocked' = IF PortReadable(h, threshold) THEN readBlocked \ {h} ELSE readBlocked
    BY <1>1, <1>6 DEF MarkInputPortAsWritten
  <2>2. ReadIndexOf(o)
    BY <2>1 DEF ReadIndex
  <2>3. CASE o # Owner[h]
    <3>1. \A p \in InPortsOf(o) : p # h
      BY <2>3 DEF InPortsOf
    <3> QED BY <1>1, <1>3, <1>4, <2>1, <2>2, <3>1, QuietReader
  <2>4. CASE o = Owner[h]
    <3>1. \A p : PortReadable(p, threshold)' <=> PortReadable(p, threshold)
      BY <1>1, <2>1 DEF PortReadable, Count
    <3>2. \A p \in InPortsOf(o) \cap readBlocked' :
            PortReadable(p, threshold) => WriteUnannounced(p)'
      <4> SUFFICES ASSUME NEW p \in InPortsOf(o) \cap readBlocked', PortReadable(p, threshold)
                   PROVE  WriteUnannounced(p)'
        OBVIOUS
      <4>1. p # h /\ p \in readBlocked
        BY <2>1
      <4> QED BY <1>3, <2>2, <4>1 DEF ReadIndexOf
    <3>3. \A p \in InPortsOf(o) : p \in readBlocked' \/ PortReadable(p, threshold)
      BY <2>1, <2>2 DEF ReadIndexOf
    <3>4. IF waitKind[o] = "Disjunctive" THEN InPortsOf(o) \subseteq readBlocked'
                                         ELSE InPortsOf(o) \cap readBlocked' # {}
      <4>1. CASE ~PortReadable(h, threshold) \/ h \notin readBlocked
        <5>1. readBlocked' = readBlocked
          BY <2>1, <4>1
        <5> QED BY <2>2, <5>1 DEF ReadIndexOf
      <4>2. CASE PortReadable(h, threshold) /\ h \in readBlocked
        <5>1. ~ReadReady(o, waitKind[o], threshold) /\ h \in InPortsOf(o)
          BY <1>2, <1>6, <2>4, <4>2 DEF InPortsOf
        <5>2. waitKind[o] # "Disjunctive"
          BY <4>2, <5>1 DEF ReadReady
        <5>3. PICK p \in InPortsOf(o) : ~PortReadable(p, threshold)
          BY <5>1, <5>2 DEF ReadReady
        <5> QED BY <3>3, <5>2, <5>3
      <4> QED BY <4>1, <4>2
    <3>5. InPortsOf(o)' = InPortsOf(o)
      BY DEF InPortsOf
    <3> QED BY <1>4, <3>1, <3>2, <3>3, <3>4, <3>5 DEF ReadIndexOf
  <2> QED BY <2>3, <2>4
<1> QED BY <1>5, <1>6

\* An operator blocks itself: it enters the index as NewReader says.
LEMMA BlockReadIndex ==
  ASSUME TypeOK, Binding, Registration, ReadIndex, FlowGraphAssumption, RuntimeAssumption,
         NEW c \in Operators, BlockOnRead(c)
  PROVE  ReadIndex'
<1> DEFINE w == wait[c]
<1>1. /\ pc[c] = "readBlock" /\ Executing(c) /\ UNCHANGED queue
      /\ \A u \in Operators \ {c} : pc'[u] = pc[u] /\ todo'[u] = todo[u]
  BY DEF BlockOnRead, At, Goto, portVars, callVars, TypeOK
<1>2. opState[c] = "Running"
  BY <1>1, ExecutingIsRunning DEF YieldPoints
<1>3. /\ waitKind' = [waitKind EXCEPT ![c] = w.kind]
      /\ waitKind'[c] = w.kind
      /\ \A o \in Operators \ {c} : waitKind'[o] = waitKind[o]
  BY DEF BlockOnRead, SkipReadBlock, MarkOperatorAsReadBlocked, RegisterReader, TypeOK, SchedTypeOK
<1>4. w \in Waits(c) \cup {NoWait}
  BY DEF TypeOK
<1>5. /\ \A p \in DOMAIN w.spec : p \in InPortsOf(c)
      /\ \A p \in DOMAIN w.spec : w.spec[p] \in Nat
  <2>1. CASE w \in Waits(c)
    BY <2>1 DEF Waits, RuntimeAssumption
  <2>2. CASE w = NoWait
    BY <2>2 DEF NoWait
  <2> QED BY <1>4, <2>1, <2>2
<1> HIDE DEF w
<1>6. CASE SkipReadBlock(c, w)
  <2>1. UNCHANGED <<opState, threshold, readBlocked>>
    BY <1>6 DEF SkipReadBlock
  <2> QED BY <1>1, <1>2, <1>3, <2>1, QuietCall
<1>7. CASE MarkOperatorAsReadBlocked(c, w)
  <2> DEFINE thresh == [p \in InPorts |-> IF p \in DOMAIN w.spec THEN w.spec[p]
                                                                ELSE threshold[p]]
             next == Moved({c}, IF ReadReady(c, w.kind, thresh) THEN "Ready" ELSE "ReadBlocked")
  <2>1. UpdateOperators(next, thresh)
    BY <1>7 DEF MarkOperatorAsReadBlocked, RegisterReader
  <2>2. thresh \in [InPorts -> Nat]
    BY <1>5 DEF TypeOK, SchedTypeOK
  <2>3. \A o \in Operators \ {c} : \A p \in InPortsOf(o) : thresh[p] = threshold[p]
    BY <1>5 DEF InPortsOf
  <2>4. opState' = next
    BY <2>1 DEF UpdateOperators, ReadIndexAfter, WriteIndexAfter, ThresholdsAfter, NotifiedAfter, Leaves, Enters
  <2>5. \A o \in Operators \ {c} : opState'[o] = opState[o]
    BY <2>4 DEF Moved
  <2>6. opState'[c] = "ReadBlocked" => ~ReadReady(c, w.kind, thresh)
    BY <2>4 DEF Moved
  <2> HIDE DEF thresh, next
  <2> SUFFICES ASSUME NEW o \in Operators, opState'[o] = "ReadBlocked"
               PROVE  ReadIndexOf(o)'
    BY DEF ReadIndex
  <2>7. CASE o = c
    BY <1>1, <1>2, <1>3, <2>1, <2>2, <2>6, <2>7, NewReader
  <2>8. CASE o # c
    <3>1. opState[o] = "ReadBlocked" /\ waitKind'[o] = waitKind[o]
      BY <1>3, <2>5, <2>8
    <3>2. \A p : WriteUnannounced(p) => WriteUnannounced(p)'
      BY <1>1, StillUnannounced
    <3>3. \A p \in InPortsOf(o) : /\ threshold'[p] = threshold[p]
                                  /\ p \in readBlocked' <=> p \in readBlocked
      BY <2>1, <2>3, <2>8, <3>1, UpdateReader
    <3> QED BY <1>1, <3>1, <3>2, <3>3, QuietReader DEF ReadIndex
  <2> QED BY <2>7, <2>8
<1> QED BY <1>6, <1>7 DEF BlockOnRead, w

LEMMA CallReadIndex ==
  ASSUME TypeOK, CallShape, Binding, Registration, ReadIndex, FlowGraphAssumption,
         RuntimeAssumption, NEW c \in Operators, CallStep(c)
  PROVE  ReadIndex'
<1> USE DEF At, Goto, portVars, callVars
<1>1. CASE \/ \E closed \in BOOLEAN : WaitReturns(c, closed)
           \/ WaitMustBlock(c) \/ Offer(c) \/ StopScheduler(c)
           \/ BlockOnWrite(c) /\ SkipWriteBlock(full[c])
           \/ CheckPreemption(c) /\ UNCHANGED schedVars
  <2>1. pc[c] # "written" /\ UNCHANGED <<queue, opState, waitKind, threshold, readBlocked>>
    BY <1>1 DEF WaitReturns, WaitMustBlock, Offer, StopScheduler, Stop, BlockOnWrite,
                SkipWriteBlock, CheckPreemption, schedVars, operVars
  <2>2. \A u \in Operators \ {c} : pc'[u] = pc[u] /\ todo'[u] = todo[u]
    BY <1>1 DEF WaitReturns, WaitMustBlock, Offer, StopScheduler, BlockOnWrite,
                CheckPreemption, TypeOK
  <2> QED BY <2>1, <2>2, QuietCall
<1>2. CASE BlockOnWrite(c) /\ MarkOperatorAsWriteBlocked(c, full[c])
  <2>1. /\ OnlyWakes(c) /\ opState'[c] # "ReadBlocked"
        /\ \E next : UpdateOperators(next, threshold)
    BY <1>2, WriteBlockEffect DEF MarkOperatorAsWriteBlocked
  <2>2. \A u \in Operators \ {c} : pc'[u] = pc[u] /\ todo'[u] = todo[u]
    BY <1>2 DEF BlockOnWrite, TypeOK
  <2>3. pc[c] # "written" /\ UNCHANGED <<queue, waitKind>>
    BY <1>2 DEF BlockOnWrite, MarkOperatorAsWriteBlocked
  <2> QED BY <2>1, <2>2, <2>3, QuietUpdate
<1>3. CASE CheckPreemption(c) /\ Preempt(c)
  <2>1. /\ OnlyWakes(c) /\ opState'[c] # "ReadBlocked"
        /\ \E next : UpdateOperators(next, threshold)
    BY <1>3, PreemptEffect DEF Preempt
  <2>2. \A u \in Operators \ {c} : pc'[u] = pc[u] /\ todo'[u] = todo[u]
    BY <1>3 DEF CheckPreemption, TypeOK
  <2>3. pc[c] # "written" /\ UNCHANGED <<queue, waitKind>>
    BY <1>3 DEF CheckPreemption, Preempt
  <2> QED BY <2>1, <2>2, <2>3, QuietUpdate
<1>4. CASE Complete(c)
  <2>1. OnlyWakes(c) /\ opState'[c] # "ReadBlocked"
    BY <1>4, CompletedEffect DEF Complete
  <2>2. \E next : UpdateOperators(next, threshold)
    BY <1>4 DEF Complete, MarkOperatorAsCompleted
  <2>3. \A u \in Operators \ {c} : pc'[u] = pc[u] /\ todo'[u] = todo[u]
    BY <1>4 DEF Complete, TypeOK
  <2>4. pc[c] # "written" /\ UNCHANGED <<queue, waitKind>>
    BY <1>4 DEF Complete, MarkOperatorAsCompleted
  <2> QED BY <2>1, <2>2, <2>3, <2>4, QuietUpdate
<1>5. CASE AnnounceRead(c)
  <2>1. pc[c] # "written" /\ UNCHANGED <<queue, waitKind, threshold, readBlocked>>
    BY <1>5 DEF AnnounceRead, MarkInputPortAsRead
  <2>2. \A u \in Operators \ {c} : pc'[u] = pc[u] /\ todo'[u] = todo[u]
    BY <1>5 DEF AnnounceRead, TypeOK
  <2>3. \A o \in Operators : opState'[o] = "ReadBlocked" => opState[o] = "ReadBlocked"
    BY <1>5 DEF AnnounceRead, MarkInputPortAsRead, Moved
  <2> QED BY <2>1, <2>2, <2>3, QuietCall
<1> QED
  BY <1>1, <1>2, <1>3, <1>4, <1>5, DeliverReadIndex, AnnounceReadIndex, BlockReadIndex
     DEF CallStep, BlockOnWrite, CheckPreemption

-----------------------------------------------------------------------------
(***************************************************************************)
(* Closures, and the end of the flow.                                      *)
(***************************************************************************)

\* Only an operator that runs changes its wait.
LEMMA WaitIsKept ==
  ASSUME TypeOK, Binding, [Next]_vars,
         NEW o \in Operators, opState[o] = "ReadBlocked"
  PROVE  wait'[o] = wait[o]
<1> USE DEF At, callVars, portVars
<1>1. ASSUME NEW t \in Threads, ThreadStep(t) \/ SpuriousWakeUp(t) PROVE wait' = wait
  BY <1>1 DEF ThreadStep, SpuriousWakeUp, GetThreadWork, WakeUp, Work, Enter, Leave
<1>2. ASSUME NEW c \in Operators, CallStep(c) PROVE wait'[o] = wait[o]
  <2>1. CASE \E closed \in BOOLEAN : WaitReturns(c, closed)
    <3>1. opState[c] = "Running"
      BY <2>1, ExecutingIsRunning DEF WaitReturns, YieldPoints
    <3> QED BY <2>1, <3>1 DEF WaitReturns, TypeOK
  <2>2. CASE ~\E closed \in BOOLEAN : WaitReturns(c, closed)
    BY <1>2, <2>2 DEF CallStep, WaitMustBlock, BlockOnRead, Offer, Deliver, AnnounceWritten,
         BlockOnWrite, CheckPreemption, AnnounceRead, Complete, StopScheduler
  <2> QED BY <2>1, <2>2
<1>3. ASSUME NEW c \in Operators, CodeStep(c) PROVE wait'[o] = wait[o]
  <2>1. opState[c] = "Running"
    BY <1>3, ExecutingIsRunning DEF CodeStep, CallWait, CallPush, CallPop, CallReturn, YieldPoints
  <2> QED BY <1>3, <2>1 DEF CodeStep, CallWait, CallPush, CallPop, CallReturn, TypeOK
<1>4. CASE RequestShutdown \/ AllCompleted \/ Join \/ UNCHANGED vars
  BY <1>4 DEF RequestShutdown, AllCompleted, Join, vars
<1> QED BY <1>1, <1>2, <1>3, <1>4 DEF Next, RuntimeStep, Terminated

\* Closures come from operators that return, one at a time.
LEMMA ClosuresComeFromReturns ==
  ASSUME TypeOK, [Next]_vars
  PROVE  \/ isComplete' = isComplete
         \/ \E c \in Operators : CallReturn(c)
<1> USE DEF portVars
<1>1. ASSUME NEW t \in Threads, ThreadStep(t) \/ SpuriousWakeUp(t)
      PROVE  isComplete' = isComplete
  BY <1>1 DEF ThreadStep, SpuriousWakeUp, GetThreadWork, WakeUp, Work, Enter, Leave
<1>2. ASSUME NEW c \in Operators, CallStep(c) PROVE isComplete' = isComplete
  BY <1>2 DEF CallStep, WaitReturns, WaitMustBlock, BlockOnRead, Offer, Deliver, AnnounceWritten,
       BlockOnWrite, CheckPreemption, AnnounceRead, Complete, StopScheduler
<1>3. ASSUME NEW c \in Operators, CodeStep(c)
      PROVE  isComplete' = isComplete \/ CallReturn(c)
  BY <1>3 DEF CodeStep, CallWait, CallPush, CallPop
<1>4. CASE RequestShutdown \/ AllCompleted \/ Join \/ UNCHANGED vars
  BY <1>4 DEF RequestShutdown, AllCompleted, Join, vars
<1> QED BY <1>1, <1>2, <1>3, <1>4 DEF Next, RuntimeStep, Terminated

\* Nobody but BlockOnRead makes an operator ReadBlocked.
LEMMA ReadersComeFromBlocking ==
  ASSUME TypeOK, CallShape, Binding, Registration, FlowGraphAssumption, RuntimeAssumption,
         [Next]_vars, NEW o \in Operators,
         opState[o] # "ReadBlocked", opState'[o] = "ReadBlocked"
  PROVE  BlockOnRead(o) /\ MarkOperatorAsReadBlocked(o, wait[o])
<1> USE DEF At, schedVars, operVars
<1>1. ASSUME NEW t \in Threads, ThreadStep(t) \/ SpuriousWakeUp(t) PROVE FALSE
  BY <1>1 DEF ThreadStep, SpuriousWakeUp, GetThreadWork, WakeUp, Work, Enter, Leave,
       Assign, Sleep, Dismiss, TypeOK, SchedTypeOK
<1>2. ASSUME NEW c \in Operators, CallStep(c)
      PROVE  BlockOnRead(o) /\ MarkOperatorAsReadBlocked(o, wait[o])
  <2>1. CASE \/ \E closed \in BOOLEAN : WaitReturns(c, closed)
             \/ WaitMustBlock(c) \/ Offer(c) \/ Deliver(c) \/ StopScheduler(c)
    BY <2>1 DEF WaitReturns, WaitMustBlock, Offer, Deliver, StopScheduler, Stop
  <2>2. CASE BlockOnRead(c)
    <3>1. CASE SkipReadBlock(c, wait[c])
      BY <3>1 DEF SkipReadBlock
    <3>2. CASE MarkOperatorAsReadBlocked(c, wait[c])
      <4>1. c = o
        BY <3>2, ReadBlockEffect DEF OnlyWakes
      <4> QED BY <2>2, <3>2, <4>1
    <3> QED BY <2>2, <3>1, <3>2 DEF BlockOnRead
  <2>3. CASE AnnounceWritten(c)
    <3>1. Head(todo[c]) \in InPorts
      BY <2>3, HeadTailProperties DEF AnnounceWritten, CallShape, TypeOK
    <3>2. opState[c] = "Running"
      BY <2>3, ExecutingIsRunning DEF AnnounceWritten, YieldPoints
    <3> QED BY <2>3, <3>1, <3>2, WrittenEffect DEF AnnounceWritten, OnlyWakes
  <2>4. CASE BlockOnWrite(c)
    BY <2>4, WriteBlockEffect DEF BlockOnWrite, SkipWriteBlock, OnlyWakes
  <2>5. CASE CheckPreemption(c)
    BY <2>5, PreemptEffect DEF CheckPreemption, OnlyWakes
  <2>6. CASE AnnounceRead(c)
    <3>1. Head(todo[c]) \in InPorts
      BY <2>6, HeadTailProperties DEF AnnounceRead, CallShape, TypeOK
    <3>2. opState[c] = "Running"
      BY <2>6, ExecutingIsRunning DEF AnnounceRead, YieldPoints
    <3> QED BY <2>6, <3>1, <3>2, ReadEffect DEF AnnounceRead, OnlyWakes
  <2>7. CASE Complete(c)
    BY <2>7, CompletedEffect DEF Complete, OnlyWakes
  <2> QED BY <1>2, <2>1, <2>2, <2>3, <2>4, <2>5, <2>6, <2>7 DEF CallStep
<1>3. ASSUME NEW c \in Operators, CodeStep(c) PROVE FALSE
  BY <1>3 DEF CodeStep, CallWait, CallPush, CallPop, CallReturn
<1>4. CASE RequestShutdown \/ AllCompleted \/ Join \/ UNCHANGED vars
  BY <1>4 DEF RequestShutdown, AllCompleted, Join, vars
<1> QED BY <1>1, <1>2, <1>3, <1>4 DEF Next, RuntimeStep, Terminated

\* Nobody but Complete takes an operator away from "complete".
LEMMA CompleteIsLeftByCompleting ==
  ASSUME TypeOK, [Next]_vars, NEW u \in Operators, pc[u] = "complete", pc'[u] # "complete"
  PROVE  Complete(u)
<1> USE DEF At, Goto
<1>1. ASSUME NEW t \in Threads, ThreadStep(t) \/ SpuriousWakeUp(t) PROVE FALSE
  BY <1>1 DEF ThreadStep, SpuriousWakeUp, GetThreadWork, WakeUp, Work, Enter, Leave, YieldPoints, TypeOK
<1>2. ASSUME NEW c \in Operators, CallStep(c) PROVE Complete(u)
  BY <1>2 DEF CallStep, WaitReturns, WaitMustBlock, BlockOnRead, Offer, Deliver, AnnounceWritten,
       BlockOnWrite, CheckPreemption, AnnounceRead, Complete, StopScheduler, TypeOK
<1>3. ASSUME NEW c \in Operators, CodeStep(c) PROVE FALSE
  BY <1>3 DEF CodeStep, CallWait, CallPush, CallPop, CallReturn, TypeOK
<1>4. CASE RequestShutdown \/ AllCompleted \/ Join \/ UNCHANGED vars
  BY <1>4 DEF RequestShutdown, AllCompleted, Join, vars
<1> QED BY <1>1, <1>2, <1>3, <1>4 DEF Next, RuntimeStep, Terminated

\* A wait that closed ports decide is one on ports of the operator.
LEMMA ClosedWaitHasPorts ==
  ASSUME TypeOK, NEW o \in Operators, ClosedForWait(wait[o])
  PROVE  wait[o] \in Waits(o)
BY DEF TypeOK, ClosedForWait, NoWait

LEMMA NextClosure ==
  ASSUME TypeOK, CallShape, Binding, Registration, NoLostClosure,
         FlowGraphAssumption, RuntimeAssumption, [Next]_vars, (TypeOK /\ Binding)'
  PROVE  NoLostClosure'
<1> SUFFICES ASSUME NEW o \in Operators, opState'[o] = "ReadBlocked", ClosedForWait(wait[o])'
             PROVE  \E u \in UpstreamOperators(o) : pc'[u] = "complete"
  BY DEF NoLostClosure, UpstreamOperators, Publishers, PublisherPorts, SubscribersOf, InPortsOf
<1>1. opState[o] = "ReadBlocked"
  <2> SUFFICES ASSUME opState[o] # "ReadBlocked" PROVE FALSE
    OBVIOUS
  <2>1. BlockOnRead(o) /\ MarkOperatorAsReadBlocked(o, wait[o])
    BY ReadersComeFromBlocking
  <2>2. ~ClosedForWait(wait[o])
    BY <2>1 DEF MarkOperatorAsReadBlocked, RegisterReader
  <2>3. UNCHANGED <<wait, isComplete>>
    BY <2>1 DEF BlockOnRead, portVars, callVars
  <2> QED BY <2>2, <2>3 DEF ClosedForWait, IsClosed
<1>2. wait'[o] = wait[o]
  BY <1>1, WaitIsKept
<1>3. CASE ClosedForWait(wait[o])
  <2>1. PICK u \in UpstreamOperators(o) : pc[u] = "complete"
    BY <1>1, <1>3 DEF NoLostClosure
  <2>2. u \in Operators
    BY DEF UpstreamOperators, Publishers, PublisherPorts, FlowGraphAssumption
  <2>3. ~Complete(u)
    <3> SUFFICES ASSUME Complete(u) PROVE FALSE
      OBVIOUS
    <3>1. o \in DownstreamOperators(u)
      BY DEF UpstreamOperators, Publishers, PublisherPorts, InPortsOf, DownstreamOperators,
             DownstreamPorts, OutPortsOf
    <3>2. o # u
      BY <1>1, <2>2, ExecutingIsRunning DEF Complete, At, YieldPoints
    <3>3. opState' = [Moved(({d \in DownstreamOperators(u) : opState[d] = "ReadBlocked"} \cup
                             {v \in UpstreamOperators(u) : shutdown /\ opState[v] = "WriteBlocked"})
                            \ {u}, "Ready") EXCEPT ![u] = "Completed"]
      BY DEF Complete, MarkOperatorAsCompleted, UpdateOperators
    <3> QED BY <1>1, <3>1, <3>2, <3>3 DEF Moved
  <2> QED BY <2>1, <2>2, <2>3, CompleteIsLeftByCompleting
<1>4. CASE ~ClosedForWait(wait[o])
  <2>1. PICK c \in Operators : CallReturn(c)
    BY <1>2, <1>4, ClosuresComeFromReturns DEF ClosedForWait, IsClosed
  <2>2. wait[o] \in Waits(o)
    BY <1>2, ClosedWaitHasPorts DEF TypeOK, ClosedForWait, NoWait
  <2>3. DOMAIN wait[o].spec \subseteq InPortsOf(o)
    BY <2>2 DEF Waits
  <2>4. PICK p \in DOMAIN wait[o].spec : ~IsClosed(p) /\ IsClosed(p)'
    BY <1>2, <1>4 DEF ClosedForWait
  <2>5. c \in Publishers(p)
    BY <2>1, <2>4 DEF IsClosed, CallReturn, TypeOK, Publishers, PublisherPorts
  <2>6. c \in UpstreamOperators(o)
    BY <2>3, <2>5 DEF UpstreamOperators
  <2>7. pc'[c] = "complete"
    BY <2>1 DEF CallReturn, Goto, TypeOK
  <2> QED BY <2>6, <2>7
<1> QED BY <1>3, <1>4

LEMMA NextEnding ==
  ASSUME TypeOK, Binding, Ending, [Next]_vars
  PROVE  Ending'
<1> USE DEF At, Goto
<1>1. ASSUME NEW t \in Threads, ThreadStep(t) \/ SpuriousWakeUp(t) PROVE Ending'
  <2>1. CASE Leave(t)
    BY <2>1 DEF Leave, ResumeAt, YieldPoints, Ending, TypeOK, schedVars
  <2>2. CASE Enter(t)
    BY <2>2 DEF Enter, Ending, TypeOK, schedVars
  <2>3. CASE Work(t)
    BY <2>3 DEF Work, Assign, Sleep, Dismiss, Ending, TypeOK
  <2> QED BY <1>1, <2>1, <2>2, <2>3 DEF ThreadStep, SpuriousWakeUp, GetThreadWork, WakeUp
<1>2. ASSUME NEW c \in Operators, CallStep(c) PROVE Ending'
  <2>1. CASE Complete(c)
    <3>1. UNCHANGED <<stopped, client, threadPc>>
      BY <2>1 DEF Complete, MarkOperatorAsCompleted, threadVars
    <3>2. \A u \in Operators \ {c} : pc'[u] = pc[u]
      BY <2>1 DEF Complete, TypeOK
    <3>3. /\ pc'[c] \in {"stop", "done"} /\ pc[c] = "complete"
          /\ pc'[c] = "stop" => \A u \in Operators \ {c} : opState[u] = "Completed"
      BY <2>1 DEF Complete, TypeOK
    <3>4. FlowMutexFree
      BY <2>1 DEF Complete
    <3> QED BY <3>1, <3>2, <3>3, <3>4 DEF Ending, Binding, FlowMutexFree
  <2>2. CASE StopScheduler(c)
    BY <2>2 DEF StopScheduler, Stop, Ending, TypeOK, threadVars
  <2>3. CASE ~Complete(c) /\ ~StopScheduler(c)
    <3>1. pc[c] \notin {"stop", "done"} /\ \E l \in Locations \ {"stop"} : pc' = [pc EXCEPT ![c] = l]
      BY <1>2, <2>3 DEF CallStep, WaitReturns, WaitMustBlock, BlockOnRead, Offer, Deliver,
           AnnounceWritten, BlockOnWrite, CheckPreemption, AnnounceRead, Locations, YieldPoints
    <3>2. UNCHANGED <<stopped, client, threadPc>>
      BY <1>2, <2>3 DEF CallStep, WaitReturns, WaitMustBlock, BlockOnRead, SkipReadBlock,
           MarkOperatorAsReadBlocked, RegisterReader, Offer, Deliver, AnnounceWritten, MarkInputPortAsWritten,
           BlockOnWrite, SkipWriteBlock, MarkOperatorAsWriteBlocked, CheckPreemption, Preempt,
           AnnounceRead, MarkInputPortAsRead, schedVars, threadVars
    <3> QED BY <3>1, <3>2 DEF Ending, TypeOK
  <2> QED BY <2>1, <2>2, <2>3
<1>3. ASSUME NEW c \in Operators, CodeStep(c) PROVE Ending'
  <2>1. pc[c] = "code" /\ \E l \in Locations \ {"stop"} : pc' = [pc EXCEPT ![c] = l]
    BY <1>3 DEF CodeStep, CallWait, CallPush, CallPop, CallReturn, Locations
  <2>2. UNCHANGED <<stopped, client, threadPc>>
    BY <1>3 DEF CodeStep, CallWait, CallPush, CallPop, CallReturn, schedVars, threadVars
  <2> QED BY <2>1, <2>2 DEF Ending, TypeOK
<1>4. CASE AllCompleted
  BY <1>4 DEF AllCompleted, Ending, Binding, schedVars, threadVars
<1>5. CASE RequestShutdown \/ Join \/ UNCHANGED vars
  BY <1>5 DEF RequestShutdown, Join, vars, Ending, schedVars, threadVars
<1> QED BY <1>1, <1>2, <1>3, <1>4, <1>5 DEF Next, RuntimeStep, Terminated

-----------------------------------------------------------------------------
(***************************************************************************)
(* Pushes in progress, and threads that sleep.                             *)
(***************************************************************************)
LEMMA CallPushing ==
  ASSUME TypeOK, CallShape, Pushing, NEW o \in Operators, CallStep(o)
  PROVE  Pushing'
<1> USE DEF At, Goto, portVars, callVars
<1> DownstreamPorts(o)' = DownstreamPorts(o)
  BY DEF DownstreamPorts
<1>1. /\ pc[o] \notin {"code", "done"}
      /\ isComplete' = isComplete
      /\ \A u \in Operators \ {o} : pc'[u] = pc[u] /\ todo'[u] = todo[u]
  BY DEF CallStep, WaitReturns, WaitMustBlock, BlockOnRead, Offer, Deliver, AnnounceWritten,
         BlockOnWrite, CheckPreemption, AnnounceRead, Complete, StopScheduler, TypeOK
<1>2. pc'[o] \in {"complete", "stop", "done"} <=> pc[o] \in {"complete", "stop", "done"}
  BY DEF CallStep, WaitReturns, WaitMustBlock, BlockOnRead, Offer, Deliver, AnnounceWritten,
         BlockOnWrite, CheckPreemption, AnnounceRead, Complete, StopScheduler, TypeOK
<1>3. pc'[o] \in {"offer", "writeBlock", "writeYield", "deliver", "written"} =>
        \A i \in DOMAIN todo'[o] : todo'[o][i] \in DownstreamPorts(o)
  <2>1. CASE AnnounceWritten(o)
    <3>1. todo[o] \in Seq(InPorts) /\ todo[o] # <<>> /\ todo'[o] = Tail(todo[o])
      BY <2>1 DEF AnnounceWritten, CallShape, TypeOK
    <3>2. \A i \in DOMAIN todo[o] : todo[o][i] \in DownstreamPorts(o)
      BY <2>1 DEF AnnounceWritten, Pushing
    <3> QED BY <3>1, <3>2, HeadTailProperties
  <2>2. CASE Offer(o) \/ Deliver(o) \/ BlockOnWrite(o)
    BY <2>2 DEF Offer, Deliver, BlockOnWrite, Pushing
  <2>3. CASE \/ \E closed \in BOOLEAN : WaitReturns(o, closed)
             \/ WaitMustBlock(o) \/ BlockOnRead(o) \/ CheckPreemption(o) \/ AnnounceRead(o)
             \/ Complete(o) \/ StopScheduler(o)
    BY <2>3 DEF WaitReturns, WaitMustBlock, BlockOnRead, CheckPreemption, AnnounceRead,
                Complete, StopScheduler, TypeOK
  <2> QED BY <2>1, <2>2, <2>3 DEF CallStep
<1> QED BY <1>1, <1>2, <1>3 DEF Pushing, DownstreamPorts

LEMMA CodePushing ==
  ASSUME TypeOK, Pushing, NEW o \in Operators, CodeStep(o)
  PROVE  Pushing'
<1> USE DEF At, Goto, portVars, callVars
<1>1. \A u \in Operators \ {o} : /\ pc'[u] = pc[u] /\ todo'[u] = todo[u]
                                 /\ isComplete'[u] = isComplete[u]
  BY DEF CodeStep, CallWait, CallPush, CallPop, CallReturn, TypeOK
<1>2. isComplete'[o] <=> pc'[o] \in {"complete", "stop", "done"}
  BY DEF CodeStep, CallWait, CallPush, CallPop, CallReturn, TypeOK, Pushing
<1>3. pc'[o] \in {"offer", "writeBlock", "writeYield", "deliver", "written"} =>
        \A i \in DOMAIN todo'[o] : todo'[o][i] \in DownstreamPorts(o)
  <2>1. ASSUME NEW q \in OutPortsOf(o), NEW x \in Tuples, CallPush(o, q, x)
        PROVE  \A i \in DOMAIN todo'[o] : todo'[o][i] \in DownstreamPorts(o)
    <3>1. todo'[o] = Subscribers[q]
      BY <2>1 DEF CallPush, TypeOK
    <3> QED BY <3>1 DEF DownstreamPorts, SubscribersOf
  <2> QED BY <2>1 DEF CodeStep, CallWait, CallPop, CallReturn, TypeOK
<1> QED BY <1>1, <1>2, <1>3 DEF Pushing, DownstreamPorts

LEMMA NextPushing ==
  ASSUME TypeOK, CallShape, Pushing, [Next]_vars
  PROVE  Pushing'
<1>1. ASSUME NEW t \in Threads, ThreadStep(t) \/ SpuriousWakeUp(t) PROVE Pushing'
  <2>1. isComplete' = isComplete /\ todo' = todo
    BY <1>1 DEF ThreadStep, SpuriousWakeUp, GetThreadWork, WakeUp, Work, Enter, Leave,
                portVars, callVars
  <2>2. CASE pc' = pc
    BY <2>1, <2>2 DEF Pushing, DownstreamPorts
  <2>3. CASE Leave(t)
    <3> DEFINE o == current[t]
    <3>1. /\ pc[o] \in YieldPoints \cup {"done"}
          /\ pc' = [pc EXCEPT ![o] = ResumeAt(pc[o])]
      BY <2>3 DEF Leave
    <3> HIDE DEF o
    <3> QED BY <2>1, <3>1 DEF Pushing, DownstreamPorts, YieldPoints, ResumeAt, TypeOK
  <2> QED BY <1>1, <2>2, <2>3 DEF ThreadStep, SpuriousWakeUp, GetThreadWork, WakeUp, Work, Enter
<1>2. CASE RequestShutdown \/ AllCompleted \/ Join \/ UNCHANGED vars
  BY <1>2 DEF RequestShutdown, AllCompleted, Join, vars, portVars, callVars, Pushing,
              DownstreamPorts
<1> QED BY <1>1, <1>2, CallPushing, CodePushing DEF Next, RuntimeStep, Terminated

\* Only a thread that is inside makes operators ready, and a thread falls asleep
\* only if it finds none ready.
LEMMA NextStalled ==
  ASSUME TypeOK, NoStalledReady, [Next]_vars
  PROVE  NoStalledReady'
<1> SUFFICES ASSUME \A t \in Threads : threadPc'[t] = "asleep"
             PROVE  ReadyOperators' = {}
  BY DEF NoStalledReady
<1>1. ASSUME NEW t \in Threads, ThreadStep(t) \/ SpuriousWakeUp(t) PROVE ReadyOperators' = {}
  <2>1. CASE Sleep(t)
    BY <2>1 DEF Sleep, operVars, ReadyOperators
  <2>2. CASE ~Sleep(t)
    BY <1>1, <2>2 DEF ThreadStep, SpuriousWakeUp, GetThreadWork, WakeUp, Work, Enter, Leave, TypeOK
  <2> QED BY <2>1, <2>2
<1>2. ASSUME NEW o \in Operators, CallStep(o) \/ CodeStep(o) PROVE FALSE
  <2>1. Executing(o) /\ UNCHANGED threadPc
    BY <1>2 DEF CallStep, WaitReturns, WaitMustBlock, BlockOnRead, Offer, Deliver,
         AnnounceWritten, BlockOnWrite, CheckPreemption, AnnounceRead, Complete, StopScheduler,
         CodeStep, CallWait, CallPush, CallPop, CallReturn, At, threadVars
  <2> QED BY <2>1 DEF Executing
<1>3. CASE RequestShutdown \/ AllCompleted \/ Join \/ UNCHANGED vars
  BY <1>3 DEF RequestShutdown, AllCompleted, Join, vars, threadVars, schedVars, operVars,
              NoStalledReady, ReadyOperators
<1> QED BY <1>1, <1>2, <1>3 DEF Next, RuntimeStep, Terminated

-----------------------------------------------------------------------------
(***************************************************************************)
(* The invariant and what follows from it.                                 *)
(***************************************************************************)
LEMMA InitInv ==
  ASSUME FlowGraphAssumption, RuntimeAssumption, Init
  PROVE  Inv
<1>1. TypeOK /\ CallShape
  BY InitTypes
<1>2. Binding
  BY DEF Init, SchedInit, Binding, OneResumption, RunningIsCarried, YieldPoints,
         RuntimeAssumption
<1>3. Registration /\ ReadIndex
  BY DEF Init, SchedInit, Registration, ReadIndex
<1>4. NoLostClosure /\ Ending /\ Pushing
  BY DEF Init, SchedInit, NoLostClosure, Ending, Pushing
<1>5. NoStalledReady
  BY ThreadsAssumption DEF Init, NoStalledReady
<1> QED BY <1>1, <1>2, <1>3, <1>4, <1>5 DEF Inv

LEMMA NextInv ==
  ASSUME Inv, FlowGraphAssumption, RuntimeAssumption, [Next]_vars
  PROVE  Inv'
<1> USE DEF Inv
<1>1. TypeOK' /\ CallShape'
  BY NextTypes
<1>2. ASSUME NEW t \in Threads, ThreadStep(t) \/ SpuriousWakeUp(t)
      PROVE  (Binding /\ Registration /\ ReadIndex)'
  BY <1>2, ThreadBinding, ThreadReadIndex
<1>3. ASSUME NEW o \in Operators, CallStep(o)
      PROVE  (Binding /\ Registration /\ ReadIndex)'
  BY <1>3, CallBinding, CallReadIndex
<1>4. ASSUME NEW o \in Operators, CodeStep(o)
      PROVE  (Binding /\ Registration /\ ReadIndex)'
  BY <1>4, CodeBinding, CodeReadIndex
<1>5. ASSUME RequestShutdown \/ AllCompleted \/ Join \/ UNCHANGED vars
      PROVE  (Binding /\ Registration /\ ReadIndex)'
  <2>1. UNCHANGED <<queue, schedVars, threadVars, pc, callVars>>
    BY <1>5 DEF RequestShutdown, AllCompleted, Join, vars, portVars
  <2>2. Binding'
    BY <2>1 DEF Binding, OneResumption, RunningIsCarried, Executing, schedVars, operVars,
                threadVars
  <2>3. Registration' /\ ReadIndex'
    BY <2>1 DEF Registration, ReadIndex, ReadIndexOf, PortReadable, Count, WriteUnannounced,
                InPortsOf, schedVars, operVars, callVars
  <2> QED BY <1>1, <2>2, <2>3
<1>6. (Binding /\ Registration /\ ReadIndex)'
  BY <1>2, <1>3, <1>4, <1>5 DEF Next, RuntimeStep, Terminated
<1>7. NoLostClosure'
  BY <1>1, <1>6, NextClosure
<1>8. Ending'
  BY NextEnding
<1>9. Pushing' /\ NoStalledReady'
  BY NextPushing, NextStalled
<1> QED BY <1>1, <1>6, <1>7, <1>8, <1>9

\* Inv is inductive.
THEOREM Invariance == Spec => []Inv
<1>1. Init => Inv
  BY InitInv, FlowGraphAssumption, RuntimeAssumption
<1>2. Inv /\ [Next]_vars => Inv'
  BY NextInv, FlowGraphAssumption, RuntimeAssumption
<1> QED BY <1>1, <1>2, PTL DEF Spec

\* A coroutine is never resumed while its code still runs, however its threads
\* interleave (the mutex of runOper and the yield after the scheduler's).
THEOREM ResumptionIsExclusive == Spec => []OneResumption
<1>1. Inv => OneResumption
  BY DEF Inv, Binding
<1> QED BY <1>1, Invariance, PTL

\* The scheduler's Running is exactly "some thread carries the operator".
THEOREM RunningMeansCarried == Spec => []RunningIsCarried
<1>1. Inv => RunningIsCarried
  BY DEF Inv, Binding
<1> QED BY <1>1, Invariance, PTL

\* A ReadBlocked operator whose recorded condition holds is about to be woken.
THEOREM ReadersAreWoken == Spec => []NoLostReadWakeup
<1>1. Inv => NoLostReadWakeup
  <2> SUFFICES ASSUME Inv, NEW o \in Operators, opState[o] = "ReadBlocked",
                      ReadReady(o, waitKind[o], threshold)
               PROVE  \E p \in InPortsOf(o) \cap readBlocked : WriteUnannounced(p)
    BY DEF NoLostReadWakeup
  <2>1. ReadIndexOf(o)
    BY DEF Inv, ReadIndex
  <2>2. PICK p \in InPortsOf(o) \cap readBlocked : PortReadable(p, threshold)
    BY <2>1 DEF ReadIndexOf, ReadReady
  <2> QED BY <2>1, <2>2 DEF ReadIndexOf
<1> QED BY <1>1, Invariance, PTL

\* Whoever is ReadBlocked on ports that are closed is about to be woken by an
\* operator upstream that has set isComplete_ and is completing.
THEOREM ClosuresAreAnnounced == Spec => []NoLostClosure
<1>1. Inv => NoLostClosure
  BY DEF Inv
<1> QED BY <1>1, Invariance, PTL

\* Threads are dismissed, and wait returns, only when all operators are done.
THEOREM NobodyLeavesEarly == Spec => []ExitOnlyWhenDone
<1>1. Inv => ExitOnlyWhenDone
  <2> SUFFICES ASSUME Inv, (\E t \in Threads : threadPc[t] = "exited") \/ client = "returned"
               PROVE  \A o \in Operators : opState[o] = "Completed"
    BY DEF ExitOnlyWhenDone
  <2>1. \A o \in Operators : pc[o] \in {"stop", "done"}
    BY DEF Inv, Ending
  <2> QED BY <2>1 DEF Inv, Binding
<1> QED BY <1>1, Invariance, PTL

\* The threads never all sleep while an operator is ready.
THEOREM SomeoneIsAwake == Spec => []NoStalledReady
<1>1. Inv => NoStalledReady
  BY DEF Inv
<1> QED BY <1>1, Invariance, PTL

\* Nothing is added to the queue of a port that is closed: the isComplete_ flags
\* that isClosed reads are set when nothing is left of the pushes.
THEOREM ClosedPortsStayAsTheyAre == Spec => ClosedPortsGetNothing
<1>1. ASSUME Inv, [Next]_vars, NEW p \in InPorts, IsClosed(p)
      PROVE  Count(p)' <= Count(p)
  <2> USE <1>1 DEF Inv
  <2>1. CASE queue' = queue
    BY <2>1 DEF Count, TypeOK
  <2>2. ASSUME NEW o \in Operators, Deliver(o) PROVE Count(p)' <= Count(p)
    <3> DEFINE d == Head(todo[o])
    <3>1. d \in DownstreamPorts(o) /\ ~isComplete[o]
      <4>1. pc[o] = "deliver"
        BY <2>2 DEF Deliver, At
      <4>2. todo[o] \in Seq(InPorts) /\ todo[o] # <<>>
        BY <4>1 DEF CallShape, TypeOK
      <4>3. d = todo[o][1] /\ 1 \in DOMAIN todo[o]
        BY <4>2
      <4>4. \A i \in DOMAIN todo[o] : todo[o][i] \in DownstreamPorts(o)
        BY <4>1 DEF Pushing
      <4>5. ~isComplete[o]
        BY <4>1 DEF Pushing
      <4> HIDE DEF d
      <4> QED BY <4>3, <4>4, <4>5
    <3>2. o \in Publishers(d)
      BY <3>1 DEF DownstreamPorts, OutPortsOf, Publishers, PublisherPorts
    <3>3. d # p
      BY <3>1, <3>2 DEF IsClosed
    <3>4. queue'[p] = queue[p]
      BY <2>2, <3>3 DEF Deliver, TypeOK
    <3> QED BY <3>4 DEF Count, TypeOK
  <2>3. ASSUME NEW o \in Operators, NEW r \in InPorts, CallPop(o, r) PROVE Count(p)' <= Count(p)
    <3>1. CASE r = p
      BY <2>3, <3>1, HeadTailProperties DEF CallPop, Count, TypeOK
    <3>2. CASE r # p
      BY <2>3, <3>2 DEF CallPop, Count, TypeOK
    <3> QED BY <3>1, <3>2
  <2>4. \/ queue' = queue
        \/ \E o \in Operators : Deliver(o) \/ \E r \in InPorts : CallPop(o, r)
    <3>1. ASSUME NEW t \in Threads, ThreadStep(t) \/ SpuriousWakeUp(t) PROVE queue' = queue
      BY <3>1 DEF ThreadStep, SpuriousWakeUp, GetThreadWork, WakeUp, Work, Enter, Leave, portVars
    <3>2. ASSUME NEW o \in Operators, CallStep(o) PROVE queue' = queue \/ Deliver(o)
      BY <3>2 DEF CallStep, WaitReturns, WaitMustBlock, BlockOnRead, Offer, AnnounceWritten,
           BlockOnWrite, CheckPreemption, AnnounceRead, Complete, StopScheduler, portVars
    <3>3. ASSUME NEW o \in Operators, CodeStep(o)
          PROVE  queue' = queue \/ \E r \in InPorts : CallPop(o, r)
      BY <3>3 DEF CodeStep, CallWait, CallPush, CallReturn, InPortsOf, portVars
    <3>4. CASE RequestShutdown \/ AllCompleted \/ Join \/ UNCHANGED vars
      BY <3>4 DEF RequestShutdown, AllCompleted, Join, vars, portVars
    <3> QED BY <3>1, <3>2, <3>3, <3>4 DEF Next, RuntimeStep, Terminated
  <2> QED BY <2>1, <2>2, <2>3, <2>4
<1>2. Inv /\ [Next]_vars =>
        [\A p \in InPorts : IsClosed(p) => Count(p)' <= Count(p)]_vars
  BY <1>1
<1> QED BY <1>2, Invariance, PTL DEF Spec, ClosedPortsGetNothing
=============================================================================
