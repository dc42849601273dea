-------------------------- MODULE FlowPrograms_proofs --------------------------
(***************************************************************************)
(* Proofs about the operators of the library, for every application: they  *)
(* are operators as StreamRuntime has them, so that every theorem about    *)
(* it holds of applications, and they look only at tuples that are there.  *)
(* And applications that only forward tuples keep FlowContract.            *)
(***************************************************************************)
EXTENDS FlowPrograms, WriteBlocking_proofs

\* Tuples may carry anything, and every hash function is total.
EveryTuple ==
  /\ Tuples = [ids : (SUBSET (Operators \X Nat)) \ {{}}, seqNo : Nat]
  /\ \A a \in DOMAIN Apps : Nat \subseteq DOMAIN Apps[a].hash

-----------------------------------------------------------------------------
(***************************************************************************)
(* Ports and tuples.                                                       *)
(***************************************************************************)

\* One port number after the other.
LEMMA Turn ==
  ASSUME NEW n \in Nat \ {0}, NEW p \in 1..n
  PROVE  /\ (p % n) + 1 \in 1..n
         /\ p < n => (p % n) + 1 = p + 1
         /\ p = n => (p % n) + 1 = 1
OBVIOUS

LEMMA InputPorts ==
  ASSUME NEW o \in Operators
  PROVE  /\ NumIn(o) \in Nat /\ NumOut(o) \in Nat
         /\ DOMAIN Inputs[o] = 1..NumIn(o) /\ DOMAIN Outputs[o] = 1..NumOut(o)
         /\ \A i \in 1..NumIn(o) : Inputs[o][i] \in InPortsOf(o) /\ Inputs[o][i] \in InPorts
         /\ \A i, j \in 1..NumIn(o) : Inputs[o][i] = Inputs[o][j] => i = j
         /\ \A i \in 1..NumOut(o) : Outputs[o][i] \in OutPortsOf(o)
<1>1. Inputs[o] \in Seq(InPorts) /\ Outputs[o] \in Seq(OutPorts)
  BY ProgramAssumption DEF ProgramAssumption
<1>2. /\ NumIn(o) \in Nat /\ NumOut(o) \in Nat
      /\ DOMAIN Inputs[o] = 1..NumIn(o) /\ DOMAIN Outputs[o] = 1..NumOut(o)
  BY <1>1 DEF NumIn, NumOut
<1>3. /\ Once(Inputs[o]) /\ {Inputs[o][i] : i \in DOMAIN Inputs[o]} = InPortsOf(o)
      /\ {Outputs[o][i] : i \in DOMAIN Outputs[o]} \subseteq OutPortsOf(o)
  BY ProgramAssumption DEF ProgramAssumption
<1> QED BY <1>2, <1>3 DEF Once, InPortsOf

\* What the role of an operator says of its ports.
LEMMA RoleFacts ==
  ASSUME app \in DOMAIN Apps, NEW o \in Operators
  PROVE  /\ Role(o) \in Roles /\ Supply(o) \in Nat
         /\ Role(o) \notin Sources => 1 \in 1..NumIn(o)
         /\ Role(o) # "FileSink" => 1 \in 1..NumOut(o)
         /\ \A n \in DOMAIN Apps[app].hash :
              Role(o) = "Split" => Apps[app].hash[n] \in 1..NumOut(o)
<1>1. /\ Apps[app].role \in [Operators -> Roles]
      /\ Apps[app].supply \in [Operators -> Nat]
      /\ Role(o) \notin Sources => Inputs[o] # <<>>
      /\ Role(o) # "FileSink" => Outputs[o] # <<>>
      /\ \A n \in DOMAIN Apps[app].hash :
           Role(o) = "Split" => Apps[app].hash[n] \in DOMAIN Outputs[o]
  BY ProgramAssumption DEF ProgramAssumption, Role
<1>2. Inputs[o] \in Seq(InPorts) /\ Outputs[o] \in Seq(OutPorts)
  BY ProgramAssumption DEF ProgramAssumption
<1>3. /\ Inputs[o] # <<>> => NumIn(o) >= 1
      /\ Outputs[o] # <<>> => NumOut(o) >= 1
  BY <1>2 DEF NumIn, NumOut
<1> QED BY <1>1, <1>3, InputPorts DEF Role, Supply

LEMMA FrontType ==
  ASSUME TypeOK, NEW p \in InPorts, queue[p] # <<>>
  PROVE  Front(p) \in Tuples
BY DEF TypeOK, Front

LEMMA NewTuples ==
  ASSUME EveryTuple
  PROVE  /\ \A o \in Operators, n \in Nat : Line(o, n) \in Tuples
         /\ \A x \in Tuples, n \in Nat : [x EXCEPT !.seqNo = n] \in Tuples
         /\ \A S \in (SUBSET (Operators \X Nat)) \ {{}} : Plain(S) \in Tuples
BY DEF EveryTuple, Line, Plain

\* Split has a port for every tuple.
LEMMA HashPort ==
  ASSUME EveryTuple, app \in DOMAIN Apps, NEW o \in Operators, Role(o) = "Split",
         NEW x \in Tuples
  PROVE  HashOf(x) \in 1..NumOut(o)
<1>1. PICK s \in Operators, n \in Nat : <<s, n>> \in x.ids
  BY DEF EveryTuple
<1>2. n \in DOMAIN Apps[app].hash
  BY DEF EveryTuple
<1> DEFINE hash == Apps[app].hash
<1>3. (CHOOSE m \in DOMAIN hash : \E u \in Operators : <<u, m>> \in x.ids) \in DOMAIN hash
  BY <1>1, <1>2
<1> QED BY <1>3, RoleFacts DEF HashOf

-----------------------------------------------------------------------------
(***************************************************************************)
(* The calls that the operators make are calls of StreamRuntime.           *)
(***************************************************************************)

LEMMA WaitsAreLegal ==
  ASSUME app \in DOMAIN Apps, NEW o \in Operators, Role(o) \notin Sources, Locals(o)
  PROVE  WaitOf(o) \in Waits(o)
<1>1. 1 \in 1..MaxWait
  BY ProgramAssumption, RuntimeAssumption DEF ProgramAssumption, RuntimeAssumption
<1>2. ASSUME NEW p \in InPortsOf(o)
      PROVE  Single(p) \in Waits(o)
  <2>1. [x \in {p} |-> 1] \in [{p} -> 1..MaxWait]
    BY <1>1
  <2>2. {p} \in (SUBSET InPortsOf(o)) \ {{}}
    OBVIOUS
  <2> QED BY <2>1, <2>2 DEF Single, Waits, WaitKinds
<1>3. ASSUME NEW k \in WaitKinds
      PROVE  OnEveryPort(o, k) \in Waits(o)
  <2> DEFINE S == {Inputs[o][i] : i \in 1..NumIn(o)}
  <2>1. S \in (SUBSET InPortsOf(o)) \ {{}}
    <3>1. Inputs[o][1] \in S
      BY RoleFacts
    <3>2. S \subseteq InPortsOf(o)
      BY InputPorts
    <3> QED BY <3>1, <3>2
  <2>2. [p \in S |-> 1] \in [S -> 1..MaxWait]
    BY <1>1
  <2> QED BY <2>1, <2>2 DEF OnEveryPort, Waits
<1>4. Inputs[o][1] \in InPortsOf(o)
  BY InputPorts, RoleFacts
<1>5. Role(o) \in {"Merge", "RoundRobinMerge"} => Inputs[o][port[o]] \in InPortsOf(o)
  BY InputPorts DEF Locals
<1>6. "Conjunctive" \in WaitKinds /\ "Disjunctive" \in WaitKinds
  BY DEF WaitKinds
<1>7. Role(o) = "Merge" => WaitOf(o) = Single(Inputs[o][port[o]])
  BY DEF WaitOf
<1>8. Role(o) # "Merge" => WaitOf(o) = LoopWait(o)
  BY DEF WaitOf
<1> QED BY <1>2, <1>3, <1>4, <1>5, <1>6, <1>7, <1>8 DEF LoopWait

\* The front of a queue that the operator has been told of.
LEMMA ToldFront ==
  ASSUME TypeOK, ProgramInv, NEW o \in Operators, NEW i \in 1..NumIn(o), i \in Fronts(o)
  PROVE  Front(Inputs[o][i]) \in Tuples
BY FrontType, InputPorts DEF ProgramInv, FrontsExist

LEMMA Emissions ==
  ASSUME TypeOK, ProgramInv, EveryTuple, NEW o \in Operators,
         Role(o) \in Looping \ {"FileSink", "Union"}, Told(o)
  PROVE  Emission(o)[1] \in OutPortsOf(o) /\ Emission(o)[2] \in Tuples
<1> USE DEF ProgramInv, ProgramTypes
<1>1. Locals(o) /\ Role(o) \notin Sources \cup {"FileSink", "Union", "Merge"}
  BY DEF Looping, Roles
<1>2. 1 \in 1..NumIn(o) /\ 1 \in 1..NumOut(o) /\ Outputs[o][1] \in OutPortsOf(o)
  BY <1>1, RoleFacts, InputPorts
<1>3. LooksAt(o) \subseteq Fronts(o)
  BY DEF Fronts, Told
<1>4. CASE Role(o) \in {"Pass", "Filter", "RoundRobinSplit", "Split"}
  <2>1. Front(Inputs[o][1]) \in Tuples
    BY <1>2, <1>3, <1>4, ToldFront DEF LooksAt
  <2>2. CASE Role(o) \in {"Pass", "Filter"}
    BY <1>2, <2>1, <2>2 DEF Emission
  <2>3. CASE Role(o) = "RoundRobinSplit"
    BY <1>1, <2>1, <2>3, InputPorts DEF Emission, Locals
  <2>4. CASE Role(o) = "Split"
    <3>1. Emission(o) = <<Outputs[o][HashOf(Front(Inputs[o][1]))],
                          [Front(Inputs[o][1]) EXCEPT !.seqNo = counter[o]]>>
      BY <2>4 DEF Emission
    <3>2. HashOf(Front(Inputs[o][1])) \in 1..NumOut(o)
      BY <2>1, <2>4, HashPort
    <3>3. [Front(Inputs[o][1]) EXCEPT !.seqNo = counter[o]] \in Tuples
      BY <1>1, <2>1, NewTuples DEF Locals
    <3> QED BY <3>1, <3>2, <3>3, InputPorts
  <2> QED BY <1>4, <2>2, <2>3, <2>4
<1>5. CASE Role(o) = "RoundRobinMerge"
  <2>1. Front(Inputs[o][port[o]]) \in Tuples
    BY <1>1, <1>3, <1>5, ToldFront DEF LooksAt, Locals
  <2> QED BY <1>2, <1>5, <2>1 DEF Emission
<1>6. CASE Role(o) = "Barrier"
  <2> DEFINE S == UNION {Front(Inputs[o][i]).ids : i \in 1..NumIn(o)}
  <2>1. \A i \in 1..NumIn(o) : Front(Inputs[o][i]) \in Tuples
    BY <1>3, <1>6, ToldFront DEF LooksAt
  <2>2. \A i \in 1..NumIn(o) :
          Front(Inputs[o][i]).ids \in (SUBSET (Operators \X Nat)) \ {{}}
    BY <2>1 DEF EveryTuple
  <2>3. S \in (SUBSET (Operators \X Nat)) \ {{}}
    <3>1. Front(Inputs[o][1]).ids # {} /\ Front(Inputs[o][1]).ids \subseteq S
      BY <1>2, <2>2
    <3>2. S \subseteq Operators \X Nat
      BY <2>2
    <3> QED BY <3>1, <3>2
  <2>4. Emission(o) = <<Outputs[o][1], Plain(S)>>
    BY <1>6 DEF Emission
  <2> HIDE DEF S
  <2> QED BY <1>2, <2>3, <2>4, NewTuples
<1> QED BY <1>1, <1>4, <1>5, <1>6 DEF Looping, Roles, Sources

\* The places and roles at which each step of a program is taken.
LEMMA ProgramCalls ==
  ASSUME TypeOK, ProgramInv, EveryTuple, NEW o \in Operators, ProgramStep(o)
  PROVE  CodeStep(o) \/ UNCHANGED vars
<1> USE DEF ProgramInv, ProgramTypes
<1>1. Locals(o) /\ Role(o) \in Roles
  BY RoleFacts
<1>2. ASSUME NEW i \in 1..NumIn(o), CallPop(o, Inputs[o][i])
      PROVE  CodeStep(o)
  BY <1>2, InputPorts DEF CodeStep
<1>3. ASSUME NEW i \in 1..NumOut(o), NEW x \in Tuples, CallPush(o, Outputs[o][i], x)
      PROVE  CodeStep(o)
  BY <1>3, InputPorts DEF CodeStep
<1>4. ASSUME CallWait(o, WaitOf(o)), Role(o) \notin Sources
      PROVE  CodeStep(o)
  BY <1>1, <1>4, WaitsAreLegal DEF CodeStep
<1>5. ASSUME Return(o)
      PROVE  CodeStep(o)
  BY <1>5 DEF Return, CodeStep
<1>6. Role(o) \notin Sources => 1 \in 1..NumIn(o)
  BY RoleFacts
<1>7. Role(o) # "FileSink" => 1 \in 1..NumOut(o)
  BY RoleFacts
<1>8. CASE Generate(o)
  <2>1. CASE CallPush(o, Outputs[o][1], Line(o, counter[o] + 1))
    <3>1. Line(o, counter[o] + 1) \in Tuples
      BY <1>1, NewTuples DEF Locals
    <3>2. Role(o) # "FileSink"
      BY <1>8 DEF Generate, Reached, Sources
    <3> QED BY <1>3, <1>7, <2>1, <3>1, <3>2
  <2> QED BY <1>5, <1>8, <2>1 DEF Generate
<1>9. CASE Loop(o)
  <2>1. WaitOf(o) = LoopWait(o) /\ Role(o) \notin Sources
    BY <1>9 DEF Loop, Reached, Looping, WaitOf
  <2> QED BY <1>4, <1>5, <1>9, <2>1 DEF Loop
<1>10. CASE Break(o) \/ OpenFails(o)
  BY <1>5, <1>10 DEF Break, OpenFails
<1>11. CASE Consume(o) \/ Pop(o)
  BY <1>2, <1>6, <1>11 DEF Consume, Pop, Reached, Sources
<1>12. CASE Emit(o)
  <2>1. Told(o) /\ Role(o) \in Looping \ {"FileSink", "Union"}
    BY <1>12 DEF Emit, Reached, Told, At, MidWait
  <2>2. Emission(o)[1] \in OutPortsOf(o) /\ Emission(o)[2] \in Tuples
    BY <2>1, Emissions
  <2> QED BY <1>12, <2>2 DEF Emit, CodeStep
<1>13. CASE PopInTurn(o) \/ ScanPop(o)
  BY <1>1, <1>2, <1>13 DEF PopInTurn, ScanPop, Reached, Locals
<1>14. CASE Scan(o)
  <2>1. Role(o) = "Union" /\ port[o] \in 1..NumIn(o)
    BY <1>1, <1>14 DEF Scan, Reached, Locals
  <2>2. CASE queue[Inputs[o][port[o]]] # <<>> /\
             CallPush(o, Outputs[o][1], Front(Inputs[o][port[o]]))
    BY <1>3, <1>7, <2>1, <2>2, InputPorts, FrontType
  <2> QED BY <1>14, <2>2 DEF Scan
<1>15. CASE MergeWait(o)
  <2>1. Role(o) = "Merge" /\ WaitOf(o) = Single(Inputs[o][port[o]])
    BY <1>15 DEF MergeWait, Reached, WaitOf
  <2> QED BY <1>4, <1>15, <2>1 DEF MergeWait, Sources
<1>16. CASE MergeFill(o)
  BY <1>16 DEF MergeFill
<1>17. CASE MergeSelect(o)
  <2>1. Role(o) = "Merge"
    BY <1>17 DEF MergeSelect, Reached
  <2>2. ASSUME NEW i \in heap[o],
               CallPush(o, Outputs[o][1], [Front(Inputs[o][i]) EXCEPT !.seqNo = 0])
        PROVE  CodeStep(o)
    <3>1. i \in 1..NumIn(o) /\ i \in Fronts(o)
      BY <1>1, <2>1 DEF Locals, Fronts
    <3>2. [Front(Inputs[o][i]) EXCEPT !.seqNo = 0] \in Tuples
      BY <3>1, ToldFront, NewTuples
    <3> QED BY <1>3, <1>7, <2>1, <2>2, <3>2
  <2> QED BY <1>5, <1>17, <2>2 DEF MergeSelect
<1>18. CASE MergePop(o)
  BY <1>1, <1>2, <1>18 DEF MergePop, Reached, Locals
<1>19. CASE MergeAgain(o)
  BY <1>5, <1>19 DEF MergeAgain
<1> QED BY <1>8, <1>9, <1>10, <1>11, <1>12, <1>13, <1>14, <1>15, <1>16, <1>17, <1>18, <1>19
        DEF ProgramStep

-----------------------------------------------------------------------------
(***************************************************************************)
(* The invariant of the programs, one operator at a time.                  *)
(***************************************************************************)
OperInv(o) ==
  Locals(o) /\ InWait(o) /\ \A i \in Fronts(o) : queue[Inputs[o][i]] # <<>>

LEMMA ByOperator ==
  /\ ProgramInv <=> ProgramTypes /\ \A o \in Operators : OperInv(o)
  /\ ProgramInv' <=> ProgramTypes' /\ \A o \in Operators : OperInv(o)'
BY DEF ProgramInv, OperInv, FrontsExist

LEMMA FrontsInRange ==
  ASSUME app \in DOMAIN Apps, NEW o \in Operators, Locals(o)
  PROVE  Fronts(o) \subseteq 1..NumIn(o)
<1>1. Told(o) \/ loc[o] = "pop" => 1 \in 1..NumIn(o)
  BY RoleFacts DEF Locals, Told
<1>2. Told(o) => LooksAt(o) \subseteq 1..NumIn(o)
  BY <1>1 DEF LooksAt, Locals
<1>3. loc[o] = "pop" => StillPops(o) \subseteq 1..NumIn(o)
  BY <1>1, InputPorts DEF StillPops, Locals
<1> QED BY <1>2, <1>3 DEF Fronts, Told, Locals

\* The variables that the invariant of o depends on.
SameLocals(o) ==
  /\ app' = app /\ loc'[o] = loc[o] /\ port'[o] = port[o]
  /\ counter'[o] = counter[o] /\ heap'[o] = heap[o]

LEMMA SameRole ==
  ASSUME NEW o \in Operators, app' = app
  PROVE  Role(o)' = Role(o)
BY DEF Role

LEMMA LocalsKept ==
  ASSUME NEW o \in Operators, SameLocals(o)
  PROVE  /\ Role(o)' = Role(o) /\ Locals(o)' = Locals(o) /\ WaitOf(o)' = WaitOf(o)
         /\ LooksAt(o)' = LooksAt(o) /\ StillPops(o)' = StillPops(o)
BY DEF SameLocals, Role, Locals, WaitOf, LoopWait, LooksAt, StillPops

\* Nothing is popped from the ports of o.
KeepsFronts(o) ==
  \A i \in 1..NumIn(o) : queue[Inputs[o][i]] # <<>> => queue'[Inputs[o][i]] # <<>>

LEMMA QuietProgram ==
  ASSUME app \in DOMAIN Apps, NEW o \in Operators, OperInv(o), SameLocals(o), KeepsFronts(o),
         pc'[o] = pc[o], wait'[o] = wait[o], closedResult'[o] = closedResult[o]
  PROVE  OperInv(o)'
<1>1. Locals(o)' /\ InWait(o)'
  BY LocalsKept DEF OperInv, InWait, SameLocals
<1>2. Fronts(o)' = Fronts(o)
  BY LocalsKept DEF Fronts, Told, SameLocals
<1> QED BY <1>1, <1>2, FrontsInRange DEF OperInv, KeepsFronts

-----------------------------------------------------------------------------
(***************************************************************************)
(* Steps of the runtime.                                                   *)
(***************************************************************************)
LEMMA RuntimeKeepsFronts ==
  ASSUME TypeOK, RuntimeStep \/ Terminated, NEW p \in InPorts, queue[p] # <<>>
  PROVE  queue'[p] # <<>>
<1>1. ASSUME NEW o \in Operators, Deliver(o)
      PROVE  queue'[p] # <<>>
  <2>1. queue[p] \in Seq(Tuples) /\ item[o] \in Tuples /\ DOMAIN queue = InPorts
    BY DEF TypeOK
  <2>2. Append(queue[p], item[o]) # <<>>
    BY <2>1
  <2> QED BY <1>1, <2>1, <2>2 DEF Deliver
<1>2. ASSUME NEW o \in Operators, CallStep(o), ~Deliver(o)
      PROVE  UNCHANGED queue
  BY <1>2 DEF CallStep, WaitReturns, WaitMustBlock, BlockOnRead, Offer, AnnounceWritten,
     BlockOnWrite, CheckPreemption, AnnounceRead, Complete, StopScheduler, portVars
<1>3. ASSUME NEW t \in Threads, ThreadStep(t) \/ SpuriousWakeUp(t)
      PROVE  UNCHANGED queue
  BY <1>3 DEF ThreadStep, GetThreadWork, WakeUp, SpuriousWakeUp, Work, Enter, Leave, portVars
<1>4. CASE RequestShutdown \/ AllCompleted \/ Join \/ Terminated
  BY <1>4 DEF RequestShutdown, AllCompleted, Join, Terminated, vars, portVars
<1> QED BY <1>1, <1>2, <1>3, <1>4 DEF RuntimeStep

\* What a step of the runtime can do to the coroutine of o.
Moves(o) ==
  \/ pc'[o] = pc[o] /\ wait'[o] = wait[o] /\ closedResult'[o] = closedResult[o]
  \/ pc[o] \notin MidWait \cup {"preempt", "preemptYield", "code"}
  \/ pc[o] \in MidWait /\ pc'[o] \in MidWait /\ wait'[o] = wait[o]
  \/ pc[o] \in MidWait /\ pc'[o] = "code" /\ closedResult'[o]
  \/ pc[o] \in MidWait /\ pc'[o] = "preempt" /\ Satisfied(wait[o]) /\ UNCHANGED queue
  \/ /\ pc[o] \in {"preempt", "preemptYield"} /\ pc'[o] \in {"preemptYield", "code"}
     /\ closedResult'[o] = closedResult[o]

LEMMA CallMoves ==
  ASSUME TypeOK, NEW u \in Operators, CallStep(u), NEW o \in Operators
  PROVE  Moves(o)
<1> USE DEF At, Goto, MidWait
<1>1. /\ DOMAIN pc = Operators /\ DOMAIN wait = Operators
      /\ DOMAIN closedResult = Operators
  BY DEF TypeOK
<1>2. CASE \E closed \in BOOLEAN : WaitReturns(u, closed)
  BY <1>1, <1>2 DEF WaitReturns, Moves, portVars
<1>3. CASE WaitMustBlock(u) \/ BlockOnRead(u)
  BY <1>1, <1>3 DEF WaitMustBlock, BlockOnRead, Moves, callVars
<1>4. CASE Offer(u) \/ Deliver(u) \/ AnnounceWritten(u) \/ BlockOnWrite(u)
  BY <1>1, <1>4 DEF Offer, Deliver, AnnounceWritten, BlockOnWrite, Moves, callVars
<1>5. CASE CheckPreemption(u)
  BY <1>1, <1>5 DEF CheckPreemption, Moves, callVars
<1>6. CASE AnnounceRead(u) \/ Complete(u) \/ StopScheduler(u)
  BY <1>1, <1>6 DEF AnnounceRead, Complete, StopScheduler, Moves, callVars
<1> QED BY <1>2, <1>3, <1>4, <1>5, <1>6 DEF CallStep

LEMMA RuntimeMoves ==
  ASSUME TypeOK, RuntimeStep \/ Terminated, NEW o \in Operators
  PROVE  Moves(o)
<1>1. ASSUME NEW t \in Threads, Leave(t)
      PROVE  Moves(o)
  <2>1. DOMAIN pc = Operators
    BY DEF TypeOK
  <2> QED BY <1>1, <2>1 DEF Leave, ResumeAt, YieldPoints, Moves, MidWait, callVars
<1>2. ASSUME NEW t \in Threads, ThreadStep(t) \/ SpuriousWakeUp(t), ~Leave(t)
      PROVE  UNCHANGED <<pc, callVars>>
  BY <1>2 DEF ThreadStep, GetThreadWork, WakeUp, SpuriousWakeUp, Work, Enter
<1>3. CASE RequestShutdown \/ AllCompleted \/ Join \/ Terminated
  BY <1>3 DEF RequestShutdown, AllCompleted, Join, Terminated, vars, callVars, Moves
<1> QED BY <1>1, <1>2, <1>3, CallMoves DEF RuntimeStep, Moves, callVars

\* A wait that is satisfied has found what its caller will look at.
LEMMA WaitFinds ==
  ASSUME TypeOK, app \in DOMAIN Apps, NEW o \in Operators, Locals(o),
         Role(o) \notin Sources \cup {"Union"}, Satisfied(WaitOf(o)),
         NEW i \in LooksAt(o)
  PROVE  queue[Inputs[o][i]] # <<>>
<1>1. ASSUME NEW p \in InPorts, Count(p) >= 1
      PROVE  queue[p] # <<>>
  BY <1>1 DEF Count, TypeOK
<1>2. ASSUME NEW p \in InPorts, Satisfied(Single(p))
      PROVE  queue[p] # <<>>
  BY <1>1, <1>2 DEF Satisfied, Single
<1>3. CASE Role(o) = "Barrier"
  <2>1. WaitOf(o) = OnEveryPort(o, "Conjunctive") /\ i \in 1..NumIn(o)
    BY <1>3 DEF WaitOf, LoopWait, LooksAt
  <2>2. Count(Inputs[o][i]) >= 1
    BY <2>1 DEF Satisfied, OnEveryPort
  <2> QED BY <1>1, <2>1, <2>2, InputPorts
<1>4. CASE Role(o) \in {"Merge", "RoundRobinMerge"}
  <2>1. WaitOf(o) = Single(Inputs[o][port[o]]) /\ i = port[o]
    BY <1>4 DEF WaitOf, LoopWait, LooksAt
  <2> QED BY <1>2, <1>4, <2>1, InputPorts DEF Locals
<1>5. CASE Role(o) \notin {"Barrier", "Merge", "RoundRobinMerge"}
  <2>1. WaitOf(o) = Single(Inputs[o][1]) /\ i = 1
    BY <1>5 DEF WaitOf, LoopWait, LooksAt
  <2> QED BY <1>2, <2>1, InputPorts, RoleFacts
<1> QED BY <1>3, <1>4, <1>5

LEMMA RuntimeOper ==
  ASSUME TypeOK, ProgramInv, RuntimeStep \/ Terminated, UNCHANGED progVars,
         NEW o \in Operators
  PROVE  OperInv(o)'
<1>1. app \in DOMAIN Apps /\ OperInv(o) /\ SameLocals(o)
  BY ByOperator DEF ProgramTypes, progVars, SameLocals
<1>2. KeepsFronts(o)
  BY RuntimeKeepsFronts, InputPorts DEF KeepsFronts
<1>3. Moves(o)
  BY RuntimeMoves
<1>4. Locals(o) /\ Locals(o)' /\ InWait(o)
  BY <1>1, LocalsKept DEF OperInv
<1>5. \A i \in Fronts(o) : queue'[Inputs[o][i]] # <<>>
  BY <1>1, <1>2, <1>4, FrontsInRange DEF OperInv, KeepsFronts
<1>6. CASE loc[o] = "waited" /\ Role(o) # "Union"
  <2>1. \/ pc[o] \in MidWait /\ wait[o] = WaitOf(o)
        \/ pc[o] \in {"preempt", "preemptYield", "code"}
    BY <1>4, <1>6 DEF InWait
  <2>2. InWait(o)'
    BY <1>1, <1>3, <2>1, LocalsKept DEF InWait, Moves, SameLocals, MidWait
  <2>3. ASSUME ~Told(o)', NEW i \in Fronts(o)'
        PROVE  queue'[Inputs[o][i]] # <<>>
    <3>1. i \in Fronts(o)
      BY <1>1, <1>6, <2>3, LocalsKept DEF Fronts, SameLocals
    <3> QED BY <1>5, <3>1
  <2>4. ASSUME Told(o), Told(o)', NEW i \in Fronts(o)'
        PROVE  queue'[Inputs[o][i]] # <<>>
    <3>1. i \in Fronts(o)
      BY <1>1, <2>4, LocalsKept DEF Fronts, SameLocals, Told
    <3> QED BY <1>5, <3>1
  <2>5. ASSUME ~Told(o), Told(o)', NEW i \in Fronts(o)'
        PROVE  queue'[Inputs[o][i]] # <<>>
    <3>1. pc[o] \in MidWait /\ Satisfied(WaitOf(o)) /\ UNCHANGED queue
      BY <1>1, <1>3, <1>6, <2>1, <2>5 DEF Moves, Told, SameLocals, MidWait
    <3>2. i \in Fronts(o) \cup LooksAt(o)
      BY <1>1, <2>5, LocalsKept DEF Fronts, SameLocals, Told
    <3>3. Role(o) \notin Sources
      BY <1>4, <1>6 DEF Locals
    <3> QED BY <1>1, <1>4, <1>5, <1>6, <3>1, <3>2, <3>3, WaitFinds
  <2> QED BY <1>4, <2>2, <2>3, <2>4, <2>5 DEF OperInv
<1>7. CASE ~(loc[o] = "waited" /\ Role(o) # "Union")
  <2>1. InWait(o)'
    BY <1>1, <1>7, LocalsKept DEF InWait, SameLocals
  <2>2. Fronts(o)' \subseteq Fronts(o)
    BY <1>1, <1>7, LocalsKept DEF Fronts, Told, LooksAt, SameLocals
  <2> QED BY <1>4, <1>5, <2>1, <2>2 DEF OperInv
<1> QED BY <1>6, <1>7

-----------------------------------------------------------------------------
(***************************************************************************)
(* Steps of the programs.                                                  *)
(***************************************************************************)
LEMMA CodeFrame ==
  ASSUME TypeOK, NEW u \in Operators, CodeStep(u) \/ UNCHANGED vars,
         NEW o \in Operators \ {u}
  PROVE  /\ pc'[o] = pc[o] /\ wait'[o] = wait[o] /\ closedResult'[o] = closedResult[o]
         /\ \A p \in InPortsOf(o) : queue'[p] = queue[p]
<1>1. DOMAIN pc = Operators /\ DOMAIN wait = Operators /\ DOMAIN queue = InPorts
  BY DEF TypeOK
<1>2. CASE UNCHANGED vars
  BY <1>2 DEF vars, callVars, portVars
<1>3. CASE \E w \in Waits(u) : CallWait(u, w)
  BY <1>1, <1>3 DEF CallWait, Goto, portVars
<1>4. CASE \E q \in OutPortsOf(u), x \in Tuples : CallPush(u, q, x)
  BY <1>1, <1>4 DEF CallPush, Goto, portVars
<1>5. CASE \E p \in InPortsOf(u) : CallPop(u, p)
  BY <1>1, <1>5 DEF CallPop, Goto, InPortsOf
<1>6. CASE CallReturn(u)
  BY <1>1, <1>6 DEF CallReturn, Goto, callVars
<1> QED BY <1>2, <1>3, <1>4, <1>5, <1>6 DEF CodeStep

LEMMA ProgramFrame ==
  ASSUME ProgramTypes, NEW u \in Operators, ProgramStep(u), UNCHANGED app,
         NEW o \in Operators \ {u}
  PROVE  SameLocals(o)
<1> USE DEF ProgramTypes, SameLocals, Go, NextPort
<1>1. CASE Generate(u) \/ Loop(u) \/ Break(u) \/ OpenFails(u)
  BY <1>1 DEF Generate, Loop, Break, OpenFails, Return
<1>2. CASE Consume(u) \/ Emit(u)
  BY <1>2 DEF Consume, Emit
<1>3. CASE Pop(u) \/ PopInTurn(u) \/ Scan(u) \/ ScanPop(u)
  BY <1>3 DEF Pop, PopInTurn, Scan, ScanPop
<1>4. CASE MergeWait(u) \/ MergeFill(u)
  BY <1>4 DEF MergeWait, MergeFill
<1>5. CASE MergeSelect(u) \/ MergePop(u) \/ MergeAgain(u)
  BY <1>5 DEF MergeSelect, MergePop, MergeAgain, Return
<1> QED BY <1>1, <1>2, <1>3, <1>4, <1>5 DEF ProgramStep

\* o has left the places where it looks at fronts that it has not kept.
LEMMA Elsewhere ==
  ASSUME NEW o \in Operators, Locals(o)', loc'[o] \notin {"waited", "pop"},
         Role(o)' = "Merge" => \A i \in heap'[o] : queue'[Inputs[o][i]] # <<>>
  PROVE  OperInv(o)'
<1>1. InWait(o)'
  BY DEF InWait
<1>2. Fronts(o)' = IF Role(o)' = "Merge" THEN heap'[o] ELSE {}
  BY DEF Fronts, Told
<1> QED BY <1>1, <1>2 DEF OperInv

\* A call to wait.
LEMMA StartsWait ==
  ASSUME NEW o \in Operators, Locals(o)', loc'[o] = "waited", pc'[o] = "waitCheck",
         wait'[o] = WaitOf(o)',
         Role(o)' = "Merge" => \A i \in heap'[o] : queue'[Inputs[o][i]] # <<>>
  PROVE  OperInv(o)'
<1>1. InWait(o)'
  BY DEF InWait, MidWait
<1>2. Fronts(o)' = IF Role(o)' = "Merge" THEN heap'[o] ELSE {}
  BY DEF Fronts, Told, MidWait
<1> QED BY <1>1, <1>2 DEF OperInv

\* A call to push, or to pop the first of several ports.
LEMMA InTurn ==
  ASSUME NEW o \in Operators, Locals(o)', loc'[o] = "pop",
         Role(o)' = "Merge" => \A i \in heap'[o] : queue'[Inputs[o][i]] # <<>>,
         \A i \in StillPops(o)' : queue'[Inputs[o][i]] # <<>>
  PROVE  OperInv(o)'
<1>1. InWait(o)'
  BY DEF InWait
<1>2. Fronts(o)' = (IF Role(o)' = "Merge" THEN heap'[o] ELSE {}) \cup StillPops(o)'
  BY DEF Fronts, Told
<1> QED BY <1>1, <1>2 DEF OperInv

\* What is popped is popped from one port.
LEMMA PopEffect ==
  ASSUME TypeOK, NEW o \in Operators, NEW i \in 1..NumIn(o), CallPop(o, Inputs[o][i]),
         NEW j \in 1..NumIn(o) \ {i}
  PROVE  queue'[Inputs[o][j]] = queue[Inputs[o][j]]
BY InputPorts DEF CallPop, TypeOK

LEMMA ReturnOper ==
  ASSUME ProgramInv, NEW o \in Operators, Return(o), UNCHANGED app
  PROVE  OperInv(o)' /\ loc' \in [Operators -> Places]
<1> USE DEF ProgramTypes
<1>1. ProgramTypes /\ OperInv(o)
  BY ByOperator
<1>2. /\ loc' = [loc EXCEPT ![o] = "end"] /\ UNCHANGED <<port, counter, heap, queue>>
  BY DEF Return, Go, CallReturn
<1>3. loc' \in [Operators -> Places] /\ loc'[o] = "end"
  BY <1>1, <1>2 DEF Places
<1>4. Locals(o)'
  BY <1>1, <1>2, <1>3, SameRole DEF OperInv, Locals
<1>5. Role(o)' = "Merge" => \A i \in heap'[o] : queue'[Inputs[o][i]] # <<>>
  BY <1>1, <1>2, SameRole DEF OperInv, Fronts
<1> QED BY <1>3, <1>4, <1>5, Elsewhere

LEMMA PlainLoops ==
  ASSUME TypeOK, ProgramInv, NEW o \in Operators, UNCHANGED app,
         Generate(o) \/ Loop(o) \/ Break(o) \/ OpenFails(o)
  PROVE  ProgramTypes' /\ OperInv(o)'
<1> USE DEF ProgramTypes
<1>1. ProgramTypes /\ OperInv(o) /\ Locals(o) /\ Role(o)' = Role(o)
  BY ByOperator, SameRole DEF OperInv
<1>2. CASE Return(o)
  BY <1>1, <1>2, ReturnOper DEF Return
<1>3. CASE Generate(o) /\ ~Return(o)
  <2>1. UNCHANGED <<loc, port, heap>> /\ counter' = [counter EXCEPT ![o] = @ + 1]
        /\ loc[o] = "loop" /\ Role(o) \in Sources
    BY <1>3 DEF Generate, Reached
  <2>2. Locals(o)'
    BY <1>1, <2>1 DEF Locals
  <2>3. ProgramTypes'
    BY <1>1, <2>1
  <2>4. OperInv(o)'
    BY <1>1, <2>1, <2>2, Elsewhere DEF Sources
  <2> QED BY <2>3, <2>4
<1>4. CASE Loop(o) /\ ~Return(o)
  <2>1. /\ CallWait(o, LoopWait(o)) /\ loc' = [loc EXCEPT ![o] = "waited"]
        /\ UNCHANGED <<port, counter, heap>> /\ Role(o) \in Looping /\ loc[o] = "loop"
    BY <1>4 DEF Loop, Go, Reached
  <2>2. loc'[o] = "waited" /\ loc' \in [Operators -> Places]
    BY <1>1, <2>1 DEF Places
  <2>3. pc'[o] = "waitCheck" /\ wait'[o] = LoopWait(o)
    BY <2>1 DEF CallWait, Goto, TypeOK
  <2>4. LoopWait(o) = WaitOf(o)'
    BY <1>1, <2>1 DEF WaitOf, LoopWait, Looping
  <2>5. Locals(o)'
    BY <1>1, <2>1, <2>2 DEF Locals, Looping
  <2> QED BY <1>1, <2>1, <2>2, <2>3, <2>4, <2>5, StartsWait DEF Looping
<1> QED BY <1>2, <1>3, <1>4 DEF Break, OpenFails

\* A sink, and the second half of a turn of the operators with one input port.
LEMMA OnePort ==
  ASSUME TypeOK, ProgramInv, NEW o \in Operators, UNCHANGED app, Consume(o) \/ Pop(o)
  PROVE  ProgramTypes' /\ OperInv(o)'
<1> USE DEF ProgramTypes
<1>1. ProgramTypes /\ OperInv(o) /\ Locals(o) /\ Role(o)' = Role(o)
  BY ByOperator, SameRole DEF OperInv
<1>2. /\ Role(o) \in {"FileSink", "Filter", "Pass", "Split", "RoundRobinSplit"}
      /\ loc' = [loc EXCEPT ![o] = "loop"] /\ UNCHANGED <<counter, heap>>
      /\ port' = port \/ (Role(o) = "RoundRobinSplit" /\ NextPort(o, NumOut(o)))
  BY DEF Consume, Pop, Go, Reached
<1>3. loc' \in [Operators -> Places] /\ loc'[o] = "loop"
  BY <1>1, <1>2 DEF Places
<1>4. CASE port' = port
  <2>1. Locals(o)'
    BY <1>1, <1>2, <1>3, <1>4 DEF Locals
  <2> QED BY <1>1, <1>2, <1>3, <1>4, <2>1, Elsewhere
<1>5. CASE Role(o) = "RoundRobinSplit" /\ NextPort(o, NumOut(o))
  <2>1. NumOut(o) \in Nat \ {0} /\ port[o] \in 1..NumOut(o)
    BY <1>1, <1>5, RoleFacts, InputPorts DEF Locals
  <2>2. port' = [port EXCEPT ![o] = (port[o] % NumOut(o)) + 1]
    BY <1>5 DEF NextPort
  <2>3. port' \in [Operators -> Nat] /\ port'[o] \in 1..NumOut(o)
    BY <1>1, <2>1, <2>2, Turn
  <2>4. Locals(o)'
    BY <1>1, <1>2, <1>3, <1>5, <2>3 DEF Locals
  <2> QED BY <1>1, <1>2, <1>3, <1>5, <2>3, <2>4, Elsewhere
<1> QED BY <1>2, <1>4, <1>5

\* What an operator has been told of, it may pop.
LEMMA EmitOper ==
  ASSUME TypeOK, ProgramInv, NEW o \in Operators, UNCHANGED app, Emit(o)
  PROVE  ProgramTypes' /\ OperInv(o)'
<1> USE DEF ProgramTypes
<1>1. ProgramTypes /\ OperInv(o) /\ Locals(o) /\ Role(o)' = Role(o)
  BY ByOperator, SameRole DEF OperInv
<1>2. /\ Told(o) /\ Role(o) \in Looping \ {"FileSink", "Union"} /\ loc[o] = "waited"
      /\ loc' = [loc EXCEPT ![o] = "pop"] /\ UNCHANGED <<port, heap, queue>>
      /\ counter' = IF Role(o) = "Split" THEN [counter EXCEPT ![o] = @ + 1] ELSE counter
  BY DEF Emit, Go, Reached, Told, At, MidWait, CallPush, portVars
<1>3. loc' \in [Operators -> Places] /\ loc'[o] = "pop" /\ counter' \in [Operators -> Nat]
  BY <1>1, <1>2 DEF Places
<1>4. Role(o) \notin Sources \cup {"Merge", "Union"}
  BY <1>2 DEF Looping
<1>5. Locals(o)'
  BY <1>1, <1>2, <1>3, <1>4 DEF Locals
<1>6. StillPops(o)' = LooksAt(o)
  BY <1>1, <1>2, <1>4 DEF StillPops, LooksAt, Locals
<1>7. \A i \in LooksAt(o) : queue[Inputs[o][i]] # <<>>
  BY <1>1, <1>2 DEF OperInv, Fronts, Told
<1> QED BY <1>1, <1>2, <1>3, <1>4, <1>5, <1>6, <1>7, InTurn

\* The ports of a barrier after the one that is popped still have theirs.
LEMMA PopInTurnOper ==
  ASSUME TypeOK, ProgramInv, NEW o \in Operators, UNCHANGED app, PopInTurn(o) \/ ScanPop(o)
  PROVE  ProgramTypes' /\ OperInv(o)'
<1> USE DEF ProgramTypes
<1>1. ProgramTypes /\ OperInv(o) /\ Locals(o) /\ Role(o)' = Role(o)
  BY ByOperator, SameRole DEF OperInv
<1>2. /\ Role(o) \in {"RoundRobinMerge", "Barrier", "Union"} /\ loc[o] = "pop"
      /\ CallPop(o, Inputs[o][port[o]]) /\ UNCHANGED <<counter, heap>>
      /\ port' = [port EXCEPT ![o] = (port[o] % NumIn(o)) + 1]
      /\ \/ loc' = [loc EXCEPT ![o] = "loop"] /\ (Role(o) = "Barrier" => port[o] >= NumIn(o))
         \/ loc' = [loc EXCEPT ![o] = "pop"] /\ Role(o) = "Barrier" /\ port[o] < NumIn(o)
         \/ loc' = [loc EXCEPT ![o] = "waited"] /\ Role(o) = "Union"
  <2>1. port[o] \in Nat /\ NumIn(o) \in Nat
    BY <1>1, InputPorts
  <2> QED BY <2>1 DEF PopInTurn, ScanPop, Go, NextPort, Reached
<1>3. NumIn(o) \in Nat \ {0} /\ port[o] \in 1..NumIn(o)
  BY <1>1, <1>2, InputPorts DEF Locals
<1>4. /\ port' \in [Operators -> Nat] /\ port'[o] \in 1..NumIn(o)
      /\ port[o] < NumIn(o) => port'[o] = port[o] + 1
      /\ port[o] = NumIn(o) => port'[o] = 1
  BY <1>1, <1>2, <1>3, Turn
<1>5. CASE loc' = [loc EXCEPT ![o] = "loop"] /\ (Role(o) = "Barrier" => port[o] >= NumIn(o))
  <2>1. loc' \in [Operators -> Places] /\ loc'[o] = "loop"
    BY <1>1, <1>5 DEF Places
  <2>2. Locals(o)'
    BY <1>1, <1>2, <1>3, <1>4, <1>5, <2>1 DEF Locals
  <2> QED BY <1>1, <1>2, <1>4, <2>1, <2>2, Elsewhere
<1>6. CASE loc' = [loc EXCEPT ![o] = "waited"] /\ Role(o) = "Union"
  <2>1. loc' \in [Operators -> Places] /\ loc'[o] = "waited"
    BY <1>1, <1>6 DEF Places
  <2>2. Locals(o)'
    BY <1>1, <1>2, <1>3, <1>4, <1>6, <2>1 DEF Locals, Sources
  <2>3. InWait(o)' /\ Fronts(o)' = {}
    BY <1>1, <1>6, <2>1 DEF InWait, Fronts, LooksAt, Told
  <2> QED BY <1>1, <1>2, <1>4, <2>1, <2>2, <2>3 DEF OperInv
<1>7. CASE loc' = [loc EXCEPT ![o] = "pop"] /\ Role(o) = "Barrier" /\ port[o] < NumIn(o)
  <2>1. loc' \in [Operators -> Places] /\ loc'[o] = "pop"
    BY <1>1, <1>7 DEF Places
  <2>2. Locals(o)'
    BY <1>1, <1>2, <1>3, <1>4, <1>7, <2>1 DEF Locals, Sources
  <2>3. StillPops(o)' = (port[o] + 1)..NumIn(o)
    BY <1>1, <1>4, <1>7 DEF StillPops
  <2>4. ASSUME NEW i \in (port[o] + 1)..NumIn(o)
        PROVE  queue'[Inputs[o][i]] # <<>>
    <3>1. i \in 1..NumIn(o) \ {port[o]} /\ i \in port[o]..NumIn(o)
      BY <1>3
    <3>2. queue[Inputs[o][i]] # <<>>
      BY <1>1, <1>2, <1>7, <3>1 DEF OperInv, Fronts, StillPops, Told
    <3> QED BY <1>2, <1>3, <3>1, <3>2, PopEffect
  <2> QED BY <1>1, <1>2, <1>4, <1>7, <2>1, <2>2, <2>3, <2>4, InTurn
<1> QED BY <1>2, <1>5, <1>6, <1>7

LEMMA ScanOper ==
  ASSUME TypeOK, ProgramInv, NEW o \in Operators, UNCHANGED app, Scan(o)
  PROVE  ProgramTypes' /\ OperInv(o)'
<1> USE DEF ProgramTypes
<1>1. ProgramTypes /\ OperInv(o) /\ Locals(o) /\ Role(o)' = Role(o)
  BY ByOperator, SameRole DEF OperInv
<1>2. Role(o) = "Union" /\ loc[o] = "waited" /\ UNCHANGED <<counter, heap>>
  BY DEF Scan, Reached
<1>3. NumIn(o) \in Nat \ {0} /\ port[o] \in 1..NumIn(o)
  BY <1>1, <1>2, InputPorts DEF Locals
<1>4. CASE queue[Inputs[o][port[o]]] # <<>>
  <2>1. loc' = [loc EXCEPT ![o] = "pop"] /\ UNCHANGED <<port, queue>>
    BY <1>4 DEF Scan, Go, CallPush, portVars
  <2>2. loc' \in [Operators -> Places] /\ loc'[o] = "pop"
    BY <1>1, <2>1 DEF Places
  <2>3. Locals(o)'
    BY <1>1, <1>2, <2>1, <2>2 DEF Locals, Sources
  <2>4. StillPops(o)' = {port[o]}
    BY <1>1, <1>2, <2>1 DEF StillPops
  <2> QED BY <1>1, <1>2, <1>4, <2>1, <2>2, <2>3, <2>4, InTurn
<1>5. CASE queue[Inputs[o][port[o]]] = <<>>
  <2>1. /\ loc' = [loc EXCEPT ![o] = IF port[o] < NumIn(o) THEN "waited" ELSE "loop"]
        /\ port' = [port EXCEPT ![o] = (port[o] % NumIn(o)) + 1]
    BY <1>5 DEF Scan, Go, NextPort
  <2>2. loc' \in [Operators -> Places] /\ loc'[o] \in {"waited", "loop"}
    BY <1>1, <2>1 DEF Places
  <2>3. port' \in [Operators -> Nat] /\ port'[o] \in 1..NumIn(o)
    BY <1>1, <1>3, <2>1, Turn
  <2>4. Locals(o)'
    BY <1>1, <1>2, <2>2, <2>3 DEF Locals, Sources
  <2>5. InWait(o)' /\ Fronts(o)' = {}
    BY <1>1, <1>2, <2>2 DEF InWait, Fronts, LooksAt, Told
  <2> QED BY <1>1, <1>2, <2>2, <2>3, <2>4, <2>5 DEF OperInv
<1> QED BY <1>4, <1>5

\* The port popped last is asked next, the fronts of the others stay.
LEMMA MergeOper ==
  ASSUME TypeOK, ProgramInv, NEW o \in Operators, UNCHANGED app,
         MergeWait(o) \/ MergeFill(o) \/ MergeSelect(o) \/ MergePop(o) \/ MergeAgain(o)
  PROVE  ProgramTypes' /\ OperInv(o)'
<1> USE DEF ProgramTypes
<1>1. ProgramTypes /\ OperInv(o) /\ Locals(o) /\ Role(o)' = Role(o)
  BY ByOperator, SameRole DEF OperInv
<1>2. Role(o) = "Merge"
  BY DEF MergeWait, MergeFill, MergeSelect, MergePop, MergeAgain, Reached
<1>3. NumIn(o) \in Nat \ {0} /\ port[o] \in 1..NumIn(o) /\ heap[o] \subseteq 1..NumIn(o)
  BY <1>1, <1>2, InputPorts DEF Locals
<1>4. \A i \in heap[o] : queue[Inputs[o][i]] # <<>>
  BY <1>1, <1>2 DEF OperInv, Fronts
<1>5. ASSUME port'[o] \in 1..NumIn(o), heap'[o] \subseteq 1..NumIn(o)
      PROVE  Locals(o)'
  BY <1>1, <1>2, <1>5 DEF Locals, Sources
<1>6. CASE Return(o)
  BY <1>1, <1>6, ReturnOper DEF Return
<1>7. CASE MergeWait(o)
  <2>1. /\ CallWait(o, Single(Inputs[o][port[o]])) /\ loc' = [loc EXCEPT ![o] = "waited"]
        /\ UNCHANGED <<port, counter, heap, queue>>
    BY <1>7 DEF MergeWait, Go, CallWait, portVars
  <2>2. loc'[o] = "waited" /\ loc' \in [Operators -> Places]
    BY <1>1, <2>1 DEF Places
  <2>3. pc'[o] = "waitCheck" /\ wait'[o] = Single(Inputs[o][port[o]])
    BY <2>1 DEF CallWait, Goto, TypeOK
  <2>4. WaitOf(o)' = Single(Inputs[o][port[o]])
    BY <1>1, <1>2, <2>1 DEF WaitOf, Single
  <2>5. OperInv(o)'
    BY <1>3, <1>4, <1>5, <2>1, <2>2, <2>3, <2>4, StartsWait
  <2> QED BY <1>1, <2>1, <2>2, <2>5
<1>8. CASE MergeFill(o)
  <2>1. /\ heap' = IF closedResult[o] THEN heap ELSE [heap EXCEPT ![o] = @ \cup {port[o]}]
        /\ counter' = [counter EXCEPT ![o] = IF @ < NumIn(o) THEN @ + 1 ELSE @]
        /\ \/ port' = port \/ port' = [port EXCEPT ![o] = (port[o] % NumIn(o)) + 1]
        /\ loc' = [loc EXCEPT ![o] = "loop"] \/ loc' = [loc EXCEPT ![o] = "select"]
        /\ UNCHANGED queue /\ loc[o] = "waited" /\ pc[o] = "code"
    BY <1>8 DEF MergeFill, Go, NextPort, Reached, At, vars, portVars
  <2>2. loc'[o] \in {"loop", "select"} /\ loc' \in [Operators -> Places]
    BY <1>1, <2>1 DEF Places
  <2>3. port' \in [Operators -> Nat] /\ port'[o] \in 1..NumIn(o)
    BY <1>1, <1>3, <2>1, Turn
  <2>4. counter' \in [Operators -> Nat]
    BY <1>1, <2>1
  <2>5. /\ heap' \in [Operators -> SUBSET Nat]
        /\ heap'[o] = IF closedResult[o] THEN heap[o] ELSE heap[o] \cup {port[o]}
    BY <1>1, <2>1
  <2>6. ~closedResult[o] => queue[Inputs[o][port[o]]] # <<>>
    BY <1>1, <1>2, <2>1 DEF OperInv, Fronts, Told, LooksAt, MidWait
  <2>7. \A i \in heap'[o] : queue'[Inputs[o][i]] # <<>>
    BY <1>4, <2>1, <2>5, <2>6
  <2>8. OperInv(o)'
    BY <1>3, <1>5, <2>2, <2>3, <2>5, <2>7, Elsewhere
  <2> QED BY <1>1, <2>2, <2>3, <2>4, <2>5, <2>8
<1>9. CASE MergeSelect(o) /\ ~Return(o)
  <2>1. PICK i \in heap[o] :
          /\ port' = [port EXCEPT ![o] = i] /\ loc' = [loc EXCEPT ![o] = "pop"]
          /\ UNCHANGED <<counter, heap, queue>>
    BY <1>9 DEF MergeSelect, Go, CallPush, portVars
  <2>2. /\ loc'[o] = "pop" /\ loc' \in [Operators -> Places]
        /\ port'[o] = i /\ port' \in [Operators -> Nat] /\ i \in 1..NumIn(o)
    BY <1>1, <1>3, <2>1 DEF Places
  <2>3. StillPops(o)' = {i}
    BY <1>1, <1>2, <2>2 DEF StillPops
  <2>4. OperInv(o)'
    BY <1>3, <1>4, <1>5, <2>1, <2>2, <2>3, InTurn
  <2> QED BY <1>1, <2>1, <2>2, <2>4
<1>10. CASE MergePop(o)
  <2>1. /\ CallPop(o, Inputs[o][port[o]]) /\ heap' = [heap EXCEPT ![o] = @ \ {port[o]}]
        /\ loc' = [loc EXCEPT ![o] = "again"] /\ UNCHANGED <<port, counter>>
    BY <1>10 DEF MergePop, Go
  <2>2. /\ loc'[o] = "again" /\ loc' \in [Operators -> Places]
        /\ heap'[o] = heap[o] \ {port[o]} /\ heap' \in [Operators -> SUBSET Nat]
    BY <1>1, <2>1 DEF Places
  <2>3. ASSUME NEW i \in heap'[o]
        PROVE  queue'[Inputs[o][i]] # <<>>
    <3>1. i \in 1..NumIn(o) \ {port[o]} /\ i \in heap[o]
      BY <1>3, <2>2
    <3> QED BY <1>3, <1>4, <2>1, <3>1, PopEffect
  <2>4. OperInv(o)'
    BY <1>3, <1>5, <2>1, <2>2, <2>3, Elsewhere
  <2> QED BY <1>1, <2>1, <2>2, <2>4
<1>11. CASE MergeAgain(o) /\ ~Return(o)
  <2>1. loc' = [loc EXCEPT ![o] = "loop"] /\ UNCHANGED <<port, counter, heap, queue>>
    BY <1>11 DEF MergeAgain, Go, vars, portVars
  <2>2. loc'[o] = "loop" /\ loc' \in [Operators -> Places]
    BY <1>1, <2>1 DEF Places
  <2>3. OperInv(o)'
    BY <1>3, <1>4, <1>5, <2>1, <2>2, Elsewhere
  <2> QED BY <1>1, <2>1, <2>2, <2>3
<1> QED BY <1>6, <1>7, <1>8, <1>9, <1>10, <1>11

LEMMA ProgramOper ==
  ASSUME TypeOK, ProgramInv, EveryTuple, NEW u \in Operators, ProgramStep(u), UNCHANGED app
  PROVE  ProgramInv'
<1>1. ProgramTypes' /\ OperInv(u)'
  BY PlainLoops, OnePort, EmitOper, PopInTurnOper, ScanOper, MergeOper DEF ProgramStep
<1>2. ASSUME NEW o \in Operators \ {u}
      PROVE  OperInv(o)'
  <2>1. app \in DOMAIN Apps /\ OperInv(o) /\ ProgramTypes
    BY ByOperator DEF ProgramTypes
  <2>2. SameLocals(o)
    BY <2>1, ProgramFrame
  <2>3. /\ pc'[o] = pc[o] /\ wait'[o] = wait[o] /\ closedResult'[o] = closedResult[o]
        /\ \A p \in InPortsOf(o) : queue'[p] = queue[p]
    BY ProgramCalls, CodeFrame
  <2>4. KeepsFronts(o)
    BY <2>3, InputPorts DEF KeepsFronts
  <2> QED BY <2>1, <2>2, <2>3, <2>4, QuietProgram
<1> QED BY <1>1, <1>2, ByOperator

LEMMA FlowSteps ==
  ASSUME EveryTuple, TypeOK, ProgramInv, [FlowNext]_allVars
  PROVE  [Next]_vars /\ ProgramInv'
<1>1. CASE (RuntimeStep \/ Terminated) /\ UNCHANGED progVars
  <2>1. ProgramTypes'
    BY <1>1 DEF ProgramInv, ProgramTypes, progVars
  <2>2. \A o \in Operators : OperInv(o)'
    BY <1>1, RuntimeOper
  <2> QED BY <1>1, <2>1, <2>2, ByOperator DEF Next
<1>2. CASE UNCHANGED app /\ \E o \in Operators : ProgramStep(o)
  <2>1. PICK o \in Operators : ProgramStep(o)
    BY <1>2
  <2>2. CodeStep(o) \/ UNCHANGED vars
    BY <2>1, ProgramCalls
  <2> QED BY <1>2, <2>1, <2>2, ProgramOper DEF Next
<1>3. CASE UNCHANGED allVars
  <2>1. UNCHANGED <<vars, progVars>>
    BY <1>3 DEF allVars
  <2>2. /\ UNCHANGED <<queue, pc, wait, closedResult>> /\ UNCHANGED progVars
    BY <2>1 DEF vars, portVars, callVars
  <2>3. ASSUME NEW o \in Operators
        PROVE  OperInv(o)'
    <3>1. app \in DOMAIN Apps /\ OperInv(o) /\ SameLocals(o)
      BY <2>2, ByOperator DEF ProgramTypes, progVars, SameLocals
    <3> QED BY <2>2, <3>1, QuietProgram DEF KeepsFronts
  <2>4. ProgramTypes'
    BY <2>2 DEF ProgramInv, ProgramTypes, progVars
  <2> QED BY <2>1, <2>3, <2>4, ByOperator
<1> QED BY <1>1, <1>2, <1>3 DEF FlowNext

LEMMA FlowStart == FlowInit => Init /\ ProgramInv
<1> SUFFICES ASSUME FlowInit PROVE ProgramInv
  BY DEF FlowInit
<1>1. ProgramTypes
  BY DEF FlowInit, ProgramTypes, Places
<1>2. ASSUME NEW o \in Operators
      PROVE  OperInv(o)
  <2>1. loc[o] \in {"open", "loop"} /\ port[o] = 1 /\ heap[o] = {}
    BY DEF FlowInit
  <2>2. Locals(o)
    BY <1>1, <2>1, RoleFacts DEF Locals, ProgramTypes, Sources
  <2>3. InWait(o) /\ Fronts(o) = {}
    BY <2>1 DEF InWait, Fronts, Told
  <2> QED BY <2>2, <2>3 DEF OperInv
<1> QED BY <1>1, <1>2, ByOperator

-----------------------------------------------------------------------------
LEMMA FlowTypes ==
  ASSUME EveryTuple
  PROVE  FlowSpec => [](TypeOK /\ CallShape /\ ProgramInv)
<1>1. FlowInit => TypeOK /\ CallShape /\ ProgramInv
  BY FlowStart, InitTypes, FlowGraphAssumption, RuntimeAssumption
<1>2. TypeOK /\ CallShape /\ ProgramInv /\ [FlowNext]_allVars
      => (TypeOK /\ CallShape /\ ProgramInv)'
  BY FlowSteps, NextTypes, FlowGraphAssumption, RuntimeAssumption
<1> QED BY <1>1, <1>2, PTL DEF FlowSpec

\* Every application of library operators is a run of StreamRuntime: its operators
\* make only the calls that the runtime is modelled to answer (OperatorContext.h),
\* with ports of their own and at most what MaxWait allows.  What is proved of
\* StreamRuntime, under its assumptions about the graph alone, holds of them.
THEOREM ApplicationsAreRuns ==
  ASSUME EveryTuple
  PROVE  FlowSpec => Spec
<1>1. FlowInit => Init
  BY FlowStart
<1>2. TypeOK /\ ProgramInv /\ [FlowNext]_allVars => [Next]_vars
  BY FlowSteps
<1>3. FlowSpec => [](TypeOK /\ CallShape /\ ProgramInv)
  BY FlowTypes
<1> QED BY <1>1, <1>2, <1>3, PTL DEF FlowSpec, Spec

\* No operator of the library looks at, or pops, a tuple that is not there: what
\* its wait has found stays until it pops it (process() of every operator,
\* InputPortImpl::getFrontTuple and popTuple).
THEOREM FrontsAreThere ==
  ASSUME EveryTuple
  PROVE  FlowSpec => []FrontsExist
<1>1. TypeOK /\ ProgramInv => FrontsExist
  BY DEF ProgramInv
<1>2. FlowSpec => [](TypeOK /\ CallShape /\ ProgramInv)
  BY FlowTypes
<1> QED BY <1>1, <1>2, PTL

\* For instance, in every application no wake-up is lost, no coroutine is resumed
\* while it runs and no queue grows beyond its limit.
THEOREM ApplicationsAreSafe ==
  ASSUME EveryTuple
  PROVE  /\ FlowSpec => [](OneResumption /\ NoLostReadWakeup /\ NoLostClosure)
         /\ NoFanIn => (FlowSpec => []NoLostWriteWakeup)
         /\ ConnectedOnce => (FlowSpec => []QueueBounded)
<1>1. FlowSpec => Spec
  BY ApplicationsAreRuns
<1>2. FlowSpec => [](OneResumption /\ NoLostReadWakeup /\ NoLostClosure)
  BY <1>1, ResumptionIsExclusive, ReadersAreWoken, ClosuresAreAnnounced, PTL
<1>3. NoFanIn => (FlowSpec => []NoLostWriteWakeup)
  BY <1>1, WritersAreWoken
<1>4. ConnectedOnce => (FlowSpec => []QueueBounded)
  BY <1>1, QueuesAreBounded
<1> QED BY <1>2, <1>3, <1>4

-----------------------------------------------------------------------------
(***************************************************************************)
(* Applications that only forward tuples: sources, filters, unions and     *)
(* operators that pass everything on, with one path from each source to    *)
(* each of their ports.  They keep their contract: ForwardInv follows each *)
(* source through the queues.                                              *)
(***************************************************************************)

\* The operators with a path to port p.
Above(p) == UNION {Upstream(u) : u \in Publishers(p)}

Forwarding(a) ==
  LET role == Apps[a].role
  IN \A o \in Operators :
       /\ role[o] \in Sources \cup {"Pass", "Filter", "Union", "FileSink"}
       /\ role[o] \in Sources => InPortsOf(o) = {}
       /\ role[o] \in {"Pass", "Filter", "FileSink"} => NumIn(o) = 1
       /\ \A q \in OutPortsOf(o) : role[o] # "FileSink" /\ q = Outputs[o][1]
       /\ \A p, q \in InPortsOf(o) : p # q => Above(p) \cap Above(q) = {}
       /\ role[o] = "FileSink" => o \notin Apps[a].broken

\* The generated tuples that are to come by at port p.
Carried(p) ==
  UNION {UNION {{s} \X Passing(app, u, s) : s \in Feeding(app, u)} : u \in Publishers(p)}

\* The tuples of each source are in its order.
Rising(q) ==
  \A i, j \in DOMAIN q : i < j =>
    \A s \in Operators, m, n \in Nat : q[i].ids = {<<s, m>>} /\ q[j].ids = {<<s, n>>} => m < n

\* Of each source, a queue q of a port at which the tuples C are to come by has
\* those between two numbers, in their order: U[s] was the last that was popped,
\* S[s] the last that was pushed, or left out upstream since.
Ordered(q, C, S, U) ==
  /\ \A s \in Operators : U[s] <= S[s]
  /\ \A i \in DOMAIN q : \E e \in C : q[i].ids = {e} /\ U[e[1]] < e[2] /\ e[2] <= S[e[1]]
  /\ \A e \in C : U[e[1]] < e[2] /\ e[2] <= S[e[1]] => \E i \in DOMAIN q : q[i].ids = {e}
  /\ Rising(q)

\* The ports whose front o has pushed, or is pushing, and has yet to pop.
InHand(o) == IF loc[o] = "pop" THEN {Inputs[o][i] : i \in StillPops(o)} ELSE {}

\* The push that o is in, if it is in one, has reached port r.
PushPoints == {"offer", "writeBlock", "writeYield", "deliver", "written"}
Delivered(o, r) ==
  pc[o] \in PushPoints =>
    \A i \in DOMAIN todo[o] : todo[o][i] = r => i = 1 /\ pc[o] = "written"

\* The numbers U with that of the front of p.
WithFront(p, U) ==
  [s \in Operators |-> IF \E n \in Nat : Front(p).ids = {<<s, n>>}
                       THEN CHOOSE n \in Nat : Front(p).ids = {<<s, n>>} ELSE U[s]]

\* What o has popped it has pushed, and nothing more but what it has in hand.
Handover(o, sent, used) ==
  \A p \in InPortsOf(o), r \in DownstreamPorts(o) : \A s \in Above(p) :
    sent[r][s] = IF p \in InHand(o) /\ Delivered(o, r) THEN WithFront(p, used[p])[s]
                                                      ELSE used[p][s]

Producing(o, sent) ==
  Role(o) \in Sources =>
    /\ counter[o] <= Supply(o)
    /\ \A r \in DownstreamPorts(o) :
         IF Delivered(o, r) THEN sent[r][o] = counter[o] ELSE sent[r][o] + 1 = counter[o]

Sinking(o, used) ==
  Role(o) = "FileSink" =>
    \A s \in Feeding(app, o) : \A n \in Passing(app, o, s) :
      (\E i \in DOMAIN sunk[o] : <<s, n>> \in sunk[o][i].ids) <=> n <= used[Inputs[o][1]][s]

Traced(o, sent, used) == Handover(o, sent, used) /\ Producing(o, sent) /\ Sinking(o, used)

Followed ==
  \E sent, used \in [InPorts -> [Operators -> Nat]] :
    /\ \A p \in InPorts : Ordered(queue[p], Carried(p), sent[p], used[p])
    /\ \A o \in Operators : Traced(o, sent, used)

\* What o pushes is what it has in hand, or has just made.
Pushes(o) ==
  /\ pc[o] \in PushPoints => loc[o] = IF Role(o) \in Sources THEN "loop" ELSE "pop"
  /\ pc[o] \in PushPoints => \A p \in InHand(o) : item[o].ids = Front(p).ids
  /\ pc[o] \in PushPoints /\ Role(o) \in Sources =>
       item[o].ids = {<<o, counter[o]>>} /\ <<o, counter[o]>> \notin Apps[app].malformed
  /\ loc[o] = "pop" /\ Role(o) = "Filter" => Front(Inputs[o][1]).ids \subseteq Apps[app].keep

\* o has been told that its ports are closed, or has ended without a shutdown.
Through(o) ==
  \/ loc[o] = "waited" /\ pc[o] \notin MidWait /\ closedResult[o]
  \/ loc[o] = "end" /\ ~shutdown

\* Who ends has nothing left to do.
Ends(o) ==
  /\ pc[o] \in MidWait => loc[o] = "waited" /\ wait[o] = WaitOf(o)
  /\ loc[o] = "end" <=> isComplete[o]
  /\ loc[o] = "open" => o \in Apps[app].broken
  /\ o \in Apps[app].broken => loc[o] \in {"open", "end"}
  /\ loc[o] = "pop" => ~closedResult[o]
  /\ Through(o) =>
       IF Role(o) \in Sources THEN counter[o] = Supply(o) \/ o \in Apps[app].broken
                              ELSE \A p \in InPortsOf(o) : queue[p] = <<>> /\ IsClosed(p)

ForwardInv ==
  /\ Forwarding(app)
  /\ sunk \in [Operators -> Seq(Tuples)]
  /\ \A o \in Operators : Pushes(o) /\ Ends(o)
  /\ Followed

-----------------------------------------------------------------------------
(***************************************************************************)
(* Paths, and what is to come by at a port.                                *)
(***************************************************************************)
\* Upstream(o) is the least set that is closed like this.
LEMMA UpstreamLeast ==
  ASSUME NEW o \in Operators, NEW S \in SUBSET Operators, o \in S,
         \A v \in S : UpstreamOperators(v) \subseteq S
  PROVE  Upstream(o) \subseteq S
BY DEF Upstream

\* It is closed itself.
LEMMA UpstreamClosed ==
  ASSUME NEW o \in Operators
  PROVE  /\ o \in Upstream(o) /\ Upstream(o) \subseteq Operators
         /\ \A v \in Upstream(o) : UpstreamOperators(v) \subseteq Upstream(o)
<1>1. \A v \in Operators : UpstreamOperators(v) \subseteq Operators
  BY FlowGraphAssumption DEF FlowGraphAssumption, UpstreamOperators, Publishers, PublisherPorts
<1> QED BY <1>1 DEF Upstream

\* Upstream is transitive.
LEMMA UpstreamPasses ==
  ASSUME NEW o \in Operators, NEW v \in Upstream(o)
  PROVE  Upstream(v) \subseteq Upstream(o)
BY UpstreamLeast, UpstreamClosed

\* A path to o comes in at one of its ports.
LEMMA AboveIsUpstream ==
  ASSUME NEW o \in Operators
  PROVE  /\ \A p \in InPortsOf(o) : Above(p) \subseteq Upstream(o)
         /\ \A w \in Upstream(o) : w = o \/ \E p \in InPortsOf(o) : w \in Above(p)
<1>1. ASSUME NEW p \in InPortsOf(o), NEW u \in Publishers(p)
      PROVE  u \in Operators /\ u \in Upstream(o) /\ Upstream(u) \subseteq Upstream(o)
  <2>1. u \in UpstreamOperators(o)
    BY DEF UpstreamOperators
  <2> QED BY <2>1, UpstreamClosed, UpstreamPasses
<1> DEFINE S == {o} \cup UNION {Above(p) : p \in InPortsOf(o)}
<1>2. S \subseteq Operators
  BY <1>1, UpstreamClosed DEF Above
<1>3. ASSUME NEW v \in S, NEW w \in UpstreamOperators(v)
      PROVE  w \in S
  <2>1. CASE v = o
    <3>1. PICK p \in InPortsOf(o) : w \in Publishers(p)
      BY <2>1 DEF UpstreamOperators
    <3>2. w \in Above(p)
      BY <1>1, <3>1, UpstreamClosed DEF Above
    <3> QED BY <3>2
  <2>2. CASE v # o
    <3>1. PICK p \in InPortsOf(o) : v \in Above(p)
      BY <2>2
    <3>2. PICK u \in Publishers(p) : v \in Upstream(u)
      BY <3>1 DEF Above
    <3>3. w \in Upstream(u)
      BY <1>1, <3>2, UpstreamClosed
    <3> QED BY <3>3 DEF Above
  <2> QED BY <2>1, <2>2
<1>4. Upstream(o) \subseteq S
  BY <1>2, <1>3, UpstreamLeast
<1> QED BY <1>1, <1>4 DEF Above

\* Without fan-in a port has one publisher.
LEMMA SolePublisher ==
  ASSUME NoFanIn, NEW o \in Operators, NEW r \in DownstreamPorts(o)
  PROVE  /\ r \in InPorts /\ Publishers(r) = {o} /\ Above(r) = Upstream(o)
         /\ \E q \in OutPortsOf(o) : r \in SubscribersOf(q)
<1>1. PICK q \in OutPortsOf(o) : r \in SubscribersOf(q)
  BY DEF DownstreamPorts
<1>2. q \in OutPorts /\ Source[q] = o /\ r \in InPorts
  BY <1>1, FlowGraphAssumption DEF OutPortsOf, FlowGraphAssumption, SubscribersOf
<1>3. ASSUME NEW q2 \in OutPorts, r \in SubscribersOf(q2)
      PROVE  q2 = q
  BY <1>1, <1>2, <1>3 DEF NoFanIn, SubscribersOf
<1>4. Publishers(r) = {o}
  BY <1>1, <1>2, <1>3 DEF Publishers, PublisherPorts
<1> QED BY <1>1, <1>2, <1>4 DEF Above

\* The publisher of a port feeds it.
LEMMA PublisherOf ==
  ASSUME NoFanIn, NEW p \in InPorts, NEW u \in Publishers(p)
  PROVE  u \in Operators /\ p \in DownstreamPorts(u) /\ Publishers(p) = {u}
<1>1. PICK q \in OutPorts : p \in SubscribersOf(q) /\ Source[q] = u
  BY DEF Publishers, PublisherPorts
<1>2. u \in Operators /\ p \in DownstreamPorts(u)
  BY <1>1, FlowGraphAssumption DEF FlowGraphAssumption, DownstreamPorts, OutPortsOf
<1> QED BY <1>2, SolePublisher

\* What is to come by is what the publisher is to forward.
LEMMA CarriedAt ==
  ASSUME NoFanIn, NEW p \in InPorts, NEW u \in Publishers(p)
  PROVE  Carried(p) = UNION {{s} \X Passing(app, u, s) : s \in Feeding(app, u)}
BY PublisherOf DEF Carried

\* It comes from sources above the port.
LEMMA CarriedPairs ==
  ASSUME NEW p \in InPorts, app \in DOMAIN Apps
  PROVE  /\ Carried(p) \subseteq Operators \X (Nat \ {0})
         /\ \A e \in Carried(p) : e[1] \in Above(p) /\ e[1] \notin Apps[app].broken
                                  /\ Role(e[1]) \in Sources
<1>1. ASSUME NEW e \in Carried(p)
      PROVE  \E u \in Publishers(p) : \E s \in Feeding(app, u) :
               \E n \in Passing(app, u, s) : e = <<s, n>>
  BY DEF Carried
<1>2. ASSUME NEW u \in Publishers(p), NEW s \in Feeding(app, u), NEW n \in Passing(app, u, s)
      PROVE  /\ s \in Operators /\ s \in Above(p) /\ n \in Nat \ {0}
             /\ s \notin Apps[app].broken /\ Role(s) \in Sources
  <2>1. s \in Upstream(u) /\ s \notin Apps[app].broken /\ Role(s) \in Sources
    BY DEF Feeding, Role
  <2>2. s \in Operators
    BY <2>1 DEF Upstream
  <2>3. Apps[app].supply[s] \in Nat
    BY <2>2, RoleFacts DEF Supply
  <2> QED BY <2>1, <2>2, <2>3 DEF Passing, Above
<1> QED BY <1>1, <1>2

\* What an operator is to forward, or to write, of a source is what is to come by
\* at the port that has the source above it, and passes its filter.
LEMMA Arrives ==
  ASSUME NoFanIn, app \in DOMAIN Apps, Forwarding(app), NEW o \in Operators,
         NEW p \in InPortsOf(o), NEW s \in Above(p), NEW n
  PROVE  /\ s \in Feeding(app, o) /\ n \in Passing(app, o, s) <=>
              <<s, n>> \in Carried(p) /\ (Role(o) = "Filter" => <<s, n>> \in Apps[app].keep)
<1>1. PICK u \in Publishers(p) : s \in Upstream(u)
  BY DEF Above
<1>2. /\ p \in InPorts /\ u \in Operators /\ Publishers(p) = {u} /\ Above(p) = Upstream(u)
      /\ Upstream(u) \subseteq Upstream(o) /\ s \in Upstream(o) /\ s \in Operators
  <2>1. p \in InPorts
    BY DEF InPortsOf
  <2>2. u \in Operators /\ Publishers(p) = {u}
    BY <2>1, PublisherOf
  <2>3. Above(p) = Upstream(u)
    BY <2>2 DEF Above
  <2> QED BY <1>1, <2>1, <2>2, <2>3, AboveIsUpstream, UpstreamClosed
<1>3. s \in Feeding(app, o) <=> s \in Feeding(app, u)
  BY <1>1, <1>2 DEF Feeding
<1>4. s \in Filtered(app, o) <=> Role(o) = "Filter" \/ s \in Filtered(app, u)
  <2>1. ASSUME NEW f \in InRole(app, "Filter") \cap Upstream(o), s \in Upstream(f)
        PROVE  Role(o) = "Filter" \/ s \in Filtered(app, u)
    <3>1. CASE f = o
      BY <3>1 DEF InRole, Role
    <3>2. CASE f # o
      <4>1. PICK p2 \in InPortsOf(o) : f \in Above(p2)
        BY <3>2, AboveIsUpstream
      <4>2. PICK u2 \in Publishers(p2) : f \in Upstream(u2)
        BY <4>1 DEF Above
      <4>3. u2 \in Operators
        BY <4>2, PublisherOf DEF InPortsOf
      <4>4. s \in Above(p2)
        BY <2>1, <4>2, <4>3, UpstreamPasses DEF Above
      <4>5. p2 = p
        BY <4>4 DEF Forwarding
      <4>6. f \in Upstream(u)
        BY <1>2, <4>1, <4>5
      <4> QED BY <2>1, <4>6 DEF Filtered
    <3> QED BY <3>1, <3>2
  <2>2. ASSUME Role(o) = "Filter"
        PROVE  s \in Filtered(app, o)
    <3>1. o \in InRole(app, "Filter") \cap Upstream(o)
      BY <2>2, UpstreamClosed DEF InRole, Role
    <3> QED BY <1>2, <3>1 DEF Filtered
  <2>3. ASSUME s \in Filtered(app, u)
        PROVE  s \in Filtered(app, o)
    BY <1>2, <2>3 DEF Filtered
  <2> QED BY <2>1, <2>2, <2>3 DEF Filtered
<1>5. n \in Passing(app, o, s) <=>
        n \in Passing(app, u, s) /\ (Role(o) = "Filter" => <<s, n>> \in Apps[app].keep)
  BY <1>4 DEF Passing
<1>6. <<s, n>> \in Carried(p) <=> s \in Feeding(app, u) /\ n \in Passing(app, u, s)
  BY <1>1, <1>2, CarriedAt
<1> QED BY <1>3, <1>5, <1>6

\* Hence of what comes by at the next port.
LEMMA Forwards ==
  ASSUME NoFanIn, app \in DOMAIN Apps, Forwarding(app), NEW o \in Operators,
         NEW p \in InPortsOf(o), NEW r \in DownstreamPorts(o), NEW s \in Above(p), NEW n
  PROVE  <<s, n>> \in Carried(r) <=>
           <<s, n>> \in Carried(p) /\ (Role(o) = "Filter" => <<s, n>> \in Apps[app].keep)
<1>1. r \in InPorts /\ o \in Publishers(r)
  BY SolePublisher
<1>2. <<s, n>> \in Carried(r) <=> s \in Feeding(app, o) /\ n \in Passing(app, o, s)
  BY <1>1, CarriedAt
<1> QED BY <1>2, Arrives

\* A source makes its well-formed lines and nothing else.
LEMMA Generates ==
  ASSUME NoFanIn, app \in DOMAIN Apps, Forwarding(app), NEW o \in Operators,
         Role(o) \in Sources, NEW r \in DownstreamPorts(o), NEW s, NEW n
  PROVE  <<s, n>> \in Carried(r) <=>
           /\ s = o /\ o \notin Apps[app].broken
           /\ n \in 1..Supply(o) /\ <<o, n>> \notin Apps[app].malformed
<1>1. InPortsOf(o) = {}
  BY DEF Forwarding, Role
<1>2. Upstream(o) = {o}
  BY <1>1, AboveIsUpstream, UpstreamClosed
<1>3. Filtered(app, o) = {}
  BY <1>2 DEF Filtered, InRole, Role, Sources
<1>4. Feeding(app, o) = {o} \ Apps[app].broken
  BY <1>2 DEF Feeding, Role
<1>5. r \in InPorts /\ o \in Publishers(r)
  BY SolePublisher
<1>6. <<s, n>> \in Carried(r) <=> s \in Feeding(app, o) /\ n \in Passing(app, o, s)
  BY <1>5, CarriedAt
<1> QED BY <1>3, <1>4, <1>6 DEF Passing, Supply

-----------------------------------------------------------------------------
(***************************************************************************)
(* Queues between two numbers.                                             *)
(***************************************************************************)
Counts == [Operators -> Nat]
Pairs == Operators \X (Nat \ {0})

\* Of the tuples C of source s, the n-th is the next after number U[s].
NextIn(C, U, s, n) ==
  <<s, n>> \in C /\ U[s] < n /\ \A m \in Nat : <<s, m>> \in C /\ m < n => m <= U[s]

\* Of two tuples of a source in a queue the first has the smaller number.
LEMMA RisingPair ==
  ASSUME NEW q \in Seq(Tuples), Rising(q), NEW i \in DOMAIN q, NEW j \in DOMAIN q, i < j,
         NEW s \in Operators, NEW m \in Nat, NEW n \in Nat,
         q[i].ids = {<<s, m>>}, q[j].ids = {<<s, n>>}
  PROVE  m < n
BY Zenon DEF Rising

\* The front of a queue is the next tuple of its source that is to come by.
LEMMA FrontOrdered ==
  ASSUME NEW q \in Seq(Tuples), q # <<>>, NEW C \in SUBSET Pairs, NEW S \in Counts,
         NEW U \in Counts, Ordered(q, C, S, U)
  PROVE  \E s \in Operators, n \in Nat :
           Head(q).ids = {<<s, n>>} /\ NextIn(C, U, s, n) /\ n <= S[s]
<1>1. 1 \in DOMAIN q /\ Head(q) = q[1] /\ DOMAIN q \subseteq Nat /\ \A i \in DOMAIN q : 1 <= i
  OBVIOUS
<1>2. PICK e \in C : q[1].ids = {e} /\ U[e[1]] < e[2] /\ e[2] <= S[e[1]]
  BY <1>1 DEF Ordered
<1>3. PICK s \in Operators, n \in Nat : e = <<s, n>>
  BY DEF Pairs
<1>4. ASSUME NEW m \in Nat, <<s, m>> \in C, m < n, ~(m <= U[s])
      PROVE  FALSE
  <2>1. U[s] \in Nat /\ S[s] \in Nat
    BY DEF Counts
  <2>2. U[s] < m /\ m <= S[s]
    BY <1>2, <1>3, <1>4, <2>1
  <2>3. PICK i \in Nat : i \in DOMAIN q /\ q[i].ids = {<<s, m>>}
    BY <1>1, <1>4, <2>2 DEF Ordered
  <2>4. i # 1
    BY <1>2, <1>3, <1>4, <2>3
  <2>5. 1 < i
    BY <1>1, <2>3, <2>4
  <2>6. /\ Rising(q) /\ 1 \in DOMAIN q /\ q[1].ids = {<<s, n>>} /\ q[i].ids = {<<s, m>>}
    BY <1>1, <1>2, <1>3, <2>3 DEF Ordered
  <2>7. n < m
    BY <1>4, <2>3, <2>5, <2>6, RisingPair
  <2> QED BY <1>4, <2>7
<1>5. NextIn(C, U, s, n)
  BY <1>2, <1>3, <1>4 DEF NextIn
<1> QED BY <1>1, <1>2, <1>3, <1>5

\* Popping the front moves the number of the last that was popped ...
LEMMA PopOrdered ==
  ASSUME NEW q \in Seq(Tuples), q # <<>>, NEW C \in SUBSET Pairs, NEW S \in Counts,
         NEW U \in Counts, Ordered(q, C, S, U), NEW s \in Operators, NEW n \in Nat,
         Head(q).ids = {<<s, n>>}
  PROVE  Ordered(Tail(q), C, S, [U EXCEPT ![s] = n])
<1> DEFINE V == [U EXCEPT ![s] = n]
           t == Tail(q)
<1>1. /\ V \in Counts /\ V[s] = n /\ \A x \in Operators : x # s => V[x] = U[x]
      /\ \A x \in Operators : U[x] \in Nat /\ S[x] \in Nat
  BY DEF Counts
<1>2. /\ Head(q) = q[1] /\ 1 \in DOMAIN q /\ \A i \in DOMAIN t : t[i] = q[i + 1] /\ i + 1 \in DOMAIN q /\ 1 < i + 1
      /\ \A i \in DOMAIN q : i = 1 \/ (i - 1 \in DOMAIN t /\ t[i - 1] = q[i])
      /\ DOMAIN t \subseteq Nat
  OBVIOUS
<1> HIDE DEF V, t
<1>3. U[s] < n /\ n <= S[s] /\ <<s, n>> \in C
  <2>1. PICK e \in C : q[1].ids = {e} /\ U[e[1]] < e[2] /\ e[2] <= S[e[1]]
    BY <1>2 DEF Ordered
  <2>2. e = <<s, n>>
    BY <1>2, <2>1
  <2> QED BY <2>1, <2>2
<1>4. \A x \in Operators : V[x] <= S[x]
  BY <1>1, <1>3 DEF Ordered
<1>5. ASSUME NEW i \in DOMAIN t
      PROVE  \E e \in C : t[i].ids = {e} /\ V[e[1]] < e[2] /\ e[2] <= S[e[1]]
  <2>1. PICK e \in C : q[i + 1].ids = {e} /\ U[e[1]] < e[2] /\ e[2] <= S[e[1]]
    BY <1>2 DEF Ordered
  <2>2. PICK x \in Operators, m \in Nat : e = <<x, m>>
    BY DEF Pairs
  <2>3. CASE x = s
    <3>1. /\ Rising(q) /\ 1 \in DOMAIN q /\ i + 1 \in DOMAIN q /\ 1 < i + 1
          /\ q[1].ids = {<<s, n>>} /\ q[i + 1].ids = {<<s, m>>}
      BY <1>2, <2>1, <2>2, <2>3 DEF Ordered
    <3>2. n < m
      BY <3>1, RisingPair
    <3> QED BY <1>1, <1>2, <2>1, <2>2, <2>3, <3>2
  <2>4. CASE x # s
    BY <1>1, <1>2, <2>1, <2>2, <2>4
  <2> QED BY <2>3, <2>4
<1>6. ASSUME NEW e \in C, V[e[1]] < e[2], e[2] <= S[e[1]]
      PROVE  \E i \in DOMAIN t : t[i].ids = {e}
  <2>1. PICK x \in Operators, m \in Nat : e = <<x, m>>
    BY DEF Pairs
  <2>2. U[x] < m /\ m <= S[x] /\ e # <<s, n>>
    BY <1>1, <1>3, <1>6, <2>1
  <2>3. PICK i \in DOMAIN q : q[i].ids = {e}
    BY <2>1, <2>2 DEF Ordered
  <2>4. i # 1
    BY <1>2, <2>2, <2>3
  <2> QED BY <1>2, <2>3, <2>4
<1>7. ASSUME NEW i \in DOMAIN t, NEW j \in DOMAIN t, NEW x \in Operators, NEW m \in Nat,
             NEW k \in Nat, i < j, t[i].ids = {<<x, m>>}, t[j].ids = {<<x, k>>}
      PROVE  m < k
  <2>1. i + 1 \in DOMAIN q /\ j + 1 \in DOMAIN q /\ i + 1 < j + 1
    BY <1>2, <1>7
  <2>2. Rising(q) /\ q[i + 1].ids = {<<x, m>>} /\ q[j + 1].ids = {<<x, k>>}
    BY <1>2, <1>7 DEF Ordered
  <2> QED BY <2>1, <2>2, RisingPair
<1>8. Rising(t)
  BY <1>7, Zenon DEF Rising
<1>9. Ordered(t, C, S, V)
  BY <1>4, <1>5, <1>6, <1>8 DEF Ordered
<1> QED BY <1>9 DEF V, t

\* ... pushing the next tuple that of the last that was pushed ...
LEMMA PushOrdered ==
  ASSUME NEW q \in Seq(Tuples), NEW C \in SUBSET Pairs, NEW S \in Counts, NEW U \in Counts,
         Ordered(q, C, S, U), NEW x \in Tuples, NEW s \in Operators, NEW n \in Nat,
         x.ids = {<<s, n>>}, NextIn(C, S, s, n)
  PROVE  Ordered(Append(q, x), C, [S EXCEPT ![s] = n], U)
<1> USE DEF NextIn
<1> DEFINE V == [S EXCEPT ![s] = n]
           t == Append(q, x)
<1>1. /\ V \in Counts /\ V[s] = n /\ \A y \in Operators : y # s => V[y] = S[y]
      /\ \A y \in Operators : U[y] \in Nat /\ S[y] \in Nat
  BY DEF Counts
<1>2. PICK l \in Nat : l \notin DOMAIN q /\ DOMAIN t = DOMAIN q \cup {l} /\ t[l] = x
                       /\ (\A i \in DOMAIN q : t[i] = q[i] /\ i < l) /\ DOMAIN q \subseteq Nat
  <2>1. /\ Len(q) + 1 \in Nat /\ DOMAIN q = 1..Len(q) /\ DOMAIN t = 1..(Len(q) + 1)
        /\ t[Len(q) + 1] = x /\ \A i \in 1..Len(q) : t[i] = q[i]
    OBVIOUS
  <2>2. 1..(Len(q) + 1) = 1..Len(q) \cup {Len(q) + 1} /\ Len(q) + 1 \notin 1..Len(q)
    BY <2>1
  <2> QED BY <2>1, <2>2
<1> HIDE DEF V, t
<1>3. \A y \in Operators : U[y] <= S[y] /\ S[y] <= V[y]
  BY <1>1 DEF Ordered
<1>4. \A y \in Operators : U[y] <= V[y]
  BY <1>1, <1>3 DEF Counts
<1>5. ASSUME NEW i \in DOMAIN t
      PROVE  \E e \in C : t[i].ids = {e} /\ U[e[1]] < e[2] /\ e[2] <= V[e[1]]
  <2>1. CASE i = l
    <3>1. U[s] < n /\ n <= V[s]
      BY <1>1, <1>3
    <3> QED BY <1>2, <2>1, <3>1
  <2>2. CASE i \in DOMAIN q
    <3>1. PICK e \in C : q[i].ids = {e} /\ U[e[1]] < e[2] /\ e[2] <= S[e[1]]
      BY <2>2 DEF Ordered
    <3>2. PICK y \in Operators, m \in Nat : e = <<y, m>>
      BY DEF Pairs
    <3>3. m <= V[y]
      BY <1>1, <1>3, <3>1, <3>2
    <3> QED BY <1>2, <2>2, <3>1, <3>2, <3>3
  <2> QED BY <1>2, <2>1, <2>2
<1>6. ASSUME NEW e \in C, U[e[1]] < e[2], e[2] <= V[e[1]]
      PROVE  \E i \in DOMAIN t : t[i].ids = {e}
  <2>1. PICK y \in Operators, m \in Nat : e = <<y, m>>
    BY DEF Pairs
  <2>2. CASE y = s /\ m = n
    BY <1>2, <2>1, <2>2
  <2>3. CASE ~(y = s /\ m = n)
    <3>1. m <= S[y]
      BY <1>1, <1>6, <2>1, <2>3
    <3>2. PICK i \in DOMAIN q : q[i].ids = {e}
      BY <1>6, <2>1, <3>1 DEF Ordered
    <3> QED BY <1>2, <3>2
  <2> QED BY <2>2, <2>3
<1>7. ASSUME NEW i \in DOMAIN t, NEW j \in DOMAIN t, NEW y \in Operators, NEW m \in Nat,
             NEW k \in Nat, i < j, t[i].ids = {<<y, m>>}, t[j].ids = {<<y, k>>}
      PROVE  m < k
  <2>1. i \in DOMAIN q
    BY <1>2, <1>7
  <2>2. CASE j \in DOMAIN q
    <3>1. Rising(q) /\ q[i].ids = {<<y, m>>} /\ q[j].ids = {<<y, k>>}
      BY <1>2, <1>7, <2>1, <2>2 DEF Ordered
    <3> QED BY <1>7, <2>1, <2>2, <3>1, RisingPair
  <2>3. CASE j = l
    <3>1. y = s /\ k = n
      BY <1>2, <1>7, <2>3
    <3>2. PICK e \in C : q[i].ids = {e} /\ e[2] <= S[e[1]]
      BY <2>1 DEF Ordered
    <3>3. e = <<y, m>>
      BY <1>2, <1>7, <2>1, <3>2
    <3>4. m <= S[s]
      BY <3>1, <3>2, <3>3
    <3> QED BY <1>1, <3>1, <3>4
  <2> QED BY <1>2, <2>2, <2>3
<1>8. Rising(t)
  BY <1>7, Zenon DEF Rising
<1>9. Ordered(t, C, V, U)
  BY <1>4, <1>5, <1>6, <1>8 DEF Ordered
<1> QED BY <1>9 DEF V, t

\* ... which also moves over numbers that are not to come by.
LEMMA SkipOrdered ==
  ASSUME NEW q \in Seq(Tuples), NEW C \in SUBSET Pairs, NEW S \in Counts, NEW U \in Counts,
         Ordered(q, C, S, U), NEW s \in Operators, NEW n \in Nat, S[s] <= n,
         \A m \in Nat : <<s, m>> \in C /\ m <= n => m <= S[s]
  PROVE  Ordered(q, C, [S EXCEPT ![s] = n], U)
<1> DEFINE V == [S EXCEPT ![s] = n]
<1>1. /\ V \in Counts /\ V[s] = n /\ \A y \in Operators : y # s => V[y] = S[y]
      /\ \A y \in Operators : U[y] \in Nat /\ S[y] \in Nat /\ U[y] <= S[y]
  BY DEF Counts, Ordered
<1> HIDE DEF V
<1>2. \A y \in Operators : S[y] <= V[y] /\ U[y] <= V[y]
  BY <1>1
<1>3. \A y \in Operators, m \in Nat : <<y, m>> \in C => (m <= V[y] <=> m <= S[y])
  BY <1>1, <1>2
<1>4. \A e \in C : e[2] <= V[e[1]] <=> e[2] <= S[e[1]]
  BY <1>3 DEF Pairs
<1>5. Ordered(q, C, V, U)
  BY <1>2, <1>4 DEF Ordered
<1> QED BY <1>5 DEF V

-----------------------------------------------------------------------------
(***************************************************************************)
(* What an operator of a forwarding application has in hand.               *)
(***************************************************************************)
\* What the role of an operator says of it in such an application.
LEMMA ForwardFacts ==
  ASSUME app \in DOMAIN Apps, Forwarding(app), NEW o \in Operators
  PROVE  /\ Role(o) \in Sources \cup {"Pass", "Filter", "Union", "FileSink"}
         /\ Role(o) \in Sources => InPortsOf(o) = {}
         /\ Role(o) \notin Sources => Inputs[o][1] \in InPortsOf(o)
         /\ Role(o) \in {"Pass", "Filter", "FileSink"} => InPortsOf(o) = {Inputs[o][1]}
         /\ Role(o) = "FileSink" => DownstreamPorts(o) = {}
         /\ Role(o) # "FileSink" =>
              /\ Outputs[o][1] \in OutPortsOf(o)
              /\ DownstreamPorts(o) = SubscribersOf(Outputs[o][1])
         /\ o \in Apps[app].broken => Role(o) = "FileSource"
<1>1. /\ Role(o) \in Sources \cup {"Pass", "Filter", "Union", "FileSink"}
      /\ Role(o) \in Sources => InPortsOf(o) = {}
      /\ Role(o) \in {"Pass", "Filter", "FileSink"} => NumIn(o) = 1
      /\ \A q \in OutPortsOf(o) : Role(o) # "FileSink" /\ q = Outputs[o][1]
      /\ Role(o) = "FileSink" => o \notin Apps[app].broken
  BY DEF Forwarding, Role
<1>2. /\ Role(o) \notin Sources => 1 \in 1..NumIn(o) /\ Inputs[o][1] \in InPortsOf(o)
      /\ Role(o) # "FileSink" => Outputs[o][1] \in OutPortsOf(o)
  BY RoleFacts, InputPorts
<1>3. InPortsOf(o) = {Inputs[o][i] : i \in 1..NumIn(o)}
  <2>1. {Inputs[o][i] : i \in DOMAIN Inputs[o]} = InPortsOf(o)
    BY ProgramAssumption DEF ProgramAssumption
  <2> QED BY <2>1, InputPorts
<1>4. NumIn(o) = 1 => InPortsOf(o) = {Inputs[o][1]}
  <2>1. 1..1 = {1}
    OBVIOUS
  <2> QED BY <1>3, <2>1
<1>5. Role(o) = "FileSink" => DownstreamPorts(o) = {}
  BY <1>1 DEF DownstreamPorts
<1>6. Role(o) # "FileSink" => DownstreamPorts(o) = SubscribersOf(Outputs[o][1])
  <2>1. Role(o) # "FileSink" => OutPortsOf(o) = {Outputs[o][1]}
    BY <1>1, <1>2
  <2> QED BY <2>1 DEF DownstreamPorts
<1>7. o \in Apps[app].broken => Role(o) = "FileSource"
  <2>1. Apps[app].broken \subseteq
          {u \in Operators : Apps[app].role[u] \in {"FileSource", "FileSink"}}
    BY ProgramAssumption DEF ProgramAssumption
  <2> QED BY <1>1, <2>1 DEF Role
<1> QED BY <1>1, <1>2, <1>4, <1>5, <1>6, <1>7

\* What an operator has in hand is at the front of a queue.
LEMMA HandFull ==
  ASSUME ProgramInv, Forwarding(app), NEW o \in Operators
  PROVE  /\ InHand(o) \subseteq InPortsOf(o)
         /\ \A p \in InHand(o) : queue[p] # <<>>
         /\ loc[o] # "pop" => InHand(o) = {}
         /\ loc[o] = "pop" =>
              /\ Role(o) \notin Sources
              /\ Role(o) = "Union" => InHand(o) = {Inputs[o][port[o]]}
              /\ Role(o) # "Union" => InHand(o) = {Inputs[o][1]}
<1>1. app \in DOMAIN Apps /\ Locals(o)
  BY DEF ProgramInv, ProgramTypes
<1>2. CASE loc[o] # "pop"
  BY <1>2 DEF InHand
<1>3. CASE loc[o] = "pop"
  <2>1. Role(o) \in {"Pass", "Filter", "Union", "FileSink"} /\ Role(o) \notin Sources
    BY <1>1, <1>3, ForwardFacts DEF Locals
  <2>2. StillPops(o) = {IF Role(o) = "Union" THEN port[o] ELSE 1}
    BY <2>1 DEF StillPops
  <2>3. StillPops(o) \subseteq Fronts(o) /\ StillPops(o) \subseteq 1..NumIn(o)
    BY <1>1, <1>3, FrontsInRange DEF Fronts, Told
  <2>4. \A i \in StillPops(o) : Inputs[o][i] \in InPortsOf(o) /\ queue[Inputs[o][i]] # <<>>
    BY <2>3, InputPorts DEF ProgramInv, FrontsExist
  <2>5. InHand(o) = {Inputs[o][i] : i \in StillPops(o)}
    BY <1>3 DEF InHand
  <2> QED BY <1>3, <2>1, <2>2, <2>4, <2>5
<1> QED BY <1>2, <1>3

\* What o's parts of the invariant depend on, but for the queues.
SameHand(o) == InHand(o)' = InHand(o) /\ Role(o)' = Role(o)

\* The hand depends on the local variables alone.
LEMMA HandKept ==
  ASSUME NEW o \in Operators, SameLocals(o)
  PROVE  SameHand(o)
BY LocalsKept DEF SameHand, InHand, SameLocals

-----------------------------------------------------------------------------
(***************************************************************************)
(* Steps of the runtime: pushes and ends.                                  *)
(***************************************************************************)

\* What a step of the runtime can do to a push and to the end of o.
PushMoves(o) ==
  /\ pc'[o] \in PushPoints => pc[o] \in PushPoints
  /\ item'[o] = item[o] /\ isComplete'[o] = isComplete[o]

\* What a step of the runtime can do to a push.
LEMMA RuntimePushMoves ==
  ASSUME TypeOK, RuntimeStep \/ Terminated, NEW o \in Operators
  PROVE  PushMoves(o)
<1> USE DEF At, Goto, PushPoints
<1>1. DOMAIN pc = Operators
  BY DEF TypeOK
<1>2. ASSUME NEW t \in Threads, Leave(t)
      PROVE  PushMoves(o)
  BY <1>1, <1>2 DEF Leave, ResumeAt, YieldPoints, PushMoves, callVars, portVars
<1>3. ASSUME NEW t \in Threads, ThreadStep(t) \/ SpuriousWakeUp(t), ~Leave(t)
      PROVE  PushMoves(o)
  BY <1>3 DEF ThreadStep, GetThreadWork, WakeUp, SpuriousWakeUp, Work, Enter, PushMoves,
              callVars, portVars
<1>4. CASE RequestShutdown \/ AllCompleted \/ Join \/ Terminated
  BY <1>4 DEF RequestShutdown, AllCompleted, Join, Terminated, vars, callVars, portVars, PushMoves
<1>5. ASSUME NEW u \in Operators, CallStep(u)
      PROVE  PushMoves(o)
  <2>1. CASE \E closed \in BOOLEAN : WaitReturns(u, closed)
    BY <1>1, <2>1 DEF WaitReturns, PushMoves, portVars
  <2>2. CASE WaitMustBlock(u) \/ BlockOnRead(u)
    BY <1>1, <2>2 DEF WaitMustBlock, BlockOnRead, PushMoves, callVars, portVars
  <2>3. CASE Offer(u) \/ Deliver(u) \/ AnnounceWritten(u) \/ BlockOnWrite(u)
    BY <1>1, <2>3 DEF Offer, Deliver, AnnounceWritten, BlockOnWrite, PushMoves, callVars, portVars
  <2>4. CASE CheckPreemption(u) \/ AnnounceRead(u) \/ Complete(u) \/ StopScheduler(u)
    BY <1>1, <2>4 DEF CheckPreemption, AnnounceRead, Complete, StopScheduler, PushMoves,
                      callVars, portVars
  <2> QED BY <1>5, <2>1, <2>2, <2>3, <2>4 DEF CallStep
<1> QED BY <1>2, <1>3, <1>4, <1>5 DEF RuntimeStep

\* The runtime appends to queues, of ports whose publisher is in a push.
LEMMA RuntimeQueues ==
  ASSUME TypeOK, CallShape, Pushing, RuntimeStep \/ Terminated, NEW p \in InPorts
  PROVE  /\ queue[p] # <<>> => Front(p)' = Front(p)
         /\ queue'[p] = queue[p] \/ ~IsClosed(p)
<1>1. ASSUME NEW c \in Operators, Deliver(c)
      PROVE  /\ queue[p] # <<>> => Front(p)' = Front(p)
             /\ queue'[p] = queue[p] \/ ~IsClosed(p)
  <2>1. /\ queue[p] \in Seq(Tuples) /\ item[c] \in Tuples /\ DOMAIN queue = InPorts
        /\ todo[c] \in Seq(InPorts) /\ todo[c] # <<>> /\ pc[c] = "deliver"
    BY <1>1 DEF TypeOK, CallShape, Deliver, At
  <2>2. queue'[p] = IF p = Head(todo[c]) THEN Append(queue[p], item[c]) ELSE queue[p]
    BY <1>1, <2>1 DEF Deliver
  <2>3. queue[p] # <<>> => Head(Append(queue[p], item[c])) = Head(queue[p])
    BY <2>1
  <2>4. p = Head(todo[c]) => p \in DownstreamPorts(c) /\ ~isComplete[c]
    <3>1. 1 \in DOMAIN todo[c] /\ Head(todo[c]) = todo[c][1]
      BY <2>1
    <3> QED BY <2>1, <3>1 DEF Pushing
  <2>5. p \in DownstreamPorts(c) => c \in Publishers(p)
    BY DEF DownstreamPorts, OutPortsOf, Publishers, PublisherPorts
  <2> QED BY <2>2, <2>3, <2>4, <2>5 DEF Front, IsClosed
<1>2. ASSUME NEW o \in Operators, CallStep(o), ~Deliver(o)
      PROVE  UNCHANGED queue
  BY <1>2 DEF CallStep, WaitReturns, WaitMustBlock, BlockOnRead, Offer, AnnounceWritten,
     BlockOnWrite, CheckPreemption, AnnounceRead, Complete, StopScheduler, portVars
<1>3. ASSUME NEW t \in Threads, ThreadStep(t) \/ SpuriousWakeUp(t)
      PROVE  UNCHANGED queue
  BY <1>3 DEF ThreadStep, GetThreadWork, WakeUp, SpuriousWakeUp, Work, Enter, Leave, portVars
<1>4. CASE RequestShutdown \/ AllCompleted \/ Join \/ Terminated
  BY <1>4 DEF RequestShutdown, AllCompleted, Join, Terminated, vars, portVars, Front
<1> QED BY <1>1, <1>2, <1>3, <1>4 DEF RuntimeStep, Front

\* A wait is refused when the ports are closed and empty.
LEMMA WaitRefused ==
  ASSUME TypeOK, ProgramInv, Forwarding(app), NEW o \in Operators, Role(o) \notin Sources,
         ~Satisfied(WaitOf(o)), OutOfReach(WaitOf(o)), NEW p \in InPortsOf(o)
  PROVE  queue[p] = <<>> /\ IsClosed(p)
<1>1. app \in DOMAIN Apps
  BY DEF ProgramInv, ProgramTypes
<1>2. queue[p] \in Seq(Tuples)
  BY DEF TypeOK, InPortsOf
<1>3. Count(p) < 1 => queue[p] = <<>>
  BY <1>2 DEF Count
<1>4. CASE Role(o) = "Union"
  <2>1. WaitOf(o) = OnEveryPort(o, "Disjunctive")
    BY <1>4 DEF WaitOf, LoopWait
  <2>2. \A x \in {Inputs[o][i] : i \in 1..NumIn(o)} : IsClosed(x) /\ Count(x) < 1
    BY <2>1 DEF OutOfReach, OnEveryPort
  <2>3. p \in {Inputs[o][i] : i \in 1..NumIn(o)}
    <3>1. {Inputs[o][i] : i \in DOMAIN Inputs[o]} = InPortsOf(o)
      BY ProgramAssumption DEF ProgramAssumption
    <3> QED BY <3>1, InputPorts
  <2> QED BY <1>3, <2>2, <2>3
<1>5. CASE Role(o) # "Union"
  <2>1. Role(o) \in {"Pass", "Filter", "FileSink"} /\ p = Inputs[o][1]
    BY <1>1, <1>5, ForwardFacts
  <2>2. WaitOf(o) = Single(p)
    BY <2>1 DEF WaitOf, LoopWait
  <2> QED BY <1>3, <2>2 DEF OutOfReach, Single
<1> QED BY <1>4, <1>5

\* What is pushed stays what is in hand.
LEMMA RuntimePushes ==
  ASSUME TypeOK, CallShape, Pushing, ProgramInv, ForwardInv, RuntimeStep \/ Terminated,
         UNCHANGED progVars, NEW o \in Operators
  PROVE  Pushes(o)'
<1>1. Forwarding(app) /\ Pushes(o) /\ app \in DOMAIN Apps
  BY DEF ForwardInv, ProgramInv, ProgramTypes
<1>2. SameLocals(o) /\ app' = app
  BY DEF SameLocals, progVars
<1>3. SameHand(o) /\ \A p \in InHand(o) : Front(p)' = Front(p)
  BY <1>1, <1>2, HandKept, HandFull, RuntimeQueues DEF InPortsOf
<1>4. loc[o] = "pop" /\ Role(o) = "Filter" => InHand(o) = {Inputs[o][1]}
  BY <1>1, HandFull
<1>5. PushMoves(o)
  BY RuntimePushMoves
<1> QED BY <1>1, <1>2, <1>3, <1>4, <1>5 DEF Pushes, PushMoves, SameHand, SameLocals

\* What a step of the runtime can do to a wait of o.
WaitMoves(o) ==
  /\ pc'[o] \in MidWait => pc[o] \in MidWait /\ wait'[o] = wait[o]
  /\ pc[o] \notin MidWait => closedResult'[o] = closedResult[o]
  /\ pc[o] \in MidWait /\ pc'[o] \notin MidWait /\ closedResult'[o] =>
       ~Satisfied(wait[o]) /\ OutOfReach(wait[o]) /\ UNCHANGED queue

\* What a step of the runtime can do to a wait.
LEMMA RuntimeWaitMoves ==
  ASSUME TypeOK, RuntimeStep \/ Terminated, NEW o \in Operators
  PROVE  WaitMoves(o)
<1> USE DEF At, Goto, MidWait
<1>1. DOMAIN pc = Operators /\ DOMAIN wait = Operators /\ DOMAIN closedResult = Operators
  BY DEF TypeOK
<1>2. ASSUME NEW t \in Threads, Leave(t)
      PROVE  WaitMoves(o)
  BY <1>1, <1>2 DEF Leave, ResumeAt, YieldPoints, WaitMoves, callVars, portVars
<1>3. ASSUME NEW t \in Threads, ThreadStep(t) \/ SpuriousWakeUp(t), ~Leave(t)
      PROVE  WaitMoves(o)
  BY <1>3 DEF ThreadStep, GetThreadWork, WakeUp, SpuriousWakeUp, Work, Enter, WaitMoves,
              callVars, portVars
<1>4. CASE RequestShutdown \/ AllCompleted \/ Join \/ Terminated
  BY <1>4 DEF RequestShutdown, AllCompleted, Join, Terminated, vars, callVars, portVars, WaitMoves
<1>5. ASSUME NEW u \in Operators, CallStep(u)
      PROVE  WaitMoves(o)
  <2>1. ASSUME NEW closed \in BOOLEAN, WaitReturns(u, closed)
        PROVE  WaitMoves(o)
    BY <1>1, <2>1 DEF WaitReturns, WaitMoves, portVars
  <2>2. CASE WaitMustBlock(u) \/ BlockOnRead(u)
    BY <1>1, <2>2 DEF WaitMustBlock, BlockOnRead, WaitMoves, callVars, portVars
  <2>3. CASE Offer(u) \/ Deliver(u) \/ AnnounceWritten(u) \/ BlockOnWrite(u)
    BY <1>1, <2>3 DEF Offer, Deliver, AnnounceWritten, BlockOnWrite, WaitMoves, callVars, portVars
  <2>4. CASE CheckPreemption(u) \/ AnnounceRead(u) \/ Complete(u) \/ StopScheduler(u)
    BY <1>1, <2>4 DEF CheckPreemption, AnnounceRead, Complete, StopScheduler, WaitMoves,
                      callVars, portVars
  <2> QED BY <1>5, <2>1, <2>2, <2>3, <2>4 DEF CallStep
<1> QED BY <1>2, <1>3, <1>4, <1>5 DEF RuntimeStep

\* Ports that are closed and empty stay so.
Exhausted(o) == \A p \in InPortsOf(o) : queue[p] = <<>> /\ IsClosed(p)

\* Nobody pushes to a closed port.
LEMMA RuntimeExhausted ==
  ASSUME TypeOK, CallShape, Pushing, RuntimeStep \/ Terminated, NEW o \in Operators,
         Exhausted(o)
  PROVE  Exhausted(o)'
<1>1. \A u \in Operators : isComplete'[u] = isComplete[u]
  BY RuntimePushMoves DEF PushMoves
<1>2. ASSUME NEW p \in InPortsOf(o)
      PROVE  queue'[p] = <<>> /\ IsClosed(p)'
  <2>1. p \in InPorts /\ queue[p] = <<>> /\ IsClosed(p)
    BY DEF Exhausted, InPortsOf
  <2>2. Publishers(p) \subseteq Operators
    BY FlowGraphAssumption DEF FlowGraphAssumption, Publishers, PublisherPorts
  <2> QED BY <1>1, <2>1, <2>2, RuntimeQueues DEF IsClosed
<1> QED BY <1>2 DEF Exhausted

\* A shutdown is final.
LEMMA ShutdownStays ==
  ASSUME TypeOK, RuntimeStep \/ Terminated, shutdown
  PROVE  shutdown'
<1>1. ASSUME NEW o \in Operators, CallStep(o)
      PROVE  shutdown'
  BY <1>1 DEF CallStep, WaitReturns, WaitMustBlock, BlockOnRead, Offer, Deliver, AnnounceWritten,
     BlockOnWrite, CheckPreemption, AnnounceRead, Complete, StopScheduler, portVars
<1>2. ASSUME NEW t \in Threads, ThreadStep(t) \/ SpuriousWakeUp(t)
      PROVE  shutdown'
  BY <1>2 DEF ThreadStep, GetThreadWork, WakeUp, SpuriousWakeUp, Work, Enter, Leave, portVars
<1>3. CASE RequestShutdown \/ AllCompleted \/ Join \/ Terminated
  BY <1>3 DEF RequestShutdown, AllCompleted, Join, Terminated, vars, portVars
<1> QED BY <1>1, <1>2, <1>3 DEF RuntimeStep

\* What Through says of o.
Idle(o) ==
  IF Role(o) \in Sources THEN counter[o] = Supply(o) \/ o \in Apps[app].broken
                         ELSE Exhausted(o)

\* Ends(o), part by part, before and after a step.
LEMMA EndsParts ==
  ASSUME NEW o \in Operators
  PROVE  /\ Ends(o) <=>
              /\ pc[o] \in MidWait => loc[o] = "waited" /\ wait[o] = WaitOf(o)
              /\ loc[o] = "end" <=> isComplete[o]
              /\ loc[o] = "open" => o \in Apps[app].broken
              /\ o \in Apps[app].broken => loc[o] \in {"open", "end"}
              /\ loc[o] = "pop" => ~closedResult[o]
              /\ Through(o) => Idle(o)
         /\ Ends(o)' <=>
              /\ pc'[o] \in MidWait => loc'[o] = "waited" /\ wait'[o] = WaitOf(o)'
              /\ loc'[o] = "end" <=> isComplete'[o]
              /\ loc'[o] = "open" => o \in Apps[app'].broken
              /\ o \in Apps[app'].broken => loc'[o] \in {"open", "end"}
              /\ loc'[o] = "pop" => ~closedResult'[o]
              /\ Through(o)' => Idle(o)'
BY DEF Ends, Idle, Exhausted

\* Who ends has nothing left to do, after a step of the runtime ...
LEMMA RuntimeEnds ==
  ASSUME TypeOK, CallShape, Pushing, ProgramInv, ForwardInv, RuntimeStep \/ Terminated,
         UNCHANGED progVars, NEW o \in Operators
  PROVE  Ends(o)'
<1>1. Forwarding(app) /\ Ends(o) /\ app \in DOMAIN Apps /\ Locals(o)
  BY DEF ForwardInv, ProgramInv, ProgramTypes
<1>2. SameLocals(o) /\ app' = app /\ Role(o)' = Role(o) /\ WaitOf(o)' = WaitOf(o)
  BY LocalsKept DEF SameLocals, progVars
<1>3. WaitMoves(o) /\ PushMoves(o)
  BY RuntimeWaitMoves, RuntimePushMoves
<1>4. ASSUME Through(o)
      PROVE  Idle(o)'
  <2>1. Idle(o)
    BY <1>1, <1>4, EndsParts
  <2>2. CASE Role(o) \in Sources
    BY <1>2, <2>1, <2>2 DEF Idle, SameLocals, Supply
  <2>3. CASE Role(o) \notin Sources
    BY <1>2, <2>1, <2>3, RuntimeExhausted DEF Idle
  <2> QED BY <2>2, <2>3
<1>5. ASSUME ~Through(o), Through(o)'
      PROVE  Idle(o)'
  <2>1. loc[o] = "waited" /\ pc[o] \in MidWait /\ pc'[o] \notin MidWait /\ closedResult'[o]
    BY <1>2, <1>3, <1>5, ShutdownStays DEF Through, SameLocals, WaitMoves
  <2>2. Role(o) \notin Sources
    BY <1>1, <2>1 DEF Locals
  <2>3. ~Satisfied(WaitOf(o)) /\ OutOfReach(WaitOf(o))
    BY <1>1, <1>3, <2>1, EndsParts DEF WaitMoves
  <2>4. Exhausted(o)
    BY <1>1, <2>2, <2>3, WaitRefused DEF Exhausted
  <2> QED BY <1>2, <2>2, <2>4, RuntimeExhausted DEF Idle
<1>6. /\ pc'[o] \in MidWait => loc'[o] = "waited" /\ wait'[o] = WaitOf(o)'
      /\ loc'[o] = "end" <=> isComplete'[o]
      /\ loc'[o] = "open" => o \in Apps[app'].broken
      /\ o \in Apps[app'].broken => loc'[o] \in {"open", "end"}
  BY <1>1, <1>2, <1>3, EndsParts DEF SameLocals, WaitMoves, PushMoves
<1>7. loc'[o] = "pop" => ~closedResult'[o]
  BY <1>1, <1>2, <1>3, EndsParts DEF SameLocals, WaitMoves
<1> QED BY <1>4, <1>5, <1>6, <1>7, EndsParts

-----------------------------------------------------------------------------
(***************************************************************************)
(* Steps of the programs: pushes and ends.                                 *)
(***************************************************************************)
\* A call changes the coroutine that makes it.
LEMMA CodeLeaves ==
  ASSUME TypeOK, NEW u \in Operators, CodeStep(u) \/ UNCHANGED vars
  PROVE  /\ \A o \in Operators \ {u} :
              item'[o] = item[o] /\ todo'[o] = todo[o] /\ isComplete'[o] = isComplete[o]
         /\ \A o \in Operators : isComplete[o] => isComplete'[o]
         /\ UNCHANGED shutdown
<1>1. DOMAIN item = Operators /\ DOMAIN todo = Operators /\ DOMAIN isComplete = Operators
  BY DEF TypeOK
<1>2. CASE UNCHANGED vars
  BY <1>2 DEF vars, callVars, portVars
<1>3. CASE \E w \in Waits(u) : CallWait(u, w)
  BY <1>1, <1>3 DEF CallWait, portVars
<1>4. CASE \E q \in OutPortsOf(u), x \in Tuples : CallPush(u, q, x)
  BY <1>1, <1>4 DEF CallPush, portVars
<1>5. CASE \E p \in InPortsOf(u) : CallPop(u, p)
  BY <1>1, <1>5 DEF CallPop
<1>6. CASE CallReturn(u)
  BY <1>1, <1>6 DEF CallReturn, callVars
<1> QED BY <1>2, <1>3, <1>4, <1>5, <1>6 DEF CodeStep

\* ... of another operator ...
LEMMA ProgramElsewhere ==
  ASSUME TypeOK, ProgramInv, EveryTuple, ForwardInv, NEW c \in Operators, ProgramStep(c),
         UNCHANGED app, NEW o \in Operators \ {c}
  PROVE  Pushes(o)' /\ Ends(o)'
<1>1. Forwarding(app) /\ Pushes(o) /\ Ends(o) /\ app \in DOMAIN Apps
  BY DEF ForwardInv, ProgramInv, ProgramTypes
<1>2. SameLocals(o) /\ Role(o)' = Role(o) /\ WaitOf(o)' = WaitOf(o) /\ SameHand(o)
  BY ProgramFrame, LocalsKept, HandKept DEF ProgramInv
<1>3. CodeStep(c) \/ UNCHANGED vars
  BY ProgramCalls
<1>4. /\ pc'[o] = pc[o] /\ wait'[o] = wait[o] /\ closedResult'[o] = closedResult[o]
      /\ \A p \in InPortsOf(o) : queue'[p] = queue[p]
  BY <1>3, CodeFrame
<1>5. /\ item'[o] = item[o] /\ isComplete'[o] = isComplete[o] /\ shutdown' = shutdown
      /\ \A u \in Operators : isComplete[u] => isComplete'[u]
  BY <1>3, CodeLeaves
<1>6. \A p \in InHand(o) : Front(p)' = Front(p)
  BY <1>1, <1>4, HandFull DEF Front
<1>7. loc[o] = "pop" /\ Role(o) = "Filter" => InHand(o) = {Inputs[o][1]}
  BY <1>1, HandFull
<1>8. Pushes(o)'
  BY <1>1, <1>2, <1>4, <1>5, <1>6, <1>7 DEF Pushes, SameHand, SameLocals
<1>9. ASSUME Through(o)'
      PROVE  Idle(o)'
  <2>1. Through(o)
    BY <1>2, <1>4, <1>5, <1>9 DEF Through, SameLocals
  <2>2. Idle(o)
    BY <1>1, <2>1, EndsParts
  <2>3. CASE Role(o) \in Sources
    BY <1>2, <2>2, <2>3 DEF Idle, SameLocals, Supply
  <2>4. CASE Role(o) \notin Sources
    <3>1. \A p \in InPortsOf(o) : Publishers(p) \subseteq Operators
      BY FlowGraphAssumption DEF FlowGraphAssumption, Publishers, PublisherPorts
    <3>2. Exhausted(o)'
      BY <1>4, <1>5, <2>2, <2>4, <3>1 DEF Idle, Exhausted, IsClosed
    <3> QED BY <1>2, <2>4, <3>2 DEF Idle
  <2> QED BY <2>3, <2>4
<1>10. Ends(o)'
  BY <1>1, <1>2, <1>4, <1>5, <1>9, EndsParts DEF SameLocals
<1> QED BY <1>8, <1>10

\* The steps that the operators of forwarding applications take.
ForwardStep(c) ==
  \/ Generate(c) \/ Loop(c) \/ Break(c) \/ Consume(c) \/ Emit(c) \/ Pop(c)
  \/ Scan(c) \/ ScanPop(c) \/ OpenFails(c)

\* No other step is one of theirs.
LEMMA ForwardSteps ==
  ASSUME app \in DOMAIN Apps, Forwarding(app), NEW c \in Operators, ProgramStep(c)
  PROVE  ForwardStep(c)
<1>1. Role(c) \notin {"RoundRobinMerge", "Barrier", "Merge"}
  BY ForwardFacts DEF Sources
<1> QED BY <1>1 DEF ForwardStep, ProgramStep, PopInTurn, MergeWait, MergeFill, MergeSelect,
                    MergePop, MergeAgain, Reached

\* process() has returned.
LEMMA ReturnForward ==
  ASSUME TypeOK, ProgramInv, ForwardInv, NEW c \in Operators, Return(c), UNCHANGED app,
         ~shutdown => Idle(c)
  PROVE  Pushes(c)' /\ Ends(c)'
<1>1. Forwarding(app) /\ app \in DOMAIN Apps /\ Role(c)' = Role(c) /\ loc \in [Operators -> Places]
  BY SameRole DEF ForwardInv, ProgramInv, ProgramTypes
<1>2. /\ pc'[c] = "complete" /\ loc'[c] = "end" /\ isComplete'[c] /\ shutdown' = shutdown
      /\ \A u \in Operators : isComplete[u] => isComplete'[u]
      /\ UNCHANGED <<counter, queue>>
  BY <1>1 DEF Return, CallReturn, Goto, Go, TypeOK
<1>3. Pushes(c)'
  BY <1>2 DEF Pushes, PushPoints
<1>4. Through(c)' => ~shutdown
  BY <1>2 DEF Through
<1>5. ASSUME Idle(c)
      PROVE  Idle(c)'
  <2>1. CASE Role(c) \in Sources
    BY <1>1, <1>2, <1>5, <2>1 DEF Idle, Supply
  <2>2. CASE Role(c) \notin Sources
    <3>1. \A p \in InPortsOf(c) : Publishers(p) \subseteq Operators
      BY FlowGraphAssumption DEF FlowGraphAssumption, Publishers, PublisherPorts
    <3>2. Exhausted(c)'
      BY <1>2, <1>5, <2>2, <3>1 DEF Idle, Exhausted, IsClosed
    <3> QED BY <1>1, <2>2, <3>2 DEF Idle
  <2> QED BY <2>1, <2>2
<1>6. Ends(c)'
  BY <1>2, <1>4, <1>5, EndsParts DEF MidWait
<1> QED BY <1>3, <1>6

\* ... and of its own.
LEMMA ProgramForward ==
  ASSUME TypeOK, ProgramInv, EveryTuple, ForwardInv, NEW c \in Operators, ProgramStep(c),
         UNCHANGED app
  PROVE  Pushes(c)' /\ Ends(c)'
<1>1. /\ Forwarding(app) /\ Pushes(c) /\ Ends(c) /\ app \in DOMAIN Apps /\ Locals(c)
      /\ Role(c)' = Role(c) /\ ForwardStep(c) /\ loc \in [Operators -> Places]
      /\ counter \in [Operators -> Nat]
  BY ForwardSteps, SameRole DEF ForwardInv, ProgramInv, ProgramTypes
<1>2. /\ DOMAIN pc = Operators /\ DOMAIN loc = Operators /\ DOMAIN wait = Operators
      /\ DOMAIN item = Operators /\ DOMAIN counter = Operators
  BY <1>1 DEF TypeOK
<1>3. ASSUME loc'[c] \in {"loop", "waited"}, ~Through(c)', ~isComplete'[c],
             c \notin Apps[app].broken,
             pc'[c] \in MidWait => loc'[c] = "waited" /\ wait'[c] = WaitOf(c)'
      PROVE  Ends(c)'
  BY <1>3, EndsParts
<1>4. ASSUME loc'[c] \in {"loop", "waited"}, pc'[c] \notin PushPoints
      PROVE  Pushes(c)'
  BY <1>4 DEF Pushes
<1>5. ASSUME loc[c] \in {"loop", "waited", "pop"}
      PROVE  ~isComplete[c] /\ c \notin Apps[app].broken
  BY <1>1, <1>5, EndsParts
<1>6. CASE Generate(c)
  <2>1. Role(c) \in Sources /\ loc[c] = "loop" /\ pc[c] = "code"
    BY <1>6 DEF Generate, Reached, At
  <2>2. CASE SourceEnds(c) /\ Return(c)
    <3>1. ~shutdown => Idle(c)
      BY <2>1, <2>2 DEF SourceEnds, Idle
    <3> QED BY <2>2, <3>1, ReturnForward
  <2>3. CASE UNCHANGED vars /\ UNCHANGED loc
    <3>1. pc'[c] = "code" /\ loc'[c] = "loop" /\ isComplete'[c] = isComplete[c]
      BY <2>1, <2>3 DEF vars, portVars
    <3>2. ~Through(c)'
      BY <3>1 DEF Through
    <3> QED BY <1>3, <1>4, <1>5, <2>1, <3>1, <3>2 DEF MidWait, PushPoints
  <2>4. CASE /\ <<c, counter[c] + 1>> \notin Apps[app].malformed
             /\ CallPush(c, Outputs[c][1], Line(c, counter[c] + 1))
             /\ counter' = [counter EXCEPT ![c] = @ + 1] /\ UNCHANGED loc
    <3>1. /\ pc'[c] = "offer" /\ loc'[c] = "loop" /\ isComplete'[c] = isComplete[c]
          /\ item'[c].ids = {<<c, counter[c] + 1>>} /\ counter'[c] = counter[c] + 1
      BY <1>2, <2>1, <2>4 DEF CallPush, Goto, Line, portVars
    <3>2. ~Through(c)'
      BY <3>1 DEF Through
    <3>3. Ends(c)'
      BY <1>3, <1>5, <2>1, <3>1, <3>2 DEF MidWait
    <3>4. Pushes(c)'
      BY <1>1, <2>1, <2>4, <3>1 DEF Pushes, InHand
    <3> QED BY <3>3, <3>4
  <2> QED BY <1>6, <2>2, <2>3, <2>4 DEF Generate
<1>7. CASE Loop(c)
  <2>1. Role(c) \in Looping /\ loc[c] = "loop"
    BY <1>7 DEF Loop, Reached
  <2>2. CASE shutdown /\ Return(c)
    BY <2>2, ReturnForward
  <2>3. CASE CallWait(c, LoopWait(c)) /\ Go(c, "waited") /\ UNCHANGED port
    <3>1. /\ pc'[c] = "waitCheck" /\ loc'[c] = "waited" /\ isComplete'[c] = isComplete[c]
          /\ wait'[c] = LoopWait(c)
      BY <1>2, <2>3 DEF CallWait, Goto, Go, portVars
    <3>2. LoopWait(c) = WaitOf(c)'
      BY <1>1, <2>1, <2>3 DEF WaitOf, LoopWait, Looping
    <3>3. ~Through(c)'
      BY <3>1 DEF Through, MidWait
    <3> QED BY <1>3, <1>4, <1>5, <2>1, <3>1, <3>2, <3>3 DEF PushPoints
  <2> QED BY <1>7, <2>2, <2>3 DEF Loop
<1>8. CASE Break(c)
  <2>1. Through(c)
    BY <1>8 DEF Break, Through, Reached, At, MidWait
  <2>2. Idle(c)
    BY <1>1, <2>1, EndsParts
  <2> QED BY <1>8, <2>2, ReturnForward DEF Break
<1>9. CASE OpenFails(c)
  <2>1. c \in Apps[app].broken /\ Role(c) \in Sources
    BY <1>1, <1>9, ForwardFacts, EndsParts DEF OpenFails, Sources
  <2>2. Idle(c)
    BY <2>1 DEF Idle
  <2> QED BY <1>9, <2>2, ReturnForward DEF OpenFails
<1>10. CASE Consume(c) \/ Pop(c) \/ ScanPop(c)
  <2>1. /\ loc[c] \in {"waited", "pop"} /\ pc'[c] = "popped"
        /\ loc'[c] \in {"loop", "waited"} /\ isComplete'[c] = isComplete[c]
        /\ closedResult'[c] = closedResult[c] /\ ~closedResult[c]
    BY <1>1, <1>2, <1>10, EndsParts DEF Consume, Pop, ScanPop, Reached, CallPop, Goto, Go
  <2>2. ~Through(c)'
    BY <2>1 DEF Through
  <2> QED BY <1>3, <1>4, <1>5, <2>1, <2>2 DEF MidWait, PushPoints
<1>11. CASE Emit(c)
  <2>1. Role(c) \in {"Pass", "Filter"} /\ loc[c] = "waited" /\ ~closedResult[c] /\ ~Drops(c)
    BY <1>1, <1>11, ForwardFacts DEF Emit, Reached, Looping
  <2>2. Emission(c) = <<Outputs[c][1], Front(Inputs[c][1])>>
    BY <2>1 DEF Emission
  <2>3. /\ pc'[c] = "offer" /\ loc'[c] = "pop" /\ isComplete'[c] = isComplete[c]
        /\ closedResult'[c] = closedResult[c] /\ item'[c] = Front(Inputs[c][1])
        /\ UNCHANGED queue
    BY <1>2, <1>11, <2>2 DEF Emit, CallPush, Goto, Go, portVars
  <2>4. InHand(c)' = {Inputs[c][1]}
    <3>1. StillPops(c)' = {1}
      BY <1>1, <2>1 DEF StillPops
    <3> QED BY <2>3, <3>1 DEF InHand
  <2>5. Pushes(c)'
    BY <1>1, <2>1, <2>3, <2>4 DEF Pushes, Front, Drops, Sources
  <2>6. Ends(c)'
    BY <1>5, <2>1, <2>3, EndsParts DEF MidWait, Through
  <2> QED BY <2>5, <2>6
<1>12. CASE Scan(c)
  <2>1. Role(c) = "Union" /\ loc[c] = "waited" /\ pc[c] = "code" /\ ~closedResult[c]
    BY <1>12 DEF Scan, Reached, At
  <2> DEFINE p == Inputs[c][port[c]]
  <2>2. CASE CallPush(c, Outputs[c][1], Front(p)) /\ Go(c, "pop") /\ UNCHANGED port
    <3>1. /\ pc'[c] = "offer" /\ loc'[c] = "pop" /\ isComplete'[c] = isComplete[c]
          /\ closedResult'[c] = closedResult[c] /\ item'[c] = Front(p)
          /\ UNCHANGED queue
      BY <1>2, <2>2 DEF CallPush, Goto, Go, portVars
    <3>2. InHand(c)' = {p}
      <4>1. StillPops(c)' = {port[c]}
        BY <1>1, <2>1, <2>2 DEF StillPops
      <4> QED BY <2>2, <3>1, <4>1 DEF InHand
    <3>3. Pushes(c)'
      BY <1>1, <2>1, <3>1, <3>2 DEF Pushes, Front, Sources
    <3>4. Ends(c)'
      BY <1>5, <2>1, <3>1, EndsParts DEF MidWait, Through
    <3> QED BY <3>3, <3>4
  <2>3. CASE UNCHANGED vars /\ Go(c, IF port[c] < NumIn(c) THEN "waited" ELSE "loop")
    <3>1. /\ pc'[c] = "code" /\ loc'[c] \in {"loop", "waited"} /\ isComplete'[c] = isComplete[c]
          /\ closedResult'[c] = closedResult[c]
      BY <1>2, <2>1, <2>3 DEF Go, vars, portVars, callVars
    <3>2. ~Through(c)'
      BY <2>1, <3>1 DEF Through
    <3> QED BY <1>3, <1>4, <1>5, <2>1, <3>1, <3>2 DEF MidWait, PushPoints
  <2> QED BY <1>12, <2>2, <2>3 DEF Scan
<1> QED BY <1>1, <1>6, <1>7, <1>8, <1>9, <1>10, <1>11, <1>12 DEF ForwardStep

-----------------------------------------------------------------------------
(***************************************************************************)
(* The numbers that follow each source: sent[p] and used[p].               *)
(***************************************************************************)
Histories == [InPorts -> Counts]

QueuesOrdered(sent, used) ==
  \A p \in InPorts : Ordered(queue[p], Carried(p), sent[p], used[p])

AllTraced(sent, used) == \A o \in Operators : Traced(o, sent, used)

\* Followed has witnesses sent and used.
LEMMA FollowedBy ==
  ASSUME NEW sent \in Histories, NEW used \in Histories
  PROVE  /\ QueuesOrdered(sent, used) /\ AllTraced(sent, used) => Followed
         /\ QueuesOrdered(sent, used)' /\ AllTraced(sent, used)' => Followed'
BY DEF Followed, QueuesOrdered, AllTraced, Histories, Counts

\* And the other way round.
LEMMA FollowedWith ==
  ASSUME Followed
  PROVE  \E sent, used \in Histories : QueuesOrdered(sent, used) /\ AllTraced(sent, used)
BY DEF Followed, QueuesOrdered, AllTraced, Histories, Counts

\* What is to come by is settled with the application.
LEMMA SameCarried ==
  ASSUME app' = app, NEW p
  PROVE  Carried(p)' = Carried(p)
BY DEF Carried

\* The front of p has one number.
LEMMA FrontNumber ==
  ASSUME NEW p, NEW U, NEW s \in Operators, NEW n \in Nat, Front(p).ids = {<<s, n>>}
  PROVE  /\ WithFront(p, U)[s] = n
         /\ \A x \in Operators : x # s => WithFront(p, U)[x] = U[x]
<1>1. \A x \in Operators : \A m \in Nat : Front(p).ids = {<<x, m>>} <=> x = s /\ m = n
  <2>1. \A a, b : {a} = {b} => a = b
    OBVIOUS
  <2> QED BY <2>1
<1>2. (\E m \in Nat : Front(p).ids = {<<s, m>>}) /\ (CHOOSE m \in Nat : Front(p).ids = {<<s, m>>}) = n
  BY <1>1
<1>3. \A x \in Operators : x # s => ~\E m \in Nat : Front(p).ids = {<<x, m>>}
  BY <1>1
<1> QED BY <1>2, <1>3 DEF WithFront

\* WithFront depends on the front alone.
LEMMA SameWithFront ==
  ASSUME NEW p, Front(p)' = Front(p), NEW U
  PROVE  WithFront(p, U)' = WithFront(p, U)
BY DEF WithFront

\* r has got what o has in hand from p.
Handed(o, p, r) == p \in InHand(o) /\ Delivered(o, r)

\* Handover(o, sent, used), port by port.
LEMMA HandoverBy ==
  ASSUME NEW o, NEW sent, NEW used
  PROVE  Handover(o, sent, used) <=>
           \A p \in InPortsOf(o), r \in DownstreamPorts(o) : \A s \in Above(p) :
             sent[r][s] = IF Handed(o, p, r) THEN WithFront(p, used[p])[s] ELSE used[p][s]
BY DEF Handover, Handed

\* o does nothing that matters to the numbers at its ports.
TracedSame(o) ==
  /\ app' = app /\ sunk'[o] = sunk[o]
  /\ \A p \in InPortsOf(o), r \in DownstreamPorts(o) :
       Handed(o, p, r) => Front(p)' = Front(p)
  /\ \A p \in InPortsOf(o), r \in DownstreamPorts(o) : Handed(o, p, r)' <=> Handed(o, p, r)
  /\ Role(o) \in Sources =>
       counter'[o] = counter[o] /\ \A r \in DownstreamPorts(o) : Delivered(o, r)' <=> Delivered(o, r)

\* Whoever does nothing that matters leaves the numbers as they are.
LEMMA TracedKept ==
  ASSUME app \in DOMAIN Apps, Forwarding(app), NEW o \in Operators,
         NEW sent, NEW used, NEW sent2, NEW used2, Traced(o, sent, used), TracedSame(o),
         \A r \in DownstreamPorts(o) : sent2[r] = sent[r],
         \A p \in InPortsOf(o) : used2[p] = used[p]
  PROVE  Traced(o, sent2, used2)'
<1>1. Role(o)' = Role(o) /\ Supply(o)' = Supply(o)
  BY DEF TracedSame, Role, Supply
<1>2. Handover(o, sent2, used2)'
  <2>1. ASSUME NEW p \in InPortsOf(o), NEW r \in DownstreamPorts(o), NEW s \in Above(p)
        PROVE  sent2[r][s] = IF Handed(o, p, r)' THEN WithFront(p, used2[p])'[s] ELSE used2[p][s]
    <3>1. sent[r][s] = IF Handed(o, p, r) THEN WithFront(p, used[p])[s] ELSE used[p][s]
      BY HandoverBy DEF Traced
    <3>2. Handed(o, p, r) => WithFront(p, used[p])' = WithFront(p, used[p])
      BY SameWithFront DEF TracedSame
    <3>3. used2[p] = used[p] /\ sent2[r] = sent[r] /\ (Handed(o, p, r)' <=> Handed(o, p, r))
      BY DEF TracedSame
    <3>4. WithFront(p, used2[p])' = WithFront(p, used[p])'
      BY <3>3 DEF WithFront
    <3> QED BY <3>1, <3>2, <3>3, <3>4
  <2> QED BY <2>1 DEF Handover, Handed
<1>3. Producing(o, sent2)'
  BY <1>1 DEF Traced, Producing, TracedSame
<1>4. Sinking(o, used2)'
  <2>1. Role(o) = "FileSink" => used2[Inputs[o][1]] = used[Inputs[o][1]]
    BY ForwardFacts DEF Sources
  <2>2. Feeding(app, o)' = Feeding(app, o) /\ \A s : Passing(app, o, s)' = Passing(app, o, s)
    BY DEF TracedSame, Feeding, Passing, Filtered, InRole
  <2> QED BY <1>1, <2>1, <2>2 DEF Traced, Sinking, TracedSame
<1> QED BY <1>2, <1>3, <1>4 DEF Traced

\* The fronts that o has in hand stay.
LEMMA HandedKept ==
  ASSUME ProgramInv, Forwarding(app), NEW o \in Operators, SameLocals(o), sunk'[o] = sunk[o],
         \A p \in InPortsOf(o) : queue[p] # <<>> => Front(p)' = Front(p),
         \A r \in DownstreamPorts(o) : Delivered(o, r)' <=> Delivered(o, r)
  PROVE  TracedSame(o)
<1>1. InHand(o)' = InHand(o)
  BY HandKept DEF SameHand
<1>2. \A p \in InHand(o) : p \in InPortsOf(o) /\ queue[p] # <<>>
  BY HandFull
<1> QED BY <1>1, <1>2 DEF TracedSame, Handed, SameLocals

\* QueuesOrdered(sent, used) after a step.
LEMMA OrderedNext ==
  ASSUME NEW sent, NEW used
  PROVE  QueuesOrdered(sent, used)' <=>
           \A p \in InPorts : Ordered(queue'[p], Carried(p)', sent[p], used[p])
BY DEF QueuesOrdered, Ordered, Rising

-----------------------------------------------------------------------------
(***************************************************************************)
(* Steps of the runtime: a delivery counts as sent.                        *)
(***************************************************************************)
\* Only a delivery reaches a port.
LEMMA DeliveredKept ==
  ASSUME TypeOK, CallShape, RuntimeStep \/ Terminated, NEW o \in Operators, NEW r,
         ~Deliver(o)
  PROVE  Delivered(o, r)' <=> Delivered(o, r)
<1> USE DEF At, Goto, PushPoints, Delivered
<1>1. DOMAIN pc = Operators /\ DOMAIN todo = Operators /\ todo[o] \in Seq(InPorts)
  BY DEF TypeOK
<1>2. pc'[o] = pc[o] /\ todo'[o] = todo[o] => (Delivered(o, r)' <=> Delivered(o, r))
  OBVIOUS
<1>3. ASSUME NEW t \in Threads, Leave(t)
      PROVE  Delivered(o, r)' <=> Delivered(o, r)
  <2>1. todo'[o] = todo[o] /\ (pc'[o] = pc[o] \/ (pc[o] \in YieldPoints \cup {"done"} /\ pc'[o] = ResumeAt(pc[o])))
    BY <1>1, <1>3 DEF Leave, callVars
  <2>2. CASE pc[o] = "writeYield"
    <3>1. pc'[o] \in {"writeYield", "offer"}
      BY <2>1, <2>2 DEF ResumeAt
    <3> QED BY <2>1, <2>2, <3>1
  <2>3. CASE pc[o] # "writeYield"
    <3>1. pc'[o] = pc[o] \/ (pc[o] \notin PushPoints /\ pc'[o] \notin PushPoints)
      BY <2>1, <2>3 DEF ResumeAt, YieldPoints, PushPoints
    <3> QED BY <1>2, <2>1, <3>1
  <2> QED BY <2>2, <2>3
<1>4. ASSUME NEW t \in Threads, ThreadStep(t) \/ SpuriousWakeUp(t), ~Leave(t)
      PROVE  UNCHANGED <<pc, callVars>>
  BY <1>4 DEF ThreadStep, GetThreadWork, WakeUp, SpuriousWakeUp, Work, Enter
<1>5. CASE RequestShutdown \/ AllCompleted \/ Join \/ Terminated
  BY <1>2, <1>5 DEF RequestShutdown, AllCompleted, Join, Terminated, vars, callVars
<1>6. ASSUME NEW u \in Operators \ {o}, CallStep(u)
      PROVE  pc'[o] = pc[o] /\ todo'[o] = todo[o]
  BY <1>1, <1>6 DEF CallStep, WaitReturns, WaitMustBlock, BlockOnRead, Offer, Deliver,
     AnnounceWritten, BlockOnWrite, CheckPreemption, AnnounceRead, Complete, StopScheduler,
     callVars
<1>7. CASE CallStep(o)
  <2>1. CASE \E closed \in BOOLEAN : WaitReturns(o, closed)
    BY <1>1, <2>1 DEF WaitReturns
  <2>2. CASE WaitMustBlock(o) \/ BlockOnRead(o)
    BY <1>1, <2>2 DEF WaitMustBlock, BlockOnRead, callVars
  <2>3. CASE Offer(o)
    <3>1. /\ pc[o] = "offer" /\ todo'[o] = todo[o]
          /\ pc'[o] \in {"writeBlock", "deliver"} \/ (pc'[o] = "preempt" /\ todo[o] = <<>>)
      BY <1>1, <2>3 DEF Offer
    <3> QED BY <3>1
  <2>4. CASE AnnounceWritten(o)
    <3>1. /\ pc[o] = "written" /\ todo'[o] = Tail(todo[o]) /\ todo[o] # <<>>
          /\ pc'[o] = IF Tail(todo[o]) = <<>> THEN "preempt" ELSE "deliver"
      BY <1>1, <2>4 DEF AnnounceWritten, CallShape
    <3> DEFINE q == todo[o]
    <3>2. /\ \A i \in DOMAIN Tail(q) : i + 1 \in DOMAIN q /\ Tail(q)[i] = q[i + 1] /\ i + 1 # 1
          /\ \A i \in DOMAIN q : i # 1 => i - 1 \in DOMAIN Tail(q) /\ Tail(q)[i - 1] = q[i]
          /\ Tail(q) = <<>> => DOMAIN Tail(q) = {}
      BY <1>1, <3>1
    <3>3. Delivered(o, r) <=> \A i \in DOMAIN q : q[i] = r => i = 1
      BY <3>1
    <3>4. Delivered(o, r)' <=> \A i \in DOMAIN Tail(q) : Tail(q)[i] # r
      <4>1. CASE Tail(q) = <<>>
        BY <3>1, <3>2, <4>1
      <4>2. CASE Tail(q) # <<>>
        BY <3>1, <4>2
      <4> QED BY <4>1, <4>2
    <3> QED BY <3>2, <3>3, <3>4
  <2>5. CASE BlockOnWrite(o)
    BY <1>1, <2>5 DEF BlockOnWrite
  <2>6. CASE CheckPreemption(o) \/ AnnounceRead(o) \/ Complete(o) \/ StopScheduler(o)
    BY <1>1, <2>6 DEF CheckPreemption, AnnounceRead, Complete, StopScheduler, callVars
  <2> QED BY <1>7, <2>1, <2>2, <2>3, <2>4, <2>5, <2>6 DEF CallStep
<1> QED BY <1>2, <1>3, <1>4, <1>5, <1>6, <1>7 DEF RuntimeStep, callVars

\* Steps that put nothing into a queue leave the numbers as they are.
LEMMA QuietFollowed ==
  ASSUME TypeOK, CallShape, Pushing, ProgramInv, ForwardInv, RuntimeStep \/ Terminated,
         UNCHANGED progVars, \A c \in Operators : ~Deliver(c)
  PROVE  Followed'
<1>1. Forwarding(app) /\ Followed /\ app \in DOMAIN Apps /\ app' = app
  BY DEF ForwardInv, ProgramInv, ProgramTypes, progVars
<1>2. PICK sent \in Histories, used \in Histories :
        QueuesOrdered(sent, used) /\ AllTraced(sent, used)
  BY <1>1, FollowedWith
<1>3. UNCHANGED queue
  <2>1. ASSUME NEW o \in Operators, CallStep(o)
        PROVE  UNCHANGED queue
    BY <2>1 DEF CallStep, WaitReturns, WaitMustBlock, BlockOnRead, Offer, AnnounceWritten,
       BlockOnWrite, CheckPreemption, AnnounceRead, Complete, StopScheduler, portVars
  <2>2. ASSUME NEW t \in Threads, ThreadStep(t) \/ SpuriousWakeUp(t)
        PROVE  UNCHANGED queue
    BY <2>2 DEF ThreadStep, GetThreadWork, WakeUp, SpuriousWakeUp, Work, Enter, Leave, portVars
  <2>3. CASE RequestShutdown \/ AllCompleted \/ Join \/ Terminated
    BY <2>3 DEF RequestShutdown, AllCompleted, Join, Terminated, vars, portVars
  <2> QED BY <2>1, <2>2, <2>3 DEF RuntimeStep
<1>4. QueuesOrdered(sent, used)'
  BY <1>1, <1>2, <1>3, SameCarried, OrderedNext DEF QueuesOrdered
<1>5. ASSUME NEW o \in Operators
      PROVE  Traced(o, sent, used)'
  <2>1. SameLocals(o) /\ sunk'[o] = sunk[o]
    BY DEF SameLocals, progVars
  <2>2. \A r \in DownstreamPorts(o) : Delivered(o, r)' <=> Delivered(o, r)
    BY DeliveredKept
  <2>3. TracedSame(o)
    BY <1>1, <1>3, <2>1, <2>2, HandedKept DEF Front
  <2> QED BY <1>1, <1>2, <2>3, TracedKept DEF AllTraced
<1>6. AllTraced(sent, used)'
  BY <1>5 DEF AllTraced
<1> QED BY <1>4, <1>6, FollowedBy

\* A queue holds tuples.
LEMMA TuplesHave ==
  ASSUME TypeOK, NEW p \in InPorts
  PROVE  queue[p] \in Seq(Tuples)
BY DEF TypeOK

\* What is to come by are numbers of sources.
LEMMA CarriedHas ==
  ASSUME app \in DOMAIN Apps, NEW p \in InPorts
  PROVE  Carried(p) \in SUBSET Pairs
BY CarriedPairs DEF Pairs

\* What o has in hand.
LEMMA HandFront ==
  ASSUME TypeOK, app \in DOMAIN Apps,
         NEW sent \in Histories, NEW used \in Histories, QueuesOrdered(sent, used),
         NEW h \in InPorts, queue[h] # <<>>
  PROVE  \E s \in Operators, n \in Nat :
           /\ s \in Above(h) /\ Front(h).ids = {<<s, n>>}
           /\ NextIn(Carried(h), used[h], s, n) /\ n <= sent[h][s]
<1>1. /\ queue[h] \in Seq(Tuples) /\ Carried(h) \in SUBSET Pairs
      /\ sent[h] \in Counts /\ used[h] \in Counts
      /\ Ordered(queue[h], Carried(h), sent[h], used[h])
  BY TuplesHave, CarriedHas DEF QueuesOrdered, Histories
<1>2. PICK s \in Operators, n \in Nat :
           Head(queue[h]).ids = {<<s, n>>} /\ NextIn(Carried(h), used[h], s, n) /\ n <= sent[h][s]
  BY <1>1, FrontOrdered
<1>3. s \in Above(h)
  <2>1. <<s, n>> \in Carried(h)
    BY <1>2 DEF NextIn
  <2> QED BY <2>1, CarriedPairs
<1> QED BY <1>2, <1>3 DEF Front

\* What c pushes next to r: the n-th tuple of s.
Delivers(c, r, U, s, n) ==
  /\ item[c].ids = {<<s, n>>} /\ NextIn(Carried(r), U, s, n)
  /\ Role(c) \in Sources => s = c /\ n = counter[c]
  /\ Role(c) \notin Sources => \A h \in InHand(c) : s \in Above(h) /\ Front(h).ids = {<<s, n>>}

DeliversNext(c, r, U) == \E s \in Operators, n \in Nat : Delivers(c, r, U, s, n)

\* A tuple that is delivered is the next of its source that is to come by.
LEMMA DeliveryFits ==
  ASSUME NoFanIn, TypeOK, CallShape, Pushing, ProgramInv, ForwardInv,
         NEW sent \in Histories, NEW used \in Histories, QueuesOrdered(sent, used),
         AllTraced(sent, used),
         NEW c \in Operators, pc[c] = "deliver", NEW r, r = Head(todo[c])
  PROVE  r \in DownstreamPorts(c) /\ DeliversNext(c, r, sent[r])
<1>1. /\ Forwarding(app) /\ Pushes(c) /\ Ends(c) /\ app \in DOMAIN Apps /\ Traced(c, sent, used)
      /\ counter[c] \in Nat
  <2>1. Forwarding(app) /\ Pushes(c) /\ Ends(c)
    BY DEF ForwardInv
  <2> QED BY <2>1 DEF AllTraced, ProgramInv, ProgramTypes
<1>2. todo[c] \in Seq(InPorts) /\ todo[c] # <<>>
  BY DEF TypeOK, CallShape
<1>3. 1 \in DOMAIN todo[c] /\ todo[c][1] = r
  BY <1>2
<1>4. r \in DownstreamPorts(c) /\ r \in InPorts
  BY <1>3, SolePublisher DEF Pushing
<1>5. ~Delivered(c, r) /\ pc[c] \in PushPoints
  BY <1>3 DEF Delivered, PushPoints
<1>6. CASE Role(c) \in Sources
  <2>1. /\ item[c].ids = {<<c, counter[c]>>} /\ <<c, counter[c]>> \notin Apps[app].malformed
        /\ loc[c] = "loop"
    BY <1>1, <1>5, <1>6 DEF Pushes
  <2>2. c \notin Apps[app].broken
    BY <1>1, <2>1, EndsParts
  <2>3. counter[c] <= Supply(c) /\ sent[r][c] + 1 = counter[c]
    BY <1>1, <1>4, <1>5, <1>6 DEF Traced, Producing
  <2>4. sent[r][c] \in Nat /\ Supply(c) \in Nat
    BY <1>1, <1>4, RoleFacts DEF Histories, Counts
  <2>5. counter[c] \in 1..Supply(c) /\ sent[r][c] < counter[c]
        /\ \A m \in Nat : m < counter[c] => m <= sent[r][c]
    BY <1>1, <2>3, <2>4
  <2>6. <<c, counter[c]>> \in Carried(r)
    BY <1>1, <1>4, <1>6, <2>1, <2>2, <2>5, Generates
  <2>7. NextIn(Carried(r), sent[r], c, counter[c])
    BY <2>5, <2>6 DEF NextIn
  <2>8. Delivers(c, r, sent[r], c, counter[c])
    BY <1>6, <2>1, <2>7 DEF Delivers
  <2> QED BY <1>1, <1>4, <2>8 DEF DeliversNext
<1>7. CASE Role(c) \notin Sources
  <2>1. loc[c] = "pop"
    BY <1>1, <1>5, <1>7 DEF Pushes
  <2>2. PICK h \in InPortsOf(c) : InHand(c) = {h} /\ queue[h] # <<>>
    BY <1>1, <2>1, HandFull
  <2>3. h \in InPorts
    BY DEF InPortsOf
  <2>4. PICK s \in Operators, n \in Nat :
           /\ s \in Above(h) /\ Front(h).ids = {<<s, n>>}
           /\ NextIn(Carried(h), used[h], s, n)
    BY <1>1, <2>2, <2>3, HandFront
  <2>5. item[c].ids = {<<s, n>>}
    BY <1>1, <1>5, <2>2, <2>4 DEF Pushes
  <2>6. Role(c) = "Filter" => <<s, n>> \in Apps[app].keep
    <3>1. Role(c) = "Filter" => h = Inputs[c][1]
      BY <1>1, <2>1, <2>2, HandFull
    <3> QED BY <1>1, <2>1, <2>4, <3>1 DEF Pushes, NextIn
  <2>7. <<s, n>> \in Carried(r) /\ \A m : <<s, m>> \in Carried(r) => <<s, m>> \in Carried(h)
    BY <1>1, <1>4, <2>4, <2>6, Forwards DEF NextIn
  <2>8. sent[r][s] = used[h][s]
    <3>1. ~Handed(c, h, r)
      BY <1>5 DEF Handed
    <3> QED BY <1>1, <1>4, <2>4, <3>1, HandoverBy DEF Traced
  <2>9. NextIn(Carried(r), sent[r], s, n)
    BY <2>4, <2>7, <2>8 DEF NextIn
  <2>10. Delivers(c, r, sent[r], s, n)
    BY <1>7, <2>2, <2>4, <2>5, <2>9 DEF Delivers
  <2> QED BY <1>4, <2>10 DEF DeliversNext
<1> QED BY <1>6, <1>7, Zenon

\* The port that is delivered to gets the next tuple of its source.
LEMMA DeliverFollowed ==
  ASSUME NoFanIn, TypeOK, CallShape, Pushing, NoRepetition, ProgramInv, ForwardInv,
         NEW c \in Operators, Deliver(c), UNCHANGED progVars
  PROVE  Followed'
<1>1. /\ Forwarding(app) /\ Followed /\ app \in DOMAIN Apps /\ app' = app
      /\ Pushes(c) /\ Role(c)' = Role(c) /\ counter' = counter
  BY SameRole DEF ForwardInv, ProgramInv, ProgramTypes, progVars
<1>2. PICK sent \in Histories, used \in Histories :
        QueuesOrdered(sent, used) /\ AllTraced(sent, used)
  BY <1>1, FollowedWith
<1>3. PICK r : r = Head(todo[c])
  OBVIOUS
<1>4. pc[c] = "deliver"
  BY DEF Deliver, At
<1>5. r \in DownstreamPorts(c) /\ r \in InPorts
  <2>1. r \in DownstreamPorts(c)
    BY <1>2, <1>3, <1>4, DeliveryFits
  <2> QED BY <2>1, SolePublisher
<1>6. PICK s \in Operators, n \in Nat : Delivers(c, r, sent[r], s, n)
  <2>1. DeliversNext(c, r, sent[r])
    BY <1>2, <1>3, <1>4, DeliveryFits
  <2> QED BY <2>1 DEF DeliversNext
<1>7. PICK sent2 \in Histories :
        /\ sent2[r] = [sent[r] EXCEPT ![s] = n]
        /\ \A p \in InPorts \ {r} : sent2[p] = sent[p]
  <2>1. [sent EXCEPT ![r] = [sent[r] EXCEPT ![s] = n]] \in Histories
    BY <1>5 DEF Histories, Counts
  <2> QED BY <1>5, <2>1 DEF Histories
<1>8. /\ todo' = todo /\ item' = item /\ \A o \in Operators \ {c} : pc'[o] = pc[o]
      /\ pc'[c] = "written" /\ queue'[r] = Append(queue[r], item[c])
      /\ \A p \in InPorts \ {r} : queue'[p] = queue[p]
  BY <1>3, <1>5 DEF Deliver, Goto, TypeOK, callVars
<1>9. QueuesOrdered(sent2, used)'
  <2>1. /\ queue[r] \in Seq(Tuples) /\ Carried(r) \in SUBSET Pairs /\ item[c] \in Tuples
        /\ sent[r] \in Counts /\ used[r] \in Counts
        /\ Ordered(queue[r], Carried(r), sent[r], used[r])
    BY <1>1, <1>2, <1>5, TuplesHave, CarriedHas DEF QueuesOrdered, Histories, TypeOK
  <2>2. item[c].ids = {<<s, n>>} /\ NextIn(Carried(r), sent[r], s, n)
    BY <1>6 DEF Delivers
  <2>3. Ordered(Append(queue[r], item[c]), Carried(r), [sent[r] EXCEPT ![s] = n], used[r])
    BY <2>1, <2>2, PushOrdered
  <2>4. Ordered(queue'[r], Carried(r), sent2[r], used[r])
    BY <1>7, <1>8, <2>3
  <2>5. ASSUME NEW p \in InPorts
        PROVE  Ordered(queue'[p], Carried(p)', sent2[p], used[p])
    <3>1. Carried(p)' = Carried(p)
      BY <1>1, SameCarried
    <3> QED BY <1>2, <1>7, <1>8, <2>4, <3>1 DEF QueuesOrdered
  <2> QED BY <2>5, OrderedNext
<1>10. \A p \in InPorts : queue[p] # <<>> => Front(p)' = Front(p)
  <2>1. queue[r] \in Seq(Tuples) /\ item[c] \in Tuples
    BY <1>5, TuplesHave DEF TypeOK
  <2>2. queue[r] # <<>> => Head(Append(queue[r], item[c])) = Head(queue[r])
    BY <2>1
  <2> QED BY <1>8, <2>2 DEF Front
<1>11. ASSUME NEW o \in Operators \ {c}
       PROVE  Traced(o, sent2, used)'
  <2>1. SameLocals(o) /\ sunk'[o] = sunk[o]
    BY DEF SameLocals, progVars
  <2>2. \A x \in DownstreamPorts(o) : Delivered(o, x)' <=> Delivered(o, x)
    BY <1>8 DEF Delivered
  <2>3. TracedSame(o)
    BY <1>1, <1>10, <2>1, <2>2, HandedKept DEF InPortsOf
  <2>4. \A x \in DownstreamPorts(o) : sent2[x] = sent[x]
    BY <1>5, <1>7, OwnDownstream, SolePublisher
  <2> QED BY <1>1, <1>2, <2>3, <2>4, TracedKept DEF AllTraced
<1>12. Traced(c, sent2, used)'
  <2>1. SameLocals(c) /\ sunk' = sunk /\ Supply(c)' = Supply(c)
    BY <1>1 DEF SameLocals, progVars, Supply
  <2>2. SameHand(c) /\ \A p \in InHand(c) : p \in InPortsOf(c) /\ p \in InPorts /\ Front(p)' = Front(p)
    BY <1>1, <1>10, <2>1, HandKept, HandFull DEF InPortsOf
  <2>3. Delivered(c, r)' /\ ~Delivered(c, r) /\ \A x : x # r => (Delivered(c, x)' <=> Delivered(c, x))
    <3>1. todo[c] \in Seq(InPorts) /\ todo[c] # <<>> /\ Once(todo[c])
      BY <1>4 DEF TypeOK, CallShape, NoRepetition
    <3>2. 1 \in DOMAIN todo[c] /\ todo[c][1] = r
      BY <1>3, <3>1
    <3>3. \A i \in DOMAIN todo[c] : todo[c][i] = r => i = 1
      BY <3>1, <3>2 DEF Once
    <3> QED BY <1>4, <1>8, <3>2, <3>3 DEF Delivered, PushPoints
  <2>4. Traced(c, sent, used)
    BY <1>2 DEF AllTraced
  <2>5. Producing(c, sent2)'
    <3>1. SUFFICES ASSUME Role(c) \in Sources
                   PROVE  /\ counter[c] <= Supply(c)
                          /\ \A x \in DownstreamPorts(c) :
                               IF Delivered(c, x)' THEN sent2[x][c] = counter[c]
                                                   ELSE sent2[x][c] + 1 = counter[c]
      BY <1>1, <2>1 DEF Producing
    <3>2. sent2[r][c] = counter[c]
      BY <1>2, <1>5, <1>6, <1>7, <3>1 DEF Delivers, Histories, Counts
    <3>3. \A x \in DownstreamPorts(c) : x # r => sent2[x] = sent[x]
      BY <1>7, SolePublisher
    <3> QED BY <2>3, <2>4, <3>1, <3>2, <3>3 DEF Traced, Producing
  <2>6. Handover(c, sent2, used)'
    <3>1. ASSUME NEW p \in InPortsOf(c), NEW x \in DownstreamPorts(c), NEW t \in Above(p)
          PROVE  sent2[x][t] = IF Handed(c, p, x)' THEN WithFront(p, used[p])'[t] ELSE used[p][t]
      <4>1. sent[x][t] = IF Handed(c, p, x) THEN WithFront(p, used[p])[t] ELSE used[p][t]
        BY <2>4, HandoverBy DEF Traced
      <4>2. p \in InHand(c) => WithFront(p, used[p])' = WithFront(p, used[p])
        BY <2>2, SameWithFront
      <4>3. CASE x # r
        <5>1. sent2[x] = sent[x] /\ (Handed(c, p, x)' <=> Handed(c, p, x))
          BY <1>7, <2>2, <2>3, <4>3, SolePublisher DEF Handed, SameHand
        <5> QED BY <4>1, <4>2, <5>1 DEF Handed
      <4>4. CASE x = r
        <5>1. ~Handed(c, p, x) /\ (Handed(c, p, x)' <=> p \in InHand(c))
          BY <2>2, <2>3, <4>4 DEF Handed, SameHand
        <5>2. sent[r][t] = used[p][t]
          BY <4>1, <4>4, <5>1
        <5>3. Role(c) \notin Sources /\ t \in Operators
          <6>1. p \in InPorts
            BY DEF InPortsOf
          <6>2. \A u \in Publishers(p) : u \in Operators
            BY <6>1, PublisherOf
          <6> QED BY <1>1, <6>2, ForwardFacts, UpstreamClosed DEF Above
        <5>4. CASE p \in InHand(c)
          <6>1. Front(p).ids = {<<s, n>>}
            BY <1>6, <5>3, <5>4 DEF Delivers
          <6>2. WithFront(p, used[p])[t] = IF t = s THEN n ELSE used[p][t]
            BY <5>3, <6>1, FrontNumber
          <6>3. sent2[r][t] = IF t = s THEN n ELSE sent[r][t]
            BY <1>5, <1>7, <5>3 DEF Histories, Counts
          <6> QED BY <4>2, <4>4, <5>1, <5>2, <5>4, <6>2, <6>3
        <5>5. CASE p \notin InHand(c)
          <6>1. t # s
            <7>1. loc[c] = "pop"
              BY <1>1, <1>4, <5>3 DEF Pushes, PushPoints
            <7>2. PICK h \in InPortsOf(c) : InHand(c) = {h}
              BY <1>1, <7>1, HandFull
            <7>3. s \in Above(h) /\ h # p
              BY <1>6, <5>3, <5>5, <7>2 DEF Delivers
            <7> QED BY <1>1, <7>3 DEF Forwarding
          <6>2. sent2[r][t] = sent[r][t]
            BY <1>5, <1>7, <5>3, <6>1 DEF Histories, Counts
          <6> QED BY <4>4, <5>1, <5>2, <5>5, <6>2
        <5> QED BY <5>4, <5>5
      <4> QED BY <4>3, <4>4
    <3> QED BY <3>1 DEF Handover, Handed
  <2>7. Sinking(c, used)'
    <3>1. Feeding(app, c)' = Feeding(app, c) /\ \A x : Passing(app, c, x)' = Passing(app, c, x)
      BY <1>1 DEF Feeding, Passing, Filtered, InRole
    <3> QED BY <1>1, <2>1, <2>4, <3>1 DEF Traced, Sinking
  <2> QED BY <2>5, <2>6, <2>7 DEF Traced
<1>13. AllTraced(sent2, used)'
  BY <1>11, <1>12 DEF AllTraced
<1> QED BY <1>9, <1>13, FollowedBy

-----------------------------------------------------------------------------
(***************************************************************************)
(* Steps of the programs: what is popped counts as used.                   *)
(***************************************************************************)
\* Nobody else writes what a sink writes.
LEMMA SunkElsewhere ==
  ASSUME ForwardInv, NEW c \in Operators, ProgramStep(c), NEW o \in Operators \ {c}
  PROVE  sunk'[o] = sunk[o]
<1>1. CASE Consume(c)
  BY <1>1 DEF Consume, ForwardInv
<1>2. CASE ~Consume(c)
  BY <1>2 DEF ProgramStep, Generate, Loop, Break, OpenFails, Return, Emit, Pop, PopInTurn, Scan,
     ScanPop, MergeWait, MergeFill, MergeSelect, MergePop, MergeAgain
<1> QED BY <1>1, <1>2

\* The numbers at the ports of the operators that do not step.
LEMMA TracedElsewhere ==
  ASSUME TypeOK, ProgramInv, EveryTuple, ForwardInv, NoFanIn,
         NEW c \in Operators, ProgramStep(c), UNCHANGED app, NEW o \in Operators \ {c},
         NEW sent, NEW used, NEW sent2, NEW used2, AllTraced(sent, used),
         \A r \in InPorts \ DownstreamPorts(c) : sent2[r] = sent[r],
         \A p \in InPorts \ InPortsOf(c) : used2[p] = used[p]
  PROVE  Traced(o, sent2, used2)'
<1>1. Forwarding(app) /\ app \in DOMAIN Apps /\ ProgramTypes
  BY DEF ForwardInv, ProgramInv, ProgramTypes
<1>2. SameLocals(o) /\ sunk'[o] = sunk[o]
  BY <1>1, ProgramFrame, SunkElsewhere
<1>3. CodeStep(c) \/ UNCHANGED vars
  BY ProgramCalls
<1>4. pc'[o] = pc[o] /\ todo'[o] = todo[o] /\ \A p \in InPortsOf(o) : queue'[p] = queue[p]
  BY <1>3, CodeFrame, CodeLeaves
<1>5. \A r : Delivered(o, r)' <=> Delivered(o, r)
  BY <1>4 DEF Delivered
<1>6. TracedSame(o)
  BY <1>1, <1>2, <1>4, <1>5, HandedKept DEF Front
<1>7. \A r \in DownstreamPorts(o) : sent2[r] = sent[r]
  <2>1. ASSUME NEW r \in DownstreamPorts(o)
        PROVE  r \in InPorts /\ r \notin DownstreamPorts(c)
    <3>1. r \in DownstreamPorts(c) => Publishers(r) = {c}
      BY SolePublisher
    <3>2. r \in InPorts /\ Publishers(r) = {o}
      BY SolePublisher
    <3>3. c # o
      OBVIOUS
    <3> QED BY <3>1, <3>2, <3>3
  <2> QED BY <2>1
<1>8. \A p \in InPortsOf(o) : used2[p] = used[p]
  BY DEF InPortsOf
<1> QED BY <1>1, <1>6, <1>7, <1>8, TracedKept DEF AllTraced

\* Steps that pop nothing, and start at most a push of what was there.
LEMMA QuietCodeFollowed ==
  ASSUME TypeOK, ProgramInv, EveryTuple, ForwardInv, NoFanIn,
         NEW c \in Operators, ProgramStep(c), UNCHANGED app, UNCHANGED queue, TracedSame(c)
  PROVE  Followed'
<1>1. Forwarding(app) /\ Followed /\ app \in DOMAIN Apps
  BY DEF ForwardInv, ProgramInv, ProgramTypes
<1>2. PICK sent \in Histories, used \in Histories :
        QueuesOrdered(sent, used) /\ AllTraced(sent, used)
  BY <1>1, FollowedWith
<1>3. QueuesOrdered(sent, used)'
  BY <1>1, <1>2, SameCarried, OrderedNext DEF QueuesOrdered
<1>4. Traced(c, sent, used)'
  BY <1>1, <1>2, TracedKept DEF AllTraced
<1>5. \A o \in Operators \ {c} : Traced(o, sent, used)'
  BY <1>2, TracedElsewhere
<1>6. AllTraced(sent, used)'
  BY <1>4, <1>5 DEF AllTraced
<1> QED BY <1>3, <1>6, FollowedBy

\* A step with nothing pushed before and after it leaves the numbers.
LEMMA NothingHanded ==
  ASSUME ProgramInv, Forwarding(app), NEW c \in Operators, UNCHANGED app, sunk'[c] = sunk[c],
         loc[c] # "pop", loc'[c] # "pop" \/ \A r \in DownstreamPorts(c) : ~Delivered(c, r)',
         Role(c) \in Sources => /\ counter'[c] = counter[c]
                                /\ pc[c] \notin PushPoints /\ pc'[c] \notin PushPoints
  PROVE  TracedSame(c)
<1>1. InHand(c) = {} /\ (loc'[c] # "pop" => InHand(c)' = {})
  BY DEF InHand
<1>2. \A p, r : ~Handed(c, p, r)
  BY <1>1 DEF Handed
<1>3. \A p \in InPortsOf(c), r \in DownstreamPorts(c) : ~Handed(c, p, r)'
  BY <1>1 DEF Handed
<1>4. Role(c) \in Sources => \A r : Delivered(c, r) /\ Delivered(c, r)'
  BY DEF Delivered
<1> QED BY <1>2, <1>3, <1>4 DEF TracedSame

\* A push begins with all its ports ahead.
LEMMA PushBegins ==
  ASSUME TypeOK, app \in DOMAIN Apps, Forwarding(app), NEW c \in Operators, NEW x,
         CallPush(c, Outputs[c][1], x), NEW r \in DownstreamPorts(c)
  PROVE  ~Delivered(c, r)'
<1>1. Role(c) # "FileSink"
  BY ForwardFacts
<1>2. r \in SubscribersOf(Outputs[c][1])
  BY <1>1, ForwardFacts
<1>3. pc'[c] = "offer" /\ todo'[c] = Subscribers[Outputs[c][1]]
  BY DEF CallPush, Goto, TypeOK
<1>4. \E i \in DOMAIN Subscribers[Outputs[c][1]] : Subscribers[Outputs[c][1]][i] = r
  BY <1>2 DEF SubscribersOf
<1> QED BY <1>3, <1>4 DEF Delivered, PushPoints

\* Steps that wait, push what is in hand or return.
LEMMA QuietProgramFollowed ==
  ASSUME TypeOK, ProgramInv, EveryTuple, ForwardInv, NoFanIn, NEW c \in Operators,
         UNCHANGED app,
         Loop(c) \/ Break(c) \/ OpenFails(c) \/ (Generate(c) /\ Return(c)) \/ Emit(c) \/ Scan(c)
  PROVE  Followed'
<1>1. Forwarding(app) /\ app \in DOMAIN Apps /\ loc \in [Operators -> Places] /\ Locals(c)
  BY DEF ForwardInv, ProgramInv, ProgramTypes
<1>2. DOMAIN pc = Operators /\ DOMAIN loc = Operators
  BY <1>1 DEF TypeOK
<1>3. UNCHANGED <<queue, sunk>> /\ loc[c] # "pop"
  BY DEF Loop, Break, OpenFails, Generate, Emit, Scan, Reached, Return, CallReturn, CallWait,
     CallPush, vars, portVars
<1>4. ProgramStep(c)
  BY DEF ProgramStep
<1>5. CASE Return(c)
  <2>1. loc'[c] = "end" /\ pc[c] = "code" /\ pc'[c] = "complete" /\ UNCHANGED counter
    BY <1>2, <1>5 DEF Return, Go, CallReturn, Goto, At
  <2>2. TracedSame(c)
    BY <1>1, <1>3, <2>1, NothingHanded DEF PushPoints
  <2> QED BY <1>3, <1>4, <2>2, QuietCodeFollowed
<1>6. CASE ~Return(c)
  <2>1. Role(c) \in Looping
    BY <1>6 DEF Loop, Break, OpenFails, Emit, Scan, Reached, Looping, Roles, Sources
  <2>2. Role(c) \notin Sources
    BY <2>1 DEF Looping
  <2>3. ASSUME NEW x, CallPush(c, Outputs[c][1], x)
        PROVE  Followed'
    <3>1. \A r \in DownstreamPorts(c) : ~Delivered(c, r)'
      BY <1>1, <2>3, PushBegins
    <3>2. TracedSame(c)
      BY <1>1, <1>3, <2>2, <3>1, NothingHanded
    <3> QED BY <1>3, <1>4, <3>2, QuietCodeFollowed
  <2>4. ASSUME loc'[c] # "pop"
        PROVE  Followed'
    <3>1. TracedSame(c)
      BY <1>1, <1>3, <2>2, <2>4, NothingHanded
    <3> QED BY <1>3, <1>4, <3>1, QuietCodeFollowed
  <2>5. CASE Loop(c)
    <3>1. loc'[c] = "waited"
      BY <1>2, <1>6, <2>5 DEF Loop, Go
    <3> QED BY <2>4, <3>1
  <2>6. CASE Emit(c)
    <3>1. Role(c) \in {"Pass", "Filter"}
      BY <1>1, <2>6, ForwardFacts DEF Emit, Reached, Looping
    <3>2. Emission(c)[1] = Outputs[c][1]
      BY <3>1 DEF Emission
    <3> QED BY <2>3, <2>6, <3>2 DEF Emit
  <2>7. CASE Scan(c)
    <3>1. CASE CallPush(c, Outputs[c][1], Front(Inputs[c][port[c]]))
      BY <2>3, <3>1
    <3>2. CASE Go(c, IF port[c] < NumIn(c) THEN "waited" ELSE "loop")
      <4>1. loc'[c] # "pop"
        BY <1>2, <3>2 DEF Go
      <4> QED BY <2>4, <4>1
    <3> QED BY <2>7, <3>1, <3>2 DEF Scan
  <2> QED BY <1>6, <2>5, <2>6, <2>7 DEF Break, OpenFails
<1> QED BY <1>5, <1>6

\* The numbers need to move at the ports of the operator that steps only.
LEMMA CodeFollowed ==
  ASSUME TypeOK, ProgramInv, EveryTuple, ForwardInv, NoFanIn,
         NEW c \in Operators, ProgramStep(c), UNCHANGED app,
         NEW sent \in Histories, NEW used \in Histories, AllTraced(sent, used),
         NEW sent2 \in Histories, NEW used2 \in Histories,
         \A r \in InPorts \ DownstreamPorts(c) : sent2[r] = sent[r],
         \A p \in InPorts \ InPortsOf(c) : used2[p] = used[p],
         \A p \in InPorts : Ordered(queue'[p], Carried(p), sent2[p], used2[p]),
         Traced(c, sent2, used2)'
  PROVE  Followed'
<1>1. QueuesOrdered(sent2, used2)'
  BY SameCarried, OrderedNext
<1>2. \A o \in Operators \ {c} : Traced(o, sent2, used2)'
  BY TracedElsewhere
<1>3. AllTraced(sent2, used2)'
  BY <1>2 DEF AllTraced
<1> QED BY <1>1, <1>3, FollowedBy

\* The next line, pushed or skipped.
LEMMA GenerateFollowed ==
  ASSUME TypeOK, ProgramInv, EveryTuple, ForwardInv, NoFanIn,
         NEW c \in Operators, Generate(c), ~Return(c), UNCHANGED app
  PROVE  Followed'
<1>1. /\ Forwarding(app) /\ Followed /\ app \in DOMAIN Apps /\ Role(c)' = Role(c)
      /\ Supply(c)' = Supply(c) /\ counter \in [Operators -> Nat]
  BY SameRole DEF ForwardInv, ProgramInv, ProgramTypes, Supply
<1>2. PICK sent \in Histories, used \in Histories :
        QueuesOrdered(sent, used) /\ AllTraced(sent, used)
  BY <1>1, FollowedWith
<1>3. /\ Role(c) \in Sources /\ pc[c] = "code" /\ counter[c] # Supply(c)
      /\ counter' = [counter EXCEPT ![c] = @ + 1]
      /\ UNCHANGED queue
  BY DEF Generate, Reached, At, SourceEnds, CallPush, vars, portVars
<1>4. ProgramStep(c)
  BY DEF ProgramStep
<1>5. /\ counter[c] <= Supply(c) /\ \A r \in DownstreamPorts(c) : sent[r][c] = counter[c]
  BY <1>2, <1>3 DEF AllTraced, Traced, Producing, Delivered, PushPoints
<1>6. Supply(c) \in Nat /\ counter[c] \in Nat /\ counter[c] + 1 <= Supply(c)
      /\ counter'[c] = counter[c] + 1
  BY <1>1, <1>3, <1>5, RoleFacts
<1>7. InPortsOf(c) = {} /\ Role(c) # "FileSink"
  BY <1>1, <1>3, ForwardFacts DEF Sources
<1>8. ASSUME NEW sent2, NEW used2,
             \A r \in DownstreamPorts(c) :
               IF Delivered(c, r)' THEN sent2[r][c] = counter[c] + 1
                                   ELSE sent2[r][c] + 1 = counter[c] + 1
      PROVE  Traced(c, sent2, used2)'
  <2>1. Handover(c, sent2, used2)'
    BY <1>7 DEF Handover
  <2>2. Producing(c, sent2)'
    BY <1>1, <1>6, <1>8 DEF Producing
  <2>3. Sinking(c, used2)'
    BY <1>1, <1>7 DEF Sinking
  <2> QED BY <2>1, <2>2, <2>3 DEF Traced
<1>9. CASE \E x : CallPush(c, Outputs[c][1], x)
  <2>1. \A r \in DownstreamPorts(c) : ~Delivered(c, r)'
    BY <1>1, <1>9, PushBegins
  <2>2. Traced(c, sent, used)'
    BY <1>5, <1>8, <2>1
  <2>3. \A p \in InPorts : Ordered(queue'[p], Carried(p), sent[p], used[p])
    BY <1>2, <1>3 DEF QueuesOrdered
  <2> QED BY <1>2, <1>4, <2>2, <2>3, CodeFollowed
<1>10. CASE UNCHANGED vars /\ <<c, counter[c] + 1>> \in Apps[app].malformed
  <2> DEFINE n == counter[c] + 1
  <2>1. PICK sent2 \in Histories :
          \A p \in InPorts :
            sent2[p] = IF p \in DownstreamPorts(c) THEN [sent[p] EXCEPT ![c] = n] ELSE sent[p]
    <3> DEFINE h == [p \in InPorts |-> IF p \in DownstreamPorts(c)
                                       THEN [sent[p] EXCEPT ![c] = n] ELSE sent[p]]
    <3>1. h \in Histories
      BY <1>6 DEF Histories, Counts
    <3> QED BY <3>1
  <2>2. ASSUME NEW p \in InPorts
        PROVE  Ordered(queue'[p], Carried(p), sent2[p], used[p])
    <3>1. Ordered(queue[p], Carried(p), sent[p], used[p])
      BY <1>2 DEF QueuesOrdered
    <3>2. CASE p \notin DownstreamPorts(c)
      BY <1>3, <2>1, <3>1, <3>2
    <3>3. CASE p \in DownstreamPorts(c)
      <4>1. /\ queue[p] \in Seq(Tuples) /\ Carried(p) \in SUBSET Pairs
            /\ sent[p] \in Counts /\ used[p] \in Counts
        BY <1>1, TuplesHave, CarriedHas DEF Histories
      <4>2. n \in Nat /\ sent[p][c] <= n
        BY <1>5, <1>6, <3>3
      <4>3. \A m \in Nat : <<c, m>> \in Carried(p) /\ m <= n => m <= sent[p][c]
        <5>1. <<c, n>> \notin Carried(p)
          BY <1>1, <1>3, <1>10, <3>3, Generates
        <5>2. ASSUME NEW m \in Nat, m <= n, m # n
              PROVE  m <= sent[p][c]
          BY <1>5, <1>6, <3>3, <5>2
        <5> QED BY <5>1, <5>2
      <4>4. Ordered(queue[p], Carried(p), [sent[p] EXCEPT ![c] = n], used[p])
        <5> HIDE DEF n
        <5> QED BY <3>1, <4>1, <4>2, <4>3, SkipOrdered
      <4> QED BY <1>3, <2>1, <3>3, <4>4
    <3> QED BY <3>2, <3>3
  <2>3. Traced(c, sent2, used)'
    <3>1. \A r \in DownstreamPorts(c) : Delivered(c, r)'
      BY <1>3, <1>10 DEF Delivered, PushPoints, vars
    <3>2. \A r \in DownstreamPorts(c) : sent2[r][c] = counter[c] + 1
      <4>1. ASSUME NEW r \in DownstreamPorts(c)
            PROVE  sent2[r][c] = counter[c] + 1
        <5>1. r \in InPorts /\ sent[r] \in Counts
          BY SolePublisher DEF Histories
        <5> QED BY <2>1, <5>1 DEF Counts
      <4> QED BY <4>1
    <3> QED BY <1>8, <3>1, <3>2
  <2>4. \A r \in InPorts \ DownstreamPorts(c) : sent2[r] = sent[r]
    BY <2>1
  <2> QED BY <1>2, <1>4, <2>2, <2>3, <2>4, CodeFollowed
<1> QED BY <1>9, <1>10 DEF Generate

\* The front of h was the n-th tuple of s, and used2 counts it.
Popped(h, s, n, sent, used, used2) ==
  /\ s \in Above(h) /\ Front(h).ids = {<<s, n>>} /\ NextIn(Carried(h), used[h], s, n)
  /\ used2[h] = [used[h] EXCEPT ![s] = n]
  /\ \A p \in InPorts \ {h} : used2[p] = used[p]
  /\ \A p \in InPorts : Ordered(queue'[p], Carried(p), sent[p], used2[p])

\* A pop moves the number of the last that was popped.
LEMMA PopCounts ==
  ASSUME TypeOK, app \in DOMAIN Apps, NEW c \in Operators, NEW h \in InPortsOf(c), CallPop(c, h),
         NEW sent \in Histories, NEW used \in Histories, QueuesOrdered(sent, used)
  PROVE  \E s \in Operators, n \in Nat, used2 \in Histories : Popped(h, s, n, sent, used, used2)
<1>1. /\ h \in InPorts /\ queue[h] # <<>> /\ queue'[h] = Tail(queue[h])
      /\ \A p \in InPorts \ {h} : queue'[p] = queue[p]
  BY DEF CallPop, TypeOK, InPortsOf
<1>2. PICK s \in Operators, n \in Nat :
        /\ s \in Above(h) /\ Front(h).ids = {<<s, n>>}
        /\ NextIn(Carried(h), used[h], s, n) /\ n <= sent[h][s]
  BY <1>1, HandFront
<1>3. PICK used2 \in Histories :
        /\ used2[h] = [used[h] EXCEPT ![s] = n]
        /\ \A p \in InPorts \ {h} : used2[p] = used[p]
  <2>1. [used EXCEPT ![h] = [used[h] EXCEPT ![s] = n]] \in Histories
    BY <1>1 DEF Histories, Counts
  <2> QED BY <1>1, <2>1 DEF Histories
<1>4. Ordered(queue'[h], Carried(h), sent[h], used2[h])
  <2>1. /\ queue[h] \in Seq(Tuples) /\ Carried(h) \in SUBSET Pairs
        /\ sent[h] \in Counts /\ used[h] \in Counts
        /\ Ordered(queue[h], Carried(h), sent[h], used[h])
    BY <1>1, TuplesHave, CarriedHas DEF QueuesOrdered, Histories
  <2>2. Head(queue[h]).ids = {<<s, n>>}
    BY <1>2 DEF Front
  <2>3. Ordered(Tail(queue[h]), Carried(h), sent[h], [used[h] EXCEPT ![s] = n])
    BY <1>1, <2>1, <2>2, PopOrdered
  <2> QED BY <1>1, <1>3, <2>3
<1>5. \A p \in InPorts : Ordered(queue'[p], Carried(p), sent[p], used2[p])
  BY <1>1, <1>3, <1>4 DEF QueuesOrdered
<1>6. Popped(h, s, n, sent, used, used2)
  BY <1>2, <1>3, <1>5 DEF Popped
<1> QED BY <1>6

\* The end of a turn: what has been pushed is popped.
LEMMA TurnFollowed ==
  ASSUME TypeOK, ProgramInv, EveryTuple, ForwardInv, NoFanIn, NEW c \in Operators,
         ProgramStep(c), UNCHANGED <<app, sunk>>, NEW h \in InPortsOf(c), CallPop(c, h),
         InHand(c) = {h}, loc'[c] # "pop", Role(c) \notin Sources \cup {"FileSink"}
  PROVE  Followed'
<1>1. Forwarding(app) /\ Followed /\ app \in DOMAIN Apps /\ Role(c)' = Role(c) /\ h \in InPorts
  BY SameRole DEF ForwardInv, ProgramInv, ProgramTypes, InPortsOf
<1>2. PICK sent \in Histories, used \in Histories :
        QueuesOrdered(sent, used) /\ AllTraced(sent, used)
  BY <1>1, FollowedWith
<1>3. PICK s \in Operators, n \in Nat, used2 \in Histories : Popped(h, s, n, sent, used, used2)
  BY <1>1, <1>2, PopCounts
<1>4. InHand(c)' = {}
  BY DEF InHand
<1>5. \A r : Delivered(c, r)
  BY DEF CallPop, At, Delivered, PushPoints
<1>6. Handover(c, sent, used2)'
  <2>1. ASSUME NEW p \in InPortsOf(c), NEW r \in DownstreamPorts(c), NEW t \in Above(p)
        PROVE  sent[r][t] = IF Handed(c, p, r)' THEN WithFront(p, used2[p])'[t] ELSE used2[p][t]
    <3>1. p \in InPorts /\ t \in Operators
      <4>1. p \in InPorts
        BY DEF InPortsOf
      <4>2. \A u \in Publishers(p) : u \in Operators
        BY <4>1, PublisherOf
      <4> QED BY <4>1, <4>2, UpstreamClosed DEF Above
    <3>2. sent[r][t] = IF Handed(c, p, r) THEN WithFront(p, used[p])[t] ELSE used[p][t]
      BY <1>2, HandoverBy DEF AllTraced, Traced
    <3>3. ~Handed(c, p, r)' /\ (Handed(c, p, r) <=> p = h)
      BY <1>4, <1>5 DEF Handed
    <3>4. CASE p = h
      <4>1. WithFront(h, used[h])[t] = IF t = s THEN n ELSE used[h][t]
        BY <1>3, <3>1, FrontNumber DEF Popped
      <4>2. used2[h][t] = IF t = s THEN n ELSE used[h][t]
        BY <1>1, <1>3, <3>1 DEF Popped, Histories, Counts
      <4> QED BY <3>2, <3>3, <3>4, <4>1, <4>2
    <3>5. CASE p # h
      BY <1>3, <3>1, <3>2, <3>3, <3>5 DEF Popped
    <3> QED BY <3>4, <3>5
  <2> QED BY <2>1 DEF Handover, Handed
<1>7. Producing(c, sent)' /\ Sinking(c, used2)'
  BY <1>1 DEF Producing, Sinking
<1>8. Traced(c, sent, used2)'
  BY <1>6, <1>7 DEF Traced
<1>9. \A p \in InPorts \ InPortsOf(c) : used2[p] = used[p]
  BY <1>3 DEF Popped
<1>10. \A p \in InPorts : Ordered(queue'[p], Carried(p), sent[p], used2[p])
  BY <1>3 DEF Popped
<1> QED BY <1>2, <1>8, <1>9, <1>10, CodeFollowed

\* An operator pops what it has pushed.
LEMMA PopFollowed ==
  ASSUME TypeOK, ProgramInv, EveryTuple, ForwardInv, NoFanIn, NEW c \in Operators,
         Pop(c) \/ ScanPop(c), UNCHANGED app
  PROVE  Followed'
<1>1. /\ Forwarding(app) /\ app \in DOMAIN Apps /\ loc \in [Operators -> Places] /\ Locals(c)
  BY DEF ForwardInv, ProgramInv, ProgramTypes
<1>2. loc[c] = "pop" /\ loc'[c] # "pop" /\ UNCHANGED sunk
  BY <1>1 DEF Pop, ScanPop, Reached, Go
<1>3. ProgramStep(c)
  BY DEF ProgramStep
<1>4. PICK h \in InPortsOf(c) : CallPop(c, h) /\ InHand(c) = {h}
  <2>1. CASE Pop(c)
    <3>1. Role(c) \in {"Pass", "Filter"} /\ CallPop(c, Inputs[c][1])
      BY <1>1, <2>1, ForwardFacts DEF Pop, Reached, Sources
    <3>2. InHand(c) = {Inputs[c][1]} /\ Inputs[c][1] \in InPortsOf(c)
      BY <1>1, <1>2, <3>1, HandFull, ForwardFacts DEF Sources
    <3> QED BY <3>1, <3>2
  <2>2. CASE ScanPop(c)
    <3>1. Role(c) = "Union" /\ CallPop(c, Inputs[c][port[c]])
      BY <2>2 DEF ScanPop, Reached
    <3>2. InHand(c) = {Inputs[c][port[c]]} /\ Inputs[c][port[c]] \in InPortsOf(c)
      BY <1>1, <1>2, <3>1, HandFull
    <3> QED BY <3>1, <3>2
  <2> QED BY <2>1, <2>2
<1>5. Role(c) \notin Sources \cup {"FileSink"}
  BY DEF Pop, ScanPop, Reached, Sources
<1> QED BY <1>1, <1>2, <1>3, <1>4, <1>5, TurnFollowed

\* A filter drops a tuple: nobody further down is to get it.
LEMMA DropFollowed ==
  ASSUME TypeOK, ProgramInv, EveryTuple, ForwardInv, NoFanIn, NEW c \in Operators,
         Consume(c), Role(c) = "Filter", UNCHANGED app
  PROVE  Followed'
<1> DEFINE h == Inputs[c][1]
<1>1. /\ Forwarding(app) /\ Followed /\ app \in DOMAIN Apps /\ Role(c)' = Role(c)
      /\ InPortsOf(c) = {h} /\ h \in InPorts /\ loc \in [Operators -> Places]
  <2>1. Forwarding(app) /\ Followed /\ app \in DOMAIN Apps /\ loc \in [Operators -> Places]
    BY DEF ForwardInv, ProgramInv, ProgramTypes
  <2>2. InPortsOf(c) = {h}
    BY <2>1, ForwardFacts
  <2> QED BY <2>1, <2>2, SameRole DEF InPortsOf
<1>2. /\ CallPop(c, h) /\ loc[c] = "waited" /\ loc'[c] = "loop" /\ UNCHANGED sunk
      /\ ~(Front(h).ids \subseteq Apps[app].keep)
  BY <1>1 DEF Consume, Reached, Go, Drops
<1> HIDE DEF h
<1>3. PICK sent \in Histories, used \in Histories :
        QueuesOrdered(sent, used) /\ AllTraced(sent, used)
  BY <1>1, FollowedWith
<1>4. PICK s \in Operators, n \in Nat, used2 \in Histories : Popped(h, s, n, sent, used, used2)
  BY <1>1, <1>2, <1>3, PopCounts
<1>5. \A p, r : ~Handed(c, p, r) /\ ~Handed(c, p, r)'
  BY <1>2 DEF Handed, InHand
<1>6. \A r \in DownstreamPorts(c) : \A t \in Above(h) : sent[r][t] = used[h][t]
  BY <1>1, <1>3, <1>5, HandoverBy DEF AllTraced, Traced
<1>7. /\ s \in Above(h) /\ <<s, n>> \notin Apps[app].keep /\ NextIn(Carried(h), used[h], s, n)
      /\ used[h] \in Counts
  BY <1>1, <1>2, <1>4 DEF Popped, Histories
<1>8. PICK sent2 \in Histories :
        \A p \in InPorts :
          sent2[p] = IF p \in DownstreamPorts(c) THEN [sent[p] EXCEPT ![s] = n] ELSE sent[p]
  <2> DEFINE x == [p \in InPorts |-> IF p \in DownstreamPorts(c)
                                     THEN [sent[p] EXCEPT ![s] = n] ELSE sent[p]]
  <2>1. x \in Histories
    BY DEF Histories, Counts
  <2> QED BY <2>1
<1>9. ASSUME NEW p \in InPorts
      PROVE  Ordered(queue'[p], Carried(p), sent2[p], used2[p])
  <2>1. Ordered(queue'[p], Carried(p), sent[p], used2[p])
    BY <1>4 DEF Popped
  <2>2. CASE p \notin DownstreamPorts(c)
    BY <1>8, <2>1, <2>2
  <2>3. CASE p \in DownstreamPorts(c)
    <3>1. /\ queue'[p] \in Seq(Tuples) /\ Carried(p) \in SUBSET Pairs
          /\ sent[p] \in Counts /\ used2[p] \in Counts
      <4>1. queue'[p] \in Seq(Tuples)
        <5>1. queue[p] \in Seq(Tuples) /\ queue[h] \in Seq(Tuples) /\ queue[h] # <<>>
          BY <1>1, <1>2, TuplesHave DEF CallPop
        <5>2. queue'[p] = IF p = h THEN Tail(queue[h]) ELSE queue[p]
          BY <1>1, <1>2 DEF CallPop, TypeOK
        <5> QED BY <5>1, <5>2
      <4> QED BY <1>1, <4>1, CarriedHas DEF Histories
    <3>2. sent[p][s] = used[h][s] /\ used[h][s] \in Nat
      BY <1>6, <1>7, <2>3 DEF Counts
    <3>3. sent[p][s] <= n
      BY <1>7, <3>2 DEF NextIn
    <3>4. \A m \in Nat : <<s, m>> \in Carried(p) /\ m <= n => m <= sent[p][s]
      <4>1. ASSUME NEW m \in Nat, <<s, m>> \in Carried(p), m <= n
            PROVE  m <= sent[p][s]
        <5>1. <<s, m>> \in Carried(h) /\ <<s, m>> \in Apps[app].keep
          BY <1>1, <1>7, <2>3, <4>1, Forwards
        <5>2. m # n
          BY <1>7, <5>1
        <5>3. m < n
          BY <4>1, <5>2
        <5> QED BY <1>7, <3>2, <5>1, <5>3 DEF NextIn
      <4> QED BY <4>1
    <3>5. Ordered(queue'[p], Carried(p), [sent[p] EXCEPT ![s] = n], used2[p])
      BY <2>1, <3>1, <3>3, <3>4, SkipOrdered
    <3> QED BY <1>8, <2>3, <3>5
  <2> QED BY <2>2, <2>3
<1>10. Handover(c, sent2, used2)'
  <2>1. ASSUME NEW p \in InPortsOf(c), NEW r \in DownstreamPorts(c), NEW t \in Above(p)
        PROVE  sent2[r][t] = IF Handed(c, p, r)' THEN WithFront(p, used2[p])'[t] ELSE used2[p][t]
    <3>1. p = h /\ r \in InPorts
      BY <1>1, SolePublisher
    <3>2. t \in Operators
      <4>1. \A u \in Publishers(p) : u \in Operators
        BY <1>1, <3>1, PublisherOf
      <4> QED BY <4>1, UpstreamClosed DEF Above
    <3>3. sent2[r][t] = IF t = s THEN n ELSE sent[r][t]
      BY <1>8, <3>1, <3>2 DEF Histories, Counts
    <3>4. used2[h][t] = IF t = s THEN n ELSE used[h][t]
      BY <1>1, <1>4, <3>2 DEF Popped, Histories, Counts
    <3> QED BY <1>5, <1>6, <3>1, <3>3, <3>4
  <2> QED BY <2>1 DEF Handover, Handed
<1>11. Producing(c, sent2)' /\ Sinking(c, used2)'
  BY <1>1 DEF Producing, Sinking, Sources
<1>12. Traced(c, sent2, used2)'
  BY <1>10, <1>11 DEF Traced
<1>13. /\ \A p \in InPorts \ InPortsOf(c) : used2[p] = used[p]
       /\ \A r \in InPorts \ DownstreamPorts(c) : sent2[r] = sent[r]
  BY <1>1, <1>4, <1>8 DEF Popped
<1>14. ProgramStep(c)
  BY DEF ProgramStep
<1> QED BY <1>3, <1>9, <1>12, <1>13, <1>14, CodeFollowed

\* A sink writes the next tuple of its source.
LEMMA WriteFollowed ==
  ASSUME TypeOK, ProgramInv, EveryTuple, ForwardInv, NoFanIn, NEW c \in Operators,
         Consume(c), Role(c) = "FileSink", UNCHANGED app
  PROVE  Followed'
<1> DEFINE h == Inputs[c][1]
<1>1. /\ Forwarding(app) /\ Followed /\ app \in DOMAIN Apps /\ Role(c)' = Role(c)
      /\ InPortsOf(c) = {h} /\ h \in InPorts /\ DownstreamPorts(c) = {}
  <2>1. Forwarding(app) /\ Followed /\ app \in DOMAIN Apps
    BY DEF ForwardInv, ProgramInv, ProgramTypes
  <2>2. InPortsOf(c) = {h} /\ DownstreamPorts(c) = {}
    BY <2>1, ForwardFacts
  <2> QED BY <2>1, <2>2, SameRole DEF InPortsOf
<1>2. /\ CallPop(c, h) /\ sunk[c] \in Seq(Tuples) /\ sunk'[c] = Append(sunk[c], Front(h))
      /\ Front(h) \in Tuples
  <2>1. CallPop(c, h) /\ sunk' = [sunk EXCEPT ![c] = Append(@, Front(h))]
    BY DEF Consume
  <2>2. Front(h) \in Tuples
    BY <1>1, <2>1, FrontType DEF CallPop
  <2>3. sunk \in [Operators -> Seq(Tuples)]
    BY DEF ForwardInv
  <2> QED BY <2>1, <2>2, <2>3
<1>3. Feeding(app, c)' = Feeding(app, c) /\ \A x : Passing(app, c, x)' = Passing(app, c, x)
  BY DEF Feeding, Passing, Filtered, InRole
<1>4. Inputs[c][1] = h
  OBVIOUS
<1> HIDE DEF h
<1>5. PICK sent \in Histories, used \in Histories :
        QueuesOrdered(sent, used) /\ AllTraced(sent, used)
  BY <1>1, FollowedWith
<1>6. PICK s \in Operators, n \in Nat, used2 \in Histories : Popped(h, s, n, sent, used, used2)
  BY <1>1, <1>2, <1>5, PopCounts
<1>7. /\ s \in Above(h) /\ Front(h).ids = {<<s, n>>} /\ NextIn(Carried(h), used[h], s, n)
      /\ used[h] \in Counts /\ used2[h] = [used[h] EXCEPT ![s] = n]
  BY <1>1, <1>6 DEF Popped, Histories
<1>8. ASSUME NEW t \in Feeding(app, c), NEW m \in Passing(app, c, t)
      PROVE  (\E i \in DOMAIN sunk'[c] : <<t, m>> \in sunk'[c][i].ids) <=> m <= used2[h][t]
  <2>1. (\E i \in DOMAIN sunk[c] : <<t, m>> \in sunk[c][i].ids) <=> m <= used[h][t]
    BY <1>1, <1>4, <1>5 DEF AllTraced, Traced, Sinking
  <2>2. (\E i \in DOMAIN sunk'[c] : <<t, m>> \in sunk'[c][i].ids)
          <=> (\E i \in DOMAIN sunk[c] : <<t, m>> \in sunk[c][i].ids) \/ <<t, m>> \in Front(h).ids
    <3> DEFINE q == sunk[c]
               x == Front(h)
    <3>1. /\ DOMAIN Append(q, x) = (DOMAIN q) \cup {Len(q) + 1}
          /\ \A i \in DOMAIN q : Append(q, x)[i] = q[i]
          /\ Append(q, x)[Len(q) + 1] = x
      BY <1>2
    <3> HIDE DEF q, x
    <3>2. (\E i \in DOMAIN Append(q, x) : <<t, m>> \in Append(q, x)[i].ids)
            <=> (\E i \in DOMAIN q : <<t, m>> \in q[i].ids) \/ <<t, m>> \in x.ids
      BY <3>1
    <3> QED BY <1>2, <3>2 DEF q, x
  <2>3. <<t, m>> \in Front(h).ids <=> t = s /\ m = n
    BY <1>7
  <2>4. t \in Operators /\ m \in Nat
    <3>1. Feeding(app, c) \subseteq Operators
      BY UpstreamClosed DEF Feeding
    <3> QED BY <1>1, <3>1 DEF Passing
  <2>5. CASE t # s
    BY <1>7, <2>1, <2>2, <2>3, <2>4, <2>5 DEF Counts
  <2>6. CASE t = s
    <3>1. <<s, m>> \in Carried(h)
      BY <1>1, <1>7, <2>6, Arrives
    <3>2. used2[h][s] = n /\ used[h][s] \in Nat
      BY <1>7 DEF Counts
    <3>3. used[h][s] < n /\ (m < n => m <= used[h][s])
      BY <1>7, <2>4, <3>1 DEF NextIn
    <3>4. m = n \/ m <= used[h][s] <=> m <= n
      BY <2>4, <3>2, <3>3
    <3> QED BY <2>1, <2>2, <2>3, <2>6, <3>2, <3>4
  <2> QED BY <2>5, <2>6
<1>9. Sinking(c, used2)'
  <2>1. \A t \in Feeding(app, c) : \A m \in Passing(app, c, t) :
          (\E i \in DOMAIN sunk'[c] : <<t, m>> \in sunk'[c][i].ids) <=> m <= used2[h][t]
    BY <1>8
  <2> QED BY <1>3, <1>4, <2>1 DEF Sinking
<1>10. Producing(c, sent)' /\ Handover(c, sent, used2)'
  BY <1>1 DEF Producing, Handover, Sources
<1>11. Traced(c, sent, used2)'
  BY <1>9, <1>10 DEF Traced
<1>12. \A p \in InPorts \ InPortsOf(c) : used2[p] = used[p]
  BY <1>1, <1>6 DEF Popped
<1>13. ProgramStep(c)
  BY DEF ProgramStep
<1>14. \A p \in InPorts : Ordered(queue'[p], Carried(p), sent[p], used2[p])
  BY <1>6 DEF Popped
<1> QED BY <1>5, <1>11, <1>12, <1>13, <1>14, CodeFollowed

\* Every step of an operator keeps the numbers.
LEMMA ProgramFollowed ==
  ASSUME TypeOK, ProgramInv, EveryTuple, ForwardInv, NoFanIn, NEW c \in Operators,
         ProgramStep(c), UNCHANGED app
  PROVE  Followed'
<1>1. ForwardStep(c)
  BY ForwardSteps DEF ForwardInv, ProgramInv, ProgramTypes
<1>2. CASE Consume(c)
  <2>1. Role(c) \in {"FileSink", "Filter"}
    BY <1>2 DEF Consume, Reached
  <2> QED BY <1>2, <2>1, DropFollowed, WriteFollowed
<1>3. CASE Generate(c)
  BY <1>3, GenerateFollowed, QuietProgramFollowed
<1> QED BY <1>1, <1>2, <1>3, QuietProgramFollowed, PopFollowed DEF ForwardStep

\* A sink writes tuples.
LEMMA SunkTypes ==
  ASSUME TypeOK, ProgramInv, ForwardInv, NEW c \in Operators, ProgramStep(c)
  PROVE  sunk' \in [Operators -> Seq(Tuples)]
<1>1. CASE Consume(c) /\ Role(c) = "FileSink"
  <2>1. CallPop(c, Inputs[c][1]) /\ sunk' = [sunk EXCEPT ![c] = Append(@, Front(Inputs[c][1]))]
    BY <1>1 DEF Consume
  <2>2. InPortsOf(c) = {Inputs[c][1]}
    BY <1>1, ForwardFacts DEF ForwardInv, ProgramInv, ProgramTypes
  <2>3. Front(Inputs[c][1]) \in Tuples
    BY <2>1, <2>2, FrontType DEF CallPop, InPortsOf
  <2> QED BY <2>1, <2>3 DEF ForwardInv
<1>2. CASE ~(Consume(c) /\ Role(c) = "FileSink")
  BY <1>2 DEF ForwardInv, ProgramStep, Consume, Generate, Loop, Break, OpenFails, Return, Emit,
     Pop, PopInTurn, Scan, ScanPop, MergeWait, MergeFill, MergeSelect, MergePop, MergeAgain
<1> QED BY <1>1, <1>2

-----------------------------------------------------------------------------
(***************************************************************************)
(* The invariant.                                                          *)
(***************************************************************************)
\* The invariant holds at the start: all the numbers are 0 ...
LEMMA ForwardStart ==
  ASSUME EveryTuple, FlowInit, Forwarding(app)
  PROVE  ForwardInv
<1>1. /\ app \in DOMAIN Apps /\ ProgramInv /\ TypeOK
      /\ queue = [p \in InPorts |-> <<>>] /\ counter = [o \in Operators |-> 0]
      /\ shutdown = FALSE
  BY FlowStart, InitTypes, FlowGraphAssumption, RuntimeAssumption DEF FlowInit, Init
<1>2. sunk = [o \in Operators |-> <<>>] /\ sunk \in [Operators -> Seq(Tuples)]
  BY DEF FlowInit
<1>3. ASSUME NEW o \in Operators
      PROVE  /\ loc[o] = IF o \in Apps[app].broken THEN "open" ELSE "loop"
             /\ pc[o] = "code" /\ ~isComplete[o] /\ ~closedResult[o]
  BY DEF FlowInit, Init
<1>4. ASSUME NEW o \in Operators
      PROVE  Pushes(o) /\ Ends(o)
  <2>1. Pushes(o)
    BY <1>3 DEF Pushes, PushPoints
  <2>2. ~Through(o)
    BY <1>3 DEF Through
  <2>3. Ends(o)
    BY <1>3, <2>2 DEF Ends, MidWait
  <2> QED BY <2>1, <2>3
<1>5. Followed
  <2>1. PICK zero \in Histories : \A p \in InPorts : \A s \in Operators : zero[p][s] = 0
    <3> DEFINE z == [p \in InPorts |-> [s \in Operators |-> 0]]
    <3>1. z \in Histories
      BY DEF Histories, Counts
    <3> QED BY <3>1
  <2>2. QueuesOrdered(zero, zero)
    <3>1. ASSUME NEW p \in InPorts
          PROVE  Ordered(queue[p], Carried(p), zero[p], zero[p])
      <4>1. queue[p] = <<>> /\ DOMAIN queue[p] = {}
        BY <1>1
      <4>2. \A s \in Operators : zero[p][s] <= zero[p][s]
        BY <2>1
      <4>3. \A e \in Carried(p) : ~(e[2] <= zero[p][e[1]])
        BY <1>1, <2>1, CarriedPairs
      <4>4. Rising(queue[p])
        BY <4>1 DEF Rising
      <4> QED BY <4>1, <4>2, <4>3, <4>4 DEF Ordered
    <3> QED BY <3>1 DEF QueuesOrdered
  <2>3. ASSUME NEW o \in Operators
        PROVE  Traced(o, zero, zero)
    <3>1. InHand(o) = {} /\ \A r : Delivered(o, r)
      BY <1>3 DEF InHand, Delivered, PushPoints
    <3>2. \A r \in DownstreamPorts(o) : r \in InPorts
      BY FlowGraphAssumption DEF FlowGraphAssumption, DownstreamPorts, SubscribersOf, OutPortsOf
    <3>3. Handover(o, zero, zero)
      <4>1. ASSUME NEW p \in InPortsOf(o), NEW s \in Above(p)
            PROVE  p \in InPorts /\ s \in Operators
        <5>1. p \in InPorts
          BY DEF InPortsOf
        <5>2. \A u \in Publishers(p) : u \in Operators
          BY FlowGraphAssumption DEF FlowGraphAssumption, Publishers, PublisherPorts
        <5> QED BY <5>1, <5>2, UpstreamClosed DEF Above
      <4> QED BY <2>1, <3>1, <3>2, <4>1 DEF Handover
    <3>4. Producing(o, zero)
      BY <1>1, <2>1, <3>1, <3>2, RoleFacts DEF Producing
    <3>5. Sinking(o, zero)
      <4>1. SUFFICES ASSUME Role(o) = "FileSink", NEW s \in Feeding(app, o),
                            NEW n \in Passing(app, o, s)
                     PROVE  /\ ~\E i \in DOMAIN sunk[o] : <<s, n>> \in sunk[o][i].ids
                            /\ ~(n <= zero[Inputs[o][1]][s])
        BY DEF Sinking
      <4>2. Inputs[o][1] \in InPorts
        BY <1>1, <4>1, ForwardFacts DEF InPortsOf, Sources
      <4>3. s \in Operators
        BY UpstreamClosed DEF Feeding
      <4>4. Apps[app].supply[s] \in Nat
        BY <1>1, <4>3, RoleFacts DEF Supply
      <4>5. n \in Nat /\ n > 0
        BY <4>4 DEF Passing
      <4> QED BY <1>2, <2>1, <4>2, <4>3, <4>5
    <3> QED BY <3>3, <3>4, <3>5 DEF Traced
  <2>4. AllTraced(zero, zero)
    BY <2>3 DEF AllTraced
  <2> QED BY <2>2, <2>4, FollowedBy
<1> QED BY <1>2, <1>4, <1>5 DEF ForwardInv

\* Steps in which nothing moves.
LEMMA ForwardStutter ==
  ASSUME ProgramInv, ForwardInv, UNCHANGED allVars
  PROVE  ForwardInv'
<1>1. /\ UNCHANGED <<queue, isComplete, shutdown, pc, wait, todo, item, closedResult>>
      /\ UNCHANGED progVars /\ UNCHANGED <<app, loc, port, counter, heap, sunk>>
  BY DEF allVars, vars, portVars, callVars, progVars
<1>2. Forwarding(app) /\ app \in DOMAIN Apps
  BY DEF ForwardInv, ProgramInv, ProgramTypes
<1>3. ASSUME NEW o \in Operators
      PROVE  /\ SameLocals(o) /\ Role(o)' = Role(o) /\ WaitOf(o)' = WaitOf(o)
             /\ InHand(o)' = InHand(o) /\ Supply(o)' = Supply(o)
             /\ \A r : Delivered(o, r)' <=> Delivered(o, r)
             /\ \A p : Front(p)' = Front(p) /\ (IsClosed(p)' <=> IsClosed(p))
  <2>1. SameLocals(o)
    BY <1>1 DEF SameLocals
  <2> QED BY <1>1, <2>1, LocalsKept, HandKept DEF SameHand, Supply, Delivered, Front, IsClosed
<1>4. ASSUME NEW o \in Operators
      PROVE  Pushes(o)' /\ Ends(o)'
  <2>1. Pushes(o) /\ Ends(o)
    BY DEF ForwardInv
  <2>2. Pushes(o)'
    BY <1>1, <1>3, <2>1 DEF Pushes
  <2>3. Through(o)' <=> Through(o)
    BY <1>1 DEF Through
  <2>4. Idle(o)' <=> Idle(o)
    BY <1>1, <1>3 DEF Idle, Exhausted
  <2>5. Ends(o)'
    BY <1>1, <1>3, <2>1, <2>3, <2>4, EndsParts
  <2> QED BY <2>2, <2>5
<1>5. Followed'
  <2>1. PICK sent \in Histories, used \in Histories :
          QueuesOrdered(sent, used) /\ AllTraced(sent, used)
    BY FollowedWith DEF ForwardInv
  <2>2. QueuesOrdered(sent, used)'
    BY <1>1, <2>1, SameCarried, OrderedNext DEF QueuesOrdered
  <2>3. ASSUME NEW o \in Operators
        PROVE  Traced(o, sent, used)'
    <3>1. TracedSame(o)
      BY <1>1, <1>3 DEF TracedSame, Handed
    <3> QED BY <1>2, <2>1, <3>1, TracedKept DEF AllTraced
  <2>4. AllTraced(sent, used)'
    BY <2>3 DEF AllTraced
  <2> QED BY <2>2, <2>4, FollowedBy
<1> QED BY <1>1, <1>2, <1>4, <1>5 DEF ForwardInv

\* ... and every step keeps it.
LEMMA ForwardNext ==
  ASSUME EveryTuple, NoFanIn, TypeOK, CallShape, Pushing, NoRepetition, ProgramInv, ForwardInv,
         [FlowNext]_allVars
  PROVE  ForwardInv'
<1>1. CASE (RuntimeStep \/ Terminated) /\ UNCHANGED progVars
  <2>1. Forwarding(app)' /\ sunk' \in [Operators -> Seq(Tuples)]
    BY <1>1 DEF ForwardInv, progVars
  <2>2. \A o \in Operators : Pushes(o)' /\ Ends(o)'
    BY <1>1, RuntimePushes, RuntimeEnds
  <2>3. Followed'
    BY <1>1, QuietFollowed, DeliverFollowed
  <2> QED BY <2>1, <2>2, <2>3 DEF ForwardInv
<1>2. CASE UNCHANGED app /\ \E c \in Operators : ProgramStep(c)
  <2>1. PICK c \in Operators : ProgramStep(c)
    BY <1>2
  <2>2. Forwarding(app)' /\ sunk' \in [Operators -> Seq(Tuples)]
    BY <1>2, <2>1, SunkTypes DEF ForwardInv
  <2>3. ASSUME NEW o \in Operators
        PROVE  Pushes(o)' /\ Ends(o)'
    BY <1>2, <2>1, ProgramForward, ProgramElsewhere
  <2>4. Followed'
    BY <1>2, <2>1, ProgramFollowed
  <2> QED BY <2>2, <2>3, <2>4 DEF ForwardInv
<1>3. CASE UNCHANGED allVars
  BY <1>3, ForwardStutter
<1> QED BY <1>1, <1>2, <1>3 DEF FlowNext

-----------------------------------------------------------------------------
(***************************************************************************)
(* Nothing is on its way when everybody has ended.                         *)
(***************************************************************************)

\* w has pushed all that is to come from s at the ports it feeds.
Served(w, s, sent) ==
  \A r \in DownstreamPorts(w) : \A n \in Nat : <<s, n>> \in Carried(r) => n <= sent[r][s]

AllEnded == ~shutdown /\ \A o \in Operators : loc[o] = "end" /\ pc[o] \in {"stop", "done"}

\* Who has ended has nothing in hand and nothing left to read.
LEMMA EndedFacts ==
  ASSUME ForwardInv, AllEnded, NEW o \in Operators
  PROVE  Idle(o) /\ InHand(o) = {} /\ \A r : Delivered(o, r)
<1>1. Through(o) /\ Ends(o)
  BY DEF AllEnded, Through, ForwardInv
<1> QED BY <1>1, EndsParts DEF AllEnded, InHand, Delivered, PushPoints

\* A source that has ended has pushed all its tuples.
LEMMA SourceServes ==
  ASSUME NoFanIn, ForwardInv, AllEnded, app \in DOMAIN Apps,
         NEW sent \in Histories, NEW used \in Histories, AllTraced(sent, used),
         NEW s \in Operators, Role(s) \in Sources
  PROVE  Served(s, s, sent)
<1>1. Forwarding(app)
  BY DEF ForwardInv
<1>2. ASSUME NEW r \in DownstreamPorts(s), NEW n \in Nat, <<s, n>> \in Carried(r)
      PROVE  n <= sent[r][s]
  <2>1. s \notin Apps[app].broken /\ n \in 1..Supply(s)
    BY <1>1, <1>2, Generates
  <2>2. counter[s] = Supply(s)
    BY <2>1, EndedFacts DEF Idle
  <2>3. sent[r][s] = counter[s]
    BY EndedFacts DEF AllTraced, Traced, Producing
  <2>4. Supply(s) \in Nat
    BY RoleFacts
  <2> QED BY <2>1, <2>2, <2>3, <2>4
<1> QED BY <1>2 DEF Served

\* What has been pushed to a port has been popped from it ...
LEMMA AllUsed ==
  ASSUME ForwardInv, AllEnded, app \in DOMAIN Apps, NoFanIn,
         NEW sent \in Histories, NEW used \in Histories, QueuesOrdered(sent, used),
         NEW w \in Operators, NEW p \in InPortsOf(w), NEW u \in Publishers(p),
         NEW s, Served(u, s, sent), NEW n \in Nat, <<s, n>> \in Carried(p)
  PROVE  n <= used[p][s]
<1>1. p \in InPorts /\ Forwarding(app)
  BY DEF InPortsOf, ForwardInv
<1>2. p \in DownstreamPorts(u)
  BY <1>1, PublisherOf
<1>3. n <= sent[p][s]
  BY <1>2 DEF Served
<1>4. queue[p] = <<>>
  <2>1. Role(w) \notin Sources
    BY <1>1, ForwardFacts
  <2> QED BY <2>1, EndedFacts DEF Idle, Exhausted
<1>5. Ordered(queue[p], Carried(p), sent[p], used[p])
  BY <1>1 DEF QueuesOrdered
<1>6. ~(used[p][s] < n)
  BY <1>3, <1>4, <1>5 DEF Ordered
<1>7. used[p][s] \in Nat
  <2>1. <<s, n>> \in Operators \X (Nat \ {0})
    BY <1>1, CarriedPairs
  <2>2. s \in Operators
    BY <2>1
  <2> QED BY <1>1, <2>2 DEF Histories, Counts
<1> QED BY <1>6, <1>7

\* ... and pushed on.
LEMMA ServesOn ==
  ASSUME NoFanIn, ForwardInv, AllEnded, app \in DOMAIN Apps,
         NEW sent \in Histories, NEW used \in Histories, QueuesOrdered(sent, used),
         AllTraced(sent, used), NEW w \in Operators, NEW u \in UpstreamOperators(w),
         NEW s \in Upstream(u), Served(u, s, sent)
  PROVE  Served(w, s, sent)
<1>1. PICK p \in InPortsOf(w) : u \in Publishers(p)
  BY DEF UpstreamOperators
<1>2. s \in Above(p) /\ Forwarding(app)
  BY <1>1 DEF Above, ForwardInv
<1>3. ASSUME NEW r \in DownstreamPorts(w), NEW n \in Nat, <<s, n>> \in Carried(r)
      PROVE  n <= sent[r][s]
  <2>1. <<s, n>> \in Carried(p)
    BY <1>2, <1>3, Forwards
  <2>2. n <= used[p][s]
    BY <1>1, <2>1, AllUsed
  <2>3. sent[r][s] = used[p][s]
    BY <1>2, EndedFacts DEF AllTraced, Traced, Handover
  <2> QED BY <2>2, <2>3
<1> QED BY <1>3 DEF Served

\* So every operator has served those behind it, along every path from a source.
LEMMA AllServe ==
  ASSUME NoFanIn, ForwardInv, AllEnded, app \in DOMAIN Apps,
         NEW sent \in Histories, NEW used \in Histories, QueuesOrdered(sent, used),
         AllTraced(sent, used), NEW w \in Operators, NEW s \in Upstream(w),
         Role(s) \in Sources
  PROVE  Served(w, s, sent)
<1> DEFINE Late == {v \in Operators : s \in Upstream(v) => ~Served(v, s, sent)}
<1>1. SUFFICES ASSUME ~Served(w, s, sent) PROVE FALSE
  OBVIOUS
<1>2. w \in Late
  BY <1>1
<1>3. ASSUME NEW v \in Late
      PROVE  UpstreamOperators(v) \subseteq Late
  <2>1. SUFFICES ASSUME NEW u \in UpstreamOperators(v), s \in Upstream(u), Served(u, s, sent)
                 PROVE  u \in Operators /\ FALSE
    <3>1. UpstreamOperators(v) \subseteq Operators
      BY UpstreamClosed
    <3> QED BY <3>1
  <2>2. Served(v, s, sent)
    BY <2>1, ServesOn
  <2>3. u \in Upstream(v)
    BY UpstreamClosed
  <2>4. s \in Upstream(v)
    BY <2>1, <2>3, UpstreamPasses
  <2> QED BY <2>2, <2>4
<1>4. s \in Late
  <2>1. Upstream(w) \subseteq Late
    <3>1. Late \in SUBSET Operators
      OBVIOUS
    <3> HIDE DEF Late
    <3> QED BY <1>2, <1>3, <3>1, UpstreamLeast
  <2> QED BY <2>1
<1>5. s \in Operators /\ s \in Upstream(s)
  BY <1>4, UpstreamClosed
<1> QED BY <1>4, <1>5, SourceServes

\* Hence a sink has written all it is to write.
LEMMA EverythingWritten ==
  ASSUME NoFanIn, ForwardInv, AllEnded, app \in DOMAIN Apps,
         NEW k \in InRole(app, "FileSink"), NEW s \in Feeding(app, k),
         NEW n \in Passing(app, k, s)
  PROVE  \E i \in DOMAIN sunk[k] : <<s, n>> \in sunk[k][i].ids
<1>1. Forwarding(app) /\ Followed /\ k \in Operators /\ Role(k) = "FileSink"
  BY DEF ForwardInv, InRole, Role
<1>2. PICK sent \in Histories, used \in Histories :
        QueuesOrdered(sent, used) /\ AllTraced(sent, used)
  BY <1>1, FollowedWith
<1>3. s \in Upstream(k) /\ Role(s) \in Sources /\ s \in Operators
  BY <1>1, UpstreamClosed DEF Feeding, Role
<1>4. InPortsOf(k) = {Inputs[k][1]} /\ s # k
  BY <1>1, <1>3, ForwardFacts DEF Sources
<1>5. PICK p \in InPortsOf(k) : s \in Above(p)
  BY <1>1, <1>3, <1>4, AboveIsUpstream
<1>6. PICK u \in Publishers(p) : s \in Upstream(u)
  BY <1>5 DEF Above
<1>7. u \in Operators
  BY <1>5, PublisherOf DEF InPortsOf
<1>8. Served(u, s, sent)
  BY <1>2, <1>3, <1>6, <1>7, AllServe
<1>9. n \in Nat /\ <<s, n>> \in Carried(p)
  BY <1>1, <1>5, Arrives DEF Passing
<1>10. n <= used[p][s]
  BY <1>1, <1>2, <1>6, <1>8, <1>9, AllUsed
<1> QED BY <1>1, <1>2, <1>4, <1>10 DEF AllTraced, Traced, Sinking

-----------------------------------------------------------------------------
(***************************************************************************)
(* The contract: what its variables stand for, and what its steps need.    *)
(***************************************************************************)
IdsOf(q) == [i \in DOMAIN q |-> q[i].ids]
Writings == [k \in InRole(app, "FileSink") |-> IdsOf(sunk[k])]

\* An empty sequence has no entries.
LEMMA NoIds == IdsOf(<<>>) = <<>>
BY DEF IdsOf

\* An entry is appended with the tuple.
LEMMA MoreIds ==
  ASSUME NEW q \in Seq(Tuples), NEW x \in Tuples
  PROVE  /\ IdsOf(Append(q, x)) = Append(IdsOf(q), x.ids)
         /\ IdsOf(q) \in Seq({y.ids : y \in Tuples})
<1> DEFINE T == {y.ids : y \in Tuples}
<1>1. IdsOf(q) \in Seq(T) /\ Len(IdsOf(q)) = Len(q) /\ x.ids \in T
      /\ \A i \in 1..Len(q) : IdsOf(q)[i] = q[i].ids
  BY DEF IdsOf
<1>2. IdsOf(Append(q, x)) \in Seq(T) /\ Len(IdsOf(Append(q, x))) = Len(q) + 1
      /\ \A i \in 1..(Len(q) + 1) : IdsOf(Append(q, x))[i] = Append(q, x)[i].ids
  BY DEF IdsOf
<1>3. /\ Append(IdsOf(q), x.ids) \in Seq(T) /\ Len(Append(IdsOf(q), x.ids)) = Len(q) + 1
      /\ \A i \in 1..Len(q) : Append(IdsOf(q), x.ids)[i] = IdsOf(q)[i]
      /\ Append(IdsOf(q), x.ids)[Len(q) + 1] = x.ids
  <2> DEFINE f == IdsOf(q)
             y == x.ids
  <2>1. f \in Seq(T) /\ Len(f) = Len(q) /\ y \in T
    BY <1>1
  <2> HIDE DEF f, y, T
  <2>2. Append(f, y) \in Seq(T) /\ Len(Append(f, y)) = Len(q) + 1
        /\ (\A i \in 1..Len(q) : Append(f, y)[i] = f[i]) /\ Append(f, y)[Len(q) + 1] = y
    BY <2>1
  <2> QED BY <2>2 DEF f, y
<1>4. /\ \A i \in 1..Len(q) : Append(q, x)[i] = q[i]
      /\ Append(q, x)[Len(q) + 1] = x
  OBVIOUS
<1>5. ASSUME NEW i \in 1..(Len(q) + 1)
      PROVE  IdsOf(Append(q, x))[i] = Append(IdsOf(q), x.ids)[i]
  <2>1. CASE i = Len(q) + 1
    BY <1>2, <1>3, <1>4, <2>1
  <2>2. CASE i \in 1..Len(q)
    <3>1. IdsOf(Append(q, x))[i] = Append(q, x)[i].ids /\ Append(q, x)[i] = q[i]
      BY <1>2, <1>4, <2>2
    <3>2. Append(IdsOf(q), x.ids)[i] = q[i].ids
      BY <1>1, <1>3, <2>2
    <3> QED BY <3>1, <3>2
  <2>3. Len(q) \in Nat
    OBVIOUS
  <2>4. i = Len(q) + 1 \/ i \in 1..Len(q)
    BY <2>3
  <2> QED BY <2>1, <2>2, <2>4
<1>6. IdsOf(Append(q, x)) = Append(IdsOf(q), x.ids)
  <2> DEFINE a == IdsOf(Append(q, x))
             b == Append(IdsOf(q), x.ids)
  <2>1. a \in Seq(T) /\ b \in Seq(T) /\ Len(a) = Len(b) /\ \A i \in 1..Len(a) : a[i] = b[i]
    BY <1>2, <1>3, <1>5
  <2> HIDE DEF a, b, T
  <2>2. a = b
    BY <2>1, SeqEqual
  <2> QED BY <2>2 DEF a, b
<1> QED BY <1>1, <1>6

\* The lines of the contract are those of the application.
LEMMA LinesOf ==
  ASSUME app \in DOMAIN Apps
  PROVE  /\ DOMAIN Lines[app] = InRole(app, "FileSink")
         /\ \A k \in InRole(app, "FileSink") :
              /\ DOMAIN Lines[app][k] = Feeding(app, k)
              /\ \A s \in Feeding(app, k) : Lines[app][k][s] = Passing(app, k, s)
BY DEF Lines

\* The runtime starts no shutdown but a requested one, and tells the client once.
LEMMA RuntimeTells ==
  ASSUME RuntimeStep \/ Terminated
  PROVE  \/ RequestShutdown /\ client' = client
         \/ Join /\ shutdown' = shutdown
         \/ shutdown' = shutdown /\ (client' = "returned" <=> client = "returned")
<1>1. ASSUME NEW o \in Operators, CallStep(o)
      PROVE  UNCHANGED <<shutdown, client>>
  BY <1>1 DEF CallStep, WaitReturns, WaitMustBlock, BlockOnRead, Offer, Deliver,
     AnnounceWritten, BlockOnWrite, CheckPreemption, AnnounceRead, Complete, StopScheduler,
     portVars
<1>2. ASSUME NEW t \in Threads, ThreadStep(t) \/ SpuriousWakeUp(t)
      PROVE  UNCHANGED <<shutdown, client>>
  BY <1>2 DEF ThreadStep, GetThreadWork, WakeUp, SpuriousWakeUp, Work, Enter, Leave, portVars
<1> QED BY <1>1, <1>2 DEF RuntimeStep, Terminated, RequestShutdown, AllCompleted, Join, vars,
       portVars

\* Nor do the operators.
LEMMA CodeTells ==
  ASSUME NEW c \in Operators, CodeStep(c) \/ UNCHANGED vars
  PROVE  UNCHANGED <<shutdown, client>>
BY DEF CodeStep, CallWait, CallPush, CallPop, CallReturn, vars, portVars

\* What a sink writes next may follow what it has written.
LEMMA SinkFollows ==
  ASSUME TypeOK, ProgramInv, ForwardInv, NoFanIn, NEW k \in Operators, Consume(k),
         Role(k) = "FileSink"
  PROVE  /\ sunk[k] \in Seq(Tuples) /\ Front(Inputs[k][1]) \in Tuples
         /\ sunk' = [sunk EXCEPT ![k] = Append(@, Front(Inputs[k][1]))]
         /\ \E s \in Feeding(app, k) : \E n \in Passing(app, k, s) :
              /\ Front(Inputs[k][1]).ids = {<<s, n>>}
              /\ \A m \in Passing(app, k, s) :
                   m < n <=> \E i \in DOMAIN sunk[k] : <<s, m>> \in sunk[k][i].ids
<1> DEFINE h == Inputs[k][1]
<1>1. /\ Forwarding(app) /\ Followed /\ app \in DOMAIN Apps
      /\ InPortsOf(k) = {h} /\ h \in InPorts
  <2>1. Forwarding(app) /\ Followed /\ app \in DOMAIN Apps
    BY DEF ForwardInv, ProgramInv, ProgramTypes
  <2>2. InPortsOf(k) = {h}
    BY <2>1, ForwardFacts
  <2> QED BY <2>1, <2>2 DEF InPortsOf
<1>2. CallPop(k, h) /\ sunk' = [sunk EXCEPT ![k] = Append(@, Front(h))]
  BY DEF Consume
<1>3. Front(h) \in Tuples /\ sunk[k] \in Seq(Tuples) /\ queue[h] # <<>>
  BY <1>1, <1>2, FrontType DEF CallPop, ForwardInv
<1>4. PICK sent \in Histories, used \in Histories :
        QueuesOrdered(sent, used) /\ AllTraced(sent, used)
  BY <1>1, FollowedWith
<1>5. Inputs[k][1] = h
  OBVIOUS
<1> HIDE DEF h
<1>6. PICK s \in Operators, n \in Nat :
        /\ s \in Above(h) /\ Front(h).ids = {<<s, n>>}
        /\ NextIn(Carried(h), used[h], s, n)
  BY <1>1, <1>3, <1>4, HandFront
<1>7. s \in Feeding(app, k) /\ n \in Passing(app, k, s)
  BY <1>1, <1>6, Arrives DEF NextIn
<1>8. ASSUME NEW m \in Passing(app, k, s)
      PROVE  m < n <=> \E i \in DOMAIN sunk[k] : <<s, m>> \in sunk[k][i].ids
  <2>1. (\E i \in DOMAIN sunk[k] : <<s, m>> \in sunk[k][i].ids) <=> m <= used[h][s]
    BY <1>4, <1>5, <1>7 DEF AllTraced, Traced, Sinking
  <2>2. <<s, m>> \in Carried(h) /\ m \in Nat
    BY <1>1, <1>6, <1>7, Arrives DEF Passing
  <2>3. used[h][s] \in Nat /\ used[h][s] < n /\ (m < n => m <= used[h][s])
    BY <1>1, <1>6, <2>2 DEF NextIn, Histories, Counts
  <2>4. m < n <=> m <= used[h][s]
    BY <2>2, <2>3
  <2> QED BY <2>1, <2>4
<1> QED BY <1>2, <1>3, <1>5, <1>6, <1>7, <1>8

\* Without a write the contract sees nothing.
LEMMA SameContract ==
  ASSUME app' = app, sunk' = sunk
  PROVE  UNCHANGED <<Lines[app], Writings>>
BY DEF Writings, Lines, InRole, IdsOf

-----------------------------------------------------------------------------
(***************************************************************************)
(* Step by step, the contract is kept.                                     *)
(***************************************************************************)
\* The contract starts with nothing written.
LEMMA ContractStart ==
  ASSUME FlowInit
  PROVE  Contract!Init
<1>1. /\ app \in DOMAIN Apps /\ shutdown = FALSE /\ client = "waiting"
      /\ sunk = [o \in Operators |-> <<>>]
  BY DEF FlowInit, Init
<1>2. \A k \in InRole(app, "FileSink") : IdsOf(sunk[k]) = <<>>
  BY <1>1, NoIds DEF InRole
<1>3. Writings = [k \in DOMAIN Lines[app] |-> <<>>]
  BY <1>1, <1>2, LinesOf DEF Writings
<1> QED BY <1>1, <1>3 DEF Contract!Init, Contract!Sinks, Writings, IdsOf

\* A step that writes nothing and ends nothing.
LEMMA ContractQuiet ==
  ASSUME app' = app, sunk' = sunk, shutdown' = shutdown,
         client' = "returned" <=> client = "returned"
  PROVE  UNCHANGED Contract!vars
<1>1. (client = "returned")' = (client = "returned")
  OBVIOUS
<1> QED BY <1>1, SameContract DEF Contract!vars, Writings, IdsOf

\* A requested shutdown is one of the contract.
LEMMA ContractStop ==
  ASSUME app' = app, sunk' = sunk, RequestShutdown, client' = client
  PROVE  Contract!RequestStop
<1>1. (client = "returned")' = (client = "returned")
  OBVIOUS
<1> QED BY <1>1, SameContract DEF Contract!RequestStop, Writings, IdsOf, RequestShutdown

\* When wait returns everything is written, or a shutdown was requested.
LEMMA ContractFinish ==
  ASSUME Inv, NoFanIn, ForwardInv, ProgramInv, app' = app, sunk' = sunk, Join, shutdown' = shutdown
  PROVE  Contract!Finish
<1>1. client = "joining" /\ client' = "returned"
  BY DEF Join
<1>2. ASSUME ~shutdown, NEW k \in Contract!Sinks
      PROVE  Contract!AllWritten(k)
  <2>1. app \in DOMAIN Apps
    BY DEF ProgramInv, ProgramTypes
  <2>2. AllEnded
    <3>1. \A o \in Operators : pc[o] \in {"stop", "done"}
      BY <1>1 DEF Inv, Ending
    <3>2. \A o \in Operators : isComplete[o]
      BY <3>1 DEF Inv, Pushing
    <3>3. \A o \in Operators : loc[o] = "end"
      BY <3>2, EndsParts DEF ForwardInv
    <3> QED BY <1>2, <3>1, <3>3 DEF AllEnded
  <2>3. k \in InRole(app, "FileSink")
    BY <2>1, <1>2, LinesOf DEF Contract!Sinks
  <2>4. ASSUME NEW s \in Feeding(app, k)
        PROVE  {n \in Passing(app, k, s) : \E i \in DOMAIN Writings[k] : <<s, n>> \in Writings[k][i]}
                 = Passing(app, k, s)
    <3>1. Writings[k] = IdsOf(sunk[k])
      BY <2>3 DEF Writings
    <3>2. \A n \in Passing(app, k, s) : \E i \in DOMAIN sunk[k] : <<s, n>> \in sunk[k][i].ids
      BY <2>1, <2>2, <2>3, EverythingWritten
    <3> QED BY <3>1, <3>2 DEF IdsOf
  <2> QED BY <2>1, <2>3, <2>4, LinesOf
          DEF Contract!AllWritten, Contract!Numbers, Contract!Feeds, Writings, IdsOf
<1> QED BY <1>1, <1>2, SameContract DEF Contract!Finish, Writings, IdsOf

\* What a sink writes may follow what it has written.
LEMMA ContractWrite ==
  ASSUME Inv, NoFanIn, ForwardInv, ProgramInv, NEW k \in Operators, Consume(k),
         Role(k) = "FileSink", app' = app
  PROVE  Contract!Next
<1> DEFINE x == Front(Inputs[k][1])
<1>1. app \in DOMAIN Apps /\ k \in InRole(app, "FileSink") /\ TypeOK
  BY DEF ProgramInv, ProgramTypes, InRole, Role, Inv
<1>2. /\ sunk[k] \in Seq(Tuples) /\ x \in Tuples
      /\ sunk' = [sunk EXCEPT ![k] = Append(@, x)]
      /\ sunk \in [Operators -> Seq(Tuples)]
  <2>1. sunk \in [Operators -> Seq(Tuples)]
    BY DEF ForwardInv
  <2> QED BY <1>1, <2>1, SinkFollows
<1>3. PICK s \in Feeding(app, k) : \E n \in Passing(app, k, s) :
        /\ x.ids = {<<s, n>>}
        /\ \A m \in Passing(app, k, s) :
             m < n <=> \E i \in DOMAIN sunk[k] : <<s, m>> \in sunk[k][i].ids
  BY <1>1, SinkFollows
<1>4. PICK n \in Passing(app, k, s) :
        /\ x.ids = {<<s, n>>}
        /\ \A m \in Passing(app, k, s) :
             m < n <=> \E i \in DOMAIN sunk[k] : <<s, m>> \in sunk[k][i].ids
  BY <1>3
<1> HIDE DEF x
<1>5. Writings' = [Writings EXCEPT ![k] = Append(@, x.ids)]
  <2>1. /\ Writings' = [j \in InRole(app, "FileSink") |-> IdsOf(sunk'[j])]
    BY DEF Writings, InRole, IdsOf
  <2>2. IdsOf(sunk'[k]) = Append(IdsOf(sunk[k]), x.ids)
    BY <1>2, MoreIds
  <2>3. \A j \in InRole(app, "FileSink") : j # k => sunk'[j] = sunk[j]
    BY <1>2 DEF InRole
  <2> QED BY <1>1, <2>1, <2>2, <2>3 DEF Writings
<1>6. UNCHANGED <<shutdown, client>>
  BY DEF Consume, CallPop
<1>7. client # "returned"
  <2>1. pc[k] = "code"
    BY DEF Consume, Reached, At
  <2> QED BY <2>1 DEF Inv, Ending
<1>8. x.ids \in Contract!Entries(k)
  <2>1. Lines[app][k][s] = Passing(app, k, s) /\ s \in Contract!Feeds(k)
    BY <1>1, LinesOf DEF Contract!Feeds
  <2>2. <<s, n>> \in {s} \X Lines[app][k][s]
    BY <2>1
  <2>3. <<s, n>> \in UNION {{t} \X Lines[app][k][t] : t \in Contract!Feeds(k)}
    BY <2>1, <2>2
  <2>4. \A d, e \in {<<s, n>>} : d = e
    OBVIOUS
  <2> QED BY <1>4, <2>3, <2>4 DEF Contract!Entries
<1>9. Contract!MayFollow(k, s, n)
  <2>1. Lines[app][k][s] = Passing(app, k, s)
    BY <1>1, LinesOf
  <2>2. Writings[k] = IdsOf(sunk[k])
    BY <1>1 DEF Writings
  <2>3. \A m : (\E i \in DOMAIN IdsOf(sunk[k]) : <<s, m>> \in IdsOf(sunk[k])[i])
               <=> \E i \in DOMAIN sunk[k] : <<s, m>> \in sunk[k][i].ids
    BY DEF IdsOf
  <2>4. Contract!Numbers(k, s) = {m \in Passing(app, k, s) : m < n}
    BY <1>4, <2>1, <2>2, <2>3 DEF Contract!Numbers, Writings, IdsOf
  <2> QED BY <2>1, <2>4 DEF Contract!MayFollow
<1>10. \A e \in x.ids : Contract!MayFollow(k, e[1], e[2])
  BY <1>4, <1>9
<1>11. Contract!Write(k)
  <2>1. UNCHANGED <<Lines[app], shutdown, (client = "returned")>>
    BY <1>6
  <2> QED BY <1>5, <1>7, <1>8, <1>10, <2>1 DEF Contract!Write, Writings, IdsOf
<1>12. k \in Contract!Sinks
  BY <1>1, LinesOf DEF Contract!Sinks
<1> QED BY <1>11, <1>12 DEF Contract!Next

\* So each step is one of the contract, or none.
LEMMA ContractStep ==
  ASSUME EveryTuple, NoFanIn, Inv, ForwardInv, ProgramInv, [FlowNext]_allVars
  PROVE  [Contract!Next]_Contract!vars
<1>1. CASE (RuntimeStep \/ Terminated) /\ UNCHANGED progVars
  <2>1. app' = app /\ sunk' = sunk
    BY <1>1 DEF progVars
  <2> QED BY <1>1, <2>1, RuntimeTells, ContractStop, ContractFinish, ContractQuiet
          DEF Contract!Next
<1>2. CASE UNCHANGED app /\ \E c \in Operators : ProgramStep(c)
  <2>1. PICK c \in Operators : ProgramStep(c)
    BY <1>2
  <2>2. CASE Consume(c) /\ Role(c) = "FileSink"
    BY <1>2, <2>2, ContractWrite
  <2>3. CASE ~(Consume(c) /\ Role(c) = "FileSink")
    <3>1. sunk' = sunk
      BY <2>1, <2>3 DEF ProgramStep, Consume, Generate, Loop, Break, OpenFails, Return, Emit,
         Pop, PopInTurn, Scan, ScanPop, MergeWait, MergeFill, MergeSelect, MergePop, MergeAgain
    <3>2. UNCHANGED <<shutdown, client>>
      BY <2>1, ProgramCalls, CodeTells DEF Inv
    <3> QED BY <1>2, <3>1, <3>2, ContractQuiet
  <2> QED BY <2>2, <2>3
<1>3. CASE UNCHANGED allVars
  <2>1. UNCHANGED <<app, sunk, shutdown, client>>
    BY <1>3 DEF allVars, vars, progVars, portVars
  <2> QED BY <2>1, ContractQuiet
<1> QED BY <1>1, <1>2, <1>3 DEF FlowNext

\* A flow of sources, filters, unions and operators that pass everything on keeps
\* its contract, for any number of operators, threads and tuples, whenever and
\* wherever it is preempted, blocked on full queues or shut down: each sink writes
\* the tuples of each source in order, none twice and none left out but by a
\* shutdown, and FlowRunner::wait returns only when all of them are written.
THEOREM ForwardersKeepTheContract ==
  ASSUME EveryTuple, NoFanIn
  PROVE  FlowSpec /\ Forwarding(app) => KeepsContract
<1>1. ConnectedOnce
  BY DEF NoFanIn, ConnectedOnce, Once
<1>2. FlowSpec => [](Inv /\ Reservations /\ ProgramInv)
  BY <1>1, ApplicationsAreRuns, Invariance, ReservationsAreKept, FlowTypes, PTL
<1>3. FlowInit /\ Forwarding(app) => ForwardInv
  BY ForwardStart
<1>4. Inv /\ Reservations /\ ProgramInv /\ ForwardInv /\ [FlowNext]_allVars => ForwardInv'
  BY ForwardNext DEF Inv, Reservations, NoRepetition
<1>5. FlowInit => Contract!Init
  BY ContractStart
<1>6. Inv /\ ProgramInv /\ ForwardInv /\ [FlowNext]_allVars => [Contract!Next]_Contract!vars
  BY ContractStep
<1> QED BY <1>2, <1>3, <1>4, <1>5, <1>6, PTL DEF FlowSpec, KeepsContract, Contract!Behaviour
=============================================================================
