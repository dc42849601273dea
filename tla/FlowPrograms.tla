---------------------------- MODULE FlowPrograms ----------------------------
(***************************************************************************)
(* The operators that come with the system, as programs over the calls of  *)
(* StreamRuntime: each step of a program is the code between two runtime   *)
(* calls and the call it makes next.  A tuple is the set of generated      *)
(* tuples it carries attributes of, and the seqNo attribute Split adds.    *)
(***************************************************************************)
EXTENDS StreamRuntime

CONSTANTS
  Inputs,       \* Inputs[o]: the input ports of o in order
  Outputs,      \* Outputs[o]: the output ports of o in order
  Apps          \* Apps[a]: an application with these connections, a record of
                \*   role: what each operator is, one of Roles
                \*   supply: how many tuples each source has (count_, or lines)
                \*   hash: hash[n] is where Split's function sends tuple n of a source
                \*   keep: the tuples, as <<source, number>>, that Filter's predicate
                \*     holds of, or that the draws of Selective let through
                \*   malformed: the lines, as <<source, number>>, that lack a column
                \*   broken: the FileSources and FileSinks that cannot open their file

\* "Pass" is Busy, Timestamper and ResultCollector, which forward every tuple;
\* "Filter" is Selective too, whose draws the n-th tuple of a run meets in turn.
Sources == {"FileSource", "TupleGenerator"}
Roles == Sources \cup {"FileSink", "Pass", "Filter", "Split", "RoundRobinSplit",
                       "RoundRobinMerge", "Merge", "Union", "Barrier"}

ASSUME ProgramAssumption ==
  /\ Inputs \in [Operators -> Seq(InPorts)]
  /\ Outputs \in [Operators -> Seq(OutPorts)]
  /\ \A o \in Operators :
       /\ Once(Inputs[o]) /\ {Inputs[o][i] : i \in DOMAIN Inputs[o]} = InPortsOf(o)
       /\ {Outputs[o][i] : i \in DOMAIN Outputs[o]} \subseteq OutPortsOf(o)
  /\ MaxWait # 0
  /\ \A a \in DOMAIN Apps :
       LET x == Apps[a]
           files == {o \in Operators : x.role[o] \in {"FileSource", "FileSink"}}
       IN /\ x.role \in [Operators -> Roles]
          /\ \A o \in Operators :
               /\ x.role[o] \notin Sources => Inputs[o] # <<>>
               /\ x.role[o] # "FileSink" => Outputs[o] # <<>>
          /\ x.supply \in [Operators -> Nat]
          /\ \A o \in Operators, n \in DOMAIN x.hash :
               x.role[o] = "Split" => x.hash[n] \in DOMAIN Outputs[o]
          /\ x.malformed \subseteq files \X Nat
          /\ x.broken \subseteq files

VARIABLES
  app,      \* which of the applications runs
  loc,      \* where in process() an operator is when it has control
  port,     \* the port number its loop is at: iPortNo, oPortNo, i, previousPortNo
  counter,  \* loop counter of a source, seqNo of Split
  heap,     \* the priority queue of Merge, as the port numbers in it
  sunk      \* the tuples a FileSink has written, in order

progVars == <<app, loc, port, counter, heap, sunk>>
allVars == <<vars, progVars>>

Role(o) == Apps[app].role[o]
Supply(o) == Apps[app].supply[o]

NumIn(o) == Len(Inputs[o])
NumOut(o) == Len(Outputs[o])
Front(p) == Head(queue[p])
Plain(ids) == [ids |-> ids, seqNo |-> 0]
\* A source numbers its tuples in order; a FileSource may read a seqNo column.
Line(o, n) == [ids |-> {<<o, n>>}, seqNo |-> n]
Single(p) == [spec |-> [x \in {p} |-> 1], kind |-> "Conjunctive"]
OnEveryPort(o, kind) ==
  [spec |-> [p \in {Inputs[o][i] : i \in 1..NumIn(o)} |-> 1], kind |-> kind]

\* An operator in one of the roles r has control, at l in its process().
Reached(o, r, l) == Role(o) \in r /\ loc[o] = l /\ At(o, "code")
Go(o, l) == loc' = [loc EXCEPT ![o] = l]
\* Ports are numbered from 1: (n + 1) % count becomes n % count + 1.
NextPort(o, count) == port' = [port EXCEPT ![o] = (@ % count) + 1]

\* process() returns.
Return(o) == CallReturn(o) /\ Go(o, "end") /\ UNCHANGED <<port, counter, heap, sunk>>

-----------------------------------------------------------------------------
\* Mutant of SourceEnds: the last line is taken for the end of the file.
LastLineLost(o) == counter[o] + 1 >= Supply(o) \/ (Role(o) = "FileSource" /\ shutdown)

\* TupleGenerator pushes its count_ tuples whatever happens; FileSource looks
\* at the shutdown flag before each line, and skips a malformed one.
SourceEnds(o) == counter[o] = Supply(o) \/ (Role(o) = "FileSource" /\ shutdown)

Generate(o) ==
  /\ Reached(o, Sources, "loop")
  /\ \/ SourceEnds(o) /\ Return(o)
     \/ /\ ~SourceEnds(o)
        /\ IF <<o, counter[o] + 1>> \in Apps[app].malformed
           THEN UNCHANGED vars
           ELSE CallPush(o, Outputs[o][1], Line(o, counter[o] + 1))
        /\ counter' = [counter EXCEPT ![o] = @ + 1]
        /\ UNCHANGED <<loc, port, heap, sunk>>

\* The head of the loops: while (!isShutdownRequested()) { wait ... }.
Looping == Roles \ (Sources \cup {"Merge"})

\* Mutant of LoopWait: Union waits for all its ports instead of any of them.
UnionWaitsForAll(o) ==
  IF Role(o) \in {"Barrier", "Union"} THEN OnEveryPort(o, "Conjunctive")
                                      ELSE Single(Inputs[o][port[o]])

\* Mutant of LoopWait: Barrier waits for any of its ports instead of all.
BarrierWaitsForAny(o) ==
  IF Role(o) \in {"Barrier", "Union"} THEN OnEveryPort(o, "Disjunctive")
                                      ELSE Single(Inputs[o][port[o]])

LoopWait(o) ==
  CASE Role(o) = "Barrier" -> OnEveryPort(o, "Conjunctive")
    [] Role(o) = "Union" -> OnEveryPort(o, "Disjunctive")
    [] Role(o) = "RoundRobinMerge" -> Single(Inputs[o][port[o]])
    [] OTHER -> Single(Inputs[o][1])

Loop(o) ==
  /\ Reached(o, Looping, "loop")
  /\ \/ shutdown /\ Return(o)
     \/ /\ ~shutdown
        /\ CallWait(o, LoopWait(o)) /\ Go(o, "waited")
        /\ UNCHANGED <<port, counter, heap, sunk>>

\* Mutant of Break: the loop goes on although its ports are closed.
NoBreak(o) ==
  /\ Reached(o, Looping, "waited") /\ closedResult[o]
  /\ Go(o, "loop") /\ UNCHANGED <<vars, port, counter, heap, sunk>>

Break(o) == Reached(o, Looping, "waited") /\ closedResult[o] /\ Return(o)

Drops(o) == Role(o) = "Filter" /\ ~(Front(Inputs[o][1]).ids \subseteq Apps[app].keep)

\* A sink, or a filter that drops the tuple, pops without pushing.
Consume(o) ==
  /\ Reached(o, {"FileSink", "Filter"}, "waited") /\ ~closedResult[o]
  /\ Role(o) = "FileSink" \/ Drops(o)
  /\ sunk' = IF Role(o) = "FileSink"
             THEN [sunk EXCEPT ![o] = Append(@, Front(Inputs[o][1]))] ELSE sunk
  /\ CallPop(o, Inputs[o][1]) /\ Go(o, "loop")
  /\ UNCHANGED <<port, counter, heap>>

HashOf(x) ==
  LET hash == Apps[app].hash
  IN hash[CHOOSE n \in DOMAIN hash : \E s \in Operators : <<s, n>> \in x.ids]

\* What one turn of the loop pushes, and where.
Emission(o) ==
  LET front == Front(Inputs[o][1])
  IN CASE Role(o) \in {"Pass", "Filter"} -> <<Outputs[o][1], front>>
       [] Role(o) = "RoundRobinSplit" -> <<Outputs[o][port[o]], front>>
       [] Role(o) = "Split" ->
            <<Outputs[o][HashOf(front)], [front EXCEPT !.seqNo = counter[o]]>>
       [] Role(o) = "RoundRobinMerge" -> <<Outputs[o][1], Front(Inputs[o][port[o]])>>
       [] Role(o) = "Barrier" ->
            <<Outputs[o][1], Plain(UNION {Front(Inputs[o][i]).ids : i \in 1..NumIn(o)})>>

Emit(o) ==
  /\ Reached(o, Looping \ {"FileSink", "Union"}, "waited") /\ ~closedResult[o]
  /\ ~Drops(o)
  /\ LET e == Emission(o) IN CallPush(o, e[1], e[2])
  /\ counter' = IF Role(o) = "Split" THEN [counter EXCEPT ![o] = @ + 1] ELSE counter
  /\ Go(o, "pop")
  /\ UNCHANGED <<port, heap, sunk>>

Pop(o) ==
  /\ Reached(o, {"Pass", "Filter", "Split", "RoundRobinSplit"}, "pop")
  /\ CallPop(o, Inputs[o][1]) /\ Go(o, "loop")
  /\ IF Role(o) = "RoundRobinSplit" THEN NextPort(o, NumOut(o)) ELSE UNCHANGED port
  /\ UNCHANGED <<counter, heap, sunk>>

\* RoundRobinMerge pops the port it read, Barrier one port after another.
PopInTurn(o) ==
  /\ Reached(o, {"RoundRobinMerge", "Barrier"}, "pop")
  /\ CallPop(o, Inputs[o][port[o]])
  /\ NextPort(o, NumIn(o))
  /\ Go(o, IF Role(o) = "Barrier" /\ port[o] < NumIn(o) THEN "pop" ELSE "loop")
  /\ UNCHANGED <<counter, heap, sunk>>

\* Union forwards one tuple from each port that has one when its turn comes.
Scan(o) ==
  /\ Reached(o, {"Union"}, "waited") /\ ~closedResult[o]
  /\ LET p == Inputs[o][port[o]]
     IN \/ /\ queue[p] # <<>>
           /\ CallPush(o, Outputs[o][1], Front(p)) /\ Go(o, "pop")
           /\ UNCHANGED port
        \/ /\ queue[p] = <<>>
           /\ Go(o, IF port[o] < NumIn(o) THEN "waited" ELSE "loop")
           /\ NextPort(o, NumIn(o))
           /\ UNCHANGED vars
  /\ UNCHANGED <<counter, heap, sunk>>

ScanPop(o) ==
  /\ Reached(o, {"Union"}, "pop")
  /\ CallPop(o, Inputs[o][port[o]])
  /\ NextPort(o, NumIn(o))
  /\ Go(o, IF port[o] < NumIn(o) THEN "waited" ELSE "loop")
  /\ UNCHANGED <<counter, heap, sunk>>

-----------------------------------------------------------------------------
(***************************************************************************)
(* Merge: one tuple of each port in a priority queue, the next one always  *)
(* from the port popped last.                                              *)
(***************************************************************************)
MergeWait(o) ==
  /\ Reached(o, {"Merge"}, "loop")
  /\ CallWait(o, Single(Inputs[o][port[o]])) /\ Go(o, "waited")
  /\ UNCHANGED <<port, counter, heap, sunk>>

\* Mutant of MergeFill: a refused wait counts as one that found a tuple.
MergeFillAll(o) ==
  /\ Reached(o, {"Merge"}, "waited")
  /\ heap' = [heap EXCEPT ![o] = @ \cup {port[o]}]
  /\ counter' = [counter EXCEPT ![o] = IF @ < NumIn(o) THEN @ + 1 ELSE @]
  /\ IF counter'[o] < NumIn(o) THEN NextPort(o, NumIn(o)) /\ Go(o, "loop")
                               ELSE Go(o, "select") /\ UNCHANGED port
  /\ UNCHANGED <<vars, sunk>>

\* The result of the wait; the ports but the last are only primed.
MergeFill(o) ==
  /\ Reached(o, {"Merge"}, "waited")
  /\ heap' = IF closedResult[o] THEN heap ELSE [heap EXCEPT ![o] = @ \cup {port[o]}]
  /\ counter' = [counter EXCEPT ![o] = IF @ < NumIn(o) THEN @ + 1 ELSE @]
  /\ IF counter'[o] < NumIn(o) THEN NextPort(o, NumIn(o)) /\ Go(o, "loop")
                               ELSE Go(o, "select") /\ UNCHANGED port
  /\ UNCHANGED <<vars, sunk>>

\* Mutant of MergeBefore: a priority queue without greater<> has the largest on top.
MergeAfter(o, i, j) ==
  Front(Inputs[o][i]).seqNo >= Front(Inputs[o][j]).seqNo

MergeBefore(o, i, j) ==
  LET s(k) == Front(Inputs[o][k]).seqNo
  IN s(i) < s(j) \/ (s(i) = s(j) /\ i <= j)

MergeSelect(o) ==
  /\ Reached(o, {"Merge"}, "select")
  /\ \/ heap[o] = {} /\ Return(o)
     \/ \E i \in heap[o] :
          /\ \A j \in heap[o] : MergeBefore(o, i, j)
          /\ CallPush(o, Outputs[o][1], [Front(Inputs[o][i]) EXCEPT !.seqNo = 0])
          /\ port' = [port EXCEPT ![o] = i]
          /\ Go(o, "pop")
          /\ UNCHANGED <<counter, heap, sunk>>

MergePop(o) ==
  /\ Reached(o, {"Merge"}, "pop")
  /\ CallPop(o, Inputs[o][port[o]])
  /\ heap' = [heap EXCEPT ![o] = @ \ {port[o]}]
  /\ Go(o, "again")
  /\ UNCHANGED <<port, counter, sunk>>

\* do { ... } while (!isShutdownRequested())
MergeAgain(o) ==
  /\ Reached(o, {"Merge"}, "again")
  /\ \/ shutdown /\ Return(o)
     \/ ~shutdown /\ Go(o, "loop") /\ UNCHANGED <<vars, port, counter, heap, sunk>>

-----------------------------------------------------------------------------
\* A file operator that cannot open its file returns at once.
OpenFails(o) == loc[o] = "open" /\ Return(o)

ProgramStep(o) ==
  \/ Generate(o) \/ Loop(o) \/ Break(o) \/ Consume(o) \/ Emit(o) \/ Pop(o) \/ PopInTurn(o)
  \/ Scan(o) \/ ScanPop(o)
  \/ MergeWait(o) \/ MergeFill(o) \/ MergeSelect(o) \/ MergePop(o) \/ MergeAgain(o)
  \/ OpenFails(o)

FlowInit ==
  /\ Init
  /\ app \in DOMAIN Apps
  /\ loc = [o \in Operators |-> IF o \in Apps[app].broken THEN "open" ELSE "loop"]
  /\ port = [o \in Operators |-> 1]
  /\ counter = [o \in Operators |-> 0]
  /\ heap = [o \in Operators |-> {}]
  /\ sunk = [o \in Operators |-> <<>>]

FlowNext ==
  \/ (RuntimeStep \/ Terminated) /\ UNCHANGED progVars
  \/ UNCHANGED app /\ \E o \in Operators : ProgramStep(o)

\* What a worker thread does next: its own step, or the coroutine's it is in.
ThreadMoves(t) ==
  \/ ThreadStep(t) /\ UNCHANGED progVars
  \/ /\ threadPc[t] = "inside"
     /\ \/ CallStep(current[t]) /\ UNCHANGED progVars
        \/ ProgramStep(current[t]) /\ UNCHANGED app

\* The operating system runs every thread that can run.  Nobody has to request
\* a shutdown, and condition variables need not wake up spuriously.
Fairness ==
  /\ \A t \in Threads : WF_allVars(ThreadMoves(t))
  /\ WF_allVars((AllCompleted \/ Join) /\ UNCHANGED progVars)

FlowSpec == FlowInit /\ [][FlowNext]_allVars
FairFlowSpec == FlowSpec /\ Fairness

-----------------------------------------------------------------------------
(***************************************************************************)
(* Correctness.                                                            *)
(***************************************************************************)

\* The operators with a path to o, and o itself: the least set that has o and,
\* with an operator, those upstream of it.
Upstream(o) ==
  {u \in Operators : \A S \in SUBSET Operators :
     o \in S /\ (\A v \in S : UpstreamOperators(v) \subseteq S) => u \in S}

InRole(a, r) == {o \in Operators : Apps[a].role[o] = r}

\* The sources of application a that have a path to o, and those that have a path
\* to a filter upstream of o.
Feeding(a, o) == {s \in Upstream(o) \ Apps[a].broken : Apps[a].role[s] \in Sources}
Filtered(a, o) == UNION {Upstream(f) : f \in InRole(a, "Filter") \cap Upstream(o)}

\* The tuples of source s that o is to forward, or to write.
Passing(a, o, s) ==
  {n \in 1..Apps[a].supply[s] :
     /\ <<s, n>> \notin Apps[a].malformed
     /\ s \in Filtered(a, o) => <<s, n>> \in Apps[a].keep}

\* The tuples of each source that are to reach each sink.
Lines ==
  [a \in DOMAIN Apps |->
     [k \in InRole(a, "FileSink") |-> [s \in Feeding(a, k) |-> Passing(a, k, s)]]]

Contract ==
  INSTANCE FlowContract WITH
    lines <- Lines[app],
    written <- [k \in InRole(app, "FileSink") |-> [i \in DOMAIN sunk[k] |-> sunk[k][i].ids]],
    stopping <- shutdown,
    over <- client = "returned"

\* A flow keeps its contract: through any interleaving of operators, blocked
\* pushes, preemptions and shutdown every sink gets the tuples of each source in
\* order and once; and wait does not return before all of them are written.
KeepsContract == Contract!Behaviour

\* The flow ends and wait returns, although nobody requests a shutdown: no wake-up
\* is lost and nobody waits for somebody who waits.
FlowEnds == Contract!Ends

\* A flow whose shutdown is requested ends, as FlowRunner::requestShutdown
\* promises, whatever its operators are blocked on at that time.
ShutdownCompletes == shutdown ~> client = "returned"

\* An operator that has to wait gives its thread back: it does not go round the
\* loop of waitOnAllPorts for as long as the tuples it waits for are missing.
WaitingFreesThread ==
  \A o \in Operators :
    pc[o] = "readBlock" ~> ~Executing(o) \/ pc[o] \notin {"waitCheck", "readBlock"}

-----------------------------------------------------------------------------
(***************************************************************************)
(* What the operators take for granted between two calls, and the          *)
(* invariant that FlowPrograms_proofs shows to be inductive.               *)
(***************************************************************************)
MidWait == {"waitCheck", "readBlock", "readYield"}

\* The last wait of o has returned, and not because of closed ports.
Told(o) == loc[o] = "waited" /\ pc[o] \notin MidWait /\ ~closedResult[o]

\* By number, the input ports whose front tuple o will look at without asking ...
LooksAt(o) ==
  CASE Role(o) = "Barrier" -> 1..NumIn(o)
    [] Role(o) = "Union" -> {}
    [] Role(o) \in {"Merge", "RoundRobinMerge"} -> {port[o]}
    [] OTHER -> {1}

\* ... and those it will pop in the rest of the turn.
StillPops(o) ==
  CASE Role(o) = "Barrier" -> port[o]..NumIn(o)
    [] Role(o) \in {"Merge", "RoundRobinMerge", "Union"} -> {port[o]}
    [] OTHER -> {1}

Fronts(o) ==
  (IF Role(o) = "Merge" THEN heap[o] ELSE {}) \cup
  (CASE Told(o) -> LooksAt(o)
     [] loc[o] = "pop" -> StillPops(o)
     [] OTHER -> {})

\* No operator of the library looks at, or pops, the front of an empty queue,
\* at which getFrontTuple throws where nobody catches and pop_front is undefined:
\* what its wait has found is still there after preemption, blocked pushes and
\* retries, and after the ports it served before it (Barrier, Merge).
FrontsExist == \A o \in Operators : \A i \in Fronts(o) : queue[Inputs[o][i]] # <<>>

Places == {"open", "loop", "waited", "pop", "select", "again", "end"}

\* The local variables stay in their ranges, at the places of each role.
ProgramTypes ==
  /\ app \in DOMAIN Apps
  /\ loc \in [Operators -> Places]
  /\ port \in [Operators -> Nat]
  /\ counter \in [Operators -> Nat]
  /\ heap \in [Operators -> SUBSET Nat]

Locals(o) ==
  /\ Role(o) \in Sources => loc[o] \in {"open", "loop", "end"}
  /\ Role(o) = "RoundRobinSplit" => port[o] \in 1..NumOut(o)
  /\ Role(o) \in {"Merge", "RoundRobinMerge", "Union", "Barrier"} => port[o] \in 1..NumIn(o)
  /\ Role(o) = "Barrier" /\ loc[o] \in {"loop", "waited"} => port[o] = 1
  /\ heap[o] \subseteq 1..NumIn(o)

\* An operator in a wait waits for what its loop asks for.
WaitOf(o) == IF Role(o) = "Merge" THEN Single(Inputs[o][port[o]]) ELSE LoopWait(o)
InWait(o) ==
  loc[o] = "waited" /\ Role(o) # "Union" =>
    \/ pc[o] \in MidWait /\ wait[o] = WaitOf(o)
    \/ pc[o] \in {"preempt", "preemptYield", "code"}

ProgramInv ==
  /\ ProgramTypes
  /\ \A o \in Operators : Locals(o) /\ InWait(o)
  /\ FrontsExist
=============================================================================
