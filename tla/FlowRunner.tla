----------------------------- MODULE FlowRunner -----------------------------
(***************************************************************************)
(* The clients of the runtime: application threads that call run, wait and *)
(* requestShutdown of the one FlowRunner, and flows that are run again     *)
(* after they have ended.  A flow is seen from here as its FileSource and  *)
(* its FileSink with their positions and state stores; StreamRuntime has   *)
(* what happens between the two.                                           *)
(***************************************************************************)
EXTENDS Naturals, Sequences

CONSTANTS
  Clients,      \* the application threads
  Flows,
  RunBy,        \* RunBy[f]: the client that runs f and waits for it
  Length,       \* Length[f]: the number of lines in the input file of f
  Endless,      \* the flows whose source produces until shutdown
  MaxRuns,      \* bound: how often a flow is run
  NoClient

ASSUME RunnerAssumption ==
  /\ RunBy \in [Flows -> Clients]
  /\ Length \in [Flows -> Nat]
  /\ Endless \subseteq Flows
  /\ MaxRuns \in Nat
  /\ NoClient \notin Clients

VARIABLES
  mutex,        \* the client that holds FlowRunnerImpl::mutex_
  call,         \* call[c]: what c is calling, and for which flow
  context,      \* context[f]: flowContexts_[&f] and how far its run is
  shutdown,     \* isShutdownRequested_ of the context of f
  runs,         \* how often f was run
  source, sink, \* where the operators of f are
  sourceStore, sinkStore, \* their state stores: the saved position
  sourcePos, sinkPos,     \* their filePos_, which outlive a run
  queued,       \* lines read and not yet written
  output        \* the lines in the output file, by number

clientVars == <<mutex, call>>
posVars == <<sourcePos, sinkPos, queued, output>>
flowVars == <<source, sink, sourceStore, sinkStore, posVars>>
vars == <<clientVars, context, shutdown, runs, flowVars>>

Idle == [op |-> "none"]
Ops == {"run", "wait", "requestShutdown"}

\* "none": never run; "ended": every operator has completed; "joined": its
\* threads have been joined.
ContextStates == {"none", "running", "ended", "joined"}
\* "loop": before the test of shutdown; "body": past it.
OperatorPlaces == {"idle", "initState", "loop", "body", "done"}

-----------------------------------------------------------------------------
(***************************************************************************)
(* The calls.  Every one of them holds the runner's mutex from its first   *)
(* statement to its return, wait included.                                 *)
(***************************************************************************)

\* The client of a flow runs it, waits, and may run it again; every client may
\* request its shutdown once it has been run.  (To run a flow whose threads are
\* not joined, to join them twice, or to name a flow that was never run ends the
\* program.)  A bound: nobody requests a shutdown that is already requested.
MayCall(c, op, f) ==
  CASE op = "run" -> c = RunBy[f] /\ context[f] \in {"none", "joined"} /\ runs[f] < MaxRuns
    [] op = "wait" -> c = RunBy[f] /\ context[f] \in {"running", "ended"}
    [] op = "requestShutdown" -> context[f] # "none" /\ ~shutdown[f]

Call(c, op, f) ==
  /\ call[c] = Idle
  /\ MayCall(c, op, f)
  /\ call' = [call EXCEPT ![c] = [op |-> op, flow |-> f]]
  /\ UNCHANGED <<mutex, context, shutdown, runs, flowVars>>

Calling(c, op) == call[c] # Idle /\ call[c].op = op

Lock(c) ==
  /\ mutex = NoClient /\ call[c] # Idle
  /\ mutex' = c
  /\ UNCHANGED <<call, context, shutdown, runs, flowVars>>

Return(c) == mutex' = NoClient /\ call' = [call EXCEPT ![c] = Idle]

\* Mutant of Run: the state stores survive in the new context.
RunKeepingStores(c) ==
  LET f == call[c].flow
  IN /\ mutex = c /\ Calling(c, "run")
     /\ context' = [context EXCEPT ![f] = "running"]
     /\ shutdown' = [shutdown EXCEPT ![f] = FALSE]
     /\ runs' = [runs EXCEPT ![f] = @ + 1]
     /\ source' = [source EXCEPT ![f] = "initState"]
     /\ sink' = [sink EXCEPT ![f] = "initState"]
     /\ queued' = [queued EXCEPT ![f] = <<>>]
     /\ Return(c)
     /\ UNCHANGED <<sourceStore, sinkStore, sourcePos, sinkPos, output>>

\* A new context, with new operator contexts: queues and state stores are empty.
Run(c) ==
  LET f == call[c].flow
  IN /\ mutex = c /\ Calling(c, "run")
     /\ context' = [context EXCEPT ![f] = "running"]
     /\ shutdown' = [shutdown EXCEPT ![f] = FALSE]
     /\ runs' = [runs EXCEPT ![f] = @ + 1]
     /\ source' = [source EXCEPT ![f] = "initState"]
     /\ sink' = [sink EXCEPT ![f] = "initState"]
     /\ sourceStore' = [sourceStore EXCEPT ![f] = 0]
     /\ sinkStore' = [sinkStore EXCEPT ![f] = 0]
     /\ queued' = [queued EXCEPT ![f] = <<>>]
     /\ Return(c)
     /\ UNCHANGED <<sourcePos, sinkPos, output>>

\* Mutant of Wait: the threads are joined without waiting for the operators.
WaitForNothing(c) ==
  LET f == call[c].flow
  IN /\ mutex = c /\ Calling(c, "wait")
     /\ context' = [context EXCEPT ![f] = "joined"]
     /\ Return(c)
     /\ UNCHANGED <<shutdown, runs, flowVars>>

\* FlowContext::wait gives up its own mutex while it waits, not the runner's.
Wait(c) ==
  LET f == call[c].flow
  IN /\ mutex = c /\ Calling(c, "wait")
     /\ context[f] = "ended"
     /\ context' = [context EXCEPT ![f] = "joined"]
     /\ Return(c)
     /\ UNCHANGED <<shutdown, runs, flowVars>>

RequestShutdown(c) ==
  /\ mutex = c /\ Calling(c, "requestShutdown")
  /\ shutdown' = [shutdown EXCEPT ![call[c].flow] = TRUE]
  /\ Return(c)
  /\ UNCHANGED <<context, runs, flowVars>>

-----------------------------------------------------------------------------
(***************************************************************************)
(* A run of a flow: initState, process and saveState of its FileSource and *)
(* of its FileSink.                                                        *)
(***************************************************************************)
EndIfDone(f) ==
  context' = IF source'[f] = "done" /\ sink'[f] = "done"
             THEN [context EXCEPT ![f] = "ended"] ELSE context

\* initState takes the position from the state store; process opens the file
\* and goes there.
OpenSource(f) ==
  /\ source[f] = "initState"
  /\ source' = [source EXCEPT ![f] = "loop"]
  /\ sourcePos' = [sourcePos EXCEPT ![f] = sourceStore[f]]
  /\ UNCHANGED <<clientVars, context, shutdown, runs, sink, sourceStore, sinkStore,
                 sinkPos, queued, output>>

\* The test of the while loops of both.
Loop(f) ==
  /\ ~shutdown[f]
  /\ \/ /\ source[f] = "loop"
        /\ source' = [source EXCEPT ![f] = "body"]
        /\ UNCHANGED sink
     \/ /\ sink[f] = "loop"
        /\ sink' = [sink EXCEPT ![f] = "body"]
        /\ UNCHANGED source
  /\ UNCHANGED <<clientVars, context, shutdown, runs, sourceStore, sinkStore, posVars>>

\* Mutant of Read: it notices the end of the file one line too late.
ReadPastEnd(f) ==
  /\ source[f] = "body" /\ f \notin Endless /\ sourcePos[f] <= Length[f]
  /\ source' = [source EXCEPT ![f] = "loop"]
  /\ queued' = [queued EXCEPT ![f] = Append(@, sourcePos[f] + 1)]
  /\ sourcePos' = [sourcePos EXCEPT ![f] = @ + 1]
  /\ UNCHANGED <<clientVars, context, shutdown, runs, sink, sourceStore, sinkStore,
                 sinkPos, output>>

\* A line is read and pushed.  Of an endless source only the loop is of interest.
Read(f) ==
  /\ source[f] = "body" /\ (f \notin Endless => sourcePos[f] < Length[f])
  /\ source' = [source EXCEPT ![f] = "loop"]
  /\ queued' = IF f \in Endless THEN queued
               ELSE [queued EXCEPT ![f] = Append(@, sourcePos[f] + 1)]
  /\ sourcePos' = IF f \in Endless THEN sourcePos ELSE [sourcePos EXCEPT ![f] = @ + 1]
  /\ UNCHANGED <<clientVars, context, shutdown, runs, sink, sourceStore, sinkStore,
                 sinkPos, output>>

\* The loop ends at the end of the file or with a shutdown; saveState follows.
EndSource(f) ==
  /\ \/ source[f] = "loop" /\ shutdown[f]
     \/ source[f] = "body" /\ f \notin Endless /\ sourcePos[f] = Length[f]
  /\ source' = [source EXCEPT ![f] = "done"]
  /\ sourceStore' = [sourceStore EXCEPT ![f] = sourcePos[f]]
  /\ UNCHANGED sink
  /\ EndIfDone(f)
  /\ UNCHANGED <<clientVars, shutdown, runs, sinkStore, posVars>>

\* At position 0 the file is opened without ios::app, which empties it.
OpenSink(f) ==
  /\ sink[f] = "initState"
  /\ sink' = [sink EXCEPT ![f] = "loop"]
  /\ sinkPos' = [sinkPos EXCEPT ![f] = sinkStore[f]]
  /\ output' = [output EXCEPT ![f] = IF sinkStore[f] > 0 THEN @ ELSE <<>>]
  /\ UNCHANGED <<clientVars, context, shutdown, runs, source, sourceStore, sinkStore,
                 sourcePos, queued>>

Write(f) ==
  /\ sink[f] = "body" /\ queued[f] # <<>>
  /\ sink' = [sink EXCEPT ![f] = "loop"]
  /\ output' = [output EXCEPT ![f] = Append(@, Head(queued[f]))]
  /\ queued' = [queued EXCEPT ![f] = Tail(@)]
  /\ sinkPos' = [sinkPos EXCEPT ![f] = Len(output'[f])]
  /\ UNCHANGED <<clientVars, context, shutdown, runs, source, sourceStore, sinkStore, sourcePos>>

\* Mutant of EndSink: only a shutdown ends the loop.
EndSinkOnShutdown(f) ==
  /\ sink[f] = "loop" /\ shutdown[f]
  /\ sink' = [sink EXCEPT ![f] = "done"]
  /\ sinkStore' = [sinkStore EXCEPT ![f] = sinkPos[f]]
  /\ UNCHANGED source
  /\ EndIfDone(f)
  /\ UNCHANGED <<clientVars, shutdown, runs, sourceStore, posVars>>

\* The loop ends with a shutdown, which leaves what is queued, or when the
\* port is closed and empty.
EndSink(f) ==
  /\ \/ sink[f] = "loop" /\ shutdown[f]
     \/ sink[f] = "body" /\ source[f] = "done" /\ queued[f] = <<>>
  /\ sink' = [sink EXCEPT ![f] = "done"]
  /\ sinkStore' = [sinkStore EXCEPT ![f] = sinkPos[f]]
  /\ UNCHANGED source
  /\ EndIfDone(f)
  /\ UNCHANGED <<clientVars, shutdown, runs, sourceStore, posVars>>

FlowStep(f) ==
  \/ OpenSource(f) \/ Read(f) \/ EndSource(f)
  \/ OpenSink(f) \/ Write(f) \/ EndSink(f)
  \/ Loop(f)

ClientStep(c) == Lock(c) \/ Run(c) \/ Wait(c) \/ RequestShutdown(c)

-----------------------------------------------------------------------------
Init ==
  /\ mutex = NoClient
  /\ call = [c \in Clients |-> Idle]
  /\ context = [f \in Flows |-> "none"]
  /\ shutdown = [f \in Flows |-> FALSE]
  /\ runs = [f \in Flows |-> 0]
  /\ source = [f \in Flows |-> "idle"]
  /\ sink = [f \in Flows |-> "idle"]
  /\ sourceStore = [f \in Flows |-> 0]
  /\ sinkStore = [f \in Flows |-> 0]
  /\ sourcePos = [f \in Flows |-> 0]
  /\ sinkPos = [f \in Flows |-> 0]
  /\ queued = [f \in Flows |-> <<>>]
  /\ output = [f \in Flows |-> <<>>]

Next ==
  \/ \E c \in Clients, op \in Ops, f \in Flows : Call(c, op, f)
  \/ \E c \in Clients : ClientStep(c)
  \/ \E f \in Flows : FlowStep(f)

Spec == Init /\ [][Next]_vars

\* Threads that can run do; no client has to make another call.
Fairness ==
  /\ \A c \in Clients : WF_vars(ClientStep(c))
  /\ \A f \in Flows : WF_vars(FlowStep(f))

FairSpec == Spec /\ Fairness

-----------------------------------------------------------------------------
\* Positions and output of a flow within its input file.
InBounds(f) ==
  /\ sourceStore[f] <= Length[f] /\ sinkStore[f] <= Length[f]
  /\ sourcePos[f] <= Length[f] /\ sinkPos[f] <= Length[f]
  /\ Len(output[f]) <= Length[f]

\* Every variable holds the kind of value the code can put in it; no position is
\* beyond the end of the input file.
TypeOK ==
  /\ mutex \in Clients \cup {NoClient}
  /\ call \in [Clients -> {Idle} \cup [op : Ops, flow : Flows]]
  /\ context \in [Flows -> ContextStates]
  /\ shutdown \in [Flows -> BOOLEAN]
  /\ runs \in [Flows -> 0..MaxRuns]
  /\ source \in [Flows -> OperatorPlaces] /\ sink \in [Flows -> OperatorPlaces]
  /\ sourceStore \in [Flows -> Nat] /\ sinkStore \in [Flows -> Nat]
  /\ sourcePos \in [Flows -> Nat] /\ sinkPos \in [Flows -> Nat]
  /\ queued \in [Flows -> Seq(Nat)] /\ output \in [Flows -> Seq(Nat)]
  /\ \A f \in Flows : InBounds(f)

\* The lines read, and written, in the present run: an operator that has yet to
\* open its file has the position of an earlier run, and that run's output.
ReadSoFar(f) == IF source[f] = "initState" THEN 0 ELSE sourcePos[f]
WrittenSoFar(f) == IF sink[f] = "initState" THEN 0 ELSE Len(output[f])

FirstLines(n) == [i \in 1..n |-> i]

\* Every run starts over, and accounts for what it reads.  Although the positions
\* of the operators and the output file survive an earlier run, what this run has
\* written, followed by what is queued, is always what it has itself read from the
\* first line on: nothing of an earlier run comes before it or is missing from it,
\* and nothing is lost, repeated or overtaken on the way.  At its end without a
\* shutdown the file has every line; with one, the lines that are queued are lost,
\* and so is what an earlier run had written.  (That is what the code does.  That
\* a run resumes, as is said of it, is RunsResume.)
EachRunStartsOver ==
  \A f \in Flows :
    /\ SubSeq(output[f], 1, WrittenSoFar(f)) \o queued[f] = FirstLines(ReadSoFar(f))
    /\ context[f] \in {"ended", "joined"} /\ ~shutdown[f] /\ f \notin Endless =>
         output[f] = FirstLines(Length[f])

\* A run never overlaps the one before: when wait has returned, and so a new
\* context may replace the old one, no operator of the old run is active.
RunsDoNotOverlap ==
  \A f \in Flows :
    context[f] \in {"none", "ended", "joined"} => {source[f], sink[f]} \subseteq {"idle", "done"}

\* Nobody waits for ever in the runner: although wait keeps its mutex until
\* the flow has ended, every call returns, provided that every flow ends.
CallsReturn == \A c \in Clients : call[c] # Idle ~> call[c] = Idle

\* What FlowRunner documents of requestShutdown: it does not block.
RequestShutdownReturns ==
  \A c \in Clients : Calling(c, "requestShutdown") ~> call[c] = Idle

\* What a test of the filter says of a flow that is run again after a shutdown, "it
\* will resume from where it left", and what Operator and OperatorContext say the
\* state store is for: a source that did not get to the end of its file goes on at
\* the position where it stopped, and a sink keeps the lines that it has written.
RunsResume ==
  [][\A f \in Flows \ Endless :
       /\ source[f] = "initState" /\ source'[f] = "loop" /\ sourcePos[f] < Length[f] =>
            sourcePos'[f] = sourcePos[f]
       /\ sink[f] = "initState" /\ sink'[f] = "loop" /\ Len(output[f]) < Length[f] =>
            output'[f] = output[f]]_vars

-----------------------------------------------------------------------------
(***************************************************************************)
(* The inductive strengthening of TypeOK, EachRunStartsOver and            *)
(* RunsDoNotOverlap; FlowRunner_proofs shows that it is inductive.         *)
(***************************************************************************)

\* What is in the file and what is queued are the lines read, in their order.
LinesOf(f) ==
  /\ \A i \in DOMAIN output[f] : output[f][i] = i
  /\ \A i \in DOMAIN queued[f] : queued[f][i] = WrittenSoFar(f) + i
  /\ WrittenSoFar(f) + Len(queued[f]) = ReadSoFar(f)
  /\ source[f] = "initState" => sourceStore[f] = 0
  /\ sink[f] = "initState" => sinkStore[f] = 0

\* An operator that ends without a shutdown has seen everything.
EndsOf(f) ==
  /\ context[f] # "none" => source[f] # "idle" /\ sink[f] # "idle"
  /\ source[f] = "done" /\ ~shutdown[f] /\ f \notin Endless => sourcePos[f] = Length[f]
  /\ sink[f] = "done" /\ ~shutdown[f] => source[f] = "done" /\ queued[f] = <<>>

\* A run that has been called, and waits for the mutex, is still legal.
RunsAreLegal ==
  \A c \in Clients : Calling(c, "run") => MayCall(c, "run", call[c].flow)

\* The inductive invariant.
Inv ==
  /\ TypeOK /\ RunsDoNotOverlap /\ RunsAreLegal
  /\ \A f \in Flows : LinesOf(f) /\ EndsOf(f)
=============================================================================
