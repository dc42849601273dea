------------------------- MODULE FlowRunner_proofs -------------------------
(***************************************************************************)
(* Proofs about FlowRunner, for every number of clients, flows and runs    *)
(* and for input files of every length.                                    *)
(***************************************************************************)
EXTENDS FlowRunner, Integers, TLAPS

\* Which flow a client is calling about.
LEMMA CallOf ==
  ASSUME TypeOK, NEW c \in Clients, NEW op \in Ops, Calling(c, op)
  PROVE  call[c].flow \in Flows /\ call[c].op = op
BY DEF TypeOK, Calling, Idle, Ops

\* The parts of the invariant that speak of one flow only change with it.
LEMMA OtherFlow ==
  ASSUME NEW f \in Flows,
         source'[f] = source[f], sink'[f] = sink[f],
         sourceStore'[f] = sourceStore[f], sinkStore'[f] = sinkStore[f],
         sourcePos'[f] = sourcePos[f], sinkPos'[f] = sinkPos[f],
         queued'[f] = queued[f], output'[f] = output[f]
  PROVE  /\ InBounds(f) => InBounds(f)'
         /\ LinesOf(f) => LinesOf(f)'
         /\ context'[f] = context[f] /\ (shutdown[f] => shutdown'[f]) /\ shutdown'[f] \in BOOLEAN
              /\ EndsOf(f) => EndsOf(f)'
<1>1. InBounds(f) => InBounds(f)'
  BY DEF InBounds
<1>2. WrittenSoFar(f)' = WrittenSoFar(f) /\ ReadSoFar(f)' = ReadSoFar(f)
  BY DEF WrittenSoFar, ReadSoFar
<1>3. LinesOf(f) => LinesOf(f)'
  BY <1>2 DEF LinesOf
<1>4. context'[f] = context[f] /\ (shutdown[f] => shutdown'[f]) /\ shutdown'[f] \in BOOLEAN
        /\ EndsOf(f) => EndsOf(f)'
  BY DEF EndsOf
<1> QED BY <1>1, <1>3, <1>4

LEMMA InitInv ==
  ASSUME RunnerAssumption, Init
  PROVE  Inv
<1>1. TypeOK
  BY DEF Init, TypeOK, InBounds, RunnerAssumption, ContextStates, OperatorPlaces
<1>2. RunsDoNotOverlap /\ RunsAreLegal
  BY DEF Init, RunsDoNotOverlap, RunsAreLegal, Calling
<1>3. \A f \in Flows : LinesOf(f) /\ EndsOf(f)
  BY DEF Init, LinesOf, EndsOf, ReadSoFar, WrittenSoFar
<1> QED BY <1>1, <1>2, <1>3 DEF Inv

-----------------------------------------------------------------------------
(***************************************************************************)
(* The clients' calls.                                                     *)
(***************************************************************************)

\* Steps of a client that leave the flows alone.
LEMMA QuietClient ==
  ASSUME Inv, UNCHANGED <<context, shutdown, runs, flowVars>>,
         \A c \in Clients : Calling(c, "run")' =>
           call'[c] = call[c] \/ MayCall(c, "run", call'[c].flow),
         mutex' \in Clients \cup {NoClient},
         call' \in [Clients -> {Idle} \cup [op : Ops, flow : Flows]]
  PROVE  Inv'
<1> USE DEF flowVars, posVars
<1>1. TypeOK'
  BY DEF Inv, TypeOK, InBounds
<1>2. RunsDoNotOverlap'
  BY DEF Inv, RunsDoNotOverlap
<1>3. \A f \in Flows : LinesOf(f)' /\ EndsOf(f)'
  BY DEF Inv, LinesOf, EndsOf, ReadSoFar, WrittenSoFar
<1>4. RunsAreLegal'
  BY DEF Inv, RunsAreLegal, MayCall, Calling
<1> QED BY <1>1, <1>2, <1>3, <1>4 DEF Inv

LEMMA CallInv ==
  ASSUME Inv, NEW c \in Clients, NEW op \in Ops, NEW f \in Flows, Call(c, op, f)
  PROVE  Inv'
<1>1. call' = [call EXCEPT ![c] = [op |-> op, flow |-> f]] /\ mutex' = mutex
  BY DEF Call
<1>2. call' \in [Clients -> {Idle} \cup [op : Ops, flow : Flows]] /\ mutex' \in Clients \cup {NoClient}
  BY <1>1 DEF Inv, TypeOK
<1>3. \A d \in Clients \ {c} : call'[d] = call[d]
  BY <1>1 DEF Inv, TypeOK
<1>4. Calling(c, "run")' => MayCall(c, "run", call'[c].flow)
  BY <1>1 DEF Inv, TypeOK, Calling, Call
<1> QED BY <1>2, <1>3, <1>4, QuietClient DEF Call

\* A call returns: the mutex is free and the client idle.
LEMMA ReturnTypes ==
  ASSUME TypeOK, NEW c \in Clients, Return(c)
  PROVE  /\ mutex' \in Clients \cup {NoClient}
         /\ call' \in [Clients -> {Idle} \cup [op : Ops, flow : Flows]]
         /\ \A d \in Clients : Calling(d, "run")' => d # c /\ call'[d] = call[d] /\ Calling(d, "run")
BY DEF TypeOK, Return, Calling

LEMMA RunInv ==
  ASSUME Inv, RunnerAssumption, NEW c \in Clients, Run(c)
  PROVE  Inv'
<1>0. TypeOK
  BY DEF Inv
<1>1. PICK f \in Flows : f = call[c].flow /\ MayCall(c, "run", f)
  BY <1>0, CallOf DEF Inv, Run, RunsAreLegal, Ops
<1>2. /\ Return(c)
      /\ context' = [context EXCEPT ![f] = "running"]
      /\ shutdown' = [shutdown EXCEPT ![f] = FALSE]
      /\ runs' = [runs EXCEPT ![f] = runs[f] + 1]
      /\ source' = [source EXCEPT ![f] = "initState"]
      /\ sink' = [sink EXCEPT ![f] = "initState"]
      /\ sourceStore' = [sourceStore EXCEPT ![f] = 0]
      /\ sinkStore' = [sinkStore EXCEPT ![f] = 0]
      /\ queued' = [queued EXCEPT ![f] = <<>>]
      /\ UNCHANGED <<sourcePos, sinkPos, output>>
  BY <1>1 DEF Run
<1>3. \A g \in Flows \ {f} : InBounds(g)' /\ LinesOf(g)' /\ EndsOf(g)'
  <2> SUFFICES ASSUME NEW g \in Flows \ {f}
               PROVE  InBounds(g)' /\ LinesOf(g)' /\ EndsOf(g)'
    OBVIOUS
  <2>1. /\ source'[g] = source[g] /\ sink'[g] = sink[g]
        /\ sourceStore'[g] = sourceStore[g] /\ sinkStore'[g] = sinkStore[g]
        /\ sourcePos'[g] = sourcePos[g] /\ sinkPos'[g] = sinkPos[g]
        /\ queued'[g] = queued[g] /\ output'[g] = output[g]
        /\ context'[g] = context[g] /\ shutdown'[g] = shutdown[g] /\ shutdown[g] \in BOOLEAN
    BY <1>0, <1>1, <1>2 DEF TypeOK
  <2>2. InBounds(g) /\ LinesOf(g) /\ EndsOf(g)
    BY <1>0 DEF Inv, TypeOK
  <2> QED BY <2>1, <2>2, OtherFlow
<1>4. /\ sourceStore'[f] = 0 /\ sinkStore'[f] = 0 /\ queued'[f] = <<>>
      /\ source'[f] = "initState" /\ sink'[f] = "initState" /\ context'[f] = "running"
  BY <1>0, <1>1, <1>2 DEF TypeOK
<1>5. InBounds(f)' /\ LinesOf(f)' /\ EndsOf(f)'
  <2>1. InBounds(f) /\ LinesOf(f) /\ Length[f] \in Nat
    BY <1>0, <1>1 DEF Inv, TypeOK, RunnerAssumption
  <2>2. InBounds(f)'
    BY <1>2, <1>4, <2>1 DEF InBounds
  <2>3. LinesOf(f)'
    BY <1>2, <1>4, <2>1 DEF LinesOf, ReadSoFar, WrittenSoFar
  <2>4. EndsOf(f)'
    BY <1>4 DEF EndsOf
  <2> QED BY <2>2, <2>3, <2>4
<1>6. TypeOK'
  <2>1. /\ mutex' \in Clients \cup {NoClient}
        /\ call' \in [Clients -> {Idle} \cup [op : Ops, flow : Flows]]
    BY <1>0, <1>2, ReturnTypes
  <2>2. runs' \in [Flows -> 0..MaxRuns]
    <3>1. runs[f] \in 0..MaxRuns /\ runs[f] < MaxRuns
      BY <1>0, <1>1 DEF TypeOK, MayCall
    <3> QED BY <1>0, <1>2, <3>1 DEF TypeOK, RunnerAssumption
  <2>3. context' \in [Flows -> ContextStates] /\ shutdown' \in [Flows -> BOOLEAN]
        /\ source' \in [Flows -> OperatorPlaces] /\ sink' \in [Flows -> OperatorPlaces]
    BY <1>0, <1>2 DEF TypeOK, ContextStates, OperatorPlaces
  <2>4. /\ sourceStore' \in [Flows -> Nat] /\ sinkStore' \in [Flows -> Nat]
        /\ sourcePos' \in [Flows -> Nat] /\ sinkPos' \in [Flows -> Nat]
        /\ queued' \in [Flows -> Seq(Nat)] /\ output' \in [Flows -> Seq(Nat)]
    BY <1>0, <1>2 DEF TypeOK
  <2> QED BY <1>3, <1>5, <2>1, <2>2, <2>3, <2>4 DEF TypeOK
<1>7. RunsDoNotOverlap'
  BY <1>0, <1>2 DEF Inv, TypeOK, RunsDoNotOverlap
<1>8. RunsAreLegal'
  <2> SUFFICES ASSUME NEW d \in Clients, Calling(d, "run")'
               PROVE  \E g \in Flows : g = call'[d].flow /\ MayCall(d, "run", g)'
    BY DEF RunsAreLegal, MayCall
  <2>1. d # c /\ call'[d] = call[d] /\ Calling(d, "run")
    BY <1>0, <1>2, ReturnTypes
  <2>2. PICK g \in Flows : g = call[d].flow /\ MayCall(d, "run", g)
    BY <1>0, <2>1, CallOf DEF Inv, RunsAreLegal, Ops
  <2>3. g # f
    BY <1>1, <2>1, <2>2 DEF MayCall
  <2>4. context'[g] = context[g] /\ runs'[g] = runs[g]
    BY <1>0, <1>2, <2>2, <2>3 DEF TypeOK
  <2> QED BY <2>1, <2>2, <2>4 DEF MayCall
<1> QED BY <1>3, <1>5, <1>6, <1>7, <1>8 DEF Inv

LEMMA WaitInv ==
  ASSUME Inv, NEW c \in Clients, Wait(c)
  PROVE  Inv'
<1>0. TypeOK
  BY DEF Inv
<1>1. PICK f \in Flows : f = call[c].flow /\ context[f] = "ended"
  BY <1>0, CallOf DEF Wait, Ops
<1>2. /\ Return(c)
      /\ context' = [context EXCEPT ![f] = "joined"]
      /\ UNCHANGED <<shutdown, runs, flowVars>>
  BY <1>1 DEF Wait
<1>3. TypeOK'
  BY <1>0, <1>2, ReturnTypes DEF TypeOK, ContextStates, InBounds, flowVars, posVars
<1>4. RunsDoNotOverlap'
  BY <1>0, <1>1, <1>2 DEF Inv, TypeOK, RunsDoNotOverlap, flowVars
<1>5. \A g \in Flows : LinesOf(g)' /\ EndsOf(g)'
  BY <1>0, <1>1, <1>2 DEF Inv, TypeOK, EndsOf, LinesOf, ReadSoFar, WrittenSoFar, flowVars, posVars
<1>6. RunsAreLegal'
  <2> SUFFICES ASSUME NEW d \in Clients, Calling(d, "run")'
               PROVE  \E g \in Flows : g = call'[d].flow /\ MayCall(d, "run", g)'
    BY DEF RunsAreLegal, MayCall
  <2>1. call'[d] = call[d] /\ Calling(d, "run")
    BY <1>0, <1>2, ReturnTypes
  <2>2. PICK g \in Flows : g = call[d].flow /\ MayCall(d, "run", g)
    BY <1>0, <2>1, CallOf DEF Inv, RunsAreLegal, Ops
  <2>3. context'[g] \in {context[g], "joined"} /\ runs'[g] = runs[g]
    BY <1>0, <1>2, <2>2 DEF TypeOK
  <2> QED BY <2>1, <2>2, <2>3 DEF MayCall
<1> QED BY <1>3, <1>4, <1>5, <1>6 DEF Inv

LEMMA RequestInv ==
  ASSUME Inv, NEW c \in Clients, RequestShutdown(c)
  PROVE  Inv'
<1>0. TypeOK
  BY DEF Inv
<1>1. PICK f \in Flows : f = call[c].flow
  BY <1>0, CallOf DEF RequestShutdown, Ops
<1>2. /\ Return(c)
      /\ shutdown' = [shutdown EXCEPT ![f] = TRUE]
      /\ UNCHANGED <<context, runs, flowVars>>
  BY <1>1 DEF RequestShutdown
<1>3. TypeOK'
  BY <1>0, <1>2, ReturnTypes DEF TypeOK, InBounds, flowVars, posVars
<1>4. RunsDoNotOverlap'
  BY <1>2 DEF Inv, RunsDoNotOverlap, flowVars
<1>5. \A g \in Flows : LinesOf(g)' /\ EndsOf(g)'
  BY <1>0, <1>1, <1>2 DEF Inv, TypeOK, EndsOf, LinesOf, ReadSoFar, WrittenSoFar, flowVars, posVars
<1>6. RunsAreLegal'
  BY <1>0, <1>2, ReturnTypes DEF Inv, RunsAreLegal, MayCall
<1> QED BY <1>3, <1>4, <1>5, <1>6 DEF Inv

-----------------------------------------------------------------------------
(***************************************************************************)
(* The runs.                                                               *)
(***************************************************************************)

\* A flow that takes a step is running, so that nobody is about to run it; it
\* ends with the step that makes both its operators done.
LEMMA FlowStepContext ==
  ASSUME Inv, NEW f \in Flows, FlowStep(f)
  PROVE  /\ context[f] = "running"
         /\ UNCHANGED <<clientVars, shutdown, runs>>
         /\ \/ context' = context
            \/ /\ source'[f] = "done" /\ sink'[f] = "done"
               /\ context' = [context EXCEPT ![f] = "ended"]
<1>1. source[f] \notin {"idle", "done"} \/ sink[f] \notin {"idle", "done"}
  BY DEF FlowStep, OpenSource, Loop, Read, EndSource, OpenSink, Write, EndSink
<1>2. context[f] = "running"
  BY <1>1 DEF Inv, RunsDoNotOverlap, TypeOK, ContextStates
<1> QED
  BY <1>2 DEF FlowStep, OpenSource, Loop, Read, EndSource, OpenSink, Write, EndSink, EndIfDone

LEMMA FlowStepOthers ==
  ASSUME TypeOK, NEW f \in Flows, FlowStep(f), NEW g \in Flows \ {f}
  PROVE  /\ source'[g] = source[g] /\ sink'[g] = sink[g]
         /\ sourceStore'[g] = sourceStore[g] /\ sinkStore'[g] = sinkStore[g]
         /\ sourcePos'[g] = sourcePos[g] /\ sinkPos'[g] = sinkPos[g]
         /\ queued'[g] = queued[g] /\ output'[g] = output[g]
BY DEF TypeOK, posVars, FlowStep, OpenSource, Loop, Read, EndSource, OpenSink, Write, EndSink

\* The step of Write: the file grows by the line that comes next.
LEMMA WriteLine ==
  ASSUME TypeOK, RunnerAssumption, NEW f \in Flows, LinesOf(f), Write(f)
  PROVE  /\ Head(queued[f]) = Len(output[f]) + 1
         /\ Tail(queued[f]) \in Seq(Nat) /\ Len(Tail(queued[f])) = Len(queued[f]) - 1
         /\ \A i \in DOMAIN Tail(queued[f]) : Tail(queued[f])[i] = Len(output[f]) + 1 + i
         /\ Len(output[f]) + Len(queued[f]) = ReadSoFar(f)
         /\ Len(output[f]) + 1 <= Length[f]
<1>1. queued[f] \in Seq(Nat) /\ output[f] \in Seq(Nat) /\ queued[f] # <<>>
  BY DEF TypeOK, Write
<1>2. /\ \A i \in DOMAIN queued[f] : queued[f][i] = Len(output[f]) + i
      /\ Len(output[f]) + Len(queued[f]) = ReadSoFar(f)
  BY DEF LinesOf, WrittenSoFar, Write
<1>3. ReadSoFar(f) <= Length[f] /\ Length[f] \in Nat /\ ReadSoFar(f) \in Nat
  BY DEF ReadSoFar, TypeOK, InBounds, RunnerAssumption
<1>4. Len(queued[f]) >= 1 /\ Head(queued[f]) = queued[f][1]
  BY <1>1
<1>5. /\ Tail(queued[f]) \in Seq(Nat) /\ Len(Tail(queued[f])) = Len(queued[f]) - 1
      /\ \A i \in 1..(Len(queued[f]) - 1) : Tail(queued[f])[i] = queued[f][i + 1]
  BY <1>1
<1>6. Len(queued[f]) \in Nat /\ Len(output[f]) \in Nat
  BY <1>1
<1>7. Head(queued[f]) = Len(output[f]) + 1 /\ Len(output[f]) + 1 <= Length[f]
  <2>1. 1 \in DOMAIN queued[f]
    BY <1>1
  <2>2. Head(queued[f]) = Len(output[f]) + 1
    BY <1>2, <1>4, <2>1
  <2>3. ASSUME NEW m \in Nat, NEW n \in Nat, NEW r \in Nat, m + n = r, n >= 1, r <= Length[f]
        PROVE  m + 1 <= Length[f]
    BY <1>3, <2>3
  <2>4. Len(output[f]) + 1 <= Length[f]
    BY <1>2, <1>3, <1>4, <1>6, <2>3
  <2> QED BY <2>2, <2>4
<1>8. ASSUME NEW i \in DOMAIN Tail(queued[f])
      PROVE  Tail(queued[f])[i] = Len(output[f]) + 1 + i
  <2>1. i \in 1..(Len(queued[f]) - 1) /\ i + 1 \in DOMAIN queued[f]
    BY <1>1, <1>5, <1>6
  <2>2. Tail(queued[f])[i] = queued[f][i + 1]
    BY <1>5, <2>1
  <2>3. queued[f][i + 1] = Len(output[f]) + (i + 1)
    BY <1>2, <2>1
  <2>4. \A m \in Nat, j \in Int : m + (j + 1) = m + 1 + j
    OBVIOUS
  <2>5. i \in Int
    BY <1>6, <2>1
  <2> QED BY <1>6, <2>2, <2>3, <2>4, <2>5
<1> QED BY <1>2, <1>5, <1>7, <1>8

\* The step of Read.
LEMMA ReadLine ==
  ASSUME TypeOK, NEW f \in Flows, f \notin Endless, Read(f)
  PROVE  /\ queued' = [queued EXCEPT ![f] = Append(queued[f], sourcePos[f] + 1)]
         /\ sourcePos' = [sourcePos EXCEPT ![f] = sourcePos[f] + 1]
         /\ sourcePos[f] < Length[f]
BY DEF Read

LEMMA FlowStepTypes ==
  ASSUME Inv, RunnerAssumption, NEW f \in Flows, FlowStep(f)
  PROVE  TypeOK'
<1>0. TypeOK
  BY DEF Inv
<1>1. ASSUME InBounds(f)' PROVE \A g \in Flows : InBounds(g)'
  <2> SUFFICES ASSUME NEW g \in Flows \ {f} PROVE InBounds(g)'
    BY <1>1
  <2>1. InBounds(g)
    BY <1>0 DEF TypeOK
  <2> QED BY <1>0, <2>1, FlowStepOthers, OtherFlow
<1>2. InBounds(f) /\ Length[f] \in Nat
  BY <1>0 DEF TypeOK, RunnerAssumption
<1>3. /\ mutex' \in Clients \cup {NoClient}
      /\ call' \in [Clients -> {Idle} \cup [op : Ops, flow : Flows]]
      /\ context' \in [Flows -> ContextStates]
      /\ shutdown' \in [Flows -> BOOLEAN] /\ runs' \in [Flows -> 0..MaxRuns]
  BY <1>0, FlowStepContext DEF TypeOK, clientVars, ContextStates
<1>4. source' \in [Flows -> OperatorPlaces] /\ sink' \in [Flows -> OperatorPlaces]
  BY <1>0 DEF TypeOK, OperatorPlaces, FlowStep, OpenSource, Loop, Read, EndSource, OpenSink,
              Write, EndSink, posVars
<1>5. /\ sourceStore' \in [Flows -> Nat] /\ sinkStore' \in [Flows -> Nat]
      /\ sourcePos' \in [Flows -> Nat] /\ sinkPos' \in [Flows -> Nat]
      /\ queued' \in [Flows -> Seq(Nat)] /\ output' \in [Flows -> Seq(Nat)]
      /\ InBounds(f)'
  <2> USE DEF posVars
  <2>1. CASE OpenSource(f)
    BY <1>0, <1>2, <2>1 DEF OpenSource, TypeOK, InBounds
  <2>2. CASE Loop(f)
    BY <1>0, <1>2, <2>2 DEF Loop, TypeOK, InBounds
  <2>3. CASE Read(f)
    <3>1. CASE f \in Endless
      BY <1>0, <1>2, <2>3, <3>1 DEF Read, TypeOK, InBounds
    <3>2. CASE f \notin Endless
      <4>0. /\ queued' = [queued EXCEPT ![f] = Append(queued[f], sourcePos[f] + 1)]
            /\ sourcePos' = [sourcePos EXCEPT ![f] = sourcePos[f] + 1]
            /\ sourcePos[f] < Length[f]
        BY <1>0, <2>3, <3>2, ReadLine
      <4>1. sourcePos'[f] = sourcePos[f] + 1 /\ sourcePos[f] \in Nat /\ sourcePos[f] < Length[f]
        BY <1>0, <4>0 DEF TypeOK
      <4>2. queued' \in [Flows -> Seq(Nat)] /\ sourcePos' \in [Flows -> Nat]
        BY <1>0, <4>0 DEF TypeOK
      <4>3. UNCHANGED <<sourceStore, sinkStore, sinkPos, output>>
        BY <2>3 DEF Read
      <4> QED BY <1>0, <1>2, <4>1, <4>2, <4>3 DEF TypeOK, InBounds
    <3> QED BY <3>1, <3>2
  <2>4. CASE EndSource(f)
    BY <1>0, <1>2, <2>4 DEF EndSource, TypeOK, InBounds
  <2>5. CASE OpenSink(f)
    BY <1>0, <1>2, <2>5 DEF OpenSink, TypeOK, InBounds
  <2>6. CASE Write(f)
    <3>1. LinesOf(f)
      BY DEF Inv
    <3>2. /\ output' = [output EXCEPT ![f] = Append(output[f], Head(queued[f]))]
          /\ queued' = [queued EXCEPT ![f] = Tail(queued[f])]
          /\ sinkPos' = [sinkPos EXCEPT ![f] = Len(output'[f])]
          /\ UNCHANGED <<sourceStore, sinkStore, sourcePos>>
      BY <2>6 DEF Write
    <3>0. /\ Head(queued[f]) = Len(output[f]) + 1 /\ Tail(queued[f]) \in Seq(Nat)
          /\ Len(output[f]) + 1 <= Length[f]
      BY <1>0, <2>6, <3>1, WriteLine
    <3>3. output[f] \in Seq(Nat) /\ Head(queued[f]) \in Nat /\ Tail(queued[f]) \in Seq(Nat)
          /\ Len(output[f]) + 1 <= Length[f]
      BY <1>0, <3>0 DEF TypeOK
    <3>4. /\ output'[f] = Append(output[f], Head(queued[f]))
          /\ output'[f] \in Seq(Nat) /\ Len(output'[f]) = Len(output[f]) + 1
      BY <1>0, <3>2, <3>3 DEF TypeOK
    <3>5. output' \in [Flows -> Seq(Nat)] /\ queued' \in [Flows -> Seq(Nat)]
          /\ sinkPos' \in [Flows -> Nat] /\ sinkPos'[f] = Len(output'[f])
      BY <1>0, <3>2, <3>3, <3>4 DEF TypeOK
    <3> QED BY <1>0, <1>2, <3>2, <3>3, <3>4, <3>5 DEF TypeOK, InBounds
  <2>7. CASE EndSink(f)
    BY <1>0, <1>2, <2>7 DEF EndSink, TypeOK, InBounds
  <2> QED BY <2>1, <2>2, <2>3, <2>4, <2>5, <2>6, <2>7 DEF FlowStep
<1> QED BY <1>1, <1>3, <1>4, <1>5 DEF TypeOK

LEMMA FlowStepLines ==
  ASSUME Inv, RunnerAssumption, NEW f \in Flows, FlowStep(f)
  PROVE  LinesOf(f)'
<1>0. TypeOK /\ LinesOf(f)
  BY DEF Inv
<1>1. /\ queued[f] \in Seq(Nat) /\ output[f] \in Seq(Nat)
      /\ sourcePos[f] \in Nat /\ Length[f] \in Nat
  BY <1>0 DEF TypeOK, RunnerAssumption
<1>2. CASE OpenSource(f)
  BY <1>0, <1>1, <1>2 DEF OpenSource, TypeOK, LinesOf, WrittenSoFar, ReadSoFar
<1>3. CASE Loop(f)
  BY <1>0, <1>1, <1>3 DEF Loop, TypeOK, LinesOf, WrittenSoFar, ReadSoFar, posVars
<1>4. CASE Read(f)
  <2>1. source[f] = "body" /\ source'[f] = "loop" /\ UNCHANGED <<sink, sourceStore, sinkStore, output>>
    BY <1>0, <1>4 DEF Read, TypeOK
  <2>2. CASE f \in Endless
    BY <1>0, <1>1, <1>4, <2>1, <2>2 DEF Read, LinesOf, WrittenSoFar, ReadSoFar
  <2>3. CASE f \notin Endless
    <3>0. /\ queued' = [queued EXCEPT ![f] = Append(queued[f], sourcePos[f] + 1)]
          /\ sourcePos' = [sourcePos EXCEPT ![f] = sourcePos[f] + 1]
      BY <1>0, <1>4, <2>3, ReadLine
    <3>1. queued'[f] = Append(queued[f], sourcePos[f] + 1) /\ sourcePos'[f] = sourcePos[f] + 1
      BY <1>0, <3>0 DEF TypeOK
    <3>2. WrittenSoFar(f)' = WrittenSoFar(f) /\ WrittenSoFar(f) \in Nat
      BY <1>1, <2>1 DEF WrittenSoFar
    <3>3. ReadSoFar(f)' = sourcePos[f] + 1 /\ ReadSoFar(f) = sourcePos[f]
      BY <2>1, <3>1 DEF ReadSoFar
    <3>4. WrittenSoFar(f) + Len(queued[f]) = sourcePos[f]
      BY <1>0, <3>3 DEF LinesOf
    <3>5. Len(queued'[f]) = Len(queued[f]) + 1
      BY <1>1, <3>1
    <3>6. \A i \in DOMAIN queued'[f] : queued'[f][i] = WrittenSoFar(f) + i
      <4> SUFFICES ASSUME NEW i \in 1..(Len(queued[f]) + 1)
                   PROVE  queued'[f][i] = WrittenSoFar(f) + i
        BY <1>1, <3>1
      <4>1. CASE i \in 1..Len(queued[f])
        BY <1>0, <1>1, <3>1, <4>1 DEF LinesOf
      <4>2. CASE i = Len(queued[f]) + 1
        <5>1. queued'[f][i] = sourcePos[f] + 1
          BY <1>1, <3>1, <4>2
        <5>2. sourcePos[f] + 1 = WrittenSoFar(f) + i
          BY <1>1, <3>2, <3>4, <4>2
        <5> QED BY <5>1, <5>2
      <4>3. Len(queued[f]) \in Nat
        BY <1>1
      <4> QED BY <4>1, <4>2, <4>3
    <3> QED BY <1>0, <1>1, <2>1, <3>2, <3>3, <3>4, <3>5, <3>6 DEF LinesOf
  <2> QED BY <2>2, <2>3
<1>5. CASE EndSource(f)
  BY <1>0, <1>1, <1>5 DEF EndSource, TypeOK, LinesOf, WrittenSoFar, ReadSoFar, posVars
<1>6. CASE OpenSink(f)
  BY <1>0, <1>1, <1>6 DEF OpenSink, TypeOK, LinesOf, WrittenSoFar, ReadSoFar
<1>7. CASE Write(f)
  <2>1. /\ output'[f] = Append(output[f], Head(queued[f])) /\ queued'[f] = Tail(queued[f])
        /\ sink'[f] = "loop" /\ UNCHANGED <<source, sourceStore, sinkStore, sourcePos>>
    BY <1>0, <1>7 DEF Write, TypeOK
  <2>2. WrittenSoFar(f)' = Len(output[f]) + 1 /\ ReadSoFar(f)' = ReadSoFar(f)
    BY <1>1, <2>1 DEF WrittenSoFar, ReadSoFar
  <2>3. \A i \in DOMAIN output'[f] : output'[f][i] = i
    <3> SUFFICES ASSUME NEW i \in 1..(Len(output[f]) + 1) PROVE output'[f][i] = i
      BY <1>1, <2>1
    <3>1. CASE i \in 1..Len(output[f])
      BY <1>0, <1>1, <2>1, <3>1 DEF LinesOf
    <3>2. CASE i = Len(output[f]) + 1
      <4>1. Head(queued[f]) = Len(output[f]) + 1
        BY <1>0, <1>7, WriteLine
      <4> QED BY <1>1, <2>1, <3>2, <4>1
    <3> QED BY <1>1, <3>1, <3>2
  <2>4. \A i \in DOMAIN queued'[f] : queued'[f][i] = WrittenSoFar(f)' + i
    BY <1>0, <1>7, <2>1, <2>2, WriteLine
  <2>5. WrittenSoFar(f)' + Len(queued'[f]) = ReadSoFar(f)'
    <3>1. /\ Len(Tail(queued[f])) = Len(queued[f]) - 1
          /\ Len(output[f]) + Len(queued[f]) = ReadSoFar(f)
      BY <1>0, <1>7, WriteLine
    <3>2. Len(queued[f]) \in Nat /\ Len(output[f]) \in Nat
      BY <1>1
    <3>3. \A m \in Nat, n \in Nat : m + 1 + (n - 1) = m + n
      OBVIOUS
    <3>4. Len(output[f]) + 1 + (Len(queued[f]) - 1) = ReadSoFar(f)
      BY <3>1, <3>2, <3>3
    <3> QED BY <2>1, <2>2, <3>1, <3>4
  <2> QED BY <1>0, <2>1, <2>3, <2>4, <2>5 DEF LinesOf
<1>8. CASE EndSink(f)
  BY <1>0, <1>1, <1>8 DEF EndSink, TypeOK, LinesOf, WrittenSoFar, ReadSoFar, posVars
<1> QED BY <1>2, <1>3, <1>4, <1>5, <1>6, <1>7, <1>8 DEF FlowStep

LEMMA FlowStepEnds ==
  ASSUME Inv, NEW f \in Flows, FlowStep(f)
  PROVE  EndsOf(f)'
<1>0. TypeOK /\ EndsOf(f) /\ context[f] # "none" /\ shutdown' = shutdown
  BY FlowStepContext DEF Inv
<1>1. source[f] # "idle" /\ sink[f] # "idle"
  BY <1>0 DEF EndsOf
<1>2. source'[f] # "idle" /\ sink'[f] # "idle"
  BY <1>0, <1>1 DEF TypeOK, FlowStep, OpenSource, Loop, Read, EndSource, OpenSink, Write, EndSink
<1>3. source'[f] = "done" /\ ~shutdown[f] /\ f \notin Endless => sourcePos'[f] = Length[f]
  BY <1>0 DEF EndsOf, TypeOK, FlowStep, OpenSource, Loop, Read, EndSource, OpenSink, Write, EndSink,
              posVars
<1>4. sink'[f] = "done" /\ ~shutdown[f] => source'[f] = "done" /\ queued'[f] = <<>>
  BY <1>0 DEF EndsOf, TypeOK, FlowStep, OpenSource, Loop, Read, EndSource, OpenSink, Write, EndSink,
              posVars
<1> QED BY <1>0, <1>2, <1>3, <1>4 DEF EndsOf

LEMMA FlowStepInv ==
  ASSUME Inv, RunnerAssumption, NEW f \in Flows, FlowStep(f)
  PROVE  Inv'
<1>0. TypeOK
  BY DEF Inv
<1>1. ASSUME NEW g \in Flows \ {f}
      PROVE  LinesOf(g)' /\ EndsOf(g)' /\ context'[g] = context[g]
  <2>1. LinesOf(g) /\ EndsOf(g)
    BY DEF Inv
  <2>2. shutdown'[g] = shutdown[g] /\ shutdown[g] \in BOOLEAN
    BY <1>0, FlowStepContext DEF TypeOK
  <2>3. \/ context' = context
        \/ context' = [context EXCEPT ![f] = "ended"]
    BY FlowStepContext
  <2>4. context'[g] = context[g]
    BY <1>0, <2>3 DEF TypeOK
  <2> QED BY <1>0, <2>4, <2>1, <2>2, FlowStepOthers, OtherFlow
<1>2. \A g \in Flows : LinesOf(g)' /\ EndsOf(g)'
  BY <1>1, FlowStepLines, FlowStepEnds
<1>3. RunsDoNotOverlap'
  <2> SUFFICES ASSUME NEW g \in Flows, context'[g] \in {"none", "ended", "joined"}
               PROVE  {source'[g], sink'[g]} \subseteq {"idle", "done"}
    BY DEF RunsDoNotOverlap
  <2>1. CASE g = f
    BY <1>0, <2>1, FlowStepContext DEF TypeOK
  <2>2. CASE g # f
    BY <1>0, <1>1, <2>2, FlowStepOthers DEF Inv, RunsDoNotOverlap
  <2> QED BY <2>1, <2>2
<1>4. RunsAreLegal'
  <2> SUFFICES ASSUME NEW d \in Clients, Calling(d, "run")
               PROVE  \E g \in Flows : g = call'[d].flow /\ MayCall(d, "run", g)'
    BY FlowStepContext DEF RunsAreLegal, Calling, MayCall, clientVars
  <2>1. PICK g \in Flows : g = call[d].flow /\ MayCall(d, "run", g) /\ call' = call /\ runs' = runs
    BY <1>0, CallOf, FlowStepContext DEF Inv, RunsAreLegal, Ops, clientVars
  <2>2. g # f
    BY <2>1, FlowStepContext DEF MayCall
  <2>3. context'[g] = context[g]
    BY <1>1, <2>1, <2>2
  <2> QED BY <2>1, <2>3 DEF MayCall
<1> QED BY <1>2, <1>3, <1>4, FlowStepTypes DEF Inv

-----------------------------------------------------------------------------
\* Inv is inductive.
THEOREM Invariance == Spec => []Inv
<1> USE RunnerAssumption
<1>1. Init => Inv
  BY InitInv
<1>2. Inv /\ [Next]_vars => Inv'
  <2> SUFFICES ASSUME Inv, [Next]_vars PROVE Inv'
    OBVIOUS
  <2>1. ASSUME NEW c \in Clients, NEW op \in Ops, NEW f \in Flows, Call(c, op, f) PROVE Inv'
    BY <2>1, CallInv
  <2>2. ASSUME NEW c \in Clients, Lock(c) PROVE Inv'
    BY <2>2, QuietClient DEF Lock, Inv, TypeOK
  <2>3. ASSUME NEW c \in Clients, Run(c) \/ Wait(c) \/ RequestShutdown(c) PROVE Inv'
    BY <2>3, RunInv, WaitInv, RequestInv
  <2>4. ASSUME NEW f \in Flows, FlowStep(f) PROVE Inv'
    BY <2>4, FlowStepInv
  <2>5. CASE UNCHANGED vars
    BY <2>5, QuietClient DEF vars, clientVars, Inv, TypeOK
  <2> QED BY <2>1, <2>2, <2>3, <2>4, <2>5 DEF Next, ClientStep
<1> QED BY <1>1, <1>2, PTL DEF Spec

\* No position and no output goes beyond the end of the input file.
THEOREM TypeCorrect == Spec => []TypeOK
<1>1. Inv => TypeOK
  BY DEF Inv
<1> QED BY <1>1, Invariance, PTL

\* A run never overlaps the one before.
THEOREM RunsAreDisjoint == Spec => []RunsDoNotOverlap
<1>1. Inv => RunsDoNotOverlap
  BY DEF Inv
<1> QED BY <1>1, Invariance, PTL

\* In every run the output written and the lines queued are those that this run has
\* read, from the first on and in order, whatever runs and shutdowns there were before;
\* and after a run without a shutdown all the lines are in the file.
THEOREM RunsStartOver == Spec => []EachRunStartsOver
<1>1. Inv => EachRunStartsOver
  <2> SUFFICES ASSUME Inv, NEW f \in Flows
               PROVE  /\ SubSeq(output[f], 1, WrittenSoFar(f)) \o queued[f] = FirstLines(ReadSoFar(f))
                      /\ context[f] \in {"ended", "joined"} /\ ~shutdown[f] /\ f \notin Endless =>
                           output[f] = FirstLines(Length[f])
    BY DEF EachRunStartsOver
  <2> DEFINE w == WrittenSoFar(f)
             r == ReadSoFar(f)
             o == output[f]
             q == queued[f]
             written == SubSeq(o, 1, w)
  <2>1. /\ o \in Seq(Nat) /\ q \in Seq(Nat) /\ Length[f] \in Nat
        /\ \A i \in DOMAIN o : o[i] = i
        /\ \A i \in DOMAIN q : q[i] = w + i
        /\ w + Len(q) = r
    BY RunnerAssumption DEF Inv, TypeOK, LinesOf, RunnerAssumption
  <2>2. w \in 0..Len(o)
    BY <2>1 DEF WrittenSoFar
  <2> HIDE DEF w, r, o, q
  <2>3. /\ written \in Seq(Nat) /\ Len(written) = w
        /\ \A i \in 1..w : written[i] = i
    BY <2>1, <2>2
  <2>4. written \o q = FirstLines(r)
    <3>1. /\ written \o q \in Seq(Nat) /\ Len(written \o q) = r
          /\ \A i \in 1..r : (written \o q)[i] = i
      <4> HIDE DEF written
      <4> QED BY <2>1, <2>2, <2>3
    <3> HIDE DEF written
    <3> DEFINE whole == written \o q
    <3>2. whole \in Seq(Nat) /\ Len(whole) = r /\ \A i \in 1..r : whole[i] = i
      BY <3>1
    <3> HIDE DEF whole
    <3>3. whole = [i \in 1..r |-> i]
      BY <3>2
    <3> QED BY <3>3 DEF whole, FirstLines
  <2>5. ASSUME context[f] \in {"ended", "joined"}, ~shutdown[f], f \notin Endless
        PROVE  o = FirstLines(Length[f])
    <3>1. source[f] = "done" /\ sink[f] = "done"
      BY <2>5 DEF Inv, RunsDoNotOverlap, EndsOf
    <3>2. sourcePos[f] = Length[f] /\ queued[f] = <<>>
      BY <2>5, <3>1 DEF Inv, EndsOf
    <3>3. w = Len(o) /\ r = Length[f] /\ q = <<>>
      BY <3>1, <3>2 DEF w, r, o, q, ReadSoFar, WrittenSoFar
    <3>4. Len(o) = Length[f]
      BY <2>1, <3>3
    <3> QED BY <2>1, <3>4 DEF FirstLines
  <2> QED BY <2>4, <2>5 DEF w, r, o, q, written
<1> QED BY <1>1, Invariance, PTL
=============================================================================
