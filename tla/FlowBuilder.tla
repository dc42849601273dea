----------------------------- MODULE FlowBuilder -----------------------------
(***************************************************************************)
(* A Flow while it is being built: createOperator and addConnection, called *)
(* one after the other for one of the flows of Topologies.                 *)
(***************************************************************************)
EXTENDS Topologies, TupleAttributes, FiniteSets

CONSTANT Designs    \* the flows that may be built

VARIABLES
  design,     \* the flow that is being built
  opList,     \* Flow::opList_
  outConns,   \* the ToConnections of every output port (OperatorConnections)
  inConns,    \* the FromConnections of every input port
  nextConn    \* how many connections have been added

vars == <<design, opList, outConns, inConns, nextConn>>

OutPortsOf(o) == {<<o, i>> : i \in 0..(Outs(o[1], design.n) - 1)}
InPortsOf(o) == {<<o, i>> : i \in 0..(Ins(o[1], design.n) - 1)}

Init ==
  /\ design \in Designs
  /\ opList = <<>> /\ nextConn = 0
  /\ outConns = <<>> /\ inConns = <<>>

\* The new operator's ports have no connections yet.
WithPorts(conns, ports) ==
  [x \in DOMAIN conns \cup ports |-> IF x \in DOMAIN conns THEN conns[x] ELSE <<>>]

\* createOperator, of a name that the flow does not have yet.
AddOperator ==
  /\ Len(opList) < Len(design.ops)
  /\ LET o == design.ops[Len(opList) + 1]
     IN /\ ~Contains(opList, o)
        /\ opList' = Append(opList, o)
        /\ outConns' = WithPorts(outConns, OutPortsOf(o))
        /\ inConns' = WithPorts(inConns, InPortsOf(o))
  /\ UNCHANGED <<design, nextConn>>

\* Mutant of AddConnection: the two ports are swapped in the FromConnection.
AddSwapped ==
  /\ opList = design.ops /\ nextConn < Len(design.conns)
  /\ LET c == design.conns[nextConn + 1]
     IN /\ outConns' = [outConns EXCEPT ![<<c.from, c.out>>] = Append(@, <<c.to, c.in>>)]
        /\ inConns' = [inConns EXCEPT ![<<c.to, c.in>>] = Append(@, <<c.from, c.in>>)]
  /\ nextConn' = nextConn + 1
  /\ UNCHANGED <<design, opList>>

\* addConnection records both ends.
AddConnection ==
  /\ opList = design.ops /\ nextConn < Len(design.conns)
  /\ LET c == design.conns[nextConn + 1]
     IN /\ outConns' = [outConns EXCEPT ![<<c.from, c.out>>] = Append(@, <<c.to, c.in>>)]
        /\ inConns' = [inConns EXCEPT ![<<c.to, c.in>>] = Append(@, <<c.from, c.out>>)]
  /\ nextConn' = nextConn + 1
  /\ UNCHANGED <<design, opList>>

Next == AddOperator \/ AddConnection

Spec == Init /\ [][Next]_vars

-----------------------------------------------------------------------------
Built == opList = design.ops /\ nextConn = Len(design.conns)

\* The flow as the runtime sees it: FlowContext takes the subscribers from
\* outConns and the publishers from inConns.
Graph ==
  INSTANCE FlowGraph WITH
    Operators <- ToSet(opList),
    InPorts <- DOMAIN inConns,
    OutPorts <- DOMAIN outConns,
    Owner <- [p \in DOMAIN inConns |-> p[1]],
    Source <- [q \in DOMAIN outConns |-> q[1]],
    Subscribers <- outConns,
    MaxQueueSize <- 1

\* No statement of a constructor throws for a name that is taken, or uses a port
\* that its operator does not have or an operator that was not created (the
\* vectors are indexed unchecked).
NoStatementFails ==
  /\ Len(opList) < Len(design.ops) => ~Contains(opList, design.ops[Len(opList) + 1])
  /\ opList = design.ops /\ nextConn < Len(design.conns) =>
       LET c == design.conns[nextConn + 1]
       IN <<c.from, c.out>> \in DOMAIN outConns /\ <<c.to, c.in>> \in DOMAIN inConns

\* The graph the runtime will work on is the one FlowGraph describes: closure,
\* which looks at the publishers of a port, and blocking, which looks at the
\* subscribers, go by the same connections.
PublishersAgree == \A p \in DOMAIN inConns : Graph!PublisherPorts(p) = ToSet(inConns[p])

\* The graph is one that the runtime is known to work on: every connection leads
\* to a port that there is, no output port is connected to the same input port
\* twice, and no input port has two publishers, but for the middle port of the
\* join in the two tests that have four files.
FitForRuntime ==
  /\ outConns \in [DOMAIN outConns -> Seq(DOMAIN inConns)]
  /\ Graph!ConnectedOnce
  /\ design \notin {UnionSink, BarrierSink} => Graph!NoFanIn

\* The operators of a class on the paths to o, as a set of numbers; within k
\* connections of the sources.
PathCounts(role) ==
  LET counts[k \in 0..Len(opList)] ==
        {<<o, IF o[1] = role THEN 1 ELSE 0>> : o \in {q \in ToSet(opList) : InPortsOf(q) = {}}}
        \cup IF k = 0 THEN {}
             ELSE UNION {{<<d, c[2] + (IF d[1] = role THEN 1 ELSE 0)>>
                            : d \in Graph!DownstreamOperators(c[1])} : c \in counts[k - 1]}
  IN counts[Len(opList)]

\* A finished flow has every input port fed by one output port (by two, the
\* middle port of the join in the tests that have four files) and every
\* output port read by one input port, every operator is reached from a source,
\* and each path from a source to a sink passes through depth of the nodes,
\* as the comments of the constructors lay the flows out.
BuiltAsDocumented ==
  Built =>
    LET paths == PathCounts("Busy")
    IN /\ \A p \in DOMAIN inConns :
            Len(inConns[p]) = IF design \in {UnionSink, BarrierSink} /\ p[2] = 1 THEN 2 ELSE 1
       /\ \A q \in DOMAIN outConns : Len(outConns[q]) = 1
       /\ {c[1] : c \in paths} = ToSet(opList)
       /\ {c[2] : c \in {d \in paths : d[1][1] = "FileSink"}} = {design.depth}

-----------------------------------------------------------------------------
(***************************************************************************)
(* The attributes of the tuples that reach each port.                      *)
(***************************************************************************)
FormatOf(o) == IF o \in DOMAIN design.formats THEN design.formats[o] ELSE <<>>

\* One tuple of each input port of o.
OneOfEach(o, arrived) ==
  {c \in [InPortsOf(o) -> {a[2] : a \in arrived}] :
     \A p \in InPortsOf(o) : <<p, c[p]>> \in arrived}

\* What o pushes, from the pairs <<port, tuple>> of what has arrived.
Pushed(o, arrived) ==
  CASE Ins(o[1], design.n) = 0 -> {Produced(o[1], FormatOf(o))}
    [] o[1] = "Barrier" ->
         {Joined([i \in 1..design.n |-> c[<<o, i - 1>>]]) : c \in OneOfEach(o, arrived)}
    [] OTHER -> {Passed(o[1], a[2]) : a \in {b \in arrived : b[1][1] = o}}

\* What the operators push next, once this has arrived.
Delivered(arrived) ==
  UNION {UNION {ToSet(outConns[q]) \X Pushed(o, arrived) : q \in OutPortsOf(o)}
           : o \in ToSet(opList)}

\* What can arrive over the longest path, which has fewer connections than
\* operators.
Arrivals ==
  LET within[k \in 0..Len(opList)] == IF k = 0 THEN {} ELSE Delivered(within[k - 1])
  IN within[Len(opList)]

\* No operator of a finished flow meets a tuple without an attribute that it
\* reads, or with one of another type: the operators that set it (a source, a
\* timestamper, a split) stand on every path to those that need it, and those
\* that remove it do not.
TuplesSuitReaders ==
  Built => \A a \in Arrivals : LET o == a[1][1] IN Digests(o[1], FormatOf(o), a[2])

-----------------------------------------------------------------------------
(***************************************************************************)
(* What FlowBuilder_proofs shows of the designs, and the invariant of      *)
(* their construction that it is shown for.                                *)
(***************************************************************************)
Start(c) == <<c.from, c.out>>
Target(c) == <<c.to, c.in>>

\* The connections between ports that the operators of d have.
Possible(d) ==
  {c \in [from : ToSet(d.ops), out : Nat, to : ToSet(d.ops), in : Nat] :
     c.out < Outs(c.from[1], d.n) /\ c.in < Ins(c.to[1], d.n)}

\* No name is taken twice, and only ports that exist are connected, not twice.
Sound(d) ==
  /\ d.n \in Nat
  /\ IsInjective(d.ops) /\ d.ops \in Seq(ToSet(d.ops))
  /\ d.conns \in Seq(Possible(d))
  /\ \A i, j \in DOMAIN d.conns :
       Start(d.conns[i]) = Start(d.conns[j]) /\ Target(d.conns[i]) = Target(d.conns[j]) => i = j

\* No two connections lead to the same input port.
WithoutFanIn(d) ==
  \A i, j \in DOMAIN d.conns : Target(d.conns[i]) = Target(d.conns[j]) => i = j

\* What has been recorded is what the statements executed so far say.
BuildInv ==
  /\ design \in Designs
  /\ opList \in Seq(ToSet(design.ops)) /\ Len(opList) <= Len(design.ops)
  /\ \A i \in 1..Len(opList) : opList[i] = design.ops[i]
  /\ nextConn \in 0..Len(design.conns) /\ (nextConn # 0 => opList = design.ops)
  /\ DOMAIN outConns = UNION {OutPortsOf(o) : o \in ToSet(opList)}
  /\ DOMAIN inConns = UNION {InPortsOf(o) : o \in ToSet(opList)}
  /\ outConns \in [DOMAIN outConns -> Seq(DOMAIN inConns)]
  /\ inConns \in [DOMAIN inConns -> Seq(DOMAIN outConns)]
  /\ \A q \in DOMAIN outConns :
       /\ IsInjective(outConns[q])
       /\ ToSet(outConns[q]) =
            {Target(design.conns[i]) : i \in {j \in 1..nextConn : Start(design.conns[j]) = q}}
  /\ \A p \in DOMAIN inConns :
       /\ IsInjective(inConns[p])
       /\ ToSet(inConns[p]) =
            {Start(design.conns[i]) : i \in {j \in 1..nextConn : Target(design.conns[j]) = p}}
=============================================================================
