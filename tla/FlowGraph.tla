----------------------------- MODULE FlowGraph -----------------------------
(***************************************************************************)
(* The static graph of a flow: operators, their ports and the connections  *)
(* between them, as Flow::addOperator and Flow::addConnection record them  *)
(* and the constructor of FlowContext turns them into publisher and        *)
(* subscriber lists.                                                       *)
(***************************************************************************)
EXTENDS Naturals, Sequences, FiniteSets

CONSTANTS
  Operators,     \* the operators of the flow
  InPorts,       \* all the input ports of all the operators
  OutPorts,      \* all the output ports of all the operators
  Owner,         \* Owner[p]: the operator that input port p belongs to
  Source,        \* Source[q]: the operator that output port q belongs to
  Subscribers,   \* Subscribers[q]: the input ports connected to q, in the
                 \* order of the addConnection calls
  MaxQueueSize   \* FlowContext::maxQueueSize_

ASSUME FlowGraphAssumption ==
  /\ IsFiniteSet(Operators)
  /\ Owner \in [InPorts -> Operators]
  /\ Source \in [OutPorts -> Operators]
  /\ Subscribers \in [OutPorts -> Seq(InPorts)]
  /\ MaxQueueSize \in Nat \ {0}

InPortsOf(o) == {p \in InPorts : Owner[p] = o}
OutPortsOf(o) == {q \in OutPorts : Source[q] = o}

SubscribersOf(q) == {Subscribers[q][i] : i \in DOMAIN Subscribers[q]}

\* The input ports an operator can push to: the keys of its write wait list.
DownstreamPorts(o) == UNION {SubscribersOf(q) : q \in OutPortsOf(o)}

\* The operators that publish to an input port, and the output ports they use.
PublisherPorts(p) == {q \in OutPorts : p \in SubscribersOf(q)}
Publishers(p) == {Source[q] : q \in PublisherPorts(p)}

DownstreamOperators(o) == {Owner[p] : p \in DownstreamPorts(o)}
UpstreamOperators(o) == UNION {Publishers(p) : p \in InPortsOf(o)}

\* No output port is connected to the same input port twice.
Once(s) == \A i, j \in DOMAIN s : s[i] = s[j] => i = j
ConnectedOnce == \A q \in OutPorts : Once(Subscribers[q])

\* No input port is fed by two operators, nor twice by the same one.
NoFanIn ==
  \A q, r \in OutPorts :
    \A i \in DOMAIN Subscribers[q], j \in DOMAIN Subscribers[r] :
      Subscribers[q][i] = Subscribers[r][j] => q = r /\ i = j
=============================================================================
