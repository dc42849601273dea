---------------------------- MODULE MCFlowBuilder ----------------------------
(***************************************************************************)
(* The topologies at small parameters, for TLC.                            *)
(***************************************************************************)
EXTENDS FlowBuilder

SmallDesigns ==
  {FilterSink, UnionSink, BarrierSink}
  \cup {Chain(d) : d \in 1..4}
  \cup {DataParallel(n) : n \in 1..3}
  \cup {Tree(d, n) : d \in 1..3, n \in 2..3}
  \cup {ReverseTree(d, n) : d \in 1..3, n \in 2..3}
=============================================================================
