------------------------ MODULE MCPortwiseConditions ------------------------
(***************************************************************************)
(* A flow for model-checking PortwiseConditions with TLC: an output port   *)
(* of a has two subscribers, an input port of b and one of c; b feeds the  *)
(* other input port of c.                                                  *)
(***************************************************************************)
EXTENDS PortwiseConditions

CONSTANTS a, b, c, t1

TriangleOwner       == [in1 |-> b, in2 |-> c, in3 |-> c]
TriangleSource      == [out1 |-> a, out2 |-> b]
TriangleSubscribers == [out1 |-> <<"in1", "in2">>, out2 |-> <<"in3">>]

\* b waits on its port by waitTuple, c on either of its ports by waitTuple, on
\* both by waitOnAllPorts and on any by waitOnAnyPort.
TriangleAsks ==
  LET single(p) == [spec |-> [x \in {p} |-> 1], kind |-> "Conjunctive", via |-> "port"]
      both(k) == [spec |-> [x \in {"in2", "in3"} |-> 1], kind |-> k, via |-> "context"]
  IN a :> {} @@ b :> {single("in1")}
     @@ c :> {single("in2"), single("in3"), both("Conjunctive"), both("Disjunctive")}
=============================================================================
