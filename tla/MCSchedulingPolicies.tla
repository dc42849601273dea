------------------------ MODULE MCSchedulingPolicies ------------------------
(***************************************************************************)
(* A flow for model-checking SchedulingPolicies with TLC: the tuples of a  *)
(* source a go to an operator b and to the first of the two input ports of *)
(* an operator c; b feeds the second.                                      *)
(***************************************************************************)
EXTENDS SchedulingPolicies

CONSTANTS a, b, c, t1

FlowOwner       == [in1 |-> b, in2 |-> c, in3 |-> c]
FlowSource      == [out1 |-> a, out2 |-> b]
FlowSubscribers == [out1 |-> <<"in1", "in2">>, out2 |-> <<"in3">>]
FlowInputs      == a :> <<>> @@ b :> <<"in1">> @@ c :> <<"in2", "in3">>
FlowOutputs     == a :> <<"out1">> @@ b :> <<"out2">> @@ c :> <<>>
=============================================================================
