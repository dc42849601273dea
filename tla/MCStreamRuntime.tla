-------------------------- MODULE MCStreamRuntime --------------------------
(***************************************************************************)
(* Small flows for model-checking StreamRuntime with TLC: fork (one output *)
(* port of a has two subscribers, b and c) and mesh (a feeds both ports of *)
(* c, b the first one too).                                                *)
(***************************************************************************)
EXTENDS StreamRuntime, TLC

CONSTANTS a, b, c, t1, t2

ForkOwner       == [in1 |-> b, in2 |-> c]
ForkSource      == [out1 |-> a]
ForkSubscribers == [out1 |-> <<"in1", "in2">>]

MeshOwner       == [in1 |-> c, in2 |-> c]
MeshSource      == [out1 |-> a, out2 |-> b]
MeshSubscribers == [out1 |-> <<"in1", "in2">>, out2 |-> <<"in1">>]

\* Threads are interchangeable.
ThreadSymmetry == Permutations(Threads)
=============================================================================
