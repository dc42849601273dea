---------------------------- MODULE MCFlowRunner ----------------------------
(***************************************************************************)
(* Two clients of a FlowRunner and two flows for TLC: client c1 runs f1,   *)
(* the input file of which has two lines, client c2 runs f2, on a file     *)
(* that is empty.                                                          *)
(***************************************************************************)
EXTENDS FlowRunner, TLC

CONSTANTS c1, c2, f1, f2

EachItsOwn == f1 :> c1 @@ f2 :> c2
Lengths == f1 :> 2 @@ f2 :> 0
=============================================================================
