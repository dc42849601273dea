--------------------------- MODULE MCFlowPrograms ---------------------------
(***************************************************************************)
(* Small applications for model-checking FlowPrograms with TLC.            *)
(***************************************************************************)
EXTENDS FlowPrograms, TLC

CONSTANTS s1, s2, sp, mg, rs, rm, fi, un, k, t1, t2

\* The tuples a run can carry.
Alphabet ==
  [ids : {S \in SUBSET ({s1, s2} \X (1..3)) : Cardinality(S) \in 1..2}, seqNo : 0..3]

\* A hash function that sends every other tuple to the second port, and a filter
\* that drops the last tuple.
InTurn == <<1, 2, 1>>
AllButLast == {s1} \X {1, 2}

App(role, supply, malformed, broken) ==
  [role |-> role, supply |-> supply, hash |-> InTurn, keep |-> AllButLast,
   malformed |-> malformed, broken |-> broken]

\* Two: two files, an operator un with two input ports, and a sink.
TwoOwner       == [u1 |-> un, u2 |-> un, k1 |-> k]
TwoSource      == [s1o |-> s1, s2o |-> s2, uo |-> un]
TwoSubscribers == [s1o |-> <<"u1">>, s2o |-> <<"u2">>, uo |-> <<"k1">>]
TwoInputs      == s1 :> <<>> @@ s2 :> <<>> @@ un :> <<"u1", "u2">> @@ k :> <<"k1">>
TwoOutputs     == s1 :> <<"s1o">> @@ s2 :> <<"s2o">> @@ un :> <<"uo">> @@ k :> <<>>
TwoRole(r)     == s1 :> "FileSource" @@ s2 :> "FileSource" @@ un :> r @@ k :> "FileSink"
BarrierRole    == TwoRole("Barrier")
UnionRole      == TwoRole("Union")
MergeRole      == TwoRole("Merge")
Lengths(n, m)  == s1 :> n @@ s2 :> m @@ un :> 0 @@ k :> 0
ThreeAndTwo    == Lengths(3, 2)
TwoEach        == Lengths(2, 2)
OneEach        == Lengths(1, 1)
OneAndThree    == Lengths(1, 3)
SecondOfS1     == {<<s1, 2>>}

\* un is a barrier for two tuples of each file and a line that lacks a column; or
\* a union of two files, or of two of which the second cannot be opened.
JoiningApps ==
  <<App(BarrierRole, ThreeAndTwo, SecondOfS1, {}),
    App(UnionRole, OneEach, {}, {}),
    App(UnionRole, TwoEach, {}, {s2})>>

BarrierApp == <<App(BarrierRole, TwoEach, {}, {})>>
MergeApp   == <<App(MergeRole, OneAndThree, {}, {})>>

\* Parallel: a generator through a hash split and its merge, a round-robin split
\* and its merge, and an operator that filters or passes everything on.
ParallelOwner ==
  [sp1 |-> sp, mg1 |-> mg, mg2 |-> mg, rs1 |-> rs, rm1 |-> rm, rm2 |-> rm,
   fi1 |-> fi, k1 |-> k]
ParallelSource ==
  [s1o |-> s1, spo1 |-> sp, spo2 |-> sp, mgo |-> mg,
   rso1 |-> rs, rso2 |-> rs, rmo |-> rm, fio |-> fi]
ParallelSubscribers ==
  [s1o |-> <<"sp1">>, spo1 |-> <<"mg1">>, spo2 |-> <<"mg2">>, mgo |-> <<"rs1">>,
   rso1 |-> <<"rm1">>, rso2 |-> <<"rm2">>, rmo |-> <<"fi1">>, fio |-> <<"k1">>]
ParallelInputs ==
  s1 :> <<>> @@ sp :> <<"sp1">> @@ mg :> <<"mg1", "mg2">> @@ rs :> <<"rs1">>
  @@ rm :> <<"rm1", "rm2">> @@ fi :> <<"fi1">> @@ k :> <<"k1">>
ParallelOutputs ==
  s1 :> <<"s1o">> @@ sp :> <<"spo1", "spo2">> @@ mg :> <<"mgo">>
  @@ rs :> <<"rso1", "rso2">> @@ rm :> <<"rmo">> @@ fi :> <<"fio">> @@ k :> <<>>
ParallelRole(r) ==
  s1 :> "TupleGenerator" @@ sp :> "Split" @@ mg :> "Merge" @@ rs :> "RoundRobinSplit"
  @@ rm :> "RoundRobinMerge" @@ fi :> r @@ k :> "FileSink"
FilterRole == ParallelRole("Filter")
PassRole == ParallelRole("Pass")
Generated(n) == [o \in Operators |-> IF o = s1 THEN n ELSE 0]
One == Generated(1)
Three == Generated(3)
ParallelApps == <<App(FilterRole, Three, {}, {}), App(PassRole, One, {}, {})>>
=============================================================================
