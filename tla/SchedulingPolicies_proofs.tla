--------------------- MODULE SchedulingPolicies_proofs ---------------------
(***************************************************************************)
(* Proofs about SchedulingPolicies, for every flow, every number of threads *)
(* and every resolution of the clock: the policies that start from a ready *)
(* operator never leave one unattended, and whatever a policy finds is what *)
(* it is for; with MaxThroughput, in a flow without fan-in.                *)
(*                                                                         *)
(* A policy is a loop over the ready operators, and so a fold.  A fold of  *)
(* the community modules is a CHOOSE of a function on the subsets of the   *)
(* indexes: FoldExists shows that there is one, FoldPasses that the values *)
(* on 1..0, 1..1, ... are those that the loop passes through, and UpTo is  *)
(* the induction along them.  Each ...Passes lemma applies the two to the  *)
(* loop of a policy, and each ...Choice lemma is its loop invariant.       *)
(***************************************************************************)
EXTENDS SchedulingPolicies, SequenceTheorems, FiniteSetTheorems, TLAPS

\* Induction over numbers, with a set for the predicate.
Smaller == {ss \in Nat \X Nat : ss[1] < ss[2]}
LEMMA Smallest ==
  ASSUME NEW T, T \subseteq Nat, T # {}
  PROVE  \E m \in T : \A n \in T : m <= n
<1>1. IsWellFoundedOn(Smaller, Nat)
  BY NatLessThanWellFounded, Zenon DEF OpToRel, Smaller
<1>2. PICK m \in T : \A n \in T : ~(<<n, m>> \in Smaller)
  BY <1>1, WFMin, Zenon
<1>3. \A n \in T : ~(n < m)
  BY <1>2 DEF Smaller
<1> QED BY <1>3

LEMMA Induction ==
  ASSUME NEW S, 0 \in S, \A n \in Nat : n \in S => n + 1 \in S
  PROVE  Nat \subseteq S
<1> SUFFICES ASSUME Nat \ S # {} PROVE FALSE
  OBVIOUS
<1>1. PICK m \in Nat \ S : \A n \in Nat \ S : m <= n
  BY Smallest
<1>2. m # 0 /\ m - 1 \in Nat
  BY <1>1
<1>3. m - 1 \in S
  BY <1>1, <1>2
<1> QED BY <1>1, <1>2, <1>3

LEMMA UpTo ==
  ASSUME NEW n \in Nat, NEW S, 0 \in S, \A i \in 1..n : i - 1 \in S => i \in S
  PROVE  0..n \subseteq S
<1> DEFINE good == {i \in Nat : i <= n => i \in S}
<1>1. 0 \in good
  OBVIOUS
<1>2. ASSUME NEW k \in Nat, k \in good PROVE k + 1 \in good
  <2>1. k + 1 <= n => k + 1 \in 1..n /\ (k + 1) - 1 = k
    OBVIOUS
  <2> QED BY <1>2, <2>1
<1> HIDE DEF good
<1>3. Nat \subseteq good
  BY <1>1, <1>2, Induction
<1> QED BY <1>3 DEF good

\* The largest of the first numbers.
LEMMA MaxOf ==
  ASSUME NEW s, s \subseteq Nat, NEW m \in s, \A y \in s : y <= m
  PROVE  Max(s) = m
<1>1. Max(s) \in s /\ \A y \in s : Max(s) >= y
  BY DEF Max
<1>2. Max(s) \in Nat /\ m \in Nat /\ Max(s) >= m /\ Max(s) <= m
  BY <1>1
<1> QED BY <1>2

LEMMA MaxIn ==
  ASSUME NEW n \in Nat, NEW s, s \subseteq 1..n, s # {}
  PROVE  Max(s) \in s /\ \A y \in s : Max(s) >= y
<1> DEFINE over == {k \in Nat : \A y \in s : y <= k}
<1>1. n \in over
  OBVIOUS
<1>2. PICK m \in over : \A k \in over : m <= k
  BY <1>1, Smallest
<1>3. m \in s
  <2> SUFFICES ASSUME m \notin s PROVE FALSE
    OBVIOUS
  <2>1. m \in Nat /\ \A y \in s : y <= m /\ y \in Nat /\ 1 <= y
    BY <1>2
  <2>2. m # 0 /\ m - 1 \in Nat
    <3>1. PICK y \in s : TRUE
      OBVIOUS
    <3> QED BY <2>1, <3>1
  <2>3. \A y \in s : y <= m - 1
    BY <2>1, <2>2
  <2> QED BY <1>2, <2>2, <2>3
<1>4. \E x \in s : \A y \in s : x >= y
  BY <1>2, <1>3
<1> QED BY <1>4 DEF Max

\* A fold over the first n elements of v, as MapThenFoldSet defines it.
IsFold(h, step, base, n, v) ==
  \A s \in SUBSET (1..n) :
    h[s] = IF s = {} THEN base ELSE step[<<h[s \ {Max(s)}], v[Max(s)]>>]

LEMMA FoldExists ==
  ASSUME NEW T, NEW S, NEW step \in [T \X S -> T], NEW base \in T,
         NEW n \in Nat, NEW v \in [1..n -> S]
  PROVE  \E h \in [SUBSET (1..n) -> T] : IsFold(h, step, base, n, v)
<1> DEFINE good == {k \in Nat : k <= n => \E h \in [SUBSET (1..k) -> T] : IsFold(h, step, base, k, v)}
<1>1. 0 \in good
  <2>1. 1..0 = {}
    OBVIOUS
  <2>2. [s \in SUBSET (1..0) |-> base] \in [SUBSET (1..0) -> T]
    OBVIOUS
  <2>3. IsFold([s \in SUBSET (1..0) |-> base], step, base, 0, v)
    BY <2>1 DEF IsFold
  <2> QED BY <2>2, <2>3
<1>2. ASSUME NEW k \in Nat, k \in good, k + 1 <= n
      PROVE  \E h \in [SUBSET (1..(k + 1)) -> T] : IsFold(h, step, base, k + 1, v)
  <2>1. PICK h \in [SUBSET (1..k) -> T] : IsFold(h, step, base, k, v)
    <3>1. k <= n
      BY <1>2
    <3> QED BY <1>2, <3>1
  <2> DEFINE g == [s \in SUBSET (1..(k + 1)) |->
                     IF k + 1 \in s THEN step[<<h[s \ {k + 1}], v[k + 1]>>] ELSE h[s]]
  <2>2. \A s \in SUBSET (1..(k + 1)) : s \ {k + 1} \in SUBSET (1..k) /\ (k + 1 \notin s => s \in SUBSET (1..k))
    OBVIOUS
  <2>3. v[k + 1] \in S
    BY <1>2
  <2>4. g \in [SUBSET (1..(k + 1)) -> T]
    BY <2>2, <2>3
  <2>5. ASSUME NEW s \in SUBSET (1..(k + 1))
        PROVE  g[s] = IF s = {} THEN base ELSE step[<<g[s \ {Max(s)}], v[Max(s)]>>]
    <3>1. CASE k + 1 \in s
      <4>1. Max(s) = k + 1
        <5>1. s \subseteq Nat /\ \A y \in s : y <= k + 1
          OBVIOUS
        <5> QED BY <3>1, <5>1, MaxOf
      <4>2. g[s \ {k + 1}] = h[s \ {k + 1}]
        BY <2>2
      <4>3. g[s] = step[<<h[s \ {k + 1}], v[k + 1]>>]
        BY <3>1
      <4> HIDE DEF g
      <4> QED BY <3>1, <4>1, <4>2, <4>3
    <3>2. CASE k + 1 \notin s
      <4>1. s \in SUBSET (1..k) /\ s \ {Max(s)} \in SUBSET (1..k) /\ g[s] = h[s]
        BY <2>2, <3>2
      <4>2. g[s \ {Max(s)}] = h[s \ {Max(s)}]
        BY <4>1, <2>2, <3>2
      <4> HIDE DEF g
      <4> QED BY <2>1, <4>1, <4>2 DEF IsFold
    <3> QED BY <3>1, <3>2
  <2> HIDE DEF g
  <2>6. IsFold(g, step, base, k + 1, v)
    BY <2>5 DEF IsFold
  <2> QED BY <2>4, <2>6
<1>3. ASSUME NEW k \in Nat, k \in good PROVE k + 1 \in good
  <2>1. CASE k + 1 <= n
    <3>1. \E h \in [SUBSET (1..(k + 1)) -> T] : IsFold(h, step, base, k + 1, v)
      BY <1>2, <1>3, <2>1
    <3> QED BY <3>1
  <2>2. CASE ~(k + 1 <= n)
    BY <2>2
  <2> QED BY <2>1, <2>2
<1> HIDE DEF good
<1>4. n \in good
  BY <1>1, <1>3, Induction
<1>5. n \in Nat /\ n <= n
  OBVIOUS
<1> QED BY <1>4, <1>5 DEF good

\* The values r[0], r[1], ... that a fold over the first n elements of v passes
\* through.
Passes(r, T, step, base, n, v) ==
  /\ r \in [0..n -> T]
  /\ r[0] = base
  /\ \A i \in 1..n : r[i] = step[<<r[i - 1], v[i]>>]

\* What is known of the function that MapThenFoldSet chooses.
Iterates(g, T, step, base, n, v) ==
  /\ g[{}] = base
  /\ \A s \in SUBSET (1..n) :
       s # {} /\ g[s \ {Max(s)}] \in T => g[s] = step[<<g[s \ {Max(s)}], v[Max(s)]>>]

EndsAt(g, r, n) == g[1..n] = r[n]

LEMMA FoldPasses ==
  ASSUME NEW T, NEW S, NEW step \in [T \X S -> T], NEW base \in T,
         NEW n \in Nat, NEW v \in [1..n -> S], NEW g, Iterates(g, T, step, base, n, v)
  PROVE  \E r : Passes(r, T, step, base, n, v) /\ EndsAt(g, r, n)
<1> DEFINE good == {i \in Nat : g[1..i] \in T}
           r == [i \in 0..n |-> g[1..i]]
<1>1. ASSUME NEW i \in 1..n
      PROVE  /\ 1..i \in SUBSET (1..n) /\ 1..i # {} /\ i \in 0..n /\ i - 1 \in 0..n
             /\ (1..i) \ {i} = 1..(i - 1) /\ Max(1..i) = i
  <2>1. i \in Nat /\ 1 <= i /\ i <= n
    OBVIOUS
  <2>2. (1..i) \ {i} = 1..(i - 1)
    BY <2>1
  <2>3. 1..i \subseteq Nat /\ i \in 1..i /\ \A y \in 1..i : y <= i
    BY <2>1
  <2>4. Max(1..i) = i
    BY <2>3, MaxOf
  <2>5. 1..i \in SUBSET (1..n) /\ 1..i # {} /\ i \in 0..n /\ i - 1 \in 0..n
    BY <2>1
  <2> QED BY <2>2, <2>4, <2>5
<1>2. 1..0 = {}
  OBVIOUS
<1>3. 0 \in good
  BY <1>2 DEF Iterates
<1>4. ASSUME NEW i \in 1..n, g[1..(i - 1)] \in T
      PROVE  g[1..i] = step[<<g[1..(i - 1)], v[i]>>] /\ g[1..i] \in T
  BY <1>1, <1>4 DEF Iterates
<1>5. \A i \in 1..n : i - 1 \in good => i \in good
  <2> SUFFICES ASSUME NEW i \in 1..n, i - 1 \in good
               PROVE  i \in Nat /\ g[1..i] \in T
    OBVIOUS
  <2>1. g[1..(i - 1)] \in T
    OBVIOUS
  <2>2. g[1..i] \in T
    BY <1>4, <2>1, Zenon
  <2> QED BY <2>2
<1> HIDE DEF good
<1>6. 0..n \subseteq good
  BY <1>3, <1>5, UpTo
<1>7. r \in [0..n -> T] /\ 0 \in 0..n /\ n \in 0..n
  BY <1>6 DEF good
<1>8. ASSUME NEW i \in 1..n PROVE r[i] = step[<<r[i - 1], v[i]>>]
  <2>1. r[i] = g[1..i] /\ r[i - 1] = g[1..(i - 1)] /\ r[i - 1] \in T
    BY <1>1, <1>7
  <2> QED BY <1>4, <2>1
<1>9. r[0] = base /\ r[n] = g[1..n]
  BY <1>2, <1>7 DEF Iterates
<1> HIDE DEF r
<1> QED BY <1>7, <1>8, <1>9 DEF Passes, EndsAt

-----------------------------------------------------------------------------
\* The two folds over end times and time stamps.
Selections(opers) == [oper : opers, time : Int]
Anyone == Operators \cup {NoOperator}

RecencyStep ==
  [z \in Selections(Anyone) \X Operators |-> Sooner(z[1], z[2], endTime[z[2]])]

LEMMA RecencyPasses ==
  ASSUME TimesPassed, NEW v \in Seq(Operators), NEW base \in Selections(Anyone)
  PROVE  \E r : /\ Passes(r, Selections(Anyone), RecencyStep, base, Len(v), v)
                /\ FoldLeft(LAMBDA sel, o : Sooner(sel, o, endTime[o]), base, v) = r[Len(v)]
<1> DEFINE T == Selections(Anyone)
           Visit(sel, o) == Sooner(sel, o, endTime[o])
           step == RecencyStep
           n == Len(v)
           g == CHOOSE f : f = [s \in SUBSET (DOMAIN v) |->
                                 IF s = {} THEN base ELSE Visit(f[s \ {Max(s)}], v[Max(s)])]
<1>1. FoldLeft(LAMBDA sel, o : Sooner(sel, o, endTime[o]), base, v) = g[DOMAIN v]
  BY DEF FoldLeft, MapThenFoldSet
<1>2. n \in Nat /\ DOMAIN v = 1..n /\ v \in [1..n -> Operators]
  OBVIOUS
<1>3. \A sel \in T, o \in Operators : Visit(sel, o) \in T /\ step[<<sel, o>>] = Visit(sel, o)
  BY DEF Sooner, Selections, Anyone, TimesPassed, RecencyStep
<1>4. step \in [T \X Operators -> T] /\ base \in T
  BY <1>3 DEF RecencyStep
<1> HIDE DEF T, Visit, step, n
<1>5. PICK h \in [SUBSET (1..n) -> T] : IsFold(h, step, base, n, v)
  BY <1>2, <1>4, FoldExists
<1>6. \A s \in SUBSET (1..n) : s # {} => s \ {Max(s)} \in SUBSET (1..n) /\ Max(s) \in 1..n
  BY <1>2, MaxIn
<1>7. h = [s \in SUBSET (DOMAIN v) |->
             IF s = {} THEN base ELSE Visit(h[s \ {Max(s)}], v[Max(s)])]
  BY <1>2, <1>3, <1>5, <1>6 DEF IsFold
<1>8. g = [s \in SUBSET (DOMAIN v) |->
             IF s = {} THEN base ELSE Visit(g[s \ {Max(s)}], v[Max(s)])]
  BY <1>7
<1> HIDE DEF g
<1>9. Iterates(g, T, step, base, n, v)
  BY <1>2, <1>3, <1>6, <1>8 DEF Iterates
<1>10. \E r : Passes(r, T, step, base, n, v) /\ EndsAt(g, r, n)
  BY <1>2, <1>4, <1>9, FoldPasses
<1> QED BY <1>1, <1>2, <1>10 DEF EndsAt, n, T, step

\* The operator found was not seen to run later than any other, but for less than
\* a microsecond.
LEMMA RecencyChoice ==
  ASSUME TimesPassed, NEW v \in Seq(Operators), NEW r,
         Passes(r, Selections(Anyone), RecencyStep, [oper |-> NoOperator, time |-> clock], Len(v), v),
         NEW o \in Operators, r[Len(v)].oper = o
  PROVE  \A i \in 1..Len(v) : endTime[o] - endTime[v[i]] < Micro
<1> DEFINE n == Len(v)
           good == {i \in 0..n :
                      /\ r[i].oper # NoOperator => r[i].time = endTime[r[i].oper]
                      /\ \A j \in 1..i : r[i].time - Micro < endTime[v[j]]}
<1>1. n \in Nat /\ DOMAIN v = 1..n /\ v \in [1..n -> Operators] /\ Micro \in Nat /\ 0 < Micro
      /\ NoOperator \notin Operators
  BY PoliciesAssumption
<1>2. r \in [0..n -> Selections(Anyone)] /\ r[0] = [oper |-> NoOperator, time |-> clock]
  BY DEF Passes
<1>3. ASSUME NEW i \in 1..n
      PROVE  /\ i - 1 \in 0..n /\ i \in 0..n
             /\ r[i - 1].time \in Int /\ endTime[v[i]] \in Int /\ v[i] \in Operators
             /\ r[i] = Sooner(r[i - 1], v[i], endTime[v[i]])
  <2>1. i - 1 \in 0..n /\ i \in 0..n /\ v[i] \in Operators
    BY <1>1
  <2>2. r[i - 1] \in Selections(Anyone) /\ r[i - 1].time \in Int
    BY <1>2, <2>1 DEF Selections
  <2>3. r[i] = RecencyStep[<<r[i - 1], v[i]>>]
    BY DEF Passes
  <2> QED BY <2>1, <2>2, <2>3 DEF RecencyStep, TimesPassed
<1>4. 0 \in good
  BY <1>1, <1>2
<1>5. ASSUME NEW i \in 1..n, i - 1 \in good PROVE i \in good
  <2>1. CASE Earlier(endTime[v[i]], r[i - 1].time)
    <3>1. r[i] = [oper |-> v[i], time |-> endTime[v[i]]]
      BY <1>3, <2>1 DEF Sooner
    <3>2. r[i].oper = v[i] /\ r[i].time = endTime[v[i]] /\ r[i].time <= r[i - 1].time - Micro
      BY <2>1, <3>1 DEF Earlier
    <3>3. ASSUME NEW j \in 1..i PROVE r[i].time - Micro < endTime[v[j]]
      <4>1. CASE j = i
        BY <1>1, <1>3, <3>2, <4>1
      <4>2. CASE j # i
        <5>1. j \in 1..(i - 1) /\ j \in 1..n
          BY <1>1, <4>2
        <5>2. r[i - 1].time - Micro < endTime[v[j]] /\ endTime[v[j]] \in Int
          BY <1>5, <1>3, <5>1
        <5> QED BY <1>1, <1>3, <3>2, <5>2
      <4> QED BY <4>1, <4>2
    <3> QED BY <1>3, <3>2, <3>3
  <2>2. CASE ~Earlier(endTime[v[i]], r[i - 1].time)
    <3>1. r[i] = r[i - 1]
      BY <1>3, <2>2 DEF Sooner
    <3>2. ~(endTime[v[i]] <= r[i - 1].time - Micro)
      BY <2>2 DEF Earlier
    <3>3. ASSUME NEW j \in 1..i PROVE r[i].time - Micro < endTime[v[j]]
      <4>1. CASE j = i
        BY <1>1, <1>3, <3>1, <3>2, <4>1
      <4>2. CASE j # i
        <5>1. j \in 1..(i - 1)
          BY <1>1, <4>2
        <5> QED BY <1>5, <3>1, <5>1
      <4> QED BY <4>1, <4>2
    <3>4. r[i].oper # NoOperator => r[i].time = endTime[r[i].oper]
      BY <1>5, <3>1
    <3> QED BY <1>3, <3>3, <3>4
  <2> QED BY <2>1, <2>2
<1> HIDE DEF good
<1>6. n \in good
  <2>1. \A i \in 1..n : i - 1 \in good => i \in good
    BY <1>5
  <2>2. n \in Nat
    BY <1>1
  <2>3. 0..n \subseteq good
    BY <1>4, <2>1, <2>2, UpTo
  <2> QED BY <2>2, <2>3
<1>7. r[n].time = endTime[o] /\ \A j \in 1..n : r[n].time - Micro < endTime[v[j]]
  BY <1>1, <1>6 DEF good
<1>8. endTime[o] \in Int /\ \A j \in 1..n : endTime[v[j]] \in Int
  BY <1>1 DEF TimesPassed
<1> QED BY <1>1, <1>7, <1>8

\* If none is found, every operator visited ran less than a microsecond before the
\* search.
LEMMA RecencyOfNone ==
  ASSUME TimesPassed, NEW v \in Seq(Operators), NEW r,
         Passes(r, Selections(Anyone), RecencyStep, [oper |-> NoOperator, time |-> clock], Len(v), v),
         r[Len(v)].oper = NoOperator
  PROVE  \A i \in 1..Len(v) : clock - endTime[v[i]] < Micro
<1> DEFINE n == Len(v)
           good == {i \in 0..n :
                      r[i].oper = NoOperator =>
                        r[i].time = clock /\ \A j \in 1..i : clock - endTime[v[j]] < Micro}
<1>1. n \in Nat /\ v \in [1..n -> Operators] /\ Micro \in Nat /\ NoOperator \notin Operators
  BY PoliciesAssumption
<1>2. r[0] = [oper |-> NoOperator, time |-> clock]
  BY DEF Passes
<1>3. 0 \in good
  BY <1>1, <1>2
<1>4. ASSUME NEW i \in 1..n, i - 1 \in good PROVE i \in good
  <2> SUFFICES ASSUME r[i].oper = NoOperator
               PROVE  r[i].time = clock /\ \A j \in 1..i : clock - endTime[v[j]] < Micro
    BY <1>1
  <2>1. v[i] \in Operators /\ i - 1 \in 0..n /\ i - 1 \in Nat
    BY <1>1
  <2>2. r[i - 1] \in Selections(Anyone) /\ r[i] = RecencyStep[<<r[i - 1], v[i]>>]
    BY <2>1 DEF Passes
  <2>3. r[i] = Sooner(r[i - 1], v[i], endTime[v[i]])
    BY <2>1, <2>2 DEF RecencyStep
  <2>4. ~Earlier(endTime[v[i]], r[i - 1].time) /\ r[i] = r[i - 1]
    BY <1>1, <2>1, <2>3 DEF Sooner
  <2>5. r[i - 1].time = clock /\ \A j \in 1..(i - 1) : clock - endTime[v[j]] < Micro
    BY <1>4, <2>4
  <2>6. clock - endTime[v[i]] < Micro
    BY <1>1, <2>1, <2>4, <2>5 DEF Earlier, TimesPassed
  <2>7. ASSUME NEW j \in 1..i, j # i PROVE j \in 1..(i - 1)
    BY <1>1, <2>7
  <2> QED BY <2>4, <2>5, <2>6, <2>7
<1> HIDE DEF good
<1>5. n \in good
  <2>1. 0..n \subseteq good
    BY <1>1, <1>3, <1>4, UpTo
  <2> QED BY <1>1, <2>1
<1> QED BY <1>5 DEF good

-----------------------------------------------------------------------------
\* The least of some numbers.
LEMMA LeastOf ==
  ASSUME NEW s, s \subseteq Nat, s # {}
  PROVE  Min(s) \in s /\ \A y \in s : Min(s) <= y
BY Smallest DEF Min

TupleStep(o) ==
  [z \in Selections(Operators) \X InPorts |->
     IF Count(z[2]) = 0 THEN z[1] ELSE Sooner(z[1], o, stamps[z[2]][1])]

\* The first stamp of a port with tuples.
LEMMA FirstStamp ==
  ASSUME TimesPassed, TuplesStamped, NEW p \in InPorts, Count(p) # 0
  PROVE  stamps[p][1] \in Nat /\ stamps[p][1] <= clock
<1>1. queue[p] \in Seq(Tuples) /\ Count(p) \in Nat /\ 1 \in 1..Count(p)
  BY DEF TuplesStamped, Count
<1>2. stamps[p] \in Seq(Nat) /\ Len(stamps[p]) = Count(p) /\ stamps[p][1] <= Latest
  BY <1>1 DEF TuplesStamped, Stamps
<1>3. stamps[p][1] \in Nat
  BY <1>1, <1>2
<1> QED BY <1>2, <1>3 DEF Stamp, Latest, TimesPassed

LEMMA TuplePasses ==
  ASSUME TimesPassed, TuplesStamped, NEW o \in Operators, NEW sel \in Selections(Operators)
  PROVE  \E r : /\ Passes(r, Selections(Operators), TupleStep(o), sel, Len(Inputs[o]), Inputs[o])
                /\ VisitTuples(sel, o) = r[Len(Inputs[o])]
<1> DEFINE T == Selections(Operators)
           Visit(s, p) == IF Count(p) = 0 THEN s ELSE Sooner(s, o, stamps[p][1])
           step == TupleStep(o)
           v == Inputs[o]
           n == Len(v)
           g == CHOOSE f : f = [s \in SUBSET (DOMAIN v) |->
                                 IF s = {} THEN sel ELSE Visit(f[s \ {Max(s)}], v[Max(s)])]
<1>1. VisitTuples(sel, o) = g[DOMAIN v]
  BY DEF VisitTuples, FoldLeft, MapThenFoldSet
<1>2. n \in Nat /\ DOMAIN v = 1..n /\ v \in [1..n -> InPorts]
  BY PoliciesAssumption
<1>3. ASSUME NEW s \in T, NEW p \in InPorts
      PROVE  Visit(s, p) \in T /\ step[<<s, p>>] = Visit(s, p)
  <2>1. Visit(s, p) \in T
    <3>1. CASE Count(p) = 0
      BY <3>1
    <3>2. CASE Count(p) # 0
      BY <3>2, FirstStamp DEF Sooner, Selections
    <3> QED BY <3>1, <3>2
  <2> QED BY <2>1 DEF TupleStep
<1>4. step \in [T \X InPorts -> T] /\ sel \in T
  BY <1>3 DEF TupleStep
<1> HIDE DEF T, Visit, step, n, v
<1>5. PICK h \in [SUBSET (1..n) -> T] : IsFold(h, step, sel, n, v)
  BY <1>2, <1>4, FoldExists
<1>6. \A s \in SUBSET (1..n) : s # {} => s \ {Max(s)} \in SUBSET (1..n) /\ Max(s) \in 1..n
  BY <1>2, MaxIn
<1>7. h = [s \in SUBSET (DOMAIN v) |->
             IF s = {} THEN sel ELSE Visit(h[s \ {Max(s)}], v[Max(s)])]
  BY <1>2, <1>3, <1>5, <1>6 DEF IsFold
<1>8. g = [s \in SUBSET (DOMAIN v) |->
             IF s = {} THEN sel ELSE Visit(g[s \ {Max(s)}], v[Max(s)])]
  BY <1>7
<1> HIDE DEF g
<1>9. Iterates(g, T, step, sel, n, v)
  BY <1>2, <1>3, <1>6, <1>8 DEF Iterates
<1>10. \E r : Passes(r, T, step, sel, n, v) /\ EndsAt(g, r, n)
  BY <1>2, <1>4, <1>9, FoldPasses
<1> QED BY <1>1, <1>2, <1>10 DEF EndsAt, n, T, step, v

\* What the selection is after the tuples of o were visited.
Visited(sel, o, last) ==
  /\ last \in Selections(Operators) /\ last.time <= sel.time
  /\ \/ last = sel
     \/ /\ last.oper = o
        /\ \E p \in InPortsOf(o) : Count(p) # 0 /\ last.time = stamps[p][1]
  /\ \A p \in InPortsOf(o) : Count(p) # 0 => last.time - Micro < stamps[p][1]

LEMMA TuplesVisited ==
  ASSUME TimesPassed, TuplesStamped, NEW o \in Operators, NEW sel \in Selections(Operators)
  PROVE  Visited(sel, o, VisitTuples(sel, o))
<1> DEFINE v == Inputs[o]
           n == Len(v)
<1>1. PICK r : /\ Passes(r, Selections(Operators), TupleStep(o), sel, n, v)
               /\ VisitTuples(sel, o) = r[n]
  BY TuplePasses
<1>2. n \in Nat /\ v \in [1..n -> InPorts] /\ Micro \in Nat /\ 0 < Micro
  BY PoliciesAssumption
<1>3. \A p \in InPortsOf(o) : \E i \in 1..n : v[i] = p
  BY <1>2, PoliciesAssumption DEF Range
<1>4. \A i \in 1..n : v[i] \in InPortsOf(o)
  BY <1>2, PoliciesAssumption DEF Range
<1> DEFINE Before(i) ==
             /\ r[i].time <= sel.time
             /\ \/ r[i] = sel
                \/ /\ r[i].oper = o
                   /\ \E p \in InPortsOf(o) : Count(p) # 0 /\ r[i].time = stamps[p][1]
             /\ \A j \in 1..i : Count(v[j]) # 0 => r[i].time - Micro < stamps[v[j]][1]
           good == {i \in 0..n : Before(i)}
<1>5. \A i \in 0..n : r[i] \in Selections(Operators) /\ r[i].time \in Int
  BY <1>1, <1>2 DEF Passes, Selections
<1>6. 0 \in good
  <2>1. r[0] = sel /\ sel.time \in Int
    BY <1>1 DEF Passes, Selections
  <2> QED BY <1>2, <2>1
<1>7. ASSUME NEW i \in 1..n, Before(i - 1) PROVE Before(i)
  <2>1. i - 1 \in 0..n /\ i \in 0..n /\ v[i] \in InPorts /\ v[i] \in InPortsOf(o)
    BY <1>2, <1>4
  <2>2. r[i - 1].time \in Int /\ r[i - 1] \in Selections(Operators) /\ sel.time \in Int
    BY <1>5, <2>1 DEF Selections
  <2>3. r[i] = IF Count(v[i]) = 0 THEN r[i - 1] ELSE Sooner(r[i - 1], o, stamps[v[i]][1])
    BY <1>1, <2>1, <2>2 DEF Passes, TupleStep
  <2>4. CASE Count(v[i]) # 0 /\ Earlier(stamps[v[i]][1], r[i - 1].time)
    <3>1. r[i] = [oper |-> o, time |-> stamps[v[i]][1]]
      BY <2>3, <2>4 DEF Sooner
    <3>2. stamps[v[i]][1] \in Nat
      BY <2>1, <2>4, FirstStamp
    <3>3. /\ r[i].oper = o /\ r[i].time = stamps[v[i]][1] /\ r[i].time \in Int
          /\ r[i].time <= r[i - 1].time - Micro
      BY <2>4, <3>1, <3>2 DEF Earlier
    <3>4. ASSUME NEW j \in 1..i, Count(v[j]) # 0 PROVE r[i].time - Micro < stamps[v[j]][1]
      <4>1. CASE j = i
        BY <1>2, <3>3, <4>1
      <4>2. CASE j # i
        <5>1. j \in 1..(i - 1) /\ v[j] \in InPorts
          BY <1>2, <4>2
        <5>2. r[i - 1].time - Micro < stamps[v[j]][1]
          BY <1>7, <3>4, <5>1
        <5>3. stamps[v[j]][1] \in Nat
          BY <3>4, <5>1, FirstStamp
        <5> QED BY <1>2, <2>2, <3>3, <5>2, <5>3
      <4> QED BY <4>1, <4>2
    <3>5. r[i].time <= sel.time
      BY <1>2, <1>7, <2>2, <3>3
    <3>6. r[i].oper = o /\ \E p \in InPortsOf(o) : Count(p) # 0 /\ r[i].time = stamps[p][1]
      BY <2>1, <2>4, <3>3
    <3> QED BY <3>4, <3>5, <3>6
  <2>5. CASE ~(Count(v[i]) # 0 /\ Earlier(stamps[v[i]][1], r[i - 1].time))
    <3>1. r[i] = r[i - 1]
      BY <2>3, <2>5 DEF Sooner
    <3>2. ASSUME NEW j \in 1..i, Count(v[j]) # 0 PROVE r[i].time - Micro < stamps[v[j]][1]
      <4>1. CASE j = i
        <5>1. stamps[v[i]][1] \in Nat
          BY <2>1, <3>2, <4>1, FirstStamp
        <5> QED BY <1>2, <2>2, <2>5, <3>1, <3>2, <4>1, <5>1 DEF Earlier
      <4>2. CASE j # i
        <5>1. j \in 1..(i - 1)
          BY <1>2, <4>2
        <5> QED BY <1>7, <3>1, <3>2, <5>1
      <4> QED BY <4>1, <4>2
    <3> QED BY <1>7, <3>1, <3>2
  <2> QED BY <2>4, <2>5
<1> HIDE DEF Before
<1>8. n \in good
  <2>1. \A i \in 1..n : i - 1 \in good => i \in good
    BY <1>7
  <2> HIDE DEF good, n
  <2>3. 0..n \subseteq good
    BY <1>2, <1>6, <2>1, UpTo
  <2> QED BY <1>2, <2>3
<1>9. Before(n) /\ r[n] \in Selections(Operators)
  BY <1>2, <1>5, <1>8
<1> QED BY <1>1, <1>3, <1>9 DEF Before, Visited

LatencyStep ==
  [z \in Selections(Operators) \X Operators |-> VisitForLatency(z[1], z[2])]

LEMMA SourceHasNoPorts ==
  ASSUME NEW o \in Operators
  PROVE  Inputs[o] = <<>> <=> InPortsOf(o) = {}
<1>1. Inputs[o] \in Seq(InPorts) /\ InPortsOf(o) = {Inputs[o][i] : i \in DOMAIN Inputs[o]}
  BY PoliciesAssumption DEF Range
<1>2. DOMAIN Inputs[o] = 1..Len(Inputs[o]) /\ Len(Inputs[o]) \in Nat
  BY <1>1
<1>3. Inputs[o] = <<>> <=> Len(Inputs[o]) = 0
  BY <1>1
<1>4. CASE Len(Inputs[o]) = 0
  <2>1. DOMAIN Inputs[o] = {}
    BY <1>2, <1>4
  <2> QED BY <1>1, <1>3, <1>4, <2>1
<1>5. CASE Len(Inputs[o]) # 0
  <2>1. 1 \in DOMAIN Inputs[o]
    BY <1>2, <1>5
  <2> QED BY <1>1, <1>3, <1>5, <2>1
<1> QED BY <1>4, <1>5

LEMMA LatencyType ==
  ASSUME TimesPassed, TuplesStamped, NEW o \in Operators, NEW sel \in Selections(Operators)
  PROVE  VisitForLatency(sel, o) \in Selections(Operators)
<1>1. CASE Inputs[o] = <<>>
  BY <1>1 DEF VisitForLatency, Sooner, Selections, TimesPassed
<1>2. CASE Inputs[o] # <<>>
  BY <1>2, TuplesVisited DEF VisitForLatency, Visited
<1> QED BY <1>1, <1>2

LEMMA LatencyPasses ==
  ASSUME TimesPassed, TuplesStamped, NEW v \in Seq(Operators), NEW base \in Selections(Operators)
  PROVE  \E r : /\ Passes(r, Selections(Operators), LatencyStep, base, Len(v), v)
                /\ FoldLeft(VisitForLatency, base, v) = r[Len(v)]
<1> DEFINE T == Selections(Operators)
           step == LatencyStep
           n == Len(v)
           g == CHOOSE f : f = [s \in SUBSET (DOMAIN v) |->
                                 IF s = {} THEN base
                                 ELSE VisitForLatency(f[s \ {Max(s)}], v[Max(s)])]
<1>1. FoldLeft(VisitForLatency, base, v) = g[DOMAIN v]
  BY DEF FoldLeft, MapThenFoldSet
<1>2. n \in Nat /\ DOMAIN v = 1..n /\ v \in [1..n -> Operators]
  OBVIOUS
<1>3. \A sel \in T, o \in Operators :
        VisitForLatency(sel, o) \in T /\ step[<<sel, o>>] = VisitForLatency(sel, o)
  BY LatencyType DEF LatencyStep
<1>4. step \in [T \X Operators -> T] /\ base \in T
  BY <1>3 DEF LatencyStep
<1> HIDE DEF T, step, n
<1>5. PICK h \in [SUBSET (1..n) -> T] : IsFold(h, step, base, n, v)
  BY <1>2, <1>4, FoldExists
<1>6. \A s \in SUBSET (1..n) : s # {} => s \ {Max(s)} \in SUBSET (1..n) /\ Max(s) \in 1..n
  BY <1>2, MaxIn
<1>7. h = [s \in SUBSET (DOMAIN v) |->
             IF s = {} THEN base ELSE VisitForLatency(h[s \ {Max(s)}], v[Max(s)])]
  BY <1>2, <1>3, <1>5, <1>6 DEF IsFold
<1>8. g = [s \in SUBSET (DOMAIN v) |->
             IF s = {} THEN base ELSE VisitForLatency(g[s \ {Max(s)}], v[Max(s)])]
  BY <1>7
<1> HIDE DEF g
<1>9. Iterates(g, T, step, base, n, v)
  BY <1>2, <1>3, <1>6, <1>8 DEF Iterates
<1>10. \E r : Passes(r, T, step, base, n, v) /\ EndsAt(g, r, n)
  BY <1>2, <1>4, <1>9, FoldPasses
<1> QED BY <1>1, <1>2, <1>10 DEF EndsAt, n, T, step

\* What MinLatency judges an operator by.
LEMMA KeyIs ==
  ASSUME TimesPassed, TuplesStamped, policy = "MinLatency", NEW o \in Operators
  PROVE  /\ Key(o) \in Nat /\ Key(o) <= clock
         /\ InPortsOf(o) = {} => Key(o) = endTime[o]
         /\ InPortsOf(o) # {} =>
              /\ \A p \in InPortsOf(o) : Count(p) # 0 => Key(o) <= stamps[p][1]
              /\ \/ Key(o) = clock
                 \/ \E p \in InPortsOf(o) : Count(p) # 0 /\ Key(o) = stamps[p][1]
<1>1. CASE InPortsOf(o) = {}
  BY <1>1 DEF Key, TimesPassed
<1>2. CASE InPortsOf(o) # {}
  <2> DEFINE firsts == {stamps[p][1] : p \in {i \in InPortsOf(o) : Count(i) # 0}}
  <2>1. \A p \in InPortsOf(o) : p \in InPorts
    BY DEF InPortsOf
  <2>2. firsts \subseteq Nat /\ clock \in Nat
    BY <2>1, FirstStamp DEF TimesPassed
  <2>3. Key(o) = Min({clock} \cup firsts)
    BY <1>2 DEF Key
  <2>4. {clock} \cup firsts \subseteq Nat /\ {clock} \cup firsts # {}
    BY <2>2
  <2> HIDE DEF firsts
  <2>5. Key(o) \in {clock} \cup firsts /\ \A y \in {clock} \cup firsts : Key(o) <= y
    BY <2>3, <2>4, LeastOf
  <2>6. Key(o) \in Nat /\ Key(o) <= clock
    BY <2>2, <2>5
  <2>7. \A p \in InPortsOf(o) : Count(p) # 0 => stamps[p][1] \in firsts
    BY DEF firsts
  <2>8. Key(o) = clock \/ \E p \in InPortsOf(o) : Count(p) # 0 /\ Key(o) = stamps[p][1]
    BY <2>5 DEF firsts
  <2> QED BY <1>2, <2>5, <2>6, <2>7, <2>8
<1> QED BY <1>1, <1>2

\* A visit moves the selection to o, or leaves it where it is; o is not more than
\* a microsecond before it then.
LEMMA LatencyVisit ==
  ASSUME TimesPassed, TuplesStamped, policy = "MinLatency", NEW o \in Operators,
         NEW sel \in Selections(Operators), sel.time <= clock, NEW last,
         last = VisitForLatency(sel, o)
  PROVE  /\ last \in Selections(Operators) /\ last.time <= sel.time
         /\ last = sel \/ (last.oper = o /\ Key(o) <= last.time)
         /\ last.time - Micro < Key(o)
<1>1. sel.time \in Int /\ clock \in Nat /\ Micro \in Nat /\ 0 < Micro
  BY PoliciesAssumption DEF Selections, TimesPassed
<1>2. Key(o) \in Nat /\ Key(o) <= clock
  BY KeyIs
<1>3. CASE Inputs[o] = <<>>
  <2>1. Key(o) = endTime[o]
    BY <1>3, SourceHasNoPorts, KeyIs
  <2>2. last = Sooner(sel, o, Key(o))
    BY <1>3, <2>1 DEF VisitForLatency
  <2>3. CASE Earlier(Key(o), sel.time)
    <3>1. last = [oper |-> o, time |-> Key(o)]
      BY <2>2, <2>3 DEF Sooner
    <3>2. last \in Selections(Operators) /\ last.oper = o /\ last.time = Key(o)
      BY <1>2, <3>1 DEF Selections
    <3> QED BY <1>1, <1>2, <2>3, <3>2 DEF Earlier
  <2>4. CASE ~Earlier(Key(o), sel.time)
    <3>1. last = sel
      BY <2>2, <2>4 DEF Sooner
    <3> QED BY <1>1, <1>2, <2>4, <3>1 DEF Earlier
  <2> QED BY <2>3, <2>4
<1>4. CASE Inputs[o] # <<>>
  <2>1. last = VisitTuples(sel, o)
    BY <1>4 DEF VisitForLatency
  <2>2. Visited(sel, o, last)
    BY <2>1, TuplesVisited
  <2>3. last \in Selections(Operators) /\ last.time <= sel.time /\ last.time \in Int
    BY <2>2 DEF Visited, Selections
  <2>4. InPortsOf(o) # {}
    BY <1>4, SourceHasNoPorts
  <2>5. last = sel \/ (last.oper = o /\ Key(o) <= last.time)
    BY <2>2, <2>4, KeyIs DEF Visited
  <2>6. last.time - Micro < Key(o)
    <3>1. CASE Key(o) = clock
      BY <1>1, <2>3, <3>1
    <3>2. CASE \E p \in InPortsOf(o) : Count(p) # 0 /\ Key(o) = stamps[p][1]
      BY <2>2, <3>2 DEF Visited
    <3> QED BY <2>4, <3>1, <3>2, KeyIs
  <2> QED BY <2>3, <2>5, <2>6
<1> QED BY <1>3, <1>4

LEMMA LatencyChoice ==
  ASSUME TimesPassed, TuplesStamped, policy = "MinLatency", NEW v \in Seq(Operators), NEW r,
         NEW base \in Selections(Operators), base.time = clock,
         Passes(r, Selections(Operators), LatencyStep, base, Len(v), v),
         NEW o \in Operators, r[Len(v)].oper = o
  PROVE  \A i \in 1..Len(v) : Key(o) - Key(v[i]) < Micro
<1> DEFINE n == Len(v)
           Before(i) ==
             /\ r[i].time <= clock
             /\ Key(r[i].oper) <= r[i].time
             /\ \A j \in 1..i : r[i].time - Micro < Key(v[j])
           good == {i \in 0..n : Before(i)}
<1>1. n \in Nat /\ v \in [1..n -> Operators] /\ Micro \in Nat /\ 0 < Micro /\ clock \in Nat
  BY PoliciesAssumption DEF TimesPassed
<1>2. \A i \in 0..n : r[i] \in Selections(Operators) /\ r[i].time \in Int /\ r[i].oper \in Operators
  BY DEF Passes, Selections
<1>3. 0 \in good
  <2>1. r[0] = base /\ r[0].oper \in Operators /\ r[0].time = clock
    BY <1>1, <1>2 DEF Passes
  <2>2. Key(r[0].oper) <= clock
    BY <2>1, KeyIs
  <2> QED BY <1>1, <2>1, <2>2
<1>4. ASSUME NEW i \in 1..n, Before(i - 1) PROVE Before(i)
  <2>1. i - 1 \in 0..n /\ i \in 0..n /\ v[i] \in Operators
    BY <1>1
  <2>2. r[i - 1] \in Selections(Operators) /\ r[i - 1].time \in Int /\ r[i].time \in Int
    BY <1>2, <2>1
  <2>3. r[i] = VisitForLatency(r[i - 1], v[i])
    BY <2>1, <2>2 DEF Passes, LatencyStep
  <2>4. /\ r[i].time <= r[i - 1].time
        /\ r[i] = r[i - 1] \/ (r[i].oper = v[i] /\ Key(v[i]) <= r[i].time)
        /\ r[i].time - Micro < Key(v[i])
    BY <1>4, <2>1, <2>2, <2>3, LatencyVisit
  <2>5. ASSUME NEW j \in 1..i PROVE r[i].time - Micro < Key(v[j])
    <3>1. CASE j = i
      BY <2>4, <3>1
    <3>2. CASE j # i
      <4>1. j \in 1..(i - 1) /\ v[j] \in Operators
        BY <1>1, <3>2
      <4>2. r[i - 1].time - Micro < Key(v[j])
        BY <1>4, <4>1
      <4>3. Key(v[j]) \in Nat
        BY <4>1, KeyIs
      <4> QED BY <1>1, <2>2, <2>4, <4>2, <4>3
    <3> QED BY <3>1, <3>2
  <2>6. Key(r[i].oper) <= r[i].time
    BY <1>4, <2>4
  <2>7. r[i].time <= clock
    BY <1>1, <1>4, <2>2, <2>4
  <2> QED BY <2>5, <2>6, <2>7
<1> HIDE DEF Before
<1>5. n \in good
  <2>1. \A i \in 1..n : i - 1 \in good => i \in good
    BY <1>4
  <2> HIDE DEF good, n
  <2>3. 0..n \subseteq good
    BY <1>1, <1>3, <2>1, UpTo
  <2> QED BY <1>1, <2>3
<1>6. Before(n) /\ r[n].time \in Int
  BY <1>1, <1>2, <1>5
<1>7. Key(o) <= r[n].time /\ \A j \in 1..n : r[n].time - Micro < Key(v[j])
  BY <1>6 DEF Before
<1>8. Key(o) \in Nat /\ \A j \in 1..n : Key(v[j]) \in Nat
  BY <1>1, KeyIs
<1> QED BY <1>1, <1>6, <1>7, <1>8

-----------------------------------------------------------------------------
Lengths == [oper : Operators, length : Int, found : BOOLEAN]
LengthStep == [z \in Lengths \X Operators |-> VisitForLength(z[1], z[2])]

\* An operator with input ports has a longest queue.
LEMMA LongestIs ==
  ASSUME TuplesStamped, NEW o \in Operators, InPortsOf(o) # {}
  PROVE  /\ Longest(o) \in Nat
         /\ \E p \in InPortsOf(o) : Longest(o) = Count(p)
         /\ \A p \in InPortsOf(o) : Count(p) \in Nat /\ Count(p) <= Longest(o)
<1> DEFINE v == Inputs[o]
           n == Len(v)
           Best(i, m) == m \in 1..i /\ \A j \in 1..i : Count(v[j]) <= Count(v[m])
           good == {i \in 0..n : i = 0 \/ \E m \in 1..i : Best(i, m)}
<1>1. n \in Nat /\ v \in [1..n -> InPorts] /\ InPortsOf(o) = {v[i] : i \in 1..n} /\ n # 0
  <2>1. v \in Seq(InPorts) /\ InPortsOf(o) = {v[i] : i \in DOMAIN v} /\ v # <<>>
    BY PoliciesAssumption, SourceHasNoPorts DEF Range
  <2> QED BY <2>1
<1>2. \A i \in 1..n : Count(v[i]) \in Nat
  BY <1>1 DEF Count, TuplesStamped
<1>3. 0 \in good
  BY <1>1
<1>4. ASSUME NEW i \in 1..n, i - 1 \in good PROVE i \in good
  <2>1. CASE i - 1 = 0
    <3>1. i = 1 /\ 1 \in 1..n
      BY <1>1, <2>1
    <3>2. Best(1, 1)
      BY <1>2, <3>1
    <3> QED BY <1>1, <3>1, <3>2
  <2>2. CASE i - 1 # 0
    <3>1. PICK m \in 1..(i - 1) : Best(i - 1, m)
      BY <1>4, <2>2
    <3>2. m \in 1..n /\ i \in 1..i /\ m \in 1..i /\ i \in 0..n
      BY <1>1
    <3>3. \A j \in 1..i : j = i \/ j \in 1..(i - 1)
      BY <1>1
    <3>4. CASE Count(v[i]) <= Count(v[m])
      BY <3>1, <3>2, <3>3, <3>4
    <3>5. CASE ~(Count(v[i]) <= Count(v[m]))
      <4>1. \A j \in 1..i : Count(v[j]) <= Count(v[i])
        <5>1. \A j \in 1..(i - 1) : j \in 1..n
          BY <1>1
        <5> QED BY <1>2, <3>1, <3>2, <3>3, <3>5, <5>1
      <4> QED BY <3>2, <4>1
    <3> QED BY <3>4, <3>5
  <2> QED BY <2>1, <2>2
<1>5. PICK m \in 1..n : Best(n, m)
  <2>1. \A i \in 1..n : i - 1 \in good => i \in good
    BY <1>4
  <2> HIDE DEF good, n
  <2>2. 0..n \subseteq good
    BY <1>1, <1>3, <2>1, UpTo
  <2>3. n \in good
    BY <1>1, <2>2
  <2> USE DEF good
  <2> QED BY <1>1, <2>3
<1>6. /\ Count(v[m]) \in {Count(p) : p \in InPortsOf(o)}
      /\ \A p \in InPortsOf(o) : Count(p) <= Count(v[m])
  BY <1>1, <1>5
<1>7. /\ Longest(o) \in {Count(p) : p \in InPortsOf(o)}
      /\ \A p \in InPortsOf(o) : Count(p) <= Longest(o)
  BY <1>6 DEF Longest
<1> QED BY <1>1, <1>2, <1>7

\* What one visit does to the selection.
LEMMA LengthVisit ==
  ASSUME TuplesStamped, NEW o \in Operators, NEW sel \in Lengths
  PROVE  /\ VisitForLength(sel, o) \in Lengths
         /\ sel.found => VisitForLength(sel, o) = sel
         /\ ~sel.found /\ InPortsOf(o) = {} =>
              VisitForLength(sel, o) = [sel EXCEPT !.oper = o, !.found = TRUE]
         /\ ~sel.found /\ InPortsOf(o) # {} =>
              VisitForLength(sel, o) = IF Longest(o) > sel.length
                                       THEN [sel EXCEPT !.oper = o, !.length = Longest(o)]
                                       ELSE sel
<1>1. sel.found \in BOOLEAN /\ sel.length \in Int /\ sel.oper \in Operators
  BY DEF Lengths
<1>2. CASE sel.found
  BY <1>2 DEF VisitForLength
<1>3. CASE ~sel.found /\ InPortsOf(o) = {}
  <2>1. Inputs[o] = <<>>
    BY <1>3, SourceHasNoPorts
  <2>2. VisitForLength(sel, o) = [sel EXCEPT !.oper = o, !.found = TRUE]
    BY <1>3, <2>1 DEF VisitForLength
  <2> QED BY <1>3, <2>2 DEF Lengths
<1>4. CASE ~sel.found /\ InPortsOf(o) # {}
  <2>1. Inputs[o] # <<>>
    BY <1>4, SourceHasNoPorts
  <2>2. VisitForLength(sel, o) = IF Longest(o) > sel.length
                                 THEN [sel EXCEPT !.oper = o, !.length = Longest(o)] ELSE sel
    BY <1>4, <2>1 DEF VisitForLength
  <2>3. Longest(o) \in Nat
    BY <1>4, LongestIs
  <2>4. [sel EXCEPT !.oper = o, !.length = Longest(o)] \in Lengths
    <3>1. \A l \in Int : [sel EXCEPT !.oper = o, !.length = l] \in Lengths
      BY DEF Lengths
    <3>2. Longest(o) \in Int
      BY <2>3
    <3> QED BY <3>1, <3>2
  <2>5. VisitForLength(sel, o) \in Lengths
    BY <2>2, <2>4
  <2> QED BY <1>4, <2>2, <2>5
<1> QED BY <1>1, <1>2, <1>3, <1>4

LEMMA LengthPasses ==
  ASSUME TuplesStamped, NEW v \in Seq(Operators), NEW base \in Lengths
  PROVE  \E r : /\ Passes(r, Lengths, LengthStep, base, Len(v), v)
                /\ FoldLeft(VisitForLength, base, v) = r[Len(v)]
<1> DEFINE T == Lengths
           step == LengthStep
           n == Len(v)
           g == CHOOSE f : f = [s \in SUBSET (DOMAIN v) |->
                                 IF s = {} THEN base
                                 ELSE VisitForLength(f[s \ {Max(s)}], v[Max(s)])]
<1>1. FoldLeft(VisitForLength, base, v) = g[DOMAIN v]
  BY DEF FoldLeft, MapThenFoldSet
<1>2. n \in Nat /\ DOMAIN v = 1..n /\ v \in [1..n -> Operators]
  OBVIOUS
<1>3. \A sel \in T, o \in Operators :
        VisitForLength(sel, o) \in T /\ step[<<sel, o>>] = VisitForLength(sel, o)
  BY LengthVisit DEF LengthStep
<1>4. step \in [T \X Operators -> T] /\ base \in T
  BY <1>3 DEF LengthStep
<1> HIDE DEF T, step, n
<1>5. PICK h \in [SUBSET (1..n) -> T] : IsFold(h, step, base, n, v)
  BY <1>2, <1>4, FoldExists
<1>6. \A s \in SUBSET (1..n) : s # {} => s \ {Max(s)} \in SUBSET (1..n) /\ Max(s) \in 1..n
  BY <1>2, MaxIn
<1>7. h = [s \in SUBSET (DOMAIN v) |->
             IF s = {} THEN base ELSE VisitForLength(h[s \ {Max(s)}], v[Max(s)])]
  BY <1>2, <1>3, <1>5, <1>6 DEF IsFold
<1>8. g = [s \in SUBSET (DOMAIN v) |->
             IF s = {} THEN base ELSE VisitForLength(g[s \ {Max(s)}], v[Max(s)])]
  BY <1>7
<1> HIDE DEF g
<1>9. Iterates(g, T, step, base, n, v)
  BY <1>2, <1>3, <1>6, <1>8 DEF Iterates
<1>10. \E r : Passes(r, T, step, base, n, v) /\ EndsAt(g, r, n)
  BY <1>2, <1>4, <1>9, FoldPasses
<1> QED BY <1>1, <1>2, <1>10 DEF EndsAt, n, T, step

LEMMA LengthChoice ==
  ASSUME TuplesStamped, policy = "MaxQueueLength", NEW v \in Seq(Operators), v # <<>>, NEW r,
         NEW base \in Lengths, base.length = -1, base.found = FALSE,
         Passes(r, Lengths, LengthStep, base, Len(v), v),
         NEW o \in Operators, r[Len(v)].oper = o
  PROVE  \A i \in 1..Len(v) : Fits(o, v[i])
<1> DEFINE n == Len(v)
           Before(i) ==
             IF r[i].found THEN InPortsOf(r[i].oper) = {}
             ELSE /\ \A j \in 1..i : InPortsOf(v[j]) # {} /\ Longest(v[j]) <= r[i].length
                  /\ r[i].length = -1
                     \/ (InPortsOf(r[i].oper) # {} /\ Longest(r[i].oper) = r[i].length)
           good == {i \in 0..n : Before(i)}
<1>1. n \in Nat /\ v \in [1..n -> Operators] /\ 1 \in 1..n
  OBVIOUS
<1>2. \A i \in 0..n : /\ r[i] \in Lengths /\ r[i].found \in BOOLEAN /\ r[i].length \in Int
                     /\ r[i].oper \in Operators
  BY DEF Passes, Lengths
<1>3. 0 \in good
  BY <1>1 DEF Passes
<1>4. ASSUME NEW i \in 1..n, Before(i - 1) PROVE Before(i)
  <2>1. i - 1 \in 0..n /\ i \in 0..n /\ v[i] \in Operators
    BY <1>1
  <2>2. /\ r[i - 1] \in Lengths /\ r[i - 1].found \in BOOLEAN /\ r[i - 1].length \in Int
    BY <1>2, <2>1
  <2>3. r[i] = VisitForLength(r[i - 1], v[i])
    BY <2>1, <2>2 DEF Passes, LengthStep
  <2>4. \A j \in 1..i : j = i \/ (j \in 1..(i - 1) /\ v[j] \in Operators)
    BY <1>1
  <2>5. CASE r[i - 1].found
    BY <1>4, <2>1, <2>2, <2>3, <2>5, LengthVisit
  <2>6. CASE ~r[i - 1].found /\ InPortsOf(v[i]) = {}
    <3>1. r[i] = [r[i - 1] EXCEPT !.oper = v[i], !.found = TRUE]
      BY <2>1, <2>2, <2>3, <2>6, LengthVisit
    <3>2. r[i].found = TRUE /\ r[i].oper = v[i]
      BY <2>2, <3>1 DEF Lengths
    <3> QED BY <2>6, <3>2
  <2>7. CASE ~r[i - 1].found /\ InPortsOf(v[i]) # {}
    <3>1. r[i] = IF Longest(v[i]) > r[i - 1].length
                 THEN [r[i - 1] EXCEPT !.oper = v[i], !.length = Longest(v[i])]
                 ELSE r[i - 1]
      BY <2>1, <2>2, <2>3, <2>7, LengthVisit
    <3>2. Longest(v[i]) \in Nat
      BY <2>1, <2>7, LongestIs
    <3>3. CASE Longest(v[i]) > r[i - 1].length
      <4>1. r[i].found = r[i - 1].found /\ r[i].oper = v[i] /\ r[i].length = Longest(v[i])
        BY <2>2, <3>1, <3>3 DEF Lengths
      <4>2. ASSUME NEW j \in 1..i PROVE InPortsOf(v[j]) # {} /\ Longest(v[j]) <= r[i].length
        <5>1. CASE j = i
          BY <2>7, <3>2, <4>1, <5>1
        <5>2. CASE j \in 1..(i - 1) /\ v[j] \in Operators
          <6>1. InPortsOf(v[j]) # {} /\ Longest(v[j]) <= r[i - 1].length
            BY <1>4, <2>7, <5>2
          <6>2. Longest(v[j]) \in Nat
            BY <5>2, <6>1, LongestIs
          <6> QED BY <2>2, <3>2, <3>3, <4>1, <6>1, <6>2
        <5> QED BY <2>4, <5>1, <5>2
      <4> QED BY <2>7, <4>1, <4>2
    <3>4. CASE ~(Longest(v[i]) > r[i - 1].length)
      <4>1. r[i] = r[i - 1]
        BY <3>1, <3>4
      <4>2. \A j \in 1..i : InPortsOf(v[j]) # {} /\ Longest(v[j]) <= r[i].length
        BY <1>4, <2>2, <2>4, <2>7, <3>2, <3>4, <4>1
      <4> QED BY <1>4, <2>7, <4>1, <4>2
    <3> QED BY <3>3, <3>4
  <2> QED BY <2>2, <2>5, <2>6, <2>7
<1> HIDE DEF Before
<1>5. n \in good
  <2>1. \A i \in 1..n : i - 1 \in good => i \in good
    BY <1>4
  <2> HIDE DEF good, n
  <2>3. 0..n \subseteq good
    BY <1>1, <1>3, <2>1, UpTo
  <2> QED BY <1>1, <2>3
<1>6. Before(n) /\ r[n].found \in BOOLEAN /\ r[n].length \in Int /\ r[n].oper = o
  BY <1>1, <1>2, <1>5
<1>7. CASE r[n].found
  BY <1>6, <1>7 DEF Before, Fits
<1>8. CASE ~r[n].found
  <2>1. \A j \in 1..n : v[j] \in Operators /\ InPortsOf(v[j]) # {} /\ Longest(v[j]) <= r[n].length
    BY <1>1, <1>6, <1>8 DEF Before
  <2>2. r[n].length # -1
    <3>1. Longest(v[1]) \in Nat /\ Longest(v[1]) <= r[n].length
      BY <1>1, <2>1, LongestIs
    <3> QED BY <1>6, <3>1
  <2>3. InPortsOf(o) # {} /\ Longest(o) = r[n].length
    BY <1>6, <1>8, <2>2 DEF Before
  <2>4. PICK p \in InPortsOf(o) : Longest(o) = Count(p)
    BY <2>3, LongestIs
  <2>5. ASSUME NEW j \in 1..n PROVE Fits(o, v[j])
    <3>1. v[j] \in Operators /\ InPortsOf(v[j]) # {} /\ Longest(v[j]) <= Count(p)
      BY <2>1, <2>3, <2>4
    <3>2. Longest(v[j]) \in Nat /\ \A q \in InPortsOf(v[j]) : Count(q) \in Nat /\ Count(q) <= Longest(v[j])
      BY <3>1, LongestIs
    <3>3. Count(p) \in Nat
      BY <2>3, LongestIs
    <3>4. \A q \in InPortsOf(v[j]) : Count(p) >= Count(q)
      BY <3>1, <3>2, <3>3
    <3> QED BY <3>1, <3>4 DEF Fits
  <2> QED BY <2>5
<1> QED BY <1>6, <1>7, <1>8

-----------------------------------------------------------------------------
LEMMA Ranks ==
  /\ Profiles = {"none", "zero", "some", "inf", "nan"}
  /\ Rank("none") = 1 /\ Rank("zero") = 2 /\ Rank("some") = 3 /\ Rank("inf") = 4
  /\ Rank("nan") = 5
  /\ \A x \in Profiles : Rank(x) \in 1..5
<1>1. DOMAIN Magnitudes = 1..5 /\ Magnitudes[1] = "none" /\ Magnitudes[2] = "zero"
      /\ Magnitudes[3] = "some" /\ Magnitudes[4] = "inf" /\ Magnitudes[5] = "nan"
  BY DEF Magnitudes
<1>2. \A i \in 1..5 : i = 1 \/ i = 2 \/ i = 3 \/ i = 4 \/ i = 5
  OBVIOUS
<1>3. 1 \in 1..5 /\ 2 \in 1..5 /\ 3 \in 1..5 /\ 4 \in 1..5 /\ 5 \in 1..5
  OBVIOUS
<1>4. Profiles = {"none", "zero", "some", "inf", "nan"}
  BY <1>1, <1>2, <1>3 DEF Profiles
<1>5. Rank("none") = 1
  BY <1>1, <1>2, <1>3 DEF Rank
<1>6. Rank("zero") = 2
  BY <1>1, <1>2, <1>3 DEF Rank
<1>7. Rank("some") = 3
  BY <1>1, <1>2, <1>3 DEF Rank
<1>8. Rank("inf") = 4
  BY <1>1, <1>2, <1>3 DEF Rank
<1>9. Rank("nan") = 5
  BY <1>1, <1>2, <1>3 DEF Rank
<1> QED BY <1>3, <1>4, <1>5, <1>6, <1>7, <1>8, <1>9

LEMMA QuotientType == ASSUME NEW k, NEW x PROVE Quotient(k, x) \in Profiles
BY Ranks DEF Quotient

LEMMA ChoiceType ==
  ASSUME NEW m \in Profiles, NEW x \in Profiles
  PROVE  Least(m, x) \in Profiles /\ Greatest(m, x) \in Profiles
BY DEF Least, Greatest

LeastStep == [z \in Profiles \X Profiles |-> Least(z[1], z[2])]
GreatestStep == [z \in Profiles \X Profiles |-> Greatest(z[1], z[2])]

LEMMA LeastPasses ==
  ASSUME NEW v \in Seq(Profiles), NEW base \in Profiles
  PROVE  \E r : /\ Passes(r, Profiles, LeastStep, base, Len(v), v)
                /\ FoldLeft(Least, base, v) = r[Len(v)]
<1> DEFINE T == Profiles
           step == LeastStep
           n == Len(v)
           g == CHOOSE f : f = [s \in SUBSET (DOMAIN v) |->
                                 IF s = {} THEN base ELSE Least(f[s \ {Max(s)}], v[Max(s)])]
<1>1. FoldLeft(Least, base, v) = g[DOMAIN v]
  BY DEF FoldLeft, MapThenFoldSet
<1>2. n \in Nat /\ DOMAIN v = 1..n /\ v \in [1..n -> T]
  OBVIOUS
<1>3. \A m \in T, x \in T : Least(m, x) \in T /\ step[<<m, x>>] = Least(m, x)
  BY ChoiceType DEF LeastStep
<1>4. step \in [T \X T -> T] /\ base \in T
  BY <1>3 DEF LeastStep
<1> HIDE DEF T, step, n
<1>5. PICK h \in [SUBSET (1..n) -> T] : IsFold(h, step, base, n, v)
  BY <1>2, <1>4, FoldExists
<1>6. \A s \in SUBSET (1..n) : s # {} => s \ {Max(s)} \in SUBSET (1..n) /\ Max(s) \in 1..n
  BY <1>2, MaxIn
<1>7. h = [s \in SUBSET (DOMAIN v) |->
             IF s = {} THEN base ELSE Least(h[s \ {Max(s)}], v[Max(s)])]
  BY <1>2, <1>3, <1>5, <1>6 DEF IsFold
<1>8. g = [s \in SUBSET (DOMAIN v) |->
             IF s = {} THEN base ELSE Least(g[s \ {Max(s)}], v[Max(s)])]
  BY <1>7
<1> HIDE DEF g
<1>9. Iterates(g, T, step, base, n, v)
  BY <1>2, <1>3, <1>6, <1>8 DEF Iterates
<1>10. \E r : Passes(r, T, step, base, n, v) /\ EndsAt(g, r, n)
  BY <1>2, <1>4, <1>9, FoldPasses
<1> QED BY <1>1, <1>2, <1>10 DEF EndsAt, n, T, step

LEMMA GreatestPasses ==
  ASSUME NEW v \in Seq(Profiles), NEW base \in Profiles
  PROVE  \E r : /\ Passes(r, Profiles, GreatestStep, base, Len(v), v)
                /\ FoldLeft(Greatest, base, v) = r[Len(v)]
<1> DEFINE T == Profiles
           step == GreatestStep
           n == Len(v)
           g == CHOOSE f : f = [s \in SUBSET (DOMAIN v) |->
                                 IF s = {} THEN base ELSE Greatest(f[s \ {Max(s)}], v[Max(s)])]
<1>1. FoldLeft(Greatest, base, v) = g[DOMAIN v]
  BY DEF FoldLeft, MapThenFoldSet
<1>2. n \in Nat /\ DOMAIN v = 1..n /\ v \in [1..n -> T]
  OBVIOUS
<1>3. \A m \in T, x \in T : Greatest(m, x) \in T /\ step[<<m, x>>] = Greatest(m, x)
  BY ChoiceType DEF GreatestStep
<1>4. step \in [T \X T -> T] /\ base \in T
  BY <1>3 DEF GreatestStep
<1> HIDE DEF T, step, n
<1>5. PICK h \in [SUBSET (1..n) -> T] : IsFold(h, step, base, n, v)
  BY <1>2, <1>4, FoldExists
<1>6. \A s \in SUBSET (1..n) : s # {} => s \ {Max(s)} \in SUBSET (1..n) /\ Max(s) \in 1..n
  BY <1>2, MaxIn
<1>7. h = [s \in SUBSET (DOMAIN v) |->
             IF s = {} THEN base ELSE Greatest(h[s \ {Max(s)}], v[Max(s)])]
  BY <1>2, <1>3, <1>5, <1>6 DEF IsFold
<1>8. g = [s \in SUBSET (DOMAIN v) |->
             IF s = {} THEN base ELSE Greatest(g[s \ {Max(s)}], v[Max(s)])]
  BY <1>7
<1> HIDE DEF g
<1>9. Iterates(g, T, step, base, n, v)
  BY <1>2, <1>3, <1>6, <1>8 DEF Iterates
<1>10. \E r : Passes(r, T, step, base, n, v) /\ EndsAt(g, r, n)
  BY <1>2, <1>4, <1>9, FoldPasses
<1> QED BY <1>1, <1>2, <1>10 DEF EndsAt, n, T, step

\* The least of magnitudes that are zero or some, and the greatest.
Decided == {"none", "zero", "some"}

LEMMA LeastDecides ==
  ASSUME NEW v \in Seq({"zero", "some"}), NEW base \in Decided
  PROVE  /\ FoldLeft(Least, base, v) \in Decided
         /\ FoldLeft(Least, base, v) = "zero" <=> base = "zero" \/ \E i \in 1..Len(v) : v[i] = "zero"
         /\ FoldLeft(Least, base, v) = "none" <=> base = "none" /\ Len(v) = 0
<1> DEFINE n == Len(v)
           Before(m, i) ==
             /\ m \in Decided
             /\ m = "zero" <=> base = "zero" \/ \E j \in 1..i : v[j] = "zero"
             /\ m = "none" <=> base = "none" /\ i = 0
<1>1. v \in Seq(Profiles) /\ base \in Profiles
  BY Ranks DEF Decided
<1>2. n \in Nat /\ \A i \in 1..n : v[i] = "zero" \/ v[i] = "some"
  OBVIOUS
<1>3. PICK r : Passes(r, Profiles, LeastStep, base, n, v) /\ FoldLeft(Least, base, v) = r[n]
  BY <1>1, LeastPasses
<1> DEFINE good == {i \in 0..n : Before(r[i], i)}
<1>4. 0 \in good
  BY <1>2, <1>3 DEF Passes
<1>5. ASSUME NEW i \in 1..n, Before(r[i - 1], i - 1) PROVE Before(r[i], i)
  <2>1. r[i] = Least(r[i - 1], v[i])
    <3>1. r[i - 1] \in Profiles /\ v[i] \in Profiles
      BY <1>2, <1>5, Ranks DEF Decided
    <3> QED BY <1>3, <3>1 DEF Passes, LeastStep
  <2>2. \A j \in 1..i : j = i \/ j \in 1..(i - 1)
    BY <1>2
  <2>3. i \in 1..i /\ i # 0 /\ \A j \in 1..(i - 1) : j \in 1..i
    BY <1>2
  <2>4. CASE v[i] = "zero"
    <3>1. r[i] = "zero"
      BY <1>5, <2>1, <2>4, Ranks DEF Least, Less, Decided
    <3> QED BY <2>3, <2>4, <3>1 DEF Decided
  <2>5. CASE v[i] = "some"
    <3>1. r[i] = IF r[i - 1] = "none" THEN "some" ELSE r[i - 1]
      BY <1>5, <2>1, <2>5, Ranks DEF Least, Less, Decided
    <3>2. (\E j \in 1..i : v[j] = "zero") <=> (\E j \in 1..(i - 1) : v[j] = "zero")
      BY <2>2, <2>3, <2>5
    <3> QED BY <1>5, <2>3, <3>1, <3>2 DEF Decided
  <2> QED BY <1>2, <2>4, <2>5
<1> HIDE DEF Before
<1>6. n \in good
  <2>1. \A i \in 1..n : i - 1 \in good => i \in good
    BY <1>5, <1>2
  <2> HIDE DEF good, n
  <2>2. 0..n \subseteq good
    BY <1>2, <1>4, <2>1, UpTo
  <2> QED BY <1>2, <2>2
<1>7. Before(r[n], n)
  BY <1>6
<1> QED BY <1>3, <1>7 DEF Before

LEMMA GreatestDecides ==
  ASSUME NEW v \in Seq({"zero", "some"})
  PROVE  /\ FoldLeft(Greatest, "none", v) \in Decided
         /\ FoldLeft(Greatest, "none", v) = "some" <=> \E i \in 1..Len(v) : v[i] = "some"
         /\ FoldLeft(Greatest, "none", v) = "none" <=> Len(v) = 0
<1> DEFINE n == Len(v)
           Before(m, i) ==
             /\ m \in Decided
             /\ m = "some" <=> \E j \in 1..i : v[j] = "some"
             /\ m = "none" <=> i = 0
<1>1. v \in Seq(Profiles) /\ "none" \in Profiles
  BY Ranks
<1>2. n \in Nat /\ \A i \in 1..n : v[i] = "zero" \/ v[i] = "some"
  OBVIOUS
<1>3. PICK r : /\ Passes(r, Profiles, GreatestStep, "none", n, v)
               /\ FoldLeft(Greatest, "none", v) = r[n]
  BY <1>1, GreatestPasses
<1> DEFINE good == {i \in 0..n : Before(r[i], i)}
<1>4. 0 \in good
  BY <1>2, <1>3 DEF Passes, Decided
<1>5. ASSUME NEW i \in 1..n, Before(r[i - 1], i - 1) PROVE Before(r[i], i)
  <2>1. r[i] = Greatest(r[i - 1], v[i])
    <3>1. r[i - 1] \in Profiles /\ v[i] \in Profiles
      BY <1>2, <1>5, Ranks DEF Decided
    <3> QED BY <1>3, <3>1 DEF Passes, GreatestStep
  <2>2. \A j \in 1..i : j = i \/ j \in 1..(i - 1)
    BY <1>2
  <2>3. i \in 1..i /\ i # 0 /\ \A j \in 1..(i - 1) : j \in 1..i
    BY <1>2
  <2>4. CASE v[i] = "some"
    <3>1. r[i] = "some"
      BY <1>5, <2>1, <2>4, Ranks DEF Greatest, Less, Decided
    <3> QED BY <2>3, <2>4, <3>1 DEF Decided
  <2>5. CASE v[i] = "zero"
    <3>1. r[i] = IF r[i - 1] = "none" THEN "zero" ELSE r[i - 1]
      BY <1>5, <2>1, <2>5, Ranks DEF Greatest, Less, Decided
    <3>2. (\E j \in 1..i : v[j] = "some") <=> (\E j \in 1..(i - 1) : v[j] = "some")
      BY <2>2, <2>3, <2>5
    <3> QED BY <1>5, <2>3, <3>1, <3>2 DEF Decided
  <2> QED BY <1>2, <2>4, <2>5
<1> HIDE DEF Before
<1>6. n \in good
  <2>1. \A i \in 1..n : i - 1 \in good => i \in good
    BY <1>5, <1>2
  <2> HIDE DEF good, n
  <2>2. 0..n \subseteq good
    BY <1>2, <1>4, <2>1, UpTo
  <2> QED BY <1>2, <2>2
<1>7. Before(r[n], n)
  BY <1>6
<1> QED BY <1>3, <1>7 DEF Before

-----------------------------------------------------------------------------
LEMMA LeastType ==
  ASSUME NEW v \in Seq(Profiles), NEW base \in Profiles
  PROVE  FoldLeft(Least, base, v) \in Profiles
<1>1. Len(v) \in 0..Len(v)
  OBVIOUS
<1> QED BY <1>1, LeastPasses DEF Passes

LEMMA GreatestType ==
  ASSUME NEW v \in Seq(Profiles), NEW base \in Profiles
  PROVE  FoldLeft(Greatest, base, v) \in Profiles
<1>1. Len(v) \in 0..Len(v)
  OBVIOUS
<1> QED BY <1>1, GreatestPasses DEF Passes

LEMMA RoomType ==
  ASSUME NEW q \in OutPorts, NEW m \in Profiles
  PROVE  LeastRoom(m, q) \in Profiles
<1>1. Subscribers[q] \in Seq(InPorts) /\ Len(Subscribers[q]) \in Nat
      /\ DOMAIN Subscribers[q] = 1..Len(Subscribers[q])
  BY FlowGraphAssumption
<1>2. \A i \in DOMAIN Subscribers[q] :
        Quotient(IF Count(Subscribers[q][i]) = MaxQueueSize THEN 0 ELSE 1, profile[q]) \in Profiles
  BY QuotientType
<1>3. RoomTimes(q) \in [1..Len(Subscribers[q]) -> Profiles]
  BY <1>1, <1>2 DEF RoomTimes
<1>4. RoomTimes(q) \in Seq(Profiles)
  BY <1>1, <1>3, SeqDef
<1> QED BY <1>4, LeastType DEF LeastRoom

RoomStep == [z \in Profiles \X OutPorts |-> LeastRoom(z[1], z[2])]

LEMMA RoomPasses ==
  ASSUME NEW v \in Seq(OutPorts), NEW base \in Profiles
  PROVE  \E r : /\ Passes(r, Profiles, RoomStep, base, Len(v), v)
                /\ FoldLeft(LeastRoom, base, v) = r[Len(v)]
<1> DEFINE T == Profiles
           step == RoomStep
           n == Len(v)
           g == CHOOSE f : f = [s \in SUBSET (DOMAIN v) |->
                                 IF s = {} THEN base ELSE LeastRoom(f[s \ {Max(s)}], v[Max(s)])]
<1>1. FoldLeft(LeastRoom, base, v) = g[DOMAIN v]
  BY DEF FoldLeft, MapThenFoldSet
<1>2. n \in Nat /\ DOMAIN v = 1..n /\ v \in [1..n -> OutPorts]
  OBVIOUS
<1>3. \A m \in T, q \in OutPorts : LeastRoom(m, q) \in T /\ step[<<m, q>>] = LeastRoom(m, q)
  BY RoomType DEF RoomStep
<1>4. step \in [T \X OutPorts -> T] /\ base \in T
  BY <1>3 DEF RoomStep
<1> HIDE DEF T, step, n
<1>5. PICK h \in [SUBSET (1..n) -> T] : IsFold(h, step, base, n, v)
  BY <1>2, <1>4, FoldExists
<1>6. \A s \in SUBSET (1..n) : s # {} => s \ {Max(s)} \in SUBSET (1..n) /\ Max(s) \in 1..n
  BY <1>2, MaxIn
<1>7. h = [s \in SUBSET (DOMAIN v) |->
             IF s = {} THEN base ELSE LeastRoom(h[s \ {Max(s)}], v[Max(s)])]
  BY <1>2, <1>3, <1>5, <1>6 DEF IsFold
<1>8. g = [s \in SUBSET (DOMAIN v) |->
             IF s = {} THEN base ELSE LeastRoom(g[s \ {Max(s)}], v[Max(s)])]
  BY <1>7
<1> HIDE DEF g
<1>9. Iterates(g, T, step, base, n, v)
  BY <1>2, <1>3, <1>6, <1>8 DEF Iterates
<1>10. \E r : Passes(r, T, step, base, n, v) /\ EndsAt(g, r, n)
  BY <1>2, <1>4, <1>9, FoldPasses
<1> QED BY <1>1, <1>2, <1>10 DEF EndsAt, n, T, step

LEMMA EstimateType ==
  ASSUME NEW o \in Operators
  PROVE  Estimate(o) \in Profiles
<1>1. Inputs[o] \in Seq(InPorts) /\ Outputs[o] \in Seq(OutPorts)
  BY PoliciesAssumption
<1>2. InputTimes(o) \in Seq(Profiles)
  <2>1. \A i \in DOMAIN Inputs[o] :
          Quotient(Count(Inputs[o][i]), profile[Inputs[o][i]]) \in Profiles
    BY QuotientType
  <2>2. DOMAIN Inputs[o] = 1..Len(Inputs[o]) /\ Len(Inputs[o]) \in Nat
    BY <1>1
  <2>3. InputTimes(o) \in [1..Len(Inputs[o]) -> Profiles]
    BY <2>1, <2>2 DEF InputTimes
  <2> QED BY <2>2, <2>3, SeqDef
<1>3. "none" \in Profiles
  BY Ranks
<1>4. InputTime(o) \in Profiles
  BY <1>2, <1>3, LeastType, GreatestType DEF InputTime
<1>5. Len(Outputs[o]) \in 0..Len(Outputs[o])
  BY <1>1
<1>6. PICK r : /\ Passes(r, Profiles, RoomStep, InputTime(o), Len(Outputs[o]), Outputs[o])
               /\ FoldLeft(LeastRoom, InputTime(o), Outputs[o]) = r[Len(Outputs[o])]
  BY <1>1, <1>4, RoomPasses
<1> QED BY <1>5, <1>6 DEF Estimate, Passes

\* With profiles that are positive numbers an estimate is zero exactly when the
\* operator would block at once: first the loop over the input ports ...
Starved(o) ==
  IF o \in conjunctive THEN \E p \in InPortsOf(o) : Count(p) = 0
                       ELSE InPortsOf(o) # {} /\ \A p \in InPortsOf(o) : Count(p) = 0

LEMMA InputTimeOfMeasured ==
  ASSUME TuplesStamped, NEW o \in Operators, Measured(o)
  PROVE  /\ InputTime(o) \in Decided
         /\ InputTime(o) = "none" <=> InPortsOf(o) = {}
         /\ InputTime(o) = "zero" <=> Starved(o)
<1> DEFINE ins == Inputs[o]
<1>1. /\ ins \in Seq(InPorts) /\ DOMAIN ins = 1..Len(ins) /\ Len(ins) \in Nat
      /\ InPortsOf(o) = {ins[i] : i \in 1..Len(ins)}
  <2>1. ins \in Seq(InPorts)
    BY PoliciesAssumption
  <2>2. DOMAIN ins = 1..Len(ins) /\ Len(ins) \in Nat
    BY <2>1
  <2> QED BY <2>1, <2>2, PoliciesAssumption DEF Range
<1>2. \A p \in PortsOf(o) : profile[p] = "some"
  BY DEF Measured
<1>4. Quotient(0, "some") = "zero" /\ \A k : k # 0 => Quotient(k, "some") = "some"
  BY DEF Quotient
<1>5. /\ InputTimes(o) \in Seq({"zero", "some"}) /\ Len(InputTimes(o)) = Len(ins)
      /\ \A i \in 1..Len(ins) : InputTimes(o)[i] = IF Count(ins[i]) = 0 THEN "zero" ELSE "some"
  <2>1. ASSUME NEW i \in 1..Len(ins)
        PROVE  InputTimes(o)[i] = IF Count(ins[i]) = 0 THEN "zero" ELSE "some"
    <3>1. profile[ins[i]] = "some"
      BY <1>1, <1>2 DEF PortsOf
    <3>2. InputTimes(o)[i] = Quotient(Count(ins[i]), profile[ins[i]])
      BY <1>1 DEF InputTimes
    <3> QED BY <1>4, <3>1, <3>2
  <2>3. InputTimes(o) = [i \in 1..Len(ins) |-> InputTimes(o)[i]]
    BY <1>1 DEF InputTimes
  <2>4. InputTimes(o) \in [1..Len(ins) -> {"zero", "some"}]
    BY <2>1, <2>3
  <2> QED BY <1>1, <2>1, <2>4, SeqDef
<1> DEFINE empty == \E i \in 1..Len(ins) : Count(ins[i]) = 0
           nonempty == \E i \in 1..Len(ins) : Count(ins[i]) # 0
<1>6. Len(ins) = 0 <=> InPortsOf(o) = {}
  <2>1. Len(ins) = 0 <=> ins = <<>>
    BY <1>1
  <2> QED BY <2>1, SourceHasNoPorts
<1>7. /\ empty <=> \E p \in InPortsOf(o) : Count(p) = 0
      /\ nonempty <=> \E p \in InPortsOf(o) : Count(p) # 0
  BY <1>1
<1>8. "none" \in Decided /\ "none" # "zero" /\ "none" # "some" /\ "zero" # "some"
  BY DEF Decided
<1>9. CASE o \in conjunctive
  <2>1. InputTime(o) = FoldLeft(Least, "none", InputTimes(o))
    BY <1>9 DEF InputTime
  <2>2. /\ InputTime(o) \in Decided
        /\ InputTime(o) = "zero" <=> \E i \in 1..Len(ins) : InputTimes(o)[i] = "zero"
        /\ InputTime(o) = "none" <=> Len(ins) = 0
    BY <1>5, <1>8, <2>1, LeastDecides
  <2>3. InputTime(o) = "zero" <=> empty
    BY <1>5, <2>2
  <2> HIDE DEF empty, nonempty
  <2> QED BY <1>6, <1>7, <1>9, <2>2, <2>3 DEF Starved
<1>10. CASE o \notin conjunctive
  <2>1. InputTime(o) = FoldLeft(Greatest, "none", InputTimes(o))
    BY <1>10 DEF InputTime
  <2>2. /\ InputTime(o) \in Decided
        /\ InputTime(o) = "some" <=> \E i \in 1..Len(ins) : InputTimes(o)[i] = "some"
        /\ InputTime(o) = "none" <=> Len(ins) = 0
    BY <1>5, <2>1, GreatestDecides
  <2>3. InputTime(o) = "some" <=> nonempty
    BY <1>5, <2>2
  <2>4. InputTime(o) = "zero" <=> Len(ins) # 0 /\ ~nonempty
    BY <1>8, <2>2, <2>3 DEF Decided
  <2> HIDE DEF empty, nonempty
  <2> QED BY <1>6, <1>7, <1>10, <2>2, <2>4 DEF Starved
<1> QED BY <1>9, <1>10

\* ... then the loop over the subscribers of an output port ...
LEMMA RoomOfMeasured ==
  ASSUME NEW q \in OutPorts, profile[q] = "some", NEW m \in Decided
  PROVE  /\ LeastRoom(m, q) \in Decided
         /\ LeastRoom(m, q) = "zero" <=>
              m = "zero" \/ \E p \in SubscribersOf(q) : Count(p) = MaxQueueSize
         /\ LeastRoom(m, q) = "none" <=> m = "none" /\ SubscribersOf(q) = {}
<1> DEFINE subs == Subscribers[q]
           rooms == RoomTimes(q)
<1>1. subs \in Seq(InPorts) /\ Len(subs) \in Nat /\ DOMAIN subs = 1..Len(subs)
  BY FlowGraphAssumption
<1>2. SubscribersOf(q) = {subs[i] : i \in 1..Len(subs)}
  BY <1>1 DEF SubscribersOf
<1>3. Quotient(0, "some") = "zero" /\ Quotient(1, "some") = "some"
  BY DEF Quotient
<1>4. rooms = [i \in 1..Len(subs) |-> IF Count(subs[i]) = MaxQueueSize THEN "zero" ELSE "some"]
  BY <1>1, <1>3 DEF RoomTimes
<1>5. /\ rooms \in [1..Len(subs) -> {"zero", "some"}]
      /\ \A i \in 1..Len(subs) : rooms[i] = "zero" <=> Count(subs[i]) = MaxQueueSize
  BY <1>4
<1>6. rooms \in Seq({"zero", "some"}) /\ Len(rooms) = Len(subs)
  BY <1>1, <1>5, SeqDef
<1> HIDE DEF rooms
<1>7. /\ LeastRoom(m, q) \in Decided
      /\ LeastRoom(m, q) = "zero" <=> m = "zero" \/ \E i \in 1..Len(subs) : rooms[i] = "zero"
      /\ LeastRoom(m, q) = "none" <=> m = "none" /\ Len(subs) = 0
  BY <1>6, LeastDecides DEF LeastRoom, rooms
<1>8. (\E i \in 1..Len(subs) : rooms[i] = "zero") <=> \E p \in SubscribersOf(q) : Count(p) = MaxQueueSize
  BY <1>2, <1>5
<1>9. Len(subs) = 0 <=> SubscribersOf(q) = {}
  <2>1. Len(subs) # 0 => 1 \in 1..Len(subs)
    BY <1>1
  <2>2. Len(subs) = 0 => 1..Len(subs) = {}
    BY <1>1
  <2> QED BY <1>2, <2>1, <2>2
<1> QED BY <1>7, <1>8, <1>9

\* ... and the loop over the output ports around it.
NoneOverLimit == \A p \in InPorts : Count(p) <= MaxQueueSize

LEMMA EstimateOfMeasured ==
  ASSUME TuplesStamped, NoneOverLimit, NEW o \in Operators, Measured(o)
  PROVE  Estimate(o) = IF HasWork(o) THEN "some" ELSE "zero"
<1> DEFINE outs == Outputs[o]
           n == Len(outs)
           base == InputTime(o)
           FullAt(q) == \E p \in SubscribersOf(q) : Count(p) = MaxQueueSize
           Before(m, i) ==
             /\ m \in Decided
             /\ m = "zero" <=> base = "zero" \/ \E j \in 1..i : FullAt(outs[j])
             /\ m = "none" <=> base = "none" /\ \A j \in 1..i : SubscribersOf(outs[j]) = {}
<1>1. /\ outs \in Seq(OutPorts) /\ DOMAIN outs = 1..n /\ n \in Nat
      /\ OutPortsOf(o) = {outs[i] : i \in 1..n} /\ \A i \in 1..n : outs[i] \in OutPorts
  <2>1. outs \in Seq(OutPorts)
    BY PoliciesAssumption
  <2>2. DOMAIN outs = 1..n /\ n \in Nat
    BY <2>1
  <2> QED BY <2>1, <2>2, PoliciesAssumption DEF Range
<1>2. base \in Decided /\ (base = "none" <=> InPortsOf(o) = {}) /\ (base = "zero" <=> Starved(o))
  BY InputTimeOfMeasured
<1>3. base \in Profiles
  BY <1>2, Ranks DEF Decided
<1> HIDE DEF base
<1>4. PICK r : Passes(r, Profiles, RoomStep, base, n, outs) /\ Estimate(o) = r[n]
  BY <1>1, <1>3, RoomPasses DEF Estimate, base
<1> DEFINE good == {i \in 0..n : Before(r[i], i)}
<1>5. 0 \in good
  BY <1>1, <1>2, <1>4 DEF Passes
<1>6. ASSUME NEW i \in 1..n, Before(r[i - 1], i - 1) PROVE Before(r[i], i)
  <2>1. outs[i] \in OutPorts /\ profile[outs[i]] = "some"
    BY <1>1 DEF Measured, PortsOf
  <2>2. r[i] = LeastRoom(r[i - 1], outs[i])
    <3>1. r[i - 1] \in Profiles
      BY <1>6, Ranks DEF Decided
    <3> QED BY <1>4, <2>1, <3>1 DEF Passes, RoomStep
  <2>3. /\ r[i] \in Decided
        /\ r[i] = "zero" <=> r[i - 1] = "zero" \/ FullAt(outs[i])
        /\ r[i] = "none" <=> r[i - 1] = "none" /\ SubscribersOf(outs[i]) = {}
    BY <1>6, <2>1, <2>2, RoomOfMeasured
  <2>4. 1..i = 1..(i - 1) \cup {i}
    BY <1>1
  <2> HIDE DEF FullAt
  <2>5. /\ (\E j \in 1..i : FullAt(outs[j])) <=> (\E j \in 1..(i - 1) : FullAt(outs[j])) \/ FullAt(outs[i])
        /\ (\A j \in 1..i : SubscribersOf(outs[j]) = {}) <=>
             (\A j \in 1..(i - 1) : SubscribersOf(outs[j]) = {}) /\ SubscribersOf(outs[i]) = {}
    BY <2>4
  <2> QED BY <1>6, <2>3, <2>5
<1> HIDE DEF Before
<1>7. n \in good
  <2>1. \A i \in 1..n : i - 1 \in good => i \in good
    BY <1>1, <1>6
  <2> HIDE DEF good, n
  <2>2. 0..n \subseteq good
    BY <1>1, <1>5, <2>1, UpTo
  <2> QED BY <1>1, <2>2
<1>8. Before(Estimate(o), n)
  BY <1>4, <1>7
<1>9. (\E j \in 1..n : FullAt(outs[j])) <=> \E p \in DownstreamPorts(o) : Full(p)
  <2>1. \A p \in InPorts : Full(p) <=> Count(p) = MaxQueueSize
    BY FlowGraphAssumption DEF TuplesStamped, NoneOverLimit, Full, Count
  <2>2. \A q \in OutPorts : SubscribersOf(q) \subseteq InPorts
    BY FlowGraphAssumption DEF SubscribersOf
  <2>3. \A q \in OutPorts : FullAt(q) <=> \E p \in SubscribersOf(q) : Full(p)
    BY <2>1, <2>2
  <2> HIDE DEF FullAt
  <2>4. (\E j \in 1..n : FullAt(outs[j])) <=> \E q \in OutPortsOf(o) : \E p \in SubscribersOf(q) : Full(p)
    BY <1>1, <2>3
  <2> QED BY <2>4 DEF DownstreamPorts
<1>10. (\A j \in 1..n : SubscribersOf(outs[j]) = {}) <=> DownstreamPorts(o) = {}
  <2>1. (\A j \in 1..n : SubscribersOf(outs[j]) = {}) <=> \A q \in OutPortsOf(o) : SubscribersOf(q) = {}
    BY <1>1
  <2> QED BY <2>1 DEF DownstreamPorts
<1> DEFINE full == \E p \in DownstreamPorts(o) : Full(p)
<1>11. /\ Estimate(o) \in Decided /\ Estimate(o) # "none"
       /\ Estimate(o) = "zero" <=> Starved(o) \/ full
  <2>1. InPortsOf(o) # {} \/ DownstreamPorts(o) # {}
    BY DEF Measured
  <2> QED BY <1>2, <1>8, <1>9, <1>10, <2>1 DEF Before
<1>12. HasWork(o) <=> ~Starved(o) /\ ~full
  BY DEF HasWork, Starved
<1> HIDE DEF full
<1> QED BY <1>11, <1>12 DEF Decided

ThroughputStep ==
  [z \in (SUBSET Operators) \X Operators |-> VisitForThroughput(z[1], z[2])]

LEMMA ThroughputPasses ==
  ASSUME NEW v \in Seq(Operators), NEW base \in SUBSET Operators
  PROVE  \E r : /\ Passes(r, SUBSET Operators, ThroughputStep, base, Len(v), v)
                /\ FoldLeft(VisitForThroughput, base, v) = r[Len(v)]
<1> DEFINE T == SUBSET Operators
           step == ThroughputStep
           n == Len(v)
           g == CHOOSE f : f = [s \in SUBSET (DOMAIN v) |->
                                 IF s = {} THEN base
                                 ELSE VisitForThroughput(f[s \ {Max(s)}], v[Max(s)])]
<1>1. FoldLeft(VisitForThroughput, base, v) = g[DOMAIN v]
  BY DEF FoldLeft, MapThenFoldSet
<1>2. n \in Nat /\ DOMAIN v = 1..n /\ v \in [1..n -> Operators]
  OBVIOUS
<1>3. \A sels \in T, o \in Operators :
        VisitForThroughput(sels, o) \in T /\ step[<<sels, o>>] = VisitForThroughput(sels, o)
  BY DEF ThroughputStep, VisitForThroughput
<1>4. step \in [T \X Operators -> T] /\ base \in T
  BY <1>3 DEF ThroughputStep
<1> HIDE DEF T, step, n
<1>5. PICK h \in [SUBSET (1..n) -> T] : IsFold(h, step, base, n, v)
  BY <1>2, <1>4, FoldExists
<1>6. \A s \in SUBSET (1..n) : s # {} => s \ {Max(s)} \in SUBSET (1..n) /\ Max(s) \in 1..n
  BY <1>2, MaxIn
<1>7. h = [s \in SUBSET (DOMAIN v) |->
             IF s = {} THEN base ELSE VisitForThroughput(h[s \ {Max(s)}], v[Max(s)])]
  BY <1>2, <1>3, <1>5, <1>6 DEF IsFold
<1>8. g = [s \in SUBSET (DOMAIN v) |->
             IF s = {} THEN base ELSE VisitForThroughput(g[s \ {Max(s)}], v[Max(s)])]
  BY <1>7
<1> HIDE DEF g
<1>9. Iterates(g, T, step, base, n, v)
  BY <1>2, <1>3, <1>6, <1>8 DEF Iterates
<1>10. \E r : Passes(r, T, step, base, n, v) /\ EndsAt(g, r, n)
  BY <1>2, <1>4, <1>9, FoldPasses
<1> QED BY <1>1, <1>2, <1>10 DEF EndsAt, n, T, step

\* Nothing that can be selected has surely a smaller estimate than what was seen.
LEMMA ThroughputChoice ==
  ASSUME NEW v \in Seq(Operators), NEW first \in Operators, NEW r,
         Passes(r, SUBSET Operators, ThroughputStep, {first}, Len(v), v),
         NEW o \in r[Len(v)]
  PROVE  /\ o \in Operators
         /\ ~Less(Estimate(o), Estimate(first))
         /\ \A i \in 1..Len(v) : ~Less(Estimate(o), Estimate(v[i]))
<1> DEFINE n == Len(v)
           Before(i) == \A s \in r[i] :
                          /\ ~Less(Estimate(s), Estimate(first))
                          /\ \A j \in 1..i : ~Less(Estimate(s), Estimate(v[j]))
           good == {i \in 0..n : Before(i)}
<1>1. n \in Nat /\ v \in [1..n -> Operators]
  OBVIOUS
<1>2. \A i \in 0..n : r[i] \subseteq Operators
  BY DEF Passes
<1>3. \A s \in Operators : Estimate(s) \in Profiles /\ Rank(Estimate(s)) \in Int
  BY EstimateType, Ranks
<1>4. 0 \in good
  <2>1. r[0] = {first}
    BY DEF Passes
  <2>2. ~Less(Estimate(first), Estimate(first))
    BY <1>3 DEF Less
  <2> QED BY <1>1, <2>1, <2>2
<1>5. ASSUME NEW i \in 1..n, Before(i - 1) PROVE Before(i)
  <2>1. i - 1 \in 0..n /\ i \in 0..n /\ v[i] \in Operators
    BY <1>1
  <2>2. r[i - 1] \subseteq Operators
    BY <1>2, <2>1
  <2>3. r[i] = VisitForThroughput(r[i - 1], v[i])
    BY <2>1, <2>2 DEF Passes, ThroughputStep
  <2>4. \A j \in 1..i : j = i \/ (j \in 1..(i - 1) /\ v[j] \in Operators)
    BY <1>1
  <2>5. ASSUME NEW s \in r[i - 1], ~Less(Estimate(s), Estimate(v[i]))
        PROVE  /\ ~Less(Estimate(s), Estimate(first))
               /\ \A j \in 1..i : ~Less(Estimate(s), Estimate(v[j]))
    BY <1>5, <2>4, <2>5
  <2>6. ASSUME NEW s \in r[i - 1], MaybeLess(Estimate(s), Estimate(v[i]))
        PROVE  /\ ~Less(Estimate(v[i]), Estimate(first))
               /\ \A j \in 1..i : ~Less(Estimate(v[i]), Estimate(v[j]))
    <3>1. s \in Operators /\ Rank(Estimate(s)) \in Int /\ Rank(Estimate(v[i])) \in Int
      BY <1>3, <2>1, <2>2
    <3>2. Rank(Estimate(s)) <= Rank(Estimate(v[i]))
      BY <2>6, <3>1 DEF MaybeLess, Less
    <3>3. \A q \in Operators : ~Less(Estimate(s), Estimate(q)) => ~Less(Estimate(v[i]), Estimate(q))
      BY <1>3, <3>1, <3>2 DEF Less
    <3>4. ~Less(Estimate(v[i]), Estimate(v[i]))
      BY <3>1 DEF Less
    <3> QED BY <1>5, <2>4, <3>3, <3>4
  <2> QED BY <2>3, <2>5, <2>6 DEF VisitForThroughput
<1> HIDE DEF Before
<1>6. n \in good
  <2>1. \A i \in 1..n : i - 1 \in good => i \in good
    BY <1>5, <1>1
  <2> HIDE DEF good, n
  <2>2. 0..n \subseteq good
    BY <1>1, <1>4, <2>1, UpTo
  <2> QED BY <1>1, <2>2
<1>7. Before(n)
  BY <1>6
<1> QED BY <1>1, <1>2, <1>7 DEF Before

-----------------------------------------------------------------------------
\* A visit meets every ready operator.
LEMMA VisitsAll ==
  ASSUME ReadyOperators # {}, NEW v \in Visits
  PROVE  /\ v \in Seq(Operators) /\ v # <<>>
         /\ Head(v) = v[1] /\ Head(v) \in Operators
         /\ \A o \in ReadyOperators : \E i \in 1..Len(v) : v[i] = o
<1> DEFINE n == Cardinality(ReadyOperators)
<1>1. IsFiniteSet(ReadyOperators) /\ ReadyOperators \subseteq Operators
  BY FlowGraphAssumption, FS_Subset DEF ReadyOperators
<1>2. n \in Nat /\ n # 0
  BY <1>1, FS_CardinalityType, FS_EmptySet
<1>3. v \in [1..n -> ReadyOperators] /\ \A i, j \in 1..n : i # j => v[i] # v[j]
  BY DEF Visits, SetToSeqs
<1>4. v \in Seq(ReadyOperators) /\ Len(v) = n /\ v \in Seq(Operators)
  <2>1. v \in [1..n -> Operators]
    BY <1>1, <1>3
  <2> QED BY <1>2, <1>3, <2>1, SeqDef
<1>5. v \in Injection(1..n, ReadyOperators)
  BY <1>3 DEF Injection, IsInjective
<1>6. IsFiniteSet(1..n) /\ Cardinality(1..n) = n
  BY <1>2, FS_Interval
<1>7. v \in Surjection(1..n, ReadyOperators)
  BY <1>1, <1>5, <1>6, FS_Injection
<1>8. \A o \in ReadyOperators : \E i \in 1..Len(v) : v[i] = o
  BY <1>4, <1>7 DEF Surjection
<1>9. v # <<>> /\ 1 \in 1..Len(v) /\ Head(v) = v[1]
  BY <1>2, <1>4
<1> QED BY <1>1, <1>3, <1>4, <1>8, <1>9

\* Whatever the policy finds fits.
LEMMA FoundFits ==
  ASSUME TimesPassed, TuplesStamped, policy \in Policies,
         policy = "MaxThroughput" => NoneOverLimit,
         NEW o \in Operators, o \in Found
  PROVE  \A s \in ReadyOperators : Fits(o, s)
<1> SUFFICES ASSUME NEW s \in ReadyOperators PROVE Fits(o, s)
  OBVIOUS
<1>1. ReadyOperators # {} /\ s \in Operators /\ NoOperator \notin Operators
  BY PoliciesAssumption DEF ReadyOperators
<1>2. policy \in {"Random", "LeastRecently", "MinLatency", "MaxQueueLength", "MaxThroughput"}
  BY PoliciesAssumption
<1>3. CASE policy = "Random"
  BY <1>3 DEF Fits
<1>4. CASE policy = "LeastRecently"
  <2> DEFINE base == [oper |-> NoOperator, time |-> clock]
             Outcome(v) == FoldLeft(LAMBDA sel, q : Sooner(sel, q, endTime[q]), base, v)
  <2>1. o \in LeastRecently
    BY <1>1, <1>4 DEF Found
  <2>2. PICK v \in Visits : o = Outcome(v).oper
    BY <2>1 DEF LeastRecently
  <2>3. v \in Seq(Operators) /\ \E i \in 1..Len(v) : v[i] = s
    BY <1>1, VisitsAll
  <2>4. base \in Selections(Anyone)
    BY DEF Selections, Anyone, TimesPassed
  <2> HIDE DEF base
  <2>5. PICK r : Passes(r, Selections(Anyone), RecencyStep, base, Len(v), v) /\ Outcome(v) = r[Len(v)]
    BY <2>3, <2>4, RecencyPasses
  <2> HIDE DEF Outcome
  <2>6. \A i \in 1..Len(v) : endTime[o] - endTime[v[i]] < Micro
    BY <2>2, <2>3, <2>5, RecencyChoice DEF base
  <2>7. endTime[o] - endTime[s] < Micro
    BY <2>3, <2>6
  <2> QED BY <1>4, <2>7 DEF Fits, Key
<1>5. CASE policy = "MinLatency"
  <2>1. o \in MinLatency
    BY <1>1, <1>5 DEF Found
  <2>2. PICK v \in Visits : o = FoldLeft(VisitForLatency, [oper |-> Head(v), time |-> clock], v).oper
    BY <2>1 DEF MinLatency
  <2> DEFINE base == [oper |-> Head(v), time |-> clock]
  <2>3. v \in Seq(Operators) /\ Head(v) \in Operators /\ \E i \in 1..Len(v) : v[i] = s
    BY <1>1, VisitsAll
  <2>4. base \in Selections(Operators) /\ base.time = clock
    BY <2>3 DEF Selections, TimesPassed
  <2> HIDE DEF base
  <2>5. PICK r : /\ Passes(r, Selections(Operators), LatencyStep, base, Len(v), v)
                 /\ FoldLeft(VisitForLatency, base, v) = r[Len(v)]
    BY <2>3, <2>4, LatencyPasses
  <2>6. r[Len(v)].oper = o
    BY <2>2, <2>5 DEF base
  <2>7. \A i \in 1..Len(v) : Key(o) - Key(v[i]) < Micro
    BY <1>5, <2>3, <2>4, <2>5, <2>6, LatencyChoice
  <2>8. Key(o) - Key(s) < Micro
    BY <2>3, <2>7
  <2> QED BY <1>5, <2>8 DEF Fits
<1>6. CASE policy = "MaxQueueLength"
  <2>1. o \in MaxQueueLength
    BY <1>1, <1>6 DEF Found
  <2>2. PICK v \in Visits :
          o = FoldLeft(VisitForLength, [oper |-> Head(v), length |-> -1, found |-> FALSE], v).oper
    BY <2>1 DEF MaxQueueLength
  <2> DEFINE base == [oper |-> Head(v), length |-> -1, found |-> FALSE]
  <2>3. v \in Seq(Operators) /\ v # <<>> /\ Head(v) \in Operators /\ \E i \in 1..Len(v) : v[i] = s
    BY <1>1, VisitsAll
  <2>4. base \in Lengths /\ base.length = -1 /\ base.found = FALSE
    BY <2>3 DEF Lengths
  <2> HIDE DEF base
  <2>5. PICK r : /\ Passes(r, Lengths, LengthStep, base, Len(v), v)
                 /\ FoldLeft(VisitForLength, base, v) = r[Len(v)]
    BY <2>3, <2>4, LengthPasses
  <2>6. r[Len(v)].oper = o
    BY <2>2, <2>5 DEF base
  <2>7. \A i \in 1..Len(v) : Fits(o, v[i])
    BY <1>6, <2>3, <2>4, <2>5, <2>6, LengthChoice
  <2> QED BY <2>3, <2>7
<1>7. CASE policy = "MaxThroughput"
  <2>1. o \in MaxThroughput
    BY <1>1, <1>7 DEF Found
  <2>2. PICK v \in Visits : o \in FoldLeft(VisitForThroughput, {Head(v)}, Tail(v))
    BY <2>1 DEF MaxThroughput
  <2>3. /\ v \in Seq(Operators) /\ v # <<>> /\ Head(v) = v[1] /\ Head(v) \in Operators
        /\ \E i \in 1..Len(v) : v[i] = s
    BY <1>1, VisitsAll
  <2>4. /\ Tail(v) \in Seq(Operators)
        /\ s = Head(v) \/ \E i \in 1..Len(Tail(v)) : Tail(v)[i] = s
    <3>1. Tail(v) \in Seq(Operators) /\ Len(Tail(v)) = Len(v) - 1 /\ Len(v) \in Nat
          /\ \A i \in 1..Len(Tail(v)) : Tail(v)[i] = v[i + 1]
      BY <2>3
    <3>2. PICK i \in 1..Len(v) : v[i] = s
      BY <2>3
    <3>3. CASE i = 1
      BY <2>3, <3>1, <3>2, <3>3
    <3>4. CASE i # 1
      <4>1. i - 1 \in 1..Len(Tail(v)) /\ (i - 1) + 1 = i
        BY <3>1, <3>4
      <4>2. Tail(v)[i - 1] = s
        BY <3>1, <3>2, <4>1
      <4> QED BY <3>1, <4>1, <4>2
    <3> QED BY <3>3, <3>4
  <2>5. PICK r : /\ Passes(r, SUBSET Operators, ThroughputStep, {Head(v)}, Len(Tail(v)), Tail(v))
                 /\ FoldLeft(VisitForThroughput, {Head(v)}, Tail(v)) = r[Len(Tail(v))]
    <3>1. {Head(v)} \in SUBSET Operators
      BY <2>3
    <3> QED BY <2>4, <3>1, ThroughputPasses
  <2>6. /\ ~Less(Estimate(o), Estimate(Head(v)))
        /\ \A i \in 1..Len(Tail(v)) : ~Less(Estimate(o), Estimate(Tail(v)[i]))
    BY <2>2, <2>3, <2>4, <2>5, ThroughputChoice
  <2>7. ~Less(Estimate(o), Estimate(s))
    BY <2>4, <2>6
  <2>8. Measured(o) /\ Measured(s) /\ HasWork(s) => HasWork(o)
    <3> SUFFICES ASSUME Measured(o), Measured(s), HasWork(s), ~HasWork(o) PROVE FALSE
      OBVIOUS
    <3>1. Estimate(o) = "zero" /\ Estimate(s) = "some"
      BY <1>1, <1>7, EstimateOfMeasured
    <3> QED BY <2>7, <3>1, Ranks DEF Less
  <2> QED BY <1>7, <2>8 DEF Fits
<1> QED BY <1>2, <1>3, <1>4, <1>5, <1>6, <1>7

\* All the policies but LeastRecently find an operator if one is ready.
LEMMA FoundSome ==
  ASSUME TimesPassed, TuplesStamped, policy \in Policies, policy # "LeastRecently",
         NoOperator \in Found
  PROVE  ReadyOperators = {}
<1> SUFFICES ASSUME ReadyOperators # {} PROVE FALSE
  OBVIOUS
<1>1. NoOperator \notin Operators
      /\ policy \in {"Random", "MinLatency", "MaxQueueLength", "MaxThroughput"}
  BY PoliciesAssumption
<1>2. CASE policy = "Random"
  BY <1>1, <1>2 DEF Found, ReadyOperators
<1>3. CASE policy = "MinLatency"
  <2>1. PICK v \in Visits :
          NoOperator = FoldLeft(VisitForLatency, [oper |-> Head(v), time |-> clock], v).oper
    BY <1>3 DEF Found, MinLatency
  <2> DEFINE base == [oper |-> Head(v), time |-> clock]
  <2>2. v \in Seq(Operators) /\ Head(v) \in Operators
    BY VisitsAll
  <2>3. base \in Selections(Operators)
    BY <2>2 DEF Selections, TimesPassed
  <2> HIDE DEF base
  <2>4. PICK r : /\ Passes(r, Selections(Operators), LatencyStep, base, Len(v), v)
                 /\ FoldLeft(VisitForLatency, base, v) = r[Len(v)]
    BY <2>2, <2>3, LatencyPasses
  <2>5. Len(v) \in 0..Len(v)
    BY <2>2
  <2>6. r[Len(v)].oper \in Operators
    BY <2>4, <2>5 DEF Passes, Selections
  <2> QED BY <1>1, <2>1, <2>4, <2>6 DEF base
<1>4. CASE policy = "MaxQueueLength"
  <2>1. PICK v \in Visits :
          NoOperator
            = FoldLeft(VisitForLength, [oper |-> Head(v), length |-> -1, found |-> FALSE], v).oper
    BY <1>4 DEF Found, MaxQueueLength
  <2> DEFINE base == [oper |-> Head(v), length |-> -1, found |-> FALSE]
  <2>2. v \in Seq(Operators) /\ Head(v) \in Operators
    BY VisitsAll
  <2>3. base \in Lengths
    BY <2>2 DEF Lengths
  <2> HIDE DEF base
  <2>4. PICK r : /\ Passes(r, Lengths, LengthStep, base, Len(v), v)
                 /\ FoldLeft(VisitForLength, base, v) = r[Len(v)]
    BY <2>2, <2>3, LengthPasses
  <2>5. Len(v) \in 0..Len(v)
    BY <2>2
  <2>6. r[Len(v)].oper \in Operators
    BY <2>4, <2>5 DEF Passes, Lengths
  <2> QED BY <1>1, <2>1, <2>4, <2>6 DEF base
<1>5. CASE policy = "MaxThroughput"
  <2>1. PICK v \in Visits : NoOperator \in FoldLeft(VisitForThroughput, {Head(v)}, Tail(v))
    BY <1>5 DEF Found, MaxThroughput
  <2>2. v \in Seq(Operators) /\ v # <<>> /\ Head(v) \in Operators
    BY VisitsAll
  <2>3. Tail(v) \in Seq(Operators) /\ {Head(v)} \in SUBSET Operators
    BY <2>2
  <2>4. PICK r : /\ Passes(r, SUBSET Operators, ThroughputStep, {Head(v)}, Len(Tail(v)), Tail(v))
                 /\ FoldLeft(VisitForThroughput, {Head(v)}, Tail(v)) = r[Len(Tail(v))]
    BY <2>3, ThroughputPasses
  <2> QED BY <1>1, <2>1, <2>2, <2>3, <2>4, ThroughputChoice
<1> QED BY <1>1, <1>2, <1>3, <1>4, <1>5

\* ... and LeastRecently finds one that ran a microsecond ago or earlier.
LEMMA FoundOlder ==
  ASSUME TimesPassed, policy = "LeastRecently", NoOperator \in Found, NEW s \in ReadyOperators
  PROVE  clock - endTime[s] < Micro
<1> DEFINE base == [oper |-> NoOperator, time |-> clock]
           Outcome(v) == FoldLeft(LAMBDA sel, q : Sooner(sel, q, endTime[q]), base, v)
<1>1. ReadyOperators # {} /\ NoOperator \in LeastRecently
  BY DEF Found
<1>2. PICK v \in Visits : NoOperator = Outcome(v).oper
  BY <1>1 DEF LeastRecently
<1>3. v \in Seq(Operators) /\ \E i \in 1..Len(v) : v[i] = s
  BY <1>1, VisitsAll
<1>4. base \in Selections(Anyone)
  BY DEF Selections, Anyone, TimesPassed
<1> HIDE DEF base
<1>5. PICK r : Passes(r, Selections(Anyone), RecencyStep, base, Len(v), v) /\ Outcome(v) = r[Len(v)]
  BY <1>3, <1>4, RecencyPasses
<1> HIDE DEF Outcome
<1>6. \A i \in 1..Len(v) : clock - endTime[v[i]] < Micro
  BY <1>2, <1>3, <1>5, RecencyOfNone DEF base
<1> QED BY <1>3, <1>6

-----------------------------------------------------------------------------
\* Leaving the list of the waiting threads.
LEMMA WithoutLeaves ==
  ASSUME NEW s \in Seq(Threads), Once(s), NEW t \in Threads
  PROVE  /\ Without(s, t) \in Seq(Threads) /\ Once(Without(s, t))
         /\ ~InSeq(t, Without(s, t))
         /\ \A u \in Threads : InSeq(u, Without(s, t)) => InSeq(u, s)
<1>1. CASE InSeq(t, s)
  <2> DEFINE i == CHOOSE i \in DOMAIN s : s[i] = t
             a == SubSeq(s, 1, i - 1)
             b == SubSeq(s, i + 1, Len(s))
             w == Without(s, t)
             From(j) == IF j < i THEN j ELSE j + 1
  <2>1. i \in 1..Len(s) /\ s[i] = t /\ Len(s) \in Nat /\ DOMAIN s = 1..Len(s)
    BY <1>1 DEF InSeq
  <2>2. w = a \o b
    BY <1>1 DEF Without
  <2> HIDE DEF i
  <2>3. a \in Seq(Threads) /\ Len(a) = i - 1 /\ \A j \in 1..(i - 1) : a[j] = s[j]
    <3>1. 1 \in Int /\ i - 1 \in Int /\ \A j \in 1..(i - 1) : s[j] \in Threads
      BY <2>1
    <3>2. /\ a \in Seq(Threads) /\ Len(a) = IF 1 <= i - 1 THEN (i - 1) - 1 + 1 ELSE 0
          /\ \A j \in 1..((i - 1) - 1 + 1) : a[j] = s[1 + j - 1]
      BY <3>1, SubSeqProperties
    <3> QED BY <2>1, <3>2
  <2>4. b \in Seq(Threads) /\ Len(b) = Len(s) - i /\ \A j \in 1..(Len(s) - i) : b[j] = s[i + j]
    <3>1. i + 1 \in Int /\ Len(s) \in Int /\ \A j \in (i + 1)..Len(s) : s[j] \in Threads
      BY <2>1
    <3>2. /\ b \in Seq(Threads)
          /\ Len(b) = IF i + 1 <= Len(s) THEN Len(s) - (i + 1) + 1 ELSE 0
          /\ \A j \in 1..(Len(s) - (i + 1) + 1) : b[j] = s[(i + 1) + j - 1]
      BY <3>1, SubSeqProperties
    <3> QED BY <2>1, <3>2
  <2> HIDE DEF a, b
  <2>5. /\ w \in Seq(Threads) /\ Len(w) = Len(s) - 1
        /\ \A j \in 1..Len(w) : /\ w[j] = s[From(j)]
                               /\ From(j) \in 1..Len(s) /\ From(j) # i
    <3>1. /\ w \in Seq(Threads) /\ Len(w) = Len(a) + Len(b)
          /\ \A j \in 1..(Len(a) + Len(b)) : w[j] = IF j <= Len(a) THEN a[j] ELSE b[j - Len(a)]
      <4>1. a \in Seq(Threads) /\ b \in Seq(Threads)
        BY <2>3, <2>4
      <4>2. a \o b \in Seq(Threads) /\ Len(a \o b) = Len(a) + Len(b)
        BY <4>1
      <4>3. ASSUME NEW j \in 1..(Len(a) + Len(b))
            PROVE  (a \o b)[j] = IF j <= Len(a) THEN a[j] ELSE b[j - Len(a)]
        BY <4>1
      <4> QED BY <2>2, <4>2, <4>3
    <3>2. Len(w) = Len(s) - 1
      BY <2>1, <2>3, <2>4, <3>1
    <3>3. ASSUME NEW j \in 1..Len(w)
          PROVE  w[j] = s[From(j)] /\ From(j) \in 1..Len(s) /\ From(j) # i
      <4>1. CASE j < i
        <5>1. j \in 1..(i - 1)
          BY <2>1, <4>1
        <5> QED BY <2>1, <2>3, <3>1, <3>2, <4>1, <5>1
      <4>2. CASE ~(j < i)
        <5>1. j - (i - 1) \in 1..(Len(s) - i) /\ i + (j - (i - 1)) = j + 1
          BY <2>1, <3>2, <4>2
        <5>2. w[j] = b[j - (i - 1)]
          <6>1. j \in 1..(Len(a) + Len(b)) /\ ~(j <= Len(a)) /\ j - Len(a) = j - (i - 1)
            BY <2>1, <2>3, <3>1, <4>2
          <6> QED BY <3>1, <6>1
        <5>3. w[j] = s[j + 1]
          BY <2>4, <5>1, <5>2
        <5> QED BY <2>1, <3>2, <4>2, <5>3
      <4> QED BY <4>1, <4>2
    <3> QED BY <3>1, <3>2, <3>3
  <2> HIDE DEF w
  <2>6. \A j, k \in 1..Len(w) : From(j) = From(k) => j = k
    BY <2>1, <2>5
  <2>7. DOMAIN w = 1..Len(w)
    BY <2>5
  <2>8. Once(w)
    <3> HIDE DEF From
    <3> QED BY <2>1, <2>5, <2>6, <2>7 DEF Once
  <2>9. ~InSeq(t, w)
    <3> HIDE DEF From
    <3> QED BY <2>1, <2>5, <2>7 DEF InSeq, Once
  <2>10. \A u \in Threads : InSeq(u, w) => InSeq(u, s)
    <3> HIDE DEF From
    <3> QED BY <2>1, <2>5, <2>7 DEF InSeq
  <2> QED BY <2>5, <2>8, <2>9, <2>10 DEF w
<1>2. CASE ~InSeq(t, s)
  BY <1>2 DEF Without
<1> QED BY <1>1, <1>2

\* Entering it.
LEMMA PrependEnters ==
  ASSUME NEW s \in Seq(Threads), Once(s), NEW t \in Threads, ~InSeq(t, s)
  PROVE  /\ <<t>> \o s \in Seq(Threads) /\ Once(<<t>> \o s)
         /\ \A u \in Threads : InSeq(u, <<t>> \o s) => u = t \/ InSeq(u, s)
<1> DEFINE w == <<t>> \o s
<1>1. Len(s) \in Nat /\ DOMAIN s = 1..Len(s) /\ \A j \in 1..Len(s) : s[j] # t
  BY DEF InSeq
<1>2. w \in Seq(Threads) /\ Len(w) = Len(s) + 1 /\ DOMAIN w = 1..(Len(s) + 1)
  BY <1>1
<1>3. w[1] = t /\ \A j \in 2..(Len(s) + 1) : w[j] = s[j - 1] /\ j - 1 \in 1..Len(s)
  BY <1>1
<1>4. \A j \in DOMAIN w : j = 1 \/ j \in 2..(Len(s) + 1)
  BY <1>2
<1> HIDE DEF w
<1>5. Once(w)
  <2> SUFFICES ASSUME NEW j \in DOMAIN w, NEW k \in DOMAIN w, w[j] = w[k] PROVE j = k
    BY DEF Once
  <2>1. CASE j = 1
    BY <1>1, <1>3, <1>4, <2>1
  <2>2. CASE k = 1
    BY <1>1, <1>3, <1>4, <2>2
  <2>3. CASE j \in 2..(Len(s) + 1) /\ k \in 2..(Len(s) + 1)
    <3>1. s[j - 1] = s[k - 1] /\ j - 1 \in DOMAIN s /\ k - 1 \in DOMAIN s
      BY <1>1, <1>3, <2>3
    <3>2. j - 1 = k - 1
      BY <3>1 DEF Once
    <3> QED BY <2>3, <3>2
  <2> QED BY <1>4, <2>1, <2>2, <2>3
<1>6. \A u \in Threads : InSeq(u, w) => u = t \/ InSeq(u, s)
  BY <1>1, <1>3, <1>4 DEF InSeq
<1> QED BY <1>2, <1>5, <1>6 DEF w

\* The tuple pushed is the last in the queue and the youngest; the first is popped.
LEMMA PushStamps ==
  ASSUME NEW s, NEW k \in Nat, Stamps(s, k), clock \in Nat
  PROVE  Append(s, Stamp) \in Seq(Nat) /\ Stamps(Append(s, Stamp), k + 1)
<1> DEFINE x == Stamp
<1>x. x = Latest /\ x \in Nat
  BY DEF Stamp, Latest, Stamped
<1> HIDE DEF x
<1>1. /\ s \in Seq(Nat) /\ Len(s) = k /\ x \in Nat
      /\ \A i \in 1..k : s[i] <= x /\ \A j \in 1..i : s[j] <= s[i]
  BY <1>x DEF Stamps
<1>2. /\ Append(s, x) \in Seq(Nat) /\ Len(Append(s, x)) = k + 1 /\ Append(s, x)[k + 1] = x
      /\ \A i \in 1..k : Append(s, x)[i] = s[i]
  BY <1>1
<1>3. \A i \in 1..(k + 1) : i = k + 1 \/ i \in 1..k
  OBVIOUS
<1>4. ASSUME NEW i \in 1..(k + 1), NEW j \in 1..i
      PROVE  Append(s, x)[i] <= x /\ Append(s, x)[j] <= Append(s, x)[i]
  <2>1. j = i \/ j \in 1..k
    OBVIOUS
  <2>2. CASE i = k + 1
    <3>1. Append(s, x)[i] = x /\ x <= x
      BY <1>1, <1>2, <2>2
    <3>2. j = k + 1 \/ j \in 1..k
      BY <2>2
    <3>3. Append(s, x)[j] <= x
      BY <1>1, <1>2, <3>1, <3>2
    <3> QED BY <3>1, <3>3
  <2>3. CASE i \in 1..k
    <3>1. j \in 1..k /\ s[i] <= x /\ s[j] <= s[i]
      BY <1>1, <2>3
    <3> QED BY <1>2, <2>3, <3>1
  <2> QED BY <1>3, <2>2, <2>3
<1>5. Append(s, x) \in Seq(Nat) /\ Stamps(Append(s, x), k + 1)
  BY <1>x, <1>2, <1>4 DEF Stamps
<1> QED BY <1>5 DEF x

LEMMA PopStamps ==
  ASSUME NEW s, NEW k \in Nat, k # 0, Stamps(s, k)
  PROVE  Tail(s) \in Seq(Nat) /\ Stamps(Tail(s), k - 1)
<1>1. s \in Seq(Nat) /\ Len(s) = k /\ s # <<>>
  BY DEF Stamps
<1>2. /\ Tail(s) \in Seq(Nat) /\ Len(Tail(s)) = k - 1
      /\ \A i \in 1..(k - 1) : Tail(s)[i] = s[i + 1] /\ i + 1 \in 1..k
  BY <1>1
<1>3. ASSUME NEW i \in 1..(k - 1), NEW j \in 1..i
      PROVE  Tail(s)[i] <= Latest /\ Tail(s)[j] <= Tail(s)[i]
  <2>1. j \in 1..(k - 1) /\ j + 1 \in 1..(i + 1)
    OBVIOUS
  <2> QED BY <1>2, <2>1 DEF Stamps
<1> QED BY <1>2, <1>3 DEF Stamps

LEMMA LaterStamps ==
  ASSUME NEW s, NEW k, Stamps(s, k), NEW later \in Nat, Latest \in Nat, Latest <= later
  PROVE  \A i \in 1..k : s[i] <= later
<1>1. s \in Seq(Nat) /\ Len(s) = k /\ \A i \in 1..k : s[i] <= Latest /\ s[i] \in Nat
  BY DEF Stamps
<1> QED BY <1>1

-----------------------------------------------------------------------------
\* The invariant: it holds at the start, and every action preserves it.
LEMMA InvInit == ASSUME Init PROVE PoliciesInv
<1>1. Micro \in Nat
  BY PoliciesAssumption
<1>2. ThreadsApart
  <2>1. waiting = <<>> /\ DOMAIN waiting = {} /\ waiting \in Seq(Threads)
    BY DEF Init, SchedInit
  <2>2. Once(waiting) /\ \A t \in Threads : ~InSeq(t, waiting)
    BY <2>1 DEF Once, InSeq
  <2> QED BY <2>1, <2>2 DEF Init, ThreadsApart
<1>3. TimesPassed
  BY <1>1 DEF Init, TimesPassed
<1>4. TuplesStamped
  <2>1. ASSUME NEW p \in InPorts PROVE Stamps(stamps[p], Count(p))
    <3>1. stamps[p] = <<>> /\ Count(p) = 0 /\ 1..0 = {}
      BY DEF Init, Count
    <3>2. stamps[p] \in Seq(Nat) /\ Len(stamps[p]) = 0
      BY <3>1
    <3> QED BY <3>1, <3>2 DEF Stamps
  <2> QED BY <2>1 DEF Init, TuplesStamped
<1>5. profile \in [InPorts \cup OutPorts -> Profiles]
  BY Ranks DEF Init
<1>6. CallsWellFormed
  BY DEF Init, CallsWellFormed
<1> QED BY <1>2, <1>3, <1>4, <1>5, <1>6 DEF Init, PoliciesInv

LEMMA SameTuples ==
  ASSUME TuplesStamped, UNCHANGED <<queue, stamps, clock, policy>>
  PROVE  TuplesStamped'
<1>1. \A s, k : Stamps(s, k)' <=> Stamps(s, k)
  BY DEF Stamps, Stamp, Latest, Stamped
<1> QED BY DEF TuplesStamped, Stamps, Stamp, Latest, Stamped, Count

LEMMA SameThreads ==
  ASSUME ThreadsApart, UNCHANGED <<waiting, working>>
  PROVE  ThreadsApart'
BY DEF ThreadsApart, Once, InSeq

LEMMA SameTimes ==
  ASSUME TimesPassed, UNCHANGED <<clock, endTime>>
  PROVE  TimesPassed'
BY DEF TimesPassed

LEMMA SameCalls ==
  ASSUME CallsWellFormed, UNCHANGED callVars
  PROVE  CallsWellFormed'
BY DEF CallsWellFormed, callVars

\* The calls of an operator that leave it to its thread.
Calls(o) ==
  CountWait(o) \/ Push(o) \/ Pop(o) \/ Deliver(o) \/ AnnounceWritten(o) \/ AnnounceRead(o)

LEMMA Going ==
  ASSUME CallsWellFormed, NEW o \in Operators,
         NEW l \in {"code", "deliver", "written", "read"}, NEW ports \in Seq(InPorts), Goto(o, l, ports),
         l # "code" => ports # <<>>,
         l \in {"deliver", "written"} => \A i \in DOMAIN ports : ports[i] \in DownstreamPorts(o)
  PROVE  CallsWellFormed'
<1>1. /\ pc' \in [Operators -> {"code", "deliver", "written", "read"}]
      /\ todo' \in [Operators -> Seq(InPorts)]
      /\ pc'[o] = l /\ todo'[o] = ports
      /\ \A u \in Operators \ {o} : pc'[u] = pc[u] /\ todo'[u] = todo[u]
  BY DEF CallsWellFormed, Goto
<1>2. ASSUME NEW u \in Operators
      PROVE  /\ pc'[u] # "code" => todo'[u] # <<>>
             /\ pc'[u] \in {"deliver", "written"} =>
                  \A i \in DOMAIN todo'[u] : todo'[u][i] \in DownstreamPorts(u)
  <2>1. CASE u = o
    BY <1>1, <2>1
  <2>2. CASE u # o
    BY <1>1, <2>2 DEF CallsWellFormed
  <2> QED BY <2>1, <2>2
<1> QED BY <1>1, <1>2 DEF CallsWellFormed

LEMMA SubscribersAre ==
  ASSUME NEW o \in Operators, NEW q \in OutPortsOf(o)
  PROVE  /\ q \in OutPorts /\ Source[q] = o /\ Subscribers[q] \in Seq(InPorts)
         /\ \A i \in DOMAIN Subscribers[q] :
              Subscribers[q][i] \in SubscribersOf(q) /\ Subscribers[q][i] \in DownstreamPorts(o)
BY FlowGraphAssumption DEF OutPortsOf, SubscribersOf, DownstreamPorts

LEMMA AfterHead ==
  ASSUME NEW S, NEW s \in Seq(S), s # <<>>
  PROVE  /\ Head(s) \in S /\ Head(s) = s[1] /\ 1 \in DOMAIN s
         /\ Tail(s) \in Seq(S)
         /\ \A i \in DOMAIN Tail(s) : i + 1 \in DOMAIN s /\ i + 1 # 1 /\ Tail(s)[i] = s[i + 1]
<1>1. Len(s) \in Nat /\ Len(s) # 0 /\ DOMAIN s = 1..Len(s)
  OBVIOUS
<1>2. Tail(s) \in Seq(S) /\ Len(Tail(s)) = Len(s) - 1 /\ DOMAIN Tail(s) = 1..(Len(s) - 1)
  BY <1>1
<1>3. \A i \in 1..(Len(s) - 1) : Tail(s)[i] = s[i + 1] /\ i + 1 \in 1..Len(s) /\ i + 1 # 1
  BY <1>1
<1>4. Head(s) = s[1] /\ 1 \in 1..Len(s) /\ s[1] \in S
  BY <1>1
<1> QED BY <1>1, <1>2, <1>3, <1>4

LEMMA CallsStay ==
  ASSUME CallsWellFormed, NEW o \in Operators, Calls(o)
  PROVE  CallsWellFormed'
<1>1. CASE CountWait(o)
  BY <1>1, SameCalls DEF CountWait
<1>2. CASE Push(o)
  <2>1. PICK q \in OutPortsOf(o) :
          Goto(o, IF Subscribers[q] = <<>> THEN "code" ELSE "deliver", Subscribers[q])
    BY <1>2 DEF Push
  <2> QED BY <2>1, SubscribersAre, Going
<1>3. CASE Pop(o)
  <2>1. PICK p \in InPortsOf(o) : Goto(o, "read", <<p>>)
    BY <1>3 DEF Pop
  <2>2. <<p>> \in Seq(InPorts) /\ <<p>> # <<>>
    BY DEF InPortsOf
  <2> QED BY <2>1, <2>2, Going
<1>4. CASE Deliver(o)
  <2>1. pc[o] = "deliver" /\ Goto(o, "written", todo[o])
    BY <1>4 DEF Deliver
  <2>2. /\ todo[o] \in Seq(InPorts) /\ todo[o] # <<>>
        /\ \A i \in DOMAIN todo[o] : todo[o][i] \in DownstreamPorts(o)
    BY <2>1 DEF CallsWellFormed
  <2> QED BY <2>1, <2>2, Going
<1>5. CASE AnnounceWritten(o)
  <2> DEFINE rest == Tail(todo[o])
             l == IF rest = <<>> THEN "code" ELSE "deliver"
  <2>1. pc[o] = "written" /\ Goto(o, l, rest)
    BY <1>5 DEF AnnounceWritten
  <2>2. /\ todo[o] \in Seq(InPorts) /\ todo[o] # <<>>
        /\ \A i \in DOMAIN todo[o] : todo[o][i] \in DownstreamPorts(o)
    BY <2>1 DEF CallsWellFormed
  <2>3. /\ rest \in Seq(InPorts) /\ \A i \in DOMAIN rest : rest[i] \in DownstreamPorts(o)
    BY <2>2, AfterHead
  <2>4. l \in {"code", "deliver"} /\ (l # "code" => rest # <<>>)
    OBVIOUS
  <2> HIDE DEF rest, l
  <2> QED BY <2>1, <2>3, <2>4, Going
<1>6. CASE AnnounceRead(o)
  <2>1. Goto(o, "code", <<>>) /\ <<>> \in Seq(InPorts)
    BY <1>6 DEF AnnounceRead
  <2> QED BY <2>1, Going
<1> QED BY <1>1, <1>2, <1>3, <1>4, <1>5, <1>6 DEF Calls

LEMMA BeginStep ==
  ASSUME PoliciesInv, NEW t \in Threads, NEW o \in Operators, Begin(t, o)
  PROVE  PoliciesInv'
<1>1. TuplesStamped'
  BY SameTuples DEF PoliciesInv, Begin, portVars
<1>2. TimesPassed'
  BY SameTimes DEF PoliciesInv, Begin
<1>3. ThreadsApart'
  <2>1. waiting' = Without(waiting, t) /\ working' = [working EXCEPT ![t] = o]
    BY DEF Begin, Assign
  <2>2. /\ Without(waiting, t) \in Seq(Threads) /\ Once(Without(waiting, t))
        /\ ~InSeq(t, Without(waiting, t))
        /\ \A u \in Threads : InSeq(u, Without(waiting, t)) => InSeq(u, waiting)
    BY WithoutLeaves DEF PoliciesInv, ThreadsApart
  <2>3. working' \in [Threads -> Operators \cup {NoOperator}]
    BY <2>1 DEF PoliciesInv, ThreadsApart
  <2>4. ASSUME NEW u \in Threads, working'[u] # NoOperator PROVE ~InSeq(u, Without(waiting, t))
    BY <2>1, <2>2, <2>4 DEF PoliciesInv, ThreadsApart
  <2>5. Once(waiting') /\ waiting' \in Seq(Threads)
    BY <2>1, <2>2
  <2>6. \A u \in Threads : working'[u] # NoOperator => ~InSeq(u, waiting')
    BY <2>1, <2>4
  <2> QED BY <2>3, <2>5, <2>6 DEF ThreadsApart
<1>4. CallsWellFormed'
  BY SameCalls DEF PoliciesInv, Begin
<1> QED BY <1>1, <1>2, <1>3, <1>4 DEF PoliciesInv, Begin

LEMMA RestStep ==
  ASSUME PoliciesInv, NEW t \in Threads, Rest(t)
  PROVE  PoliciesInv'
<1>1. TuplesStamped'
  BY SameTuples DEF PoliciesInv, Rest, portVars, timeVars
<1>2. TimesPassed'
  BY SameTimes DEF PoliciesInv, Rest, timeVars
<1>3. ThreadsApart'
  <2>1. waiting \in Seq(Threads) /\ Once(waiting) /\ working' = working /\ working[t] = NoOperator
    BY DEF PoliciesInv, ThreadsApart, Rest, Asking
  <2>2. CASE InSeq(t, waiting)
    <3>1. waiting' = waiting
      BY <2>2 DEF Rest
    <3> QED BY <2>1, <3>1, SameThreads DEF PoliciesInv
  <2>3. CASE ~InSeq(t, waiting)
    <3>1. waiting' = <<t>> \o waiting
      BY <2>3 DEF Rest
    <3>2. /\ waiting' \in Seq(Threads) /\ Once(waiting')
          /\ \A u \in Threads : InSeq(u, waiting') => u = t \/ InSeq(u, waiting)
      BY <2>1, <2>3, <3>1, PrependEnters
    <3> QED BY <2>1, <3>2 DEF PoliciesInv, ThreadsApart
  <2> QED BY <2>2, <2>3
<1>4. CallsWellFormed'
  BY SameCalls DEF PoliciesInv, Rest
<1> QED BY <1>1, <1>2, <1>3, <1>4 DEF PoliciesInv, Rest, profileVars

LEMMA EndStep ==
  ASSUME PoliciesInv, NEW t \in Threads, NEW o \in Operators, End(t, o), UNCHANGED waiting
  PROVE  PoliciesInv'
<1>1. TuplesStamped'
  BY SameTuples DEF PoliciesInv, End, portVars
<1>2. TimesPassed'
  <2>1. endTime' = endTime \/ endTime' = [endTime EXCEPT ![o] = clock]
    BY DEF End
  <2> QED BY <2>1 DEF PoliciesInv, End, TimesPassed
<1>3. ThreadsApart'
  BY DEF PoliciesInv, End, ThreadsApart, InSeq, Once
<1>4. profile' \in [InPorts \cup OutPorts -> Profiles]
  <2>1. \A x \in Profiles, y \in Profiles : UpdatedProfile(x, y) \in Profiles
    BY DEF UpdatedProfile
  <2>2. \A p \in DOMAIN profile : profile[p] \in Profiles
    BY DEF PoliciesInv
  <2> QED BY <2>1, <2>2, QuotientType DEF PoliciesInv, End, ProfilesAfter
<1>5. CallsWellFormed'
  BY SameCalls DEF PoliciesInv, End
<1> QED BY <1>1, <1>2, <1>3, <1>4, <1>5 DEF PoliciesInv, End

LEMMA ExecuteStep ==
  ASSUME PoliciesInv, NEW t \in Threads, Execute(t)
  PROVE  PoliciesInv'
<1>1. PICK o \in Operators : working[t] = o /\ (Block(t, o) \/ Yield(t, o) \/ Calls(o))
  BY DEF Execute, Calls
<1>0. ASSUME Calls(o) PROVE CallsWellFormed'
  BY <1>0, CallsStay DEF PoliciesInv
<1>2. CASE Block(t, o)
  <2>1. UNCHANGED waiting /\ End(t, o)
    BY <1>2 DEF Block, MarkOperatorAsReadBlocked, MarkOperatorAsWriteBlocked, RegisterReader
  <2> QED BY <2>1, EndStep
<1>3. CASE Yield(t, o)
  <2>1. UNCHANGED waiting /\ End(t, o)
    BY <1>3 DEF Yield, Preempt
  <2> QED BY <2>1, EndStep
<1>4. CASE CountWait(o) \/ Push(o) \/ AnnounceWritten(o) \/ AnnounceRead(o)
  <2>1. UNCHANGED <<queue, stamps, clock, policy, endTime, waiting, working, profile>>
    BY <1>4 DEF CountWait, Push, AnnounceWritten, AnnounceRead, MarkInputPortAsWritten,
                MarkInputPortAsRead, portVars, schedVars, timeVars, profileVars
  <2> QED BY <1>0, <1>4, <2>1, SameTuples, SameThreads, SameTimes DEF PoliciesInv, Calls
<1>5. CASE Deliver(o)
  <2> DEFINE p == Head(todo[o])
  <2>1. PICK x \in Tuples :
          /\ queue' = [queue EXCEPT ![p] = Append(@, x)]
          /\ stamps' = [stamps EXCEPT ![p] = Append(@, Stamp)]
          /\ UNCHANGED <<policy, clock, endTime, waiting, working, profile>>
    BY <1>5 DEF Deliver, schedVars, profileVars
  <2>3. ThreadsApart' /\ TimesPassed'
    BY <2>1, SameThreads, SameTimes DEF PoliciesInv
  <2>4. p \in InPorts
    BY <1>5, AfterHead DEF Deliver, PoliciesInv, CallsWellFormed
  <2> HIDE DEF p
  <2>5. /\ queue \in [InPorts -> Seq(Tuples)] /\ stamps \in [InPorts -> Seq(Nat)]
        /\ \A i \in InPorts : Stamps(stamps[i], Count(i)) /\ Count(i) \in Nat
        /\ clock \in Nat
    BY DEF PoliciesInv, TuplesStamped, TimesPassed, Count
  <2>6. queue' \in [InPorts -> Seq(Tuples)]
    BY <2>1, <2>4, <2>5
  <2>7. Append(stamps[p], Stamp) \in Seq(Nat) /\ Stamps(Append(stamps[p], Stamp), Count(p) + 1)
    BY <2>4, <2>5, PushStamps
  <2>8. stamps' \in [InPorts -> Seq(Nat)]
    BY <2>1, <2>4, <2>5, <2>7
  <2>9. ASSUME NEW i \in InPorts PROVE Stamps(stamps'[i], Len(queue'[i]))
    <3>1. CASE i = p
      <4>1. stamps'[i] = Append(stamps[p], Stamp) /\ queue'[i] = Append(queue[p], x)
        BY <2>1, <2>4, <2>5, <3>1
      <4>2. Len(queue'[i]) = Count(p) + 1
        BY <2>4, <2>5, <4>1 DEF Count
      <4> QED BY <2>7, <4>1, <4>2
    <3>2. CASE i # p
      BY <2>1, <2>4, <2>5, <3>2 DEF Count
    <3> QED BY <3>1, <3>2
  <2>10. \A s, k : Stamps(s, k)' <=> Stamps(s, k)
    BY <2>1 DEF Stamps, Stamp, Latest, Stamped
  <2>11. TuplesStamped'
    BY <2>1, <2>6, <2>8, <2>9 DEF TuplesStamped, Count, Stamps, Stamp, Latest, Stamped
  <2> QED BY <1>0, <1>5, <2>1, <2>3, <2>11 DEF PoliciesInv, Calls
<1>6. CASE Pop(o)
  <2>1. PICK p \in InPortsOf(o) :
          /\ Count(p) > 0
          /\ queue' = [queue EXCEPT ![p] = Tail(@)]
          /\ stamps' = [stamps EXCEPT ![p] = Tail(@)]
          /\ UNCHANGED <<policy, clock, endTime, waiting, working, profile>>
    BY <1>6 DEF Pop, schedVars
  <2>3. ThreadsApart' /\ TimesPassed'
    BY <2>1, SameThreads, SameTimes DEF PoliciesInv
  <2>4. p \in InPorts
    BY DEF InPortsOf
  <2>5. /\ queue \in [InPorts -> Seq(Tuples)] /\ stamps \in [InPorts -> Seq(Nat)]
        /\ \A i \in InPorts : Stamps(stamps[i], Count(i)) /\ Count(i) \in Nat
    BY DEF PoliciesInv, TuplesStamped, Count
  <2>6. Tail(queue[p]) \in Seq(Tuples) /\ Len(Tail(queue[p])) = Count(p) - 1
    BY <2>1, <2>4, <2>5 DEF Count
  <2>7. Tail(stamps[p]) \in Seq(Nat) /\ Stamps(Tail(stamps[p]), Count(p) - 1)
    BY <2>1, <2>4, <2>5, PopStamps
  <2>8. queue' \in [InPorts -> Seq(Tuples)] /\ stamps' \in [InPorts -> Seq(Nat)]
    BY <2>1, <2>4, <2>5, <2>6, <2>7
  <2>9. ASSUME NEW i \in InPorts PROVE Stamps(stamps'[i], Len(queue'[i]))
    <3>1. CASE i = p
      <4>1. stamps'[i] = Tail(stamps[p]) /\ queue'[i] = Tail(queue[p])
        BY <2>1, <2>4, <2>5, <3>1
      <4> QED BY <2>6, <2>7, <4>1
    <3>2. CASE i # p
      BY <2>1, <2>4, <2>5, <3>2 DEF Count
    <3> QED BY <3>1, <3>2
  <2>11. TuplesStamped'
    BY <2>1, <2>8, <2>9 DEF TuplesStamped, Count, Stamps, Stamp, Latest, Stamped
  <2> QED BY <1>0, <1>6, <2>1, <2>3, <2>11 DEF PoliciesInv, Calls
<1> QED BY <1>1, <1>2, <1>3, <1>4, <1>5, <1>6 DEF Calls

LEMMA TickStep ==
  ASSUME PoliciesInv, Tick
  PROVE  PoliciesInv'
<1>1. clock \in Nat /\ clock' \in Nat /\ clock <= clock' /\ UNCHANGED <<queue, stamps, policy, endTime, waiting, working, profile>>
  BY DEF PoliciesInv, TimesPassed, Tick, portVars, schedVars, profileVars
<1>2. TimesPassed'
  <2>1. \A o \in Operators : endTime[o] \in Nat /\ endTime[o] <= clock
    BY DEF PoliciesInv, TimesPassed
  <2>2. \A o \in Operators : endTime[o] <= clock'
    BY <1>1, <2>1
  <2> QED BY <1>1, <2>2 DEF PoliciesInv, TimesPassed
<1>3. ThreadsApart'
  BY <1>1, SameThreads DEF PoliciesInv
<1>4. TuplesStamped'
  <2>1. Latest \in Nat /\ Latest' \in Nat /\ Latest <= Latest'
    BY <1>1 DEF Stamp, Latest, Stamped
  <2>2. ASSUME NEW p \in InPorts PROVE Stamps(stamps[p], Count(p))'
    <3>1. Stamps(stamps[p], Count(p))
      BY DEF PoliciesInv, TuplesStamped
    <3>2. \A i \in 1..Count(p) : stamps[p][i] <= Latest'
      BY <2>1, <3>1, LaterStamps
    <3> QED BY <1>1, <3>1, <3>2 DEF Stamps, Count
  <2> QED BY <1>1, <2>2 DEF PoliciesInv, TuplesStamped
<1>5. CallsWellFormed'
  BY SameCalls DEF PoliciesInv, Tick
<1> QED BY <1>1, <1>2, <1>3, <1>4, <1>5 DEF PoliciesInv

-----------------------------------------------------------------------------
\* A thread that works has left the waiting list, in which nobody is twice, no end
\* time and no time stamp is in the future, and the stamps of a queue are in order
\* (getThreadWork, setEndTime and pushTuple).
THEOREM Bookkeeping == Spec => []PoliciesInv
<1>1. Init => PoliciesInv
  BY InvInit
<1>2. PoliciesInv /\ [Next]_vars => PoliciesInv'
  <2> SUFFICES ASSUME PoliciesInv, [Next]_vars PROVE PoliciesInv'
    OBVIOUS
  <2>1. CASE \E t \in Threads, o \in Operators : Begin(t, o)
    BY <2>1, BeginStep
  <2>2. CASE \E t \in Threads : Rest(t)
    BY <2>2, RestStep
  <2>3. CASE \E t \in Threads : Execute(t)
    BY <2>3, ExecuteStep
  <2>4. CASE Tick
    BY <2>4, TickStep
  <2>5. CASE UNCHANGED vars
    <3>1. UNCHANGED <<queue, stamps, clock, policy, endTime, waiting, working, profile, callVars>>
      BY <2>5 DEF vars, portVars, schedVars, timeVars, profileVars
    <3> QED BY <3>1, SameTuples, SameThreads, SameTimes, SameCalls DEF PoliciesInv
  <2> QED BY <2>1, <2>2, <2>3, <2>4, <2>5 DEF Next
<1> QED BY <1>1, <1>2, PTL DEF Spec

\* A step of a thread that works leaves somebody awake.
LEMMA AttendedStep ==
  ASSUME PoliciesInv, OthersAttend, [Next]_vars
  PROVE  OthersAttend'
<1> SUFFICES ASSUME policy # "LeastRecently", ReadyOperators' # {}
             PROVE  \E t \in Threads : working'[t] # NoOperator \/ Asking(t)'
  <2>1. policy' = policy
    BY DEF Next, Begin, Rest, Execute, Block, End, Yield, CountWait, Push, Pop, Deliver,
           AnnounceWritten, AnnounceRead, Tick, vars
  <2> QED BY <2>1 DEF OthersAttend
<1>1. /\ working \in [Threads -> Operators \cup {NoOperator}] /\ NoOperator \notin Operators
      /\ \A t \in Threads : working[t] # NoOperator => ~InSeq(t, waiting)
  BY PoliciesAssumption DEF PoliciesInv, ThreadsApart
<1>2. ASSUME NEW t \in Threads, NEW o \in Operators, Begin(t, o)
      PROVE  \E u \in Threads : working'[u] # NoOperator \/ Asking(u)'
  <2>1. working'[t] = o
    BY <1>1, <1>2 DEF Begin
  <2> QED BY <1>1, <2>1
<1>3. ASSUME NEW t \in Threads, Rest(t) PROVE FALSE
  <2>1. NoOperator \in Found /\ opState' = opState
    BY <1>3 DEF Rest, operVars
  <2>2. ReadyOperators = {}
    BY <2>1, FoundSome DEF PoliciesInv
  <2> QED BY <2>1, <2>2 DEF ReadyOperators
<1>4. ASSUME NEW t \in Threads, Execute(t)
      PROVE  \E u \in Threads : working'[u] # NoOperator \/ Asking(u)'
  <2>1. PICK o \in Operators :
          working[t] = o /\ (Block(t, o) \/ Yield(t, o) \/ Calls(o))
    BY <1>4 DEF Execute, Calls
  <2>2. ~InSeq(t, waiting)
    BY <1>1, <2>1
  <2>3. CASE Block(t, o) \/ Yield(t, o)
    <3>1. UNCHANGED waiting /\ working' = [working EXCEPT ![t] = NoOperator]
      BY <2>3 DEF Block, Yield, End, MarkOperatorAsReadBlocked, MarkOperatorAsWriteBlocked,
                  RegisterReader, Preempt
    <3>2. working'[t] = NoOperator /\ ~InSeq(t, waiting')
      BY <1>1, <2>2, <3>1
    <3> QED BY <3>2 DEF Asking, InSeq
  <2>4. CASE Calls(o)
    <3>1. working' = working
      BY <2>4 DEF Calls, CountWait, Push, Pop, Deliver, AnnounceWritten, AnnounceRead
    <3> QED BY <1>1, <2>1, <3>1
  <2> QED BY <2>1, <2>3, <2>4
<1>5. ASSUME UNCHANGED <<opState, working, waiting, notified>>
      PROVE  \E u \in Threads : working'[u] # NoOperator \/ Asking(u)'
  <2>1. ReadyOperators' = ReadyOperators
    BY <1>5 DEF ReadyOperators
  <2> QED BY <1>5, <2>1 DEF OthersAttend, Asking, InSeq
<1>6. CASE Tick
  BY <1>5, <1>6 DEF Tick, schedVars, operVars
<1>7. CASE UNCHANGED vars
  BY <1>5, <1>7 DEF vars, schedVars, operVars
<1> QED BY <1>2, <1>3, <1>4, <1>6, <1>7 DEF Next

\* With any policy but LeastRecently never are all the threads asleep, with no
\* notification on its way, and an operator ready (findOperatorToExecute).
THEOREM Attention == Spec => []OthersAttend
<1>1. Init => OthersAttend
  <2> SUFFICES ASSUME Init PROVE \E t \in Threads : Asking(t)
    BY DEF OthersAttend
  <2>1. PICK t \in Threads : TRUE
    BY ThreadsAssumption
  <2>2. DOMAIN waiting = {}
    BY DEF Init, SchedInit
  <2>3. working[t] = NoOperator
    BY DEF Init
  <2> QED BY <2>2, <2>3 DEF Asking, InSeq
<1>2. PoliciesInv /\ OthersAttend /\ [Next]_vars => OthersAttend'
  BY AttendedStep
<1> QED BY <1>1, <1>2, Bookkeeping, PTL DEF Spec

\* Only Rest puts a thread to sleep.
LEMMA OnlyRestSleeps ==
  ASSUME PoliciesInv, Next, NEW t \in Threads,
         Asking(t), ~Asking(t)', working'[t] = NoOperator
  PROVE  \E u \in Threads : Rest(u)
<1>1. /\ working \in [Threads -> Operators \cup {NoOperator}] /\ NoOperator \notin Operators
      /\ working[t] = NoOperator /\ InSeq(t, waiting') /\ t \notin notified'
  BY PoliciesAssumption DEF PoliciesInv, ThreadsApart, Asking
<1>2. ASSUME UNCHANGED <<working, waiting, notified>> PROVE FALSE
  BY <1>2 DEF Asking, InSeq
<1>3. ASSUME NEW u \in Threads, NEW o \in Operators, Begin(u, o) PROVE FALSE
  <2>1. /\ waiting' = Without(waiting, u) /\ notified' = notified \ {u}
        /\ working' = [working EXCEPT ![u] = o]
    BY <1>3 DEF Begin, Assign
  <2>2. u # t
    BY <1>1, <2>1
  <2>3. InSeq(t, waiting)
    BY <1>1, <2>1, WithoutLeaves DEF PoliciesInv, ThreadsApart
  <2> QED BY <1>1, <2>1, <2>2, <2>3 DEF Asking
<1>4. ASSUME NEW u \in Threads, Execute(u) PROVE FALSE
  <2>1. PICK o \in Operators : Block(u, o) \/ Yield(u, o) \/ Calls(o)
    BY <1>4 DEF Execute, Calls
  <2>2. waiting' = waiting
    BY <2>1 DEF Block, Yield, Calls, CountWait, Push, Pop, Deliver, AnnounceWritten, AnnounceRead,
           schedVars, MarkOperatorAsReadBlocked, MarkOperatorAsWriteBlocked, RegisterReader,
           Preempt, MarkInputPortAsWritten, MarkInputPortAsRead
  <2>3. UNCHANGED notified \/ \E next : notified' = NotifiedAfter(next)
    BY <2>1 DEF Block, Yield, Calls, CountWait, Push, Pop, Deliver, AnnounceWritten, AnnounceRead,
           schedVars, MarkOperatorAsReadBlocked, MarkOperatorAsWriteBlocked, RegisterReader,
           SkipReadBlock, UpdateOperators, Preempt, MarkInputPortAsWritten, MarkInputPortAsRead
  <2>4. notified \subseteq notified'
    BY <2>3 DEF NotifiedAfter
  <2> QED BY <1>1, <2>2, <2>4 DEF Asking, InSeq
<1>5. ~Tick
  BY <1>2 DEF Tick, schedVars
<1> QED BY <1>3, <1>4, <1>5 DEF Next

\* With every policy and any number of threads: a thread goes to sleep beside a
\* ready operator only if the policy is LeastRecently and the operator stopped
\* running less than a microsecond ago.
THEOREM Sleeping == Spec => SleepsOnlyBesideRecent
<1> DEFINE Beside ==
      \A t \in Threads :
        Asking(t) /\ ~Asking(t)' /\ working'[t] = NoOperator =>
          \A r \in ReadyOperators : policy = "LeastRecently" /\ clock - endTime[r] < Micro
<1>1. PoliciesInv /\ [Next]_vars => [Beside]_vars
  <2> SUFFICES ASSUME PoliciesInv, Next, NEW t \in Threads,
                      Asking(t), ~Asking(t)', working'[t] = NoOperator,
                      NEW r \in ReadyOperators
               PROVE  policy = "LeastRecently" /\ clock - endTime[r] < Micro
    OBVIOUS
  <2>1. PICK u \in Threads : Rest(u)
    BY OnlyRestSleeps
  <2>2. NoOperator \in Found /\ TimesPassed /\ TuplesStamped /\ policy \in Policies
    BY <2>1 DEF Rest, PoliciesInv
  <2>3. policy = "LeastRecently"
    BY <2>2, FoundSome
  <2> QED BY <2>2, <2>3, FoundOlder
<1> QED BY <1>1, Bookkeeping, PTL DEF Spec, SleepsOnlyBesideRecent

-----------------------------------------------------------------------------
\* Room: the ports that an operator pushes to are no other's, without fan-in.
LEMMA Apart ==
  ASSUME NoFanIn, NEW o \in Operators, NEW u \in Operators, u # o, NEW p \in DownstreamPorts(o)
  PROVE  p \notin DownstreamPorts(u)
BY DEF NoFanIn, DownstreamPorts, OutPortsOf, SubscribersOf

LEMMA SameRoom ==
  ASSUME RoomKept, UNCHANGED <<queue, callVars>>
  PROVE  RoomKept'
BY DEF RoomKept, Reserved, Once, Full, Count, callVars

\* No tuple more than before, and nothing reserved but what is not full.
LEMMA RoomLeft ==
  ASSUME RoomKept, CallsWellFormed, NEW o \in Operators, NEW l, NEW ports, Goto(o, l, ports),
         Once(ports), queue' = queue,
         \A p \in {ports[i] : i \in {j \in DOMAIN ports : l = "deliver" \/ (l = "written" /\ j # 1)}} :
            ~Full(p)
  PROVE  RoomKept'
<1>1. /\ pc'[o] = l /\ todo'[o] = ports
      /\ \A u \in Operators \ {o} : pc'[u] = pc[u] /\ todo'[u] = todo[u]
  BY DEF CallsWellFormed, Goto
<1>2. \A p : Full(p)' <=> Full(p)
  BY DEF Full, Count
<1>3. \A u \in Operators \ {o} : Once(todo'[u]) /\ \A p \in Reserved(u)' : ~Full(p)'
  BY <1>1, <1>2 DEF RoomKept, Reserved
<1>4. Once(todo'[o]) /\ \A p \in Reserved(o)' : ~Full(p)'
  BY <1>1, <1>2 DEF Reserved
<1>5. \A p \in InPorts : Count(p)' <= MaxQueueSize
  BY DEF RoomKept, Count
<1>6. \A u \in Operators : Once(todo[u])' /\ \A p \in Reserved(u)' : ~Full(p)'
  BY <1>3, <1>4 DEF Once
<1> QED BY <1>5, <1>6 DEF RoomKept

LEMMA DeliverKeepsRoom ==
  ASSUME NoFanIn, PoliciesInv, RoomKept, NEW o \in Operators, Deliver(o)
  PROVE  RoomKept'
<1>0. PICK p : p = Head(todo[o])
  OBVIOUS
<1>1. PICK x \in Tuples : queue' = [queue EXCEPT ![p] = Append(@, x)]
  BY <1>0 DEF Deliver
<1>2. /\ todo[o] \in Seq(InPorts) /\ todo[o] # <<>> /\ pc[o] = "deliver"
      /\ \A i \in DOMAIN todo[o] : todo[o][i] \in DownstreamPorts(o)
  BY DEF Deliver, PoliciesInv, CallsWellFormed
<1>3. p = todo[o][1] /\ p \in InPorts /\ 1 \in DOMAIN todo[o]
  BY <1>0, <1>2, AfterHead
<1>4. /\ todo' = todo /\ pc'[o] = "written" /\ \A u \in Operators \ {o} : pc'[u] = pc[u]
  BY DEF Deliver, Goto, PoliciesInv, CallsWellFormed
<1>5. /\ queue \in [InPorts -> Seq(Tuples)] /\ MaxQueueSize \in Nat
      /\ \A r \in InPorts : Count(r) \in Nat /\ Count(r) <= MaxQueueSize
  BY FlowGraphAssumption DEF PoliciesInv, TuplesStamped, RoomKept, Count
<1>6. p \in Reserved(o) /\ ~Full(p)
  BY <1>2, <1>3 DEF Reserved, RoomKept
<1>7. Count(p)' = Count(p) + 1 /\ \A r \in InPorts \ {p} : Count(r)' = Count(r)
  <2>1. queue[p] \in Seq(Tuples) /\ queue'[p] = Append(queue[p], x)
    BY <1>1, <1>3, <1>5
  <2>2. Len(queue'[p]) = Len(queue[p]) + 1
    BY <2>1
  <2>3. \A r \in InPorts \ {p} : queue'[r] = queue[r]
    BY <1>1, <1>5
  <2> QED BY <2>2, <2>3 DEF Count
<1>8. \A r \in InPorts : Count(r)' <= MaxQueueSize
  <2>1. Count(p)' <= MaxQueueSize
    BY <1>3, <1>5, <1>6, <1>7 DEF Full
  <2> QED BY <1>5, <1>7, <2>1
<1>9. \A r \in InPorts \ {p} : Full(r)' <=> Full(r)
  BY <1>7 DEF Full
<1>10. ASSUME NEW u \in Operators, NEW r \in Reserved(u)' PROVE ~Full(r)'
  <2>1. CASE u = o
    <3>1. PICK i \in DOMAIN todo[o] : i # 1 /\ r = todo[o][i]
      BY <1>4, <2>1 DEF Reserved
    <3>2. r # p
      BY <1>3, <3>1 DEF RoomKept, Once
    <3>3. r \in Reserved(o) /\ r \in InPorts
      BY <1>2, <3>1 DEF Reserved
    <3> QED BY <1>9, <3>2, <3>3 DEF RoomKept
  <2>2. CASE u # o
    <3>1. r \in Reserved(u)
      BY <1>4, <2>2 DEF Reserved
    <3>2. r \in DownstreamPorts(u)
      BY <3>1 DEF Reserved, PoliciesInv, CallsWellFormed
    <3>3. r # p
      BY <1>2, <1>3, <2>2, <3>2, Apart
    <3>4. r \in InPorts
      BY <3>1 DEF Reserved, PoliciesInv, CallsWellFormed
    <3> QED BY <1>9, <3>1, <3>3, <3>4 DEF RoomKept
  <2> QED BY <2>1, <2>2
<1>11. \A u \in Operators : Once(todo[u])'
  BY <1>4 DEF RoomKept, Once
<1> QED BY <1>8, <1>10, <1>11 DEF RoomKept

LEMMA PopKeepsRoom ==
  ASSUME PoliciesInv, RoomKept, NEW o \in Operators, Pop(o)
  PROVE  RoomKept'
<1>1. PICK p \in InPortsOf(o) :
        Count(p) > 0 /\ queue' = [queue EXCEPT ![p] = Tail(@)] /\ Goto(o, "read", <<p>>)
  BY DEF Pop
<1>2. p \in InPorts
  BY DEF InPortsOf
<1>3. /\ queue \in [InPorts -> Seq(Tuples)] /\ MaxQueueSize \in Nat
      /\ \A r \in InPorts : Count(r) \in Nat /\ Count(r) <= MaxQueueSize
  BY FlowGraphAssumption DEF PoliciesInv, TuplesStamped, RoomKept, Count
<1>4. Count(p)' = Count(p) - 1 /\ \A r \in InPorts \ {p} : Count(r)' = Count(r)
  BY <1>1, <1>2, <1>3 DEF Count
<1>5. \A r \in InPorts : Count(r)' <= MaxQueueSize /\ (Full(r)' => Full(r))
  BY <1>1, <1>2, <1>3, <1>4 DEF Full
<1>6. /\ pc'[o] = "read" /\ todo'[o] = <<p>>
      /\ \A u \in Operators \ {o} : pc'[u] = pc[u] /\ todo'[u] = todo[u]
  BY <1>1 DEF Goto, PoliciesInv, CallsWellFormed
<1>7. ASSUME NEW u \in Operators PROVE Once(todo[u])' /\ \A r \in Reserved(u)' : ~Full(r)'
  <2>1. CASE u = o
    BY <1>6, <2>1 DEF Once, Reserved
  <2>2. CASE u # o
    <3>1. Once(todo[u])' /\ Reserved(u)' = Reserved(u)
      BY <1>6, <2>2 DEF RoomKept, Once, Reserved
    <3>2. Reserved(u) \subseteq InPorts
      BY DEF Reserved, PoliciesInv, CallsWellFormed
    <3> QED BY <1>5, <3>1, <3>2 DEF RoomKept
  <2> QED BY <2>1, <2>2
<1> QED BY <1>5, <1>7 DEF RoomKept

LEMMA CallsKeepRoom ==
  ASSUME NoFanIn, PoliciesInv, RoomKept, NEW o \in Operators, Calls(o)
  PROVE  RoomKept'
<1>1. CASE CountWait(o)
  BY <1>1, SameRoom DEF CountWait, portVars
<1>2. CASE Push(o)
  <2>1. PICK q \in OutPortsOf(o) :
          /\ \A p \in SubscribersOf(q) : ~Full(p)
          /\ Goto(o, IF Subscribers[q] = <<>> THEN "code" ELSE "deliver", Subscribers[q])
          /\ queue' = queue
    BY <1>2 DEF Push, RoomBehind, portVars
  <2>2. Once(Subscribers[q])
    BY SubscribersAre DEF NoFanIn, Once
  <2>3. \A i \in DOMAIN Subscribers[q] : ~Full(Subscribers[q][i])
    BY <2>1, SubscribersAre
  <2> QED BY <2>1, <2>2, <2>3, RoomLeft DEF PoliciesInv
<1>3. CASE Pop(o)
  BY <1>3, PopKeepsRoom
<1>4. CASE Deliver(o)
  BY <1>4, DeliverKeepsRoom
<1>5. CASE AnnounceWritten(o)
  <2> DEFINE rest == Tail(todo[o])
             l == IF rest = <<>> THEN "code" ELSE "deliver"
  <2>1. pc[o] = "written" /\ Goto(o, l, rest) /\ queue' = queue
    BY <1>5 DEF AnnounceWritten, portVars
  <2>2. todo[o] \in Seq(InPorts) /\ todo[o] # <<>>
    BY <2>1 DEF PoliciesInv, CallsWellFormed
  <2>3. /\ \A i \in DOMAIN rest : i + 1 \in DOMAIN todo[o] /\ i + 1 # 1 /\ rest[i] = todo[o][i + 1]
        /\ DOMAIN rest \subseteq Nat
    BY <2>2, AfterHead
  <2>4. \A i \in DOMAIN rest : rest[i] \in Reserved(o)
    BY <2>1, <2>3 DEF Reserved
  <2>5. \A i \in DOMAIN rest : ~Full(rest[i])
    BY <2>4 DEF RoomKept
  <2> HIDE DEF rest
  <2>6. Once(rest)
    <3> SUFFICES ASSUME NEW i \in DOMAIN rest, NEW j \in DOMAIN rest, rest[i] = rest[j] PROVE i = j
      BY DEF Once
    <3>1. i + 1 = j + 1
      BY <2>3 DEF RoomKept, Once
    <3> QED BY <2>3, <3>1
  <2> HIDE DEF l
  <2> QED BY <2>1, <2>5, <2>6, RoomLeft DEF PoliciesInv
<1>6. CASE AnnounceRead(o)
  <2>1. Goto(o, "code", <<>>) /\ queue' = queue /\ Once(<<>>)
    BY <1>6 DEF AnnounceRead, portVars, Once
  <2>2. DOMAIN <<>> = {}
    OBVIOUS
  <2> QED BY <2>1, <2>2, RoomLeft DEF PoliciesInv
<1> QED BY <1>1, <1>2, <1>3, <1>4, <1>5, <1>6 DEF Calls

\* Without fan-in no queue is ever over its limit, though other operators run
\* between the check of a push and its deliveries (OutputPortImpl::pushTuple).
THEOREM RoomIsKept ==
  ASSUME NoFanIn
  PROVE  Spec => []RoomKept
<1>1. Init => RoomKept
  BY FlowGraphAssumption DEF Init, RoomKept, Reserved, Once, Count
<1>2. PoliciesInv /\ RoomKept /\ [Next]_vars => RoomKept'
  <2> SUFFICES ASSUME PoliciesInv, RoomKept, [Next]_vars PROVE RoomKept'
    OBVIOUS
  <2>1. ASSUME NEW t \in Threads, Execute(t) PROVE RoomKept'
    <3>1. PICK o \in Operators : Block(t, o) \/ Yield(t, o) \/ Calls(o)
      BY <2>1 DEF Execute, Calls
    <3>2. CASE Block(t, o) \/ Yield(t, o)
      BY <3>2, SameRoom DEF Block, Yield, End, portVars
    <3> QED BY <3>1, <3>2, CallsKeepRoom
  <2>2. CASE \E t \in Threads, o \in Operators : Begin(t, o)
    BY <2>2, SameRoom DEF Begin, portVars
  <2>3. CASE \E t \in Threads : Rest(t)
    BY <2>3, SameRoom DEF Rest, portVars
  <2>4. CASE Tick \/ UNCHANGED vars
    BY <2>4, SameRoom DEF Tick, vars, portVars
  <2> QED BY <2>1, <2>2, <2>3, <2>4 DEF Next
<1> QED BY <1>1, <1>2, Bookkeeping, PTL DEF Spec

\* Whatever findOperatorToExecute of a policy returns, in whatever order it visits
\* the ready operators and in spite of the truncated comparisons: no ready
\* operator that the policy should have preferred is passed over.  MaxThroughput
\* takes a queue over its limit for one with room, and needs a flow without fan-in.
THEOREM Choice ==
  ASSUME NoFanIn \/ "MaxThroughput" \notin Policies
  PROVE  Spec => ChoosesByPolicy
<1> DEFINE Chosen ==
      \A t \in Threads, o \in Operators :
        working[t] = NoOperator /\ working'[t] = o => \A r \in ReadyOperators : Fits(o, r)
<1>1. PoliciesInv /\ (NoFanIn => RoomKept) /\ [Next]_vars => [Chosen]_vars
  <2> SUFFICES ASSUME PoliciesInv, NoFanIn => RoomKept, Next, NEW t \in Threads, NEW o \in Operators,
                      working[t] = NoOperator, working'[t] = o
               PROVE  \A r \in ReadyOperators : Fits(o, r)
    OBVIOUS
  <2>1. /\ working \in [Threads -> Operators \cup {NoOperator}] /\ NoOperator \notin Operators
        /\ policy \in Policies /\ TimesPassed /\ TuplesStamped
    BY PoliciesAssumption DEF PoliciesInv, ThreadsApart
  <2>2. ASSUME NEW u \in Threads, NEW q \in Operators, Begin(u, q)
        PROVE  q = o
    <3>1. working' = [working EXCEPT ![u] = q]
      BY <2>2 DEF Begin
    <3> QED BY <2>1, <3>1
  <2>3. ASSUME UNCHANGED working PROVE FALSE
    BY <2>1, <2>3
  <2>4. ASSUME NEW u \in Threads, Execute(u) PROVE FALSE
    <3>1. UNCHANGED working \/ working' = [working EXCEPT ![u] = NoOperator]
      BY <2>4 DEF Execute, Block, Yield, End, CountWait, Push, Pop, Deliver, AnnounceWritten,
                  AnnounceRead
    <3> QED BY <2>1, <3>1
  <2>5. PICK u \in Threads, q \in Operators : Begin(u, q)
    BY <2>3, <2>4 DEF Next, Rest, Tick
  <2>6. o \in Found
    BY <2>2, <2>5 DEF Begin
  <2>7. policy = "MaxThroughput" => NoneOverLimit
    BY <2>1 DEF RoomKept, NoneOverLimit
  <2> QED BY <2>1, <2>6, <2>7, FoundFits
<1>2. Spec => [](NoFanIn => RoomKept)
  <2>1. CASE NoFanIn
    <3>1. Spec => []RoomKept
      BY <2>1, RoomIsKept
    <3>2. RoomKept => (NoFanIn => RoomKept)
      OBVIOUS
    <3> QED BY <3>1, <3>2, PTL
  <2>2. CASE ~NoFanIn
    <3>1. NoFanIn => RoomKept
      BY <2>2
    <3> QED BY <3>1, PTL
  <2> QED BY <2>1, <2>2
<1> QED BY <1>1, <1>2, Bookkeeping, PTL DEF Spec, ChoosesByPolicy
=============================================================================
