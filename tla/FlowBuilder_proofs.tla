------------------------ MODULE FlowBuilder_proofs ------------------------
(***************************************************************************)
(* The flows of Topologies, of every depth and width: their constructors   *)
(* execute without an error, what they record at the two ends of a         *)
(* connection agrees, the graph is one that the theorems about the runtime *)
(* hold for, the finished flow is as its constructor's comment draws it,   *)
(* and no operator in it meets a tuple that it cannot read.                *)
(*                                                                         *)
(* A constructor is a list of statements made by loops, so the first part  *)
(* is about lists: what a concatenation and a loop list, and that they     *)
(* list nothing twice.  Then the two lists of every flow, and the          *)
(* construction, for flows whose lists are right.  The last part is about  *)
(* the finished graph: tuples by the names of their attributes, designs    *)
(* that are laid out in levels, and that each of the topologies is: its    *)
(* operators have a level (the busy operators on every way to them) and a  *)
(* rank that every connection raises.                                      *)
(***************************************************************************)
EXTENDS FlowBuilder, SequenceTheorems, FiniteSetTheorems, TLAPS

-----------------------------------------------------------------------------
(***************************************************************************)
(* Induction over the naturals, for a set.                                *)
(***************************************************************************)

Smaller == {ss \in Nat \X Nat : ss[1] < ss[2]}

\* A set of naturals that is not empty has a smallest element.
LEMMA Smallest ==
  ASSUME NEW T, T \subseteq Nat, T # {}
  PROVE  \E m \in T : \A n \in T : m <= n
<1>1. IsWellFoundedOn(Smaller, Nat)
  BY NatLessThanWellFounded, Zenon DEF OpToRel, Smaller
<1>2. PICK m \in T : \A n \in T : ~(<<n, m>> \in Smaller)
  BY <1>1, WFMin, Zenon
<1>3. \A n \in T : ~(n < m)
  BY <1>2 DEF Smaller
<1> QED BY <1>3

\* A set with 0, and with n + 1 when it has n, has every natural number: for what
\* the loops and the powers are defined by.
LEMMA Induction ==
  ASSUME NEW S, 0 \in S, \A n \in Nat : n \in S => n + 1 \in S
  PROVE  Nat \subseteq S
<1> SUFFICES ASSUME Nat \ S # {} PROVE FALSE
  OBVIOUS
<1>1. PICK m \in Nat \ S : \A n \in Nat \ S : m <= n
  BY Smallest
<1>2. m # 0 /\ m - 1 \in Nat
  BY <1>1
<1>3. m - 1 \in S
  BY <1>1, <1>2
<1> QED BY <1>1, <1>2, <1>3

-----------------------------------------------------------------------------
(***************************************************************************)
(* Lists without repetition.                                              *)
(***************************************************************************)

\* The elements of s have different images under f, which make up the set I.
Lists(s, f, I) ==
  /\ s \in Seq(DOMAIN f)
  /\ {f[s[i]] : i \in DOMAIN s} = I
  /\ \A i, j \in DOMAIN s : f[s[i]] = f[s[j]] => i = j

\* For loops: what turn i of a..b lists, that the turns have nothing in common, and
\* what they list together.
EachLists(body, f, J, a, b) == \A i \in a..b : Lists(body[i], f, J[i])
Disjoint(J, a, b) == \A i, j \in a..b : i # j => J[i] \cap J[j] = {}
All(J, a, b) == UNION {J[i] : i \in a..b}

\* No statement.
LEMMA ListsNone == ASSUME NEW f PROVE Lists(<<>>, f, {})
BY DEF Lists

\* One statement.
LEMMA ListsOne ==
  ASSUME NEW f, NEW x \in DOMAIN f, NEW u, f[x] = u
  PROVE  Lists(<<x>>, f, {u})
BY DEF Lists

\* Two with different images.
LEMMA ListsTwo ==
  ASSUME NEW f, NEW x \in DOMAIN f, NEW y \in DOMAIN f, NEW u, NEW v, f[x] = u, f[y] = v, u # v
  PROVE  Lists(<<x, y>>, f, {u, v})
<1> DEFINE s == <<x, y>>
<1>1. s \in Seq(DOMAIN f) /\ DOMAIN s = {1, 2} /\ s[1] = x /\ s[2] = y
  OBVIOUS
<1> HIDE DEF s
<1>2. Lists(s, f, {u, v})
  BY <1>1 DEF Lists
<1> QED BY <1>2 DEF s

\* Three with different images.
LEMMA ListsThree ==
  ASSUME NEW f, NEW x \in DOMAIN f, NEW y \in DOMAIN f, NEW z \in DOMAIN f,
         NEW u, NEW v, NEW w, f[x] = u, f[y] = v, f[z] = w, u # v, u # w, v # w
  PROVE  Lists(<<x, y, z>>, f, {u, v, w})
<1> DEFINE s == <<x, y, z>>
<1>1. s \in Seq(DOMAIN f) /\ DOMAIN s = {1, 2, 3} /\ s[1] = x /\ s[2] = y /\ s[3] = z
  OBVIOUS
<1> HIDE DEF s
<1>2. Lists(s, f, {u, v, w})
  BY <1>1 DEF Lists
<1> QED BY <1>2 DEF s

\* One piece after another: nothing is repeated when the pieces have nothing in
\* common.
LEMMA ListsConcat ==
  ASSUME NEW f, NEW s, NEW t, NEW I, NEW J, Lists(s, f, I), Lists(t, f, J), I \cap J = {}
  PROVE  Lists(s \o t, f, I \cup J)
<1> DEFINE u == s \o t
<1>1. s \in Seq(DOMAIN f) /\ t \in Seq(DOMAIN f)
  BY DEF Lists
<1>2. /\ u \in Seq(DOMAIN f) /\ Len(s) \in Nat /\ Len(t) \in Nat
      /\ DOMAIN s = 1..Len(s) /\ DOMAIN t = 1..Len(t) /\ DOMAIN u = 1..(Len(s) + Len(t))
      /\ \A i \in 1..Len(s) : u[i] = s[i]
      /\ \A i \in (Len(s) + 1)..(Len(s) + Len(t)) : u[i] = t[i - Len(s)]
  BY <1>1
<1> HIDE DEF u
<1>3. \A i \in DOMAIN u : IF i \in DOMAIN s THEN f[u[i]] \in I /\ f[u[i]] = f[s[i]]
                          ELSE /\ i - Len(s) \in DOMAIN t
                               /\ f[u[i]] \in J /\ f[u[i]] = f[t[i - Len(s)]]
  <2> SUFFICES ASSUME NEW i \in DOMAIN u
               PROVE  IF i \in DOMAIN s THEN f[u[i]] \in I /\ f[u[i]] = f[s[i]]
                          ELSE /\ i - Len(s) \in DOMAIN t
                               /\ f[u[i]] \in J /\ f[u[i]] = f[t[i - Len(s)]]
    OBVIOUS
  <2>1. CASE i \in DOMAIN s
    BY <1>2, <2>1 DEF Lists
  <2>2. CASE i \notin DOMAIN s
    <3>1. i - Len(s) \in DOMAIN t /\ u[i] = t[i - Len(s)]
      BY <1>2, <2>2
    <3> QED BY <2>2, <3>1 DEF Lists
  <2> QED BY <2>1, <2>2
<1>4. ASSUME NEW i \in DOMAIN u, NEW j \in DOMAIN u, f[u[i]] = f[u[j]] PROVE i = j
  <2>0. i \in Int /\ j \in Int /\ Len(s) \in Nat
    BY <1>2
  <2>1. CASE i \in DOMAIN s /\ j \in DOMAIN s
    BY <1>3, <1>4, <2>1 DEF Lists
  <2>2. CASE i \notin DOMAIN s /\ j \notin DOMAIN s
    <3>1. i - Len(s) = j - Len(s)
      BY <1>3, <1>4, <2>2 DEF Lists
    <3> QED BY <3>1, <2>0
  <2>3. CASE (i \in DOMAIN s) # (j \in DOMAIN s)
    BY <1>3, <1>4, <2>3
  <2> QED BY <2>1, <2>2, <2>3
<1>5. {f[u[i]] : i \in DOMAIN u} = I \cup J
  <2>1. \A i \in DOMAIN u : f[u[i]] \in I \cup J
    BY <1>3
  <2>2. ASSUME NEW x \in I PROVE \E i \in DOMAIN u : x = f[u[i]]
    <3>1. PICK i \in DOMAIN s : x = f[s[i]]
      BY DEF Lists
    <3>2. i \in DOMAIN u /\ u[i] = s[i]
      BY <1>2, <3>1
    <3> QED BY <3>1, <3>2
  <2>3. ASSUME NEW x \in J PROVE \E i \in DOMAIN u : x = f[u[i]]
    <3>1. PICK i \in DOMAIN t : x = f[t[i]]
      BY DEF Lists
    <3>2. i + Len(s) \in DOMAIN u /\ u[i + Len(s)] = t[i]
      <4>1. i \in 1..Len(t)
        BY <1>2
      <4>2. (i + Len(s)) - Len(s) = i /\ i + Len(s) \in (Len(s) + 1)..(Len(s) + Len(t))
        BY <1>2, <4>1
      <4>3. u[i + Len(s)] = t[(i + Len(s)) - Len(s)]
        BY <1>2, <4>2
      <4>4. i + Len(s) \in 1..(Len(s) + Len(t))
        BY <1>2, <4>1
      <4> QED BY <1>2, <4>2, <4>3, <4>4
    <3> QED BY <3>1, <3>2
  <2> QED BY <2>1, <2>2, <2>3
<1>6. Lists(u, f, I \cup J)
  BY <1>2, <1>4, <1>5 DEF Lists
<1> QED BY <1>6 DEF u

\* The recursive function of FlattenSeq: the concatenations of the first 1, 2, ...
\* sequences.
IsFlat(h, ss, m) == h = [i \in 1..m |-> IF i = 1 THEN ss[i] ELSE h[i - 1] \o ss[i]]

\* That function exists, for every number of sequences.
LEMMA FlatExists ==
  ASSUME NEW m \in Nat, NEW ss
  PROVE  \E h : IsFlat(h, ss, m)
<1> DEFINE good == {k \in Nat : \E h : IsFlat(h, ss, k)}
<1>1. 0 \in good
  <2>1. IsFlat(<<>>, ss, 0)
    BY DEF IsFlat
  <2> QED BY <2>1
<1>2. ASSUME NEW k \in Nat, k \in good PROVE k + 1 \in good
  <2>1. PICK h : IsFlat(h, ss, k)
    BY <1>2
  <2> DEFINE e(i, x) == IF i = 1 THEN ss[i] ELSE x \o ss[i]
             g == [i \in 1..(k + 1) |-> IF i = k + 1 THEN e(i, h[k]) ELSE h[i]]
  <2>2. \A i \in 1..k : h[i] = e(i, h[i - 1])
    BY <2>1 DEF IsFlat
  <2>3. \A i \in 1..k : g[i] = h[i]
    OBVIOUS
  <2>4. ASSUME NEW i \in 1..(k + 1) PROVE g[i] = e(i, g[i - 1])
    <3>1. CASE i = k + 1
      <4>1. g[i] = e(i, h[k])
        BY <3>1
      <4>2. k # 0 => g[i - 1] = h[k]
        BY <2>3, <3>1
      <4> QED BY <3>1, <4>1, <4>2
    <3>2. CASE i # k + 1
      <4>1. i \in 1..k /\ (i # 1 => i - 1 \in 1..k)
        BY <3>2
      <4>2. g[i] = e(i, h[i - 1]) /\ (i # 1 => g[i - 1] = h[i - 1])
        BY <2>2, <2>3, <4>1
      <4> QED BY <4>2
    <3> QED BY <3>1, <3>2
  <2>5. g = [i \in 1..(k + 1) |-> e(i, g[i - 1])]
    <3>1. g = [i \in 1..(k + 1) |-> g[i]]
      OBVIOUS
    <3> HIDE DEF g, e
    <3> QED BY <2>4, <3>1
  <2>6. IsFlat(g, ss, k + 1)
    BY <2>5 DEF IsFlat
  <2> HIDE DEF g
  <2> QED BY <2>6
<1> HIDE DEF good
<1>3. Nat \subseteq good
  BY <1>1, <1>2, Induction
<1> QED BY <1>3 DEF good

\* Many pieces, one after another.
LEMMA ListsFlatten ==
  ASSUME NEW f, NEW m \in Nat, NEW ss, NEW J, ss = [k \in 1..m |-> ss[k]],
         EachLists(ss, f, J, 1, m), Disjoint(J, 1, m)
  PROVE  Lists(FlattenSeq(ss), f, All(J, 1, m))
<1>3. \A k \in 1..m : Lists(ss[k], f, J[k])
  BY DEF EachLists
<1>4. \A k, l \in 1..m : k # l => J[k] \cap J[l] = {}
  BY DEF Disjoint
<1>0. Len(ss) = m
  OBVIOUS
<1>1. CASE m = 0
  <2>1. FlattenSeq(ss) = <<>>
    <3>1. FlattenSeq(ss) = ss
      BY <1>0, <1>1 DEF FlattenSeq
    <3>2. ss = <<>>
      BY <1>1
    <3> QED BY <3>1, <3>2
  <2>2. All(J, 1, m) = {}
    BY <1>1 DEF All
  <2> QED BY <2>1, <2>2, ListsNone
<1>2. CASE m # 0
  <2> DEFINE h == CHOOSE h : IsFlat(h, ss, m)
  <2>1. IsFlat(h, ss, m)
    BY FlatExists
  <2>2. FlattenSeq(ss) = h[m]
    <3>1. FlattenSeq(ss) = (CHOOSE g : g = [i \in 1..m |-> IF i = 1 THEN ss[i] ELSE g[i - 1] \o ss[i]])[m]
      BY <1>0, <1>2 DEF FlattenSeq
    <3> QED BY <3>1 DEF IsFlat
  <2> HIDE DEF h
  <2> DEFINE good == {k \in Nat : 0 < k /\ k <= m => Lists(h[k], f, UNION {J[i] : i \in 1..k})}
  <2>3. 0 \in good
    OBVIOUS
  <2>4. ASSUME NEW k \in Nat, k \in good PROVE k + 1 \in good
    <3> SUFFICES ASSUME k + 1 <= m PROVE Lists(h[k + 1], f, UNION {J[i] : i \in 1..(k + 1)})
      OBVIOUS
    <3>1. k + 1 \in 1..m
      OBVIOUS
    <3>2. CASE k = 0
      <4>1. h[1] = ss[1] /\ 1 \in 1..m
        BY <2>1, <3>1, <3>2 DEF IsFlat
      <4>2. UNION {J[i] : i \in 1..1} = J[1]
        OBVIOUS
      <4>3. k + 1 = 1
        BY <3>2
      <4>4. Lists(h[1], f, J[1])
        BY <1>3, <4>1
      <4> QED BY <4>2, <4>3, <4>4
    <3>3. CASE k # 0
      <4>1. h[k + 1] = h[k] \o ss[k + 1]
        <5>1. \A i \in 1..m : h[i] = IF i = 1 THEN ss[i] ELSE h[i - 1] \o ss[i]
          BY <2>1 DEF IsFlat
        <5>2. (k + 1) - 1 = k /\ k + 1 # 1
          BY <3>3
        <5> QED BY <3>1, <5>1, <5>2
      <4>2. Lists(h[k], f, UNION {J[i] : i \in 1..k})
        BY <2>4, <3>3
      <4>3. Lists(ss[k + 1], f, J[k + 1])
        BY <1>3, <3>1
      <4>4. \A i \in 1..k : J[i] \cap J[k + 1] = {}
        BY <1>4, <3>1
      <4>5. (UNION {J[i] : i \in 1..k}) \cap J[k + 1] = {}
        BY <4>4
      <4>6. UNION {J[i] : i \in 1..(k + 1)} = (UNION {J[i] : i \in 1..k}) \cup J[k + 1]
        <5>1. 1..(k + 1) = 1..k \cup {k + 1}
          OBVIOUS
        <5> QED BY <5>1
      <4> QED BY <4>1, <4>2, <4>3, <4>5, <4>6, ListsConcat
    <3> QED BY <3>2, <3>3
  <2> HIDE DEF good
  <2>5. Nat \subseteq good
    BY <2>3, <2>4, Induction
  <2>6. m \in good
    BY <2>5
  <2> QED BY <1>2, <2>2, <2>6 DEF good, All
<1> QED BY <1>1, <1>2

\* A loop whose turns list what is different from turn to turn.
LEMMA ListsLoop ==
  ASSUME NEW f, NEW a \in Nat, NEW b \in Nat, a <= b, NEW body, NEW J,
         EachLists(body, f, J, a, b - 1), Disjoint(J, a, b - 1)
  PROVE  Lists(FlattenSeq([k \in 1..(b - a) |-> body[a + k - 1]]), f, All(J, a, b - 1))
<1> DEFINE ss == [k \in 1..(b - a) |-> body[a + k - 1]]
           K == [k \in 1..(b - a) |-> J[a + k - 1]]
<1>0. \A k \in 1..(b - a) : a + k - 1 \in a..(b - 1)
  OBVIOUS
<1>1. EachLists(ss, f, K, 1, b - a)
  BY <1>0 DEF EachLists
<1>2. ASSUME NEW k \in 1..(b - a), NEW l \in 1..(b - a), k # l PROVE K[k] \cap K[l] = {}
  <2>1. a + k - 1 # a + l - 1
    BY <1>2
  <2>2. K[k] = J[a + k - 1] /\ K[l] = J[a + l - 1]
    OBVIOUS
  <2> QED BY <1>0, <2>1, <2>2 DEF Disjoint
<1>3. All(K, 1, b - a) = All(J, a, b - 1)
  <2>1. \A i \in a..(b - 1) : i - a + 1 \in 1..(b - a) /\ a + (i - a + 1) - 1 = i
    OBVIOUS
  <2>2. ASSUME NEW i \in a..(b - 1) PROVE \E k \in 1..(b - a) : K[k] = J[i]
    BY <2>1
  <2>3. ASSUME NEW k \in 1..(b - a) PROVE \E i \in a..(b - 1) : K[k] = J[i]
    BY <1>0
  <2> HIDE DEF K
  <2> QED BY <2>2, <2>3 DEF All
<1>4. ss = [k \in 1..(b - a) |-> ss[k]] /\ b - a \in Nat
  OBVIOUS
<1> HIDE DEF ss, K
<1>5. Disjoint(K, 1, b - a)
  BY <1>2 DEF Disjoint
<1>6. Lists(FlattenSeq(ss), f, All(K, 1, b - a))
  BY <1>1, <1>4, <1>5, ListsFlatten
<1> QED BY <1>3, <1>6 DEF ss

-----------------------------------------------------------------------------
(***************************************************************************)
(* What a list has, and how long it is.                                   *)
(***************************************************************************)

\* S are the elements of s, whose length is l.
Gathers(s, S, l) == s \in Seq(S) /\ ToSet(s) = S /\ Len(s) = l

\* Up to five statements.
LEMMA GatherFew ==
  \A u, v, w, x, y :
    /\ Gathers(<<u>>, {u}, 1)
    /\ Gathers(<<u, v>>, {u, v}, 2)
    /\ Gathers(<<u, v, w>>, {u, v, w}, 3)
    /\ Gathers(<<u, v, w, x>>, {u, v, w, x}, 4)
    /\ Gathers(<<u, v, w, x, y>>, {u, v, w, x, y}, 5)
<1> TAKE u, v, w, x, y
<1>1. Gathers(<<u>>, {u}, 1)
  <2> DEFINE s == <<u>>
  <2>1. DOMAIN s = {1} /\ s[1] = u /\ Len(s) = 1 /\ s \in Seq({u})
    OBVIOUS
  <2> HIDE DEF s
  <2>2. ToSet(s) = {u}
    BY <2>1 DEF ToSet
  <2> QED BY <2>1, <2>2 DEF Gathers, s
<1>2. Gathers(<<u, v>>, {u, v}, 2)
  <2> DEFINE s == <<u, v>>
  <2>1. DOMAIN s = {1, 2} /\ s[1] = u /\ s[2] = v /\ Len(s) = 2 /\ s \in Seq({u, v})
    OBVIOUS
  <2> HIDE DEF s
  <2>2. ToSet(s) = {u, v}
    BY <2>1 DEF ToSet
  <2> QED BY <2>1, <2>2 DEF Gathers, s
<1>3. Gathers(<<u, v, w>>, {u, v, w}, 3)
  <2> DEFINE s == <<u, v, w>>
  <2>1. DOMAIN s = {1, 2, 3} /\ s[1] = u /\ s[2] = v /\ s[3] = w /\ Len(s) = 3 /\ s \in Seq({u, v, w})
    OBVIOUS
  <2> HIDE DEF s
  <2>2. ToSet(s) = {u, v, w}
    BY <2>1 DEF ToSet
  <2> QED BY <2>1, <2>2 DEF Gathers, s
<1>4. Gathers(<<u, v, w, x>>, {u, v, w, x}, 4)
  <2> DEFINE s == <<u, v, w, x>>
  <2>1. /\ DOMAIN s = {1, 2, 3, 4} /\ s[1] = u /\ s[2] = v /\ s[3] = w /\ s[4] = x
        /\ Len(s) = 4 /\ s \in Seq({u, v, w, x})
    OBVIOUS
  <2> HIDE DEF s
  <2>2. ToSet(s) = {u, v, w, x}
    BY <2>1 DEF ToSet
  <2> QED BY <2>1, <2>2 DEF Gathers, s
<1>5. Gathers(<<u, v, w, x, y>>, {u, v, w, x, y}, 5)
  <2> DEFINE s == <<u, v, w, x, y>>
  <2>1. /\ DOMAIN s = {1, 2, 3, 4, 5} /\ s[1] = u /\ s[2] = v /\ s[3] = w /\ s[4] = x /\ s[5] = y
        /\ Len(s) = 5 /\ s \in Seq({u, v, w, x, y})
    OBVIOUS
  <2> HIDE DEF s
  <2>2. ToSet(s) = {u, v, w, x, y}
    BY <2>1 DEF ToSet
  <2> QED BY <2>1, <2>2 DEF Gathers, s
<1> QED BY <1>1, <1>2, <1>3, <1>4, <1>5

\* One piece after another.
LEMMA GatherConcat ==
  ASSUME NEW s, NEW t, NEW S, NEW T, NEW l, NEW m, Gathers(s, S, l), Gathers(t, T, m)
  PROVE  Gathers(s \o t, S \cup T, l + m)
<1> DEFINE u == s \o t
<1>1. s \in Seq(S \cup T) /\ t \in Seq(S \cup T) /\ Len(s) = l /\ Len(t) = m /\ l \in Nat /\ m \in Nat
  BY DEF Gathers
<1>2. /\ u \in Seq(S \cup T) /\ Len(u) = l + m /\ DOMAIN u = 1..(l + m)
      /\ DOMAIN s = 1..l /\ DOMAIN t = 1..m
      /\ \A i \in 1..l : u[i] = s[i]
      /\ \A i \in (l + 1)..(l + m) : u[i] = t[i - l]
  BY <1>1
<1> HIDE DEF u
<1>3. ToSet(u) \subseteq S \cup T
  BY <1>2 DEF ToSet
<1>4. ASSUME NEW x \in S PROVE x \in ToSet(u)
  <2>1. PICK i \in 1..l : s[i] = x
    BY <1>2 DEF Gathers, ToSet
  <2>2. i \in 1..(l + m) /\ u[i] = x
    BY <1>1, <1>2, <2>1
  <2> QED BY <1>2, <2>2 DEF ToSet
<1>5. ASSUME NEW x \in T PROVE x \in ToSet(u)
  <2>1. PICK i \in 1..m : t[i] = x
    BY <1>2 DEF Gathers, ToSet
  <2>2. i + l \in 1..(l + m) /\ i + l \in (l + 1)..(l + m) /\ (i + l) - l = i
    BY <1>1, <2>1
  <2>3. u[i + l] = x
    BY <1>2, <2>1, <2>2
  <2> QED BY <1>2, <2>2, <2>3 DEF ToSet
<1> QED BY <1>2, <1>3, <1>4, <1>5 DEF Gathers, u

\* Many pieces of the same length.
LEMMA GatherFlatten ==
  ASSUME NEW m \in Nat, NEW ss, NEW J, NEW l \in Nat, ss = [k \in 1..m |-> ss[k]],
         \A k \in 1..m : Gathers(ss[k], J[k], l)
  PROVE  Gathers(FlattenSeq(ss), All(J, 1, m), m * l)
<1>0. Len(ss) = m
  OBVIOUS
<1>1. CASE m = 0
  <2>1. FlattenSeq(ss) = <<>>
    <3>1. FlattenSeq(ss) = ss
      BY <1>0, <1>1 DEF FlattenSeq
    <3>2. ss = <<>>
      BY <1>1
    <3> QED BY <3>1, <3>2
  <2>2. All(J, 1, m) = {}
    BY <1>1 DEF All
  <2>3. m * l = 0
    BY <1>1
  <2>4. <<>> \in Seq({}) /\ Len(<<>>) = 0 /\ ToSet(<<>>) = {}
    BY DEF ToSet
  <2> QED BY <2>1, <2>2, <2>3, <2>4 DEF Gathers
<1>2. CASE m # 0
  <2> DEFINE h == CHOOSE h : IsFlat(h, ss, m)
  <2>1. IsFlat(h, ss, m)
    BY FlatExists
  <2>2. FlattenSeq(ss) = h[m]
    <3>1. FlattenSeq(ss) = (CHOOSE g : g = [i \in 1..m |-> IF i = 1 THEN ss[i] ELSE g[i - 1] \o ss[i]])[m]
      BY <1>0, <1>2 DEF FlattenSeq
    <3> QED BY <3>1 DEF IsFlat
  <2> HIDE DEF h
  <2> DEFINE good == {k \in Nat : 0 < k /\ k <= m => Gathers(h[k], UNION {J[i] : i \in 1..k}, k * l)}
  <2>3. 0 \in good
    OBVIOUS
  <2>4. ASSUME NEW k \in Nat, k \in good PROVE k + 1 \in good
    <3> SUFFICES ASSUME k + 1 <= m PROVE Gathers(h[k + 1], UNION {J[i] : i \in 1..(k + 1)}, (k + 1) * l)
      OBVIOUS
    <3>1. k + 1 \in 1..m
      OBVIOUS
    <3>2. CASE k = 0
      <4>1. h[1] = ss[1] /\ 1 \in 1..m
        BY <2>1, <3>1, <3>2 DEF IsFlat
      <4>2. UNION {J[i] : i \in 1..1} = J[1] /\ 1 * l = l
        OBVIOUS
      <4>3. k + 1 = 1
        BY <3>2
      <4> QED BY <4>1, <4>2, <4>3
    <3>3. CASE k # 0
      <4>1. h[k + 1] = h[k] \o ss[k + 1]
        <5>1. \A i \in 1..m : h[i] = IF i = 1 THEN ss[i] ELSE h[i - 1] \o ss[i]
          BY <2>1 DEF IsFlat
        <5>2. (k + 1) - 1 = k /\ k + 1 # 1
          BY <3>3
        <5> QED BY <3>1, <5>1, <5>2
      <4>2. Gathers(h[k], UNION {J[i] : i \in 1..k}, k * l)
        BY <2>4, <3>3
      <4>3. Gathers(ss[k + 1], J[k + 1], l)
        BY <3>1
      <4>4. UNION {J[i] : i \in 1..(k + 1)} = (UNION {J[i] : i \in 1..k}) \cup J[k + 1]
        <5>1. 1..(k + 1) = 1..k \cup {k + 1}
          OBVIOUS
        <5> QED BY <5>1
      <4>5. (k + 1) * l = k * l + l
        OBVIOUS
      <4> QED BY <4>1, <4>2, <4>3, <4>4, <4>5, GatherConcat
    <3> QED BY <3>2, <3>3
  <2> HIDE DEF good
  <2>5. Nat \subseteq good
    BY <2>3, <2>4, Induction
  <2>6. m \in good
    BY <2>5
  <2> QED BY <1>2, <2>2, <2>6 DEF good, All
<1> QED BY <1>1, <1>2

\* A loop.
LEMMA GatherLoop ==
  ASSUME NEW a \in Nat, NEW b \in Nat, a <= b, NEW body, NEW J, NEW l \in Nat,
         \A i \in a..(b - 1) : Gathers(body[i], J[i], l)
  PROVE  Gathers(FlattenSeq([k \in 1..(b - a) |-> body[a + k - 1]]), All(J, a, b - 1), (b - a) * l)
<1> DEFINE ss == [k \in 1..(b - a) |-> body[a + k - 1]]
           K == [k \in 1..(b - a) |-> J[a + k - 1]]
<1>0. \A k \in 1..(b - a) : a + k - 1 \in a..(b - 1)
  OBVIOUS
<1>1. \A k \in 1..(b - a) : Gathers(ss[k], K[k], l)
  BY <1>0
<1>3. All(K, 1, b - a) = All(J, a, b - 1)
  <2>1. \A i \in a..(b - 1) : i - a + 1 \in 1..(b - a) /\ a + (i - a + 1) - 1 = i
    OBVIOUS
  <2>2. ASSUME NEW i \in a..(b - 1) PROVE \E k \in 1..(b - a) : K[k] = J[i]
    BY <2>1
  <2>3. ASSUME NEW k \in 1..(b - a) PROVE \E i \in a..(b - 1) : K[k] = J[i]
    BY <1>0
  <2> HIDE DEF K
  <2> QED BY <2>2, <2>3 DEF All
<1>4. ss = [k \in 1..(b - a) |-> ss[k]] /\ b - a \in Nat
  OBVIOUS
<1> HIDE DEF ss, K
<1>6. Gathers(FlattenSeq(ss), All(K, 1, b - a), (b - a) * l)
  BY <1>1, <1>4, GatherFlatten
<1> QED BY <1>3, <1>6 DEF ss

-----------------------------------------------------------------------------
(***************************************************************************)
(* The sizes of trees.                                                    *)
(***************************************************************************)

\* The recursive function of Power, on the arguments S.
IsPower(h, n, S) == h = [i \in S |-> IF i = 0 THEN 1 ELSE n * h[i - 1]]

\* It exists up to every exponent ...
LEMMA PowersUpTo ==
  ASSUME NEW n \in Nat, NEW k \in Nat
  PROVE  \E h : IsPower(h, n, 0..k)
<1> DEFINE good == {l \in Nat : \E h : IsPower(h, n, 0..l)}
<1>1. 0 \in good
  <2>1. IsPower([i \in 0..0 |-> 1], n, 0..0)
    BY DEF IsPower
  <2> QED BY <2>1
<1>2. ASSUME NEW l \in Nat, l \in good PROVE l + 1 \in good
  <2>1. PICK h : IsPower(h, n, 0..l)
    BY <1>2
  <2> DEFINE g == [i \in 0..(l + 1) |-> IF i = l + 1 THEN n * h[l] ELSE h[i]]
  <2>2. \A i \in 0..l : h[i] = IF i = 0 THEN 1 ELSE n * h[i - 1]
    BY <2>1 DEF IsPower
  <2>3. \A i \in 0..l : g[i] = h[i]
    OBVIOUS
  <2>4. ASSUME NEW i \in 0..(l + 1) PROVE g[i] = IF i = 0 THEN 1 ELSE n * g[i - 1]
    <3>1. CASE i = l + 1
      <4>1. g[i] = n * h[l] /\ i # 0 /\ i - 1 = l /\ l \in 0..l
        BY <3>1
      <4> HIDE DEF g
      <4> QED BY <2>3, <4>1
    <3>2. CASE i # l + 1
      <4>1. i \in 0..l /\ (i # 0 => i - 1 \in 0..l)
        BY <3>2
      <4> HIDE DEF g
      <4> QED BY <2>2, <2>3, <4>1
    <3> QED BY <3>1, <3>2
  <2>5. g = [i \in 0..(l + 1) |-> g[i]]
    OBVIOUS
  <2> HIDE DEF g
  <2>6. IsPower(g, n, 0..(l + 1))
    BY <2>4, <2>5 DEF IsPower
  <2> QED BY <2>6
<1> HIDE DEF good
<1>3. Nat \subseteq good
  BY <1>1, <1>2, Induction
<1> QED BY <1>3 DEF good

\* ... two of them agree ...
LEMMA PowersAgree ==
  ASSUME NEW n \in Nat, NEW k \in Nat, NEW l \in Nat, k <= l, NEW g, NEW h,
         IsPower(g, n, 0..k), IsPower(h, n, 0..l)
  PROVE  g[k] = h[k]
<1> DEFINE good == {i \in Nat : i <= k => g[i] = h[i]}
<1>0. /\ \A i \in 0..k : g[i] = IF i = 0 THEN 1 ELSE n * g[i - 1]
      /\ \A i \in 0..l : h[i] = IF i = 0 THEN 1 ELSE n * h[i - 1]
  BY DEF IsPower
<1>1. 0 \in good
  BY <1>0
<1>2. ASSUME NEW i \in Nat, i \in good PROVE i + 1 \in good
  <2>1. CASE i + 1 <= k
    <3>1. i + 1 \in 0..k /\ i + 1 \in 0..l /\ i + 1 # 0 /\ (i + 1) - 1 = i /\ g[i] = h[i]
      BY <1>2, <2>1
    <3>2. g[i + 1] = n * g[i] /\ h[i + 1] = n * h[i]
      BY <1>0, <3>1
    <3> QED BY <3>1, <3>2
  <2> QED BY <2>1
<1> HIDE DEF good
<1>3. Nat \subseteq good
  BY <1>1, <1>2, Induction
<1> QED BY <1>3 DEF good

\* ... and so it exists on all of Nat.
LEMMA AllPowers ==
  ASSUME NEW n \in Nat
  PROVE  \E h : IsPower(h, n, Nat)
<1> DEFINE p(k) == CHOOSE h : IsPower(h, n, 0..k)
           g == [k \in Nat |-> p(k)[k]]
<1>1. \A k \in Nat : IsPower(p(k), n, 0..k)
  BY PowersUpTo
<1> HIDE DEF p
<1>2. ASSUME NEW k \in Nat PROVE g[k] = IF k = 0 THEN 1 ELSE n * g[k - 1]
  <2>1. p(k)[k] = IF k = 0 THEN 1 ELSE n * p(k)[k - 1]
    <3>1. \A i \in 0..k : p(k)[i] = IF i = 0 THEN 1 ELSE n * p(k)[i - 1]
      BY <1>1 DEF IsPower
    <3> QED BY <3>1
  <2>2. CASE k = 0
    BY <2>1, <2>2
  <2>3. CASE k # 0
    <3>1. k - 1 \in Nat /\ k - 1 <= k
      BY <2>3
    <3>2. IsPower(p(k - 1), n, 0..(k - 1)) /\ IsPower(p(k), n, 0..k)
      BY <1>1, <3>1
    <3>3. p(k - 1)[k - 1] = p(k)[k - 1]
      BY <3>1, <3>2, PowersAgree
    <3> QED BY <2>1, <2>3, <3>1, <3>3
  <2> QED BY <2>2, <2>3
<1>3. g = [k \in Nat |-> g[k]]
  OBVIOUS
<1> HIDE DEF g
<1>4. IsPower(g, n, Nat)
  BY <1>2, <1>3 DEF IsPower
<1> QED BY <1>4

\* Power satisfies its recursion.
LEMMA PowerSteps ==
  ASSUME NEW n \in Nat
  PROVE  Power(n, 0) = 1 /\ \A k \in Nat : Power(n, k) \in Nat /\ Power(n, k + 1) = n * Power(n, k)
<1> DEFINE h == CHOOSE h : IsPower(h, n, Nat)
<1>1. IsPower(h, n, Nat)
  BY AllPowers
<1>2. \A k : Power(n, k) = h[k]
  BY DEF Power, IsPower
<1> HIDE DEF h
<1>3. \A k \in Nat : h[k] = IF k = 0 THEN 1 ELSE n * h[k - 1]
  BY <1>1 DEF IsPower
<1>4. h[0] = 1
  BY <1>3
<1>5. \A k \in Nat : h[k + 1] = n * h[k]
  <2> TAKE k \in Nat
  <2>1. k + 1 \in Nat /\ k + 1 # 0 /\ (k + 1) - 1 = k
    OBVIOUS
  <2> QED BY <1>3, <2>1
<1> DEFINE good == {k \in Nat : h[k] \in Nat}
<1>6. 0 \in good
  BY <1>4
<1>7. \A k \in Nat : k \in good => k + 1 \in good
  BY <1>5
<1> HIDE DEF good
<1>8. Nat \subseteq good
  BY <1>6, <1>7, Induction
<1>9. \A k \in Nat : h[k] \in Nat
  BY <1>8 DEF good
<1> QED BY <1>2, <1>4, <1>5, <1>9

\* A dividend is divided back into what it was made of.
LEMMA Division ==
  ASSUME NEW d \in Nat \ {0}, NEW a \in Nat, NEW r \in 0..(d - 1)
  PROVE  (d * a + r) \div d = a /\ (d * a + r) % d = r
<1> DEFINE b == (d * a + r) \div d
           c == (d * a + r) % d
<1>1. d * a + r \in Nat
  OBVIOUS
<1>2. b \in Int /\ c \in 0..(d - 1) /\ d * a + r = d * b + c
  BY <1>1
<1> HIDE DEF b, c
<1>3. CASE b >= a + 1
  <2>1. d * b >= d * (a + 1)
    BY <1>2, <1>3
  <2>2. d * (a + 1) = d * a + d
    OBVIOUS
  <2> QED BY <1>1, <1>2, <2>1, <2>2
<1>4. CASE a >= b + 1
  <2>1. d * a >= d * (b + 1)
    BY <1>2, <1>4
  <2>2. d * (b + 1) = d * b + d
    BY <1>2
  <2> QED BY <1>1, <1>2, <2>1, <2>2
<1>5. CASE a = b
  BY <1>2, <1>5 DEF b, c
<1> QED BY <1>2, <1>3, <1>4, <1>5

\* What the division of Integers promises.
LEMMA Remainder ==
  ASSUME NEW n \in Nat \ {0}, NEW i \in Nat
  PROVE  i \div n \in Int /\ i % n \in 0..(n - 1) /\ i = n * (i \div n) + (i % n)
OBVIOUS

\* g is the number of nodes of a full tree of k levels.
Counts(n, k, g) == Power(n, k) - 1 = (n - 1) * g

\* The nodes of a full tree: the division by n - 1 is exact, there are n * x + 1
\* with one more level, and the leaves are those that the last level adds.
LEMMA NodesOfTree ==
  ASSUME NEW n \in Nat, n > 1, NEW d \in Nat
  PROVE  /\ Nodes(d, n) \in Nat
         /\ Nodes(d + 1, n) = n * Nodes(d, n) + 1
         /\ Power(n, d) = Nodes(d + 1, n) - Nodes(d, n)
<1>0. /\ Power(n, 0) = 1
      /\ \A k \in Nat : Power(n, k) \in Nat /\ Power(n, k + 1) = n * Power(n, k)
  BY PowerSteps
<1> DEFINE good == {k \in Nat : \E g \in Nat : Counts(n, k, g)}
<1>1. 0 \in good
  <2>1. (n - 1) * 0 = 0
    OBVIOUS
  <2>2. Counts(n, 0, 0)
    BY <1>0, <2>1 DEF Counts
  <2> QED BY <2>2
<1>2. ASSUME NEW k \in Nat, NEW g \in Nat, Counts(n, k, g)
      PROVE  Counts(n, k + 1, n * g + 1) /\ n * g + 1 \in Nat
  <2> DEFINE p == Power(n, k)
             p2 == Power(n, k + 1)
  <2>1. p \in Nat /\ p2 = n * p /\ p = (n - 1) * g + 1
    BY <1>0, <1>2 DEF Counts
  <2> HIDE DEF p, p2
  <2>2. n * p = n * ((n - 1) * g) + n
    BY <2>1
  <2>3. (n - 1) * (n * g + 1) = n * ((n - 1) * g) + n - 1
    OBVIOUS
  <2>4. n * g + 1 \in Nat /\ n * ((n - 1) * g) \in Int
    OBVIOUS
  <2>5. p2 - 1 = (n - 1) * (n * g + 1)
    BY <2>1, <2>2, <2>3, <2>4
  <2> QED BY <2>4, <2>5 DEF p2, Counts
<1>3. \A k \in Nat : k \in good => k + 1 \in good
  BY <1>2
<1>4. Nat \subseteq good
  <2> HIDE DEF good
  <2> QED BY <1>1, <1>3, Induction
<1>5. PICK g \in Nat : Counts(n, d, g)
  BY <1>4
<1>6. \A k \in Nat, x \in Nat : Counts(n, k, x) => Nodes(k, n) = x
  <2> TAKE k \in Nat, x \in Nat
  <2> HAVE Counts(n, k, x)
  <2>1. n - 1 \in Nat \ {0} /\ 0 \in 0..((n - 1) - 1)
    OBVIOUS
  <2>2. ((n - 1) * x + 0) \div (n - 1) = x
    BY <2>1, Division
  <2>3. (n - 1) * x + 0 = (n - 1) * x
    OBVIOUS
  <2> QED BY <2>2, <2>3 DEF Nodes, Counts
<1>7. Nodes(d, n) = g
  BY <1>5, <1>6
<1>8. Nodes(d + 1, n) = n * g + 1
  <2>1. Counts(n, d + 1, n * g + 1) /\ n * g + 1 \in Nat /\ d + 1 \in Nat
    BY <1>2, <1>5
  <2> QED BY <1>6, <2>1
<1>9. n * g + 1 - g = (n - 1) * g + 1 /\ Power(n, d) = (n - 1) * g + 1
  BY <1>0, <1>5 DEF Counts
<1> QED BY <1>7, <1>8, <1>9

\* The sizes that a tree is built from: its last level has the nodes that are no
\* parents.
LEMMA SizesOfTree ==
  ASSUME NEW depth \in Nat \ {0}, NEW n \in Nat, n > 1
  PROVE  /\ Nodes(depth, n) \in Nat \ {0} /\ Nodes(depth - 1, n) \in Nat
         /\ Nodes(depth, n) = n * Nodes(depth - 1, n) + 1
         /\ Power(n, depth - 1) = Nodes(depth, n) - Nodes(depth - 1, n)
         /\ Power(n, depth - 1) \in Nat \ {0}
<1>1. depth - 1 \in Nat /\ (depth - 1) + 1 = depth
  OBVIOUS
<1> DEFINE x == Nodes(depth - 1, n)
           y == Nodes(depth, n)
<1>2. x \in Nat /\ y = n * x + 1 /\ Power(n, depth - 1) = y - x
  BY <1>1, NodesOfTree
<1> HIDE DEF x, y
<1>3. n * x \in Nat /\ n * x >= x
  BY <1>2
<1>4. y \in Nat \ {0} /\ y - x \in Nat \ {0}
  BY <1>2, <1>3
<1> QED BY <1>2, <1>4 DEF x, y

\* The children of different nodes differ, and are nodes of the tree, but not its
\* root.
LEMMA Children ==
  ASSUME NEW n \in Nat, n > 1, NEW m \in Nat
  PROVE  /\ \A i \in 0..(m - 1), j \in 0..(n - 1) : Child(i, j, n) \in 1..(n * m)
         /\ \A i, k \in 0..(m - 1), j, l \in 0..(n - 1) :
              Child(i, j, n) = Child(k, l, n) => i = k /\ j = l
<1>1. ASSUME NEW i \in 0..(m - 1), NEW j \in 0..(n - 1) PROVE Child(i, j, n) \in 1..(n * m)
  <2>1. i * n = n * i /\ n * i \in Nat /\ n * m \in Nat /\ n * (m - 1) = n * m - n
    OBVIOUS
  <2>2. n * i <= n * (m - 1)
    <3>1. i <= m - 1 /\ m - 1 \in Int
      OBVIOUS
    <3> QED BY <3>1
  <2>3. n * i + j + 1 <= n * m /\ n * i + j + 1 \in Nat
    BY <2>1, <2>2
  <2> QED BY <2>1, <2>3 DEF Child
<1>2. ASSUME NEW i \in 0..(m - 1), NEW k \in 0..(m - 1), NEW j \in 0..(n - 1), NEW l \in 0..(n - 1),
             Child(i, j, n) = Child(k, l, n)
      PROVE  i = k /\ j = l
  <2>1. i * n = n * i /\ k * n = n * k /\ n * i \in Nat /\ n * k \in Nat
    OBVIOUS
  <2>2. n * i + j = n * k + l
    BY <1>2, <2>1 DEF Child
  <2>3. (n * i + j) \div n = i /\ (n * i + j) % n = j
    BY Division
  <2>4. (n * k + l) \div n = k /\ (n * k + l) % n = l
    BY Division
  <2> QED BY <2>2, <2>3, <2>4
<1> QED BY <1>1, <1>2

\* Where the nodes of a tree the other way round are connected to: ports that the
\* unions have, and no port twice.
LEMMA Parents ==
  ASSUME NEW n \in Nat, n > 1, NEW m \in Nat
  PROVE  /\ \A i \in 0..(n * m - 1) : i \div n \in 0..(m - 1) /\ i % n \in 0..(n - 1)
         /\ \A i, k \in 0..(n * m - 1) : i \div n = k \div n /\ i % n = k % n => i = k
<1>1. \A i \in 0..(n * m - 1) : i \div n \in Int /\ i % n \in 0..(n - 1) /\ i = n * (i \div n) + (i % n)
  <2> TAKE i \in 0..(n * m - 1)
  <2>1. n \in Nat \ {0} /\ i \in Nat
    OBVIOUS
  <2> QED BY <2>1, Remainder
<1>2. ASSUME NEW i \in 0..(n * m - 1) PROVE i \div n \in 0..(m - 1)
  <2> DEFINE q == i \div n
             r == i % n
  <2>1. q \in Int /\ r \in 0..(n - 1) /\ i = n * q + r /\ i \in Nat /\ i < n * m
    BY <1>1
  <2> HIDE DEF q, r
  <2>2. CASE q >= m
    <3>1. n * q >= n * m
      BY <2>1, <2>2
    <3> QED BY <2>1, <3>1
  <2>3. CASE q <= -1
    <3>1. n * q <= n * (-1)
      BY <2>1, <2>3
    <3> QED BY <2>1, <3>1
  <2>4. q \in 0..(m - 1)
    BY <2>1, <2>2, <2>3
  <2> QED BY <2>4 DEF q
<1>3. ASSUME NEW i \in 0..(n * m - 1), NEW k \in 0..(n * m - 1), i \div n = k \div n, i % n = k % n
      PROVE  i = k
  <2>1. i = n * (i \div n) + (i % n) /\ k = n * (k \div n) + (k % n)
    BY <1>1
  <2> QED BY <1>3, <2>1, Zenon
<1>4. \A i \in 0..(n * m - 1) : i % n \in 0..(n - 1)
  BY <1>1
<1> QED BY <1>2, <1>3, <1>4, Zenon

-----------------------------------------------------------------------------
(***************************************************************************)
(* Operators by their names, and connections by where they lead.          *)
(***************************************************************************)

Classes ==
  {"FileSource", "TupleGenerator", "Timestamper", "Selective", "Busy", "ResultCollector", "FileSink",
   "Split", "Merge", "RoundRobinSplit", "Union", "Filter", "Barrier"}
Naming == [o \in Classes \X Nat |-> o]
Links(O, n) ==
  {c \in [from : O, out : Nat, to : O, in : Nat] : c.out < Outs(c.from[1], n) /\ c.in < Ins(c.to[1], n)}
Leading(O, n) == [c \in Links(O, n) |-> Target(c)]

\* A list of different operators, as Sound asks for.
LEMMA SoundOperators ==
  ASSUME NEW d, NEW O, Lists(d.ops, Naming, O)
  PROVE  /\ ToSet(d.ops) = O /\ IsInjective(d.ops) /\ d.ops \in Seq(ToSet(d.ops))
         /\ Possible(d) = Links(O, d.n)
<1>1. \A x \in Classes \X Nat : Naming[x] = x
  BY DEF Naming
<1>2. d.ops \in Seq(Classes \X Nat)
  BY DEF Lists, Naming
<1>3. \A i \in DOMAIN d.ops : d.ops[i] \in Classes \X Nat /\ Naming[d.ops[i]] = d.ops[i]
  BY <1>1, <1>2
<1>4. ToSet(d.ops) = O
  BY <1>3 DEF Lists, ToSet
<1>5. IsInjective(d.ops)
  BY <1>3 DEF Lists, IsInjective
<1>6. d.ops \in Seq(ToSet(d.ops))
  <2>1. d.ops = [i \in 1..Len(d.ops) |-> d.ops[i]] /\ Len(d.ops) \in Nat
    BY <1>2
  <2>2. \A i \in 1..Len(d.ops) : d.ops[i] \in ToSet(d.ops)
    BY <1>2 DEF ToSet
  <2> QED BY <2>1, <2>2
<1>7. Possible(d) = Links(O, d.n)
  BY <1>4 DEF Possible, Links
<1> QED BY <1>4, <1>5, <1>6, <1>7

\* A flow whose statements add different operators, and connections of theirs to
\* different input ports.
LEMMA Soundness ==
  ASSUME NEW d, NEW O, NEW I, d.n \in Nat,
         Lists(d.ops, Naming, O), Lists(d.conns, Leading(O, d.n), I)
  PROVE  Sound(d) /\ WithoutFanIn(d)
<1>5. IsInjective(d.ops) /\ d.ops \in Seq(ToSet(d.ops))
  BY SoundOperators
<1>7. Possible(d) = Links(O, d.n)
  BY SoundOperators
<1>8. d.conns \in Seq(Possible(d))
  BY <1>7 DEF Lists, Leading
<1>9. \A i \in DOMAIN d.conns : d.conns[i] \in Links(O, d.n)
  BY <1>7, <1>8
<1>10. \A i \in DOMAIN d.conns : Leading(O, d.n)[d.conns[i]] = Target(d.conns[i])
  BY <1>9 DEF Leading
<1>11. WithoutFanIn(d)
  BY <1>10 DEF Lists, WithoutFanIn
<1> QED BY <1>5, <1>8, <1>11 DEF Sound, WithoutFanIn

\* A connection between ports that exist.
LEMMA Link ==
  ASSUME NEW O, NEW n, NEW from \in O, NEW to \in O,
         NEW out \in Nat, out < Outs(from[1], n), NEW in \in Nat, in < Ins(to[1], n)
  PROVE  /\ Conn(from, out, to, in) \in DOMAIN Leading(O, n)
         /\ Leading(O, n)[Conn(from, out, to, in)] = <<to, in>>
BY DEF Conn, Leading, Links, Target

\* The operators of the topologies are names that the lists can be told apart by.
LEMMA Names ==
  ASSUME NEW i \in Nat
  PROVE  \A o \in {Node("FileSource", i), Node("TupleGenerator", i), timestamper(i), selective(i),
                   busy(i), collector(i), sink(i), Node("Split", i), Node("Merge", i),
                   Node("RoundRobinSplit", i), Node("Union", i), Node("Filter", i), Node("Barrier", i)} :
           o \in DOMAIN Naming /\ Naming[o] = o
BY DEF Naming, Classes, Node, timestamper, selective, busy, collector, sink

\* The class and the number of an operator are those of its name.
LEMMA RolesDiffer ==
  \A i, j : /\ timestamper(i)[1] = "Timestamper" /\ selective(i)[1] = "Selective"
            /\ busy(i)[1] = "Busy" /\ collector(i)[1] = "ResultCollector" /\ sink(i)[1] = "FileSink"
            /\ \A r : Node(r, i)[1] = r /\ Node(r, i)[2] = i
            /\ (selective(i) = selective(j) \/ busy(i) = busy(j) \/ timestamper(i) = timestamper(j)
                \/ collector(i) = collector(j) \/ sink(i) = sink(j)) => i = j
BY DEF Node, timestamper, selective, busy, collector, sink

\* How many ports the operators of the topologies have.
LEMMA Widths ==
  ASSUME NEW n
  PROVE  \A i : /\ \A o \in {Node("FileSource", i), Node("TupleGenerator", i), timestamper(i), selective(i),
                             busy(i), collector(i), Node("Merge", i), Node("Union", i), Node("Filter", i),
                             Node("Barrier", i)} : Outs(o[1], n) = 1
                /\ \A o \in {timestamper(i), selective(i), busy(i), collector(i), sink(i), Node("Split", i),
                             Node("RoundRobinSplit", i), Node("Filter", i)} : Ins(o[1], n) = 1
                /\ \A o \in {Node("Split", i), Node("RoundRobinSplit", i)} : Outs(o[1], n) = n
                /\ \A o \in {Node("Merge", i), Node("Union", i), Node("Barrier", i)} : Ins(o[1], n) = n
BY RolesDiffer DEF Outs, Ins

\* A connection between first ports.
LEMMA PlainLink ==
  ASSUME NEW O, NEW n
  PROVE  \A u, v \in O : Outs(u[1], n) = 1 /\ Ins(v[1], n) = 1 =>
           Conn(u, 0, v, 0) \in DOMAIN Leading(O, n) /\ Leading(O, n)[Conn(u, 0, v, 0)] = <<v, 0>>
BY Link

-----------------------------------------------------------------------------
(***************************************************************************)
(* FilterSink, and the tests with four files.                             *)
(***************************************************************************)

FilterOps == {Node("FileSource", 0), Node("Filter", 0), Node("Filter", 1), Node("FileSink", 0)}

\* The flow that the connectors build.
LEMMA FilterSinkSound == Sound(FilterSink) /\ WithoutFanIn(FilterSink)
<1> DEFINE src == Node("FileSource", 0)
           snk == Node("FileSink", 0)
           flt0 == Node("Filter", 0)
           flt1 == Node("Filter", 1)
           O == FilterOps
           f == Leading(O, 1)
           c1 == Conn(src, 0, flt0, 0)
           c2 == Conn(flt0, 0, flt1, 0)
           c3 == Conn(flt1, 0, snk, 0)
<1>1. FilterSink.ops = <<src, flt0>> \o <<flt1, snk>>
  BY DEF FilterSink
<1>2. FilterSink.conns = <<c1, c2, c3>>
  <2> DEFINE knot(i) == [in |-> 0, op |-> Node("Filter", i), out |-> 0]
             k1 == FromKnot(src, 0, knot(0))
             k2 == Extended(k1, knot(1))
  <2>1. k1.conns = <<c1>> /\ k1.out = 0
    BY DEF FromKnot
  <2>2. Last(<<c1>>) = c1 /\ c1.to = flt0
    BY DEF Last, Conn
  <2>3. k2.conns = Append(<<c1>>, c2) /\ k2.out = 0
    BY <2>1, <2>2 DEF Extended
  <2>4. FilterSink.conns = Closed(k2, snk, 0)
    BY DEF FilterSink
  <2> HIDE DEF k1, k2, c1, c2
  <2>5. Last(k2.conns) = c2
    BY <2>3 DEF Last
  <2>6. c2.to = flt1
    BY DEF c2, Conn
  <2>7. Closed(k2, snk, 0) = Append(Append(<<c1>>, c2), c3)
    BY <2>3, <2>5, <2>6 DEF Closed
  <2> QED BY <2>4, <2>7
<1>3. /\ \A o \in {src, snk, flt0, flt1} : o \in DOMAIN Naming /\ Naming[o] = o
      /\ src # flt0 /\ src # flt1 /\ src # snk /\ flt0 # flt1 /\ flt0 # snk /\ flt1 # snk
  <2>1. 0 \in Nat /\ 1 \in Nat
    OBVIOUS
  <2>2. \A o \in {src, snk, flt0, flt1} : o \in DOMAIN Naming /\ Naming[o] = o
    BY <2>1, Names DEF sink
  <2>3. src # flt0 /\ src # flt1 /\ src # snk /\ flt0 # flt1 /\ flt0 # snk /\ flt1 # snk
    BY DEF Node
  <2> QED BY <2>2, <2>3
<1>4. /\ \A u \in {src, flt0, flt1} : Outs(u[1], 1) = 1
      /\ \A u \in {flt0, flt1, snk} : Ins(u[1], 1) = 1
  BY RolesDiffer DEF Outs, Ins
<1>5. O = {src, flt0} \cup {flt1, snk} /\ FilterSink.n = 1
  BY DEF FilterOps, FilterSink
<1> HIDE DEF src, snk, flt0, flt1, O
<1>6. Lists(FilterSink.ops, Naming, O)
  <2>1. Lists(<<src, flt0>>, Naming, {src, flt0}) /\ Lists(<<flt1, snk>>, Naming, {flt1, snk})
    BY <1>3, ListsTwo
  <2>2. {src, flt0} \cap {flt1, snk} = {}
    BY <1>3
  <2>3. Lists(<<src, flt0>> \o <<flt1, snk>>, Naming, {src, flt0} \cup {flt1, snk})
    BY <2>1, <2>2, ListsConcat
  <2> QED BY <1>1, <1>5, <2>3
<1>7. \A u, v \in O : Outs(u[1], 1) = 1 /\ Ins(v[1], 1) = 1 =>
         Conn(u, 0, v, 0) \in DOMAIN f /\ f[Conn(u, 0, v, 0)] = <<v, 0>>
  BY PlainLink
<1> HIDE DEF f
<1>8. Lists(<<c1, c2, c3>>, f, {<<flt0, 0>>, <<flt1, 0>>, <<snk, 0>>})
  <2>1. /\ c1 \in DOMAIN f /\ f[c1] = <<flt0, 0>>
        /\ c2 \in DOMAIN f /\ f[c2] = <<flt1, 0>>
        /\ c3 \in DOMAIN f /\ f[c3] = <<snk, 0>>
    BY <1>4, <1>5, <1>7
  <2>2. <<flt0, 0>> # <<flt1, 0>> /\ <<flt0, 0>> # <<snk, 0>> /\ <<flt1, 0>> # <<snk, 0>>
    BY <1>3
  <2> HIDE DEF c1, c2, c3
  <2> QED BY <2>1, <2>2, ListsThree
<1>9. Lists(FilterSink.conns, f, {<<flt0, 0>>, <<flt1, 0>>, <<snk, 0>>})
  BY <1>2, <1>8
<1> QED BY <1>5, <1>6, <1>9, Soundness DEF f

FourOps(join) ==
  All([i \in 1..4 |-> {Node("FileSource", i)}], 1, 4) \cup {join, Node("FileSink", 0)}

\* Four sources and a join: the sources are different, so the connections are,
\* although two of them lead to the same port.
LEMMA FourFilesSound ==
  ASSUME NEW join, join \in {Node("Union", 0), Node("Barrier", 0)}, NEW s, NEW t
  PROVE  Sound(FourFiles(join, s, t))
<1> DEFINE d == FourFiles(join, s, t)
           src(i) == Node("FileSource", i)
           snk == Node("FileSink", 0)
           O == FourOps(join)
           body == [i \in 1..4 |-> <<src(i)>>]
           J == [i \in 1..4 |-> {src(i)}]
           first == FlattenSeq([k \in 1..(5 - 1) |-> body[1 + k - 1]])
           c1 == Conn(src(1), 0, join, 0)
           c2 == Conn(src(2), 0, join, 1)
           c3 == Conn(src(3), 0, join, 1)
           c4 == Conn(src(4), 0, join, 2)
           c5 == Conn(join, 0, snk, 0)
           cs == <<c1, c2, c3, c4, c5>>
<1>1. d.ops = first \o <<join, snk>> /\ d.conns = cs /\ d.n = 3
  <2>1. \A k \in 1..(5 - 1) : body[1 + k - 1] = <<src(1 + k - 1)>>
    OBVIOUS
  <2>2. first = Loop(1, 5, LAMBDA i : <<src(i)>>)
    BY <2>1 DEF Loop
  <2> HIDE DEF first
  <2> QED BY <2>2 DEF FourFiles
<1>2. /\ \A i \in Nat : src(i) \in DOMAIN Naming /\ Naming[src(i)] = src(i)
      /\ \A o \in {join, snk} : o \in DOMAIN Naming /\ Naming[o] = o
      /\ \A i : join # src(i) /\ snk # src(i)
      /\ join # snk
      /\ \A i, j : src(i) = src(j) => i = j
  <2>1. 0 \in Nat
    OBVIOUS
  <2>2. /\ \A i \in Nat : src(i) \in DOMAIN Naming /\ Naming[src(i)] = src(i)
        /\ \A o \in {join, snk} : o \in DOMAIN Naming /\ Naming[o] = o
    BY <2>1, Names DEF sink
  <2>3. /\ \A i : join # src(i) /\ snk # src(i)
        /\ join # snk
        /\ \A i, j : src(i) = src(j) => i = j
    BY DEF Node
  <2> QED BY <2>2, <2>3
<1>3. /\ \A i : Outs(src(i)[1], 3) = 1
      /\ Outs(join[1], 3) = 1 /\ Ins(join[1], 3) = 3 /\ Ins(snk[1], 3) = 1
  BY Widths, RolesDiffer DEF Outs, Ins
<1>4. src(1) \in O /\ src(2) \in O /\ src(3) \in O /\ src(4) \in O /\ join \in O /\ snk \in O
  BY DEF FourOps, All
<1>5. O = All(J, 1, 4) \cup {join, snk}
  BY DEF FourOps
<1> HIDE DEF d, src, snk, O
<1>6. Lists(d.ops, Naming, O)
  <2>1. \A i \in 1..4 : Lists(<<src(i)>>, Naming, {src(i)})
    BY <1>2, ListsOne
  <2>2. EachLists(body, Naming, J, 1, 5 - 1) /\ Disjoint(J, 1, 5 - 1)
    BY <1>2, <2>1 DEF EachLists, Disjoint
  <2>3. 1 <= 5 /\ 1 \in Nat /\ 5 \in Nat
    OBVIOUS
  <2>4. Lists(<<join, snk>>, Naming, {join, snk})
    BY <1>2, ListsTwo
  <2>5. All(J, 1, 4) \cap {join, snk} = {}
    BY <1>2 DEF All
  <2> HIDE DEF body, J
  <2>6. Lists(first, Naming, All(J, 1, 5 - 1))
    BY <2>2, <2>3, ListsLoop
  <2>7. 5 - 1 = 4
    OBVIOUS
  <2> HIDE DEF first
  <2>8. Lists(first, Naming, All(J, 1, 4))
    BY <2>6, <2>7
  <2>9. Lists(first \o <<join, snk>>, Naming, All(J, 1, 4) \cup {join, snk})
    BY <2>4, <2>5, <2>8, ListsConcat
  <2> QED BY <1>1, <1>5, <2>9
<1>7. c1 \in Links(O, 3) /\ c2 \in Links(O, 3) /\ c3 \in Links(O, 3) /\ c4 \in Links(O, 3) /\ c5 \in Links(O, 3)
  BY <1>3, <1>4 DEF Links, Conn
<1>8. /\ c1.from = src(1) /\ c2.from = src(2) /\ c3.from = src(3) /\ c4.from = src(4) /\ c5.from = join
  BY DEF Conn
<1> HIDE DEF c1, c2, c3, c4, c5
<1>9. /\ cs \in Seq(Links(O, 3)) /\ DOMAIN cs = 1..5
      /\ cs[1] = c1 /\ cs[2] = c2 /\ cs[3] = c3 /\ cs[4] = c4 /\ cs[5] = c5
  BY <1>7
<1> HIDE DEF cs
<1>10. \A i, j \in DOMAIN cs : cs[i].from = cs[j].from => i = j
  <2>1. \A i \in 1..5 : (i = 1 \/ i = 2 \/ i = 3 \/ i = 4 \/ i = 5)
    OBVIOUS
  <2>2. \A i \in 1..5 : IF i = 5 THEN cs[i].from = join ELSE cs[i].from = src(i)
    BY <1>8, <1>9, <2>1
  <2> QED BY <1>2, <1>9, <2>2
<1>11. Sound(d)
  <2>1. \A i, j \in DOMAIN d.conns :
          Start(d.conns[i]) = Start(d.conns[j]) /\ Target(d.conns[i]) = Target(d.conns[j]) => i = j
    BY <1>1, <1>10 DEF Start
  <2>2. /\ IsInjective(d.ops) /\ d.ops \in Seq(ToSet(d.ops))
        /\ Possible(d) = Links(O, d.n)
    BY <1>6, SoundOperators
  <2>3. d.conns \in Seq(Possible(d)) /\ d.n \in Nat
    BY <1>1, <1>9, <2>2
  <2> QED BY <2>1, <2>2, <2>3 DEF Sound
<1> QED BY <1>11 DEF d

-----------------------------------------------------------------------------
(***************************************************************************)
(* Chain.                                                                 *)
(***************************************************************************)

ChainOps(depth) ==
  {Node("FileSource", 0), timestamper(0)}
  \cup All([i \in 0..(depth - 1) |-> {busy(i), selective(i)}], 0, depth - 1)
  \cup {collector(0), sink(0)}

\* No operator of a chain is created twice.
LEMMA ChainNames ==
  ASSUME NEW depth \in Nat \ {0}
  PROVE  Lists(Chain(depth).ops, Naming, ChainOps(depth)) /\ Len(Chain(depth).ops) = 2 * depth + 4
<1> DEFINE body == [i \in 0..(depth - 1) |-> <<busy(i), selective(i)>>]
           J == [i \in 0..(depth - 1) |-> {busy(i), selective(i)}]
           src == Node("FileSource", 0)
           A == {src, timestamper(0)}
           B == All(J, 0, depth - 1)
           C == {collector(0), sink(0)}
           first == <<src, timestamper(0)>>
           middle == FlattenSeq([k \in 1..(depth - 0) |-> body[0 + k - 1]])
           last == <<collector(0), sink(0)>>
<1>1. Chain(depth).ops = first \o middle \o last
  <2>1. \A k \in 1..(depth - 0) : body[0 + k - 1] = <<busy(0 + k - 1), selective(0 + k - 1)>>
    OBVIOUS
  <2>2. middle = Loop(0, depth, LAMBDA i : <<busy(i), selective(i)>>)
    BY <2>1 DEF Loop
  <2> HIDE DEF middle
  <2> QED BY <2>2 DEF Chain
<1>2. Lists(first, Naming, A)
  BY Names, RolesDiffer, ListsTwo
<1>3. Lists(last, Naming, C)
  BY Names, RolesDiffer, ListsTwo
<1>4. Lists(middle, Naming, B)
  <2>1. \A i \in 0..(depth - 1) : Lists(<<busy(i), selective(i)>>, Naming, {busy(i), selective(i)})
    BY Names, RolesDiffer, ListsTwo
  <2>2. EachLists(body, Naming, J, 0, depth - 1)
    BY <2>1 DEF EachLists
  <2>3. Disjoint(J, 0, depth - 1)
    BY RolesDiffer DEF Disjoint
  <2>4. 0 <= depth /\ depth \in Nat /\ 0 \in Nat
    OBVIOUS
  <2> HIDE DEF body, J
  <2> QED BY <2>2, <2>3, <2>4, ListsLoop
<1>9. Gathers(first, A, 2) /\ Gathers(last, C, 2)
  BY GatherFew
<1>10. Gathers(middle, B, (depth - 0) * 2)
  <2>1. \A i \in 0..(depth - 1) : body[i] = <<busy(i), selective(i)>> /\ J[i] = {busy(i), selective(i)}
    OBVIOUS
  <2>2. 0 <= depth /\ depth \in Nat /\ 0 \in Nat /\ 2 \in Nat
    OBVIOUS
  <2> HIDE DEF body, J
  <2>3. \A i : Gathers(<<busy(i), selective(i)>>, {busy(i), selective(i)}, 2)
    BY GatherFew, Zenon
  <2>4. \A i \in 0..(depth - 1) : Gathers(body[i], J[i], 2)
    BY <2>1, <2>3
  <2> QED BY <2>2, <2>4, GatherLoop
<1> HIDE DEF first, last, middle
<1>5. A \cap B = {} /\ (A \cup B) \cap C = {}
  BY RolesDiffer DEF All
<1>6. ChainOps(depth) = (A \cup B) \cup C
  BY DEF ChainOps
<1> HIDE DEF A, B, C, J
<1>7. Lists(first \o middle, Naming, A \cup B)
  BY <1>2, <1>4, <1>5, ListsConcat
<1>8. Lists((first \o middle) \o last, Naming, (A \cup B) \cup C)
  BY <1>3, <1>7, <1>5, ListsConcat
<1>11. Len(Chain(depth).ops) = 2 * depth + 4
  <2>1. Gathers(first \o middle, A \cup B, 2 + (depth - 0) * 2)
    BY <1>9, <1>10, GatherConcat
  <2>2. Gathers((first \o middle) \o last, (A \cup B) \cup C, (2 + (depth - 0) * 2) + 2)
    BY <1>9, <2>1, GatherConcat
  <2>3. (2 + (depth - 0) * 2) + 2 = 2 * depth + 4
    OBVIOUS
  <2> QED BY <1>1, <2>2, <2>3 DEF Gathers
<1> QED BY <1>1, <1>6, <1>8, <1>11

ChainConns(depth) ==
  {Conn(Node("FileSource", 0), 0, timestamper(0), 0), Conn(timestamper(0), 0, selective(0), 0)}
  \cup {Conn(selective(i), 0, busy(i), 0) : i \in 0..(depth - 1)}
  \cup {Conn(busy(i), 0, selective(i + 1), 0) : i \in 0..((depth - 1) - 1)}
  \cup {Conn(busy(depth - 1), 0, collector(0), 0), Conn(collector(0), 0, sink(0), 0)}

\* Its connections are between ports that exist, and no two lead to the same one.
LEMMA ChainLinks ==
  ASSUME NEW depth \in Nat \ {0}
  PROVE  /\ \E I : Lists(Chain(depth).conns, Leading(ChainOps(depth), 1), I)
         /\ ToSet(Chain(depth).conns) = ChainConns(depth)
<1> DEFINE O == ChainOps(depth)
           f == Leading(O, 1)
           b1 == [i \in 0..(depth - 1) |-> <<Conn(selective(i), 0, busy(i), 0)>>]
           b2 == [i \in 0..((depth - 1) - 1) |-> <<Conn(busy(i), 0, selective(i + 1), 0)>>]
           J1 == [i \in 0..(depth - 1) |-> {<<busy(i), 0>>}]
           J2 == [i \in 0..((depth - 1) - 1) |-> {<<selective(i + 1), 0>>}]
           A == {<<timestamper(0), 0>>, <<selective(0), 0>>}
           B1 == All(J1, 0, depth - 1)
           B2 == All(J2, 0, (depth - 1) - 1)
           C == {<<collector(0), 0>>, <<sink(0), 0>>}
           src == Node("FileSource", 0)
           s0 == <<Conn(src, 0, timestamper(0), 0), Conn(timestamper(0), 0, selective(0), 0)>>
           s1 == FlattenSeq([k \in 1..(depth - 0) |-> b1[0 + k - 1]])
           s2 == FlattenSeq([k \in 1..((depth - 1) - 0) |-> b2[0 + k - 1]])
           s3 == <<Conn(busy(depth - 1), 0, collector(0), 0), Conn(collector(0), 0, sink(0), 0)>>
<1>1. Chain(depth).conns = s0 \o s1 \o s2 \o s3
  <2>1. \A k \in 1..(depth - 0) : b1[0 + k - 1] = <<Conn(selective(0 + k - 1), 0, busy(0 + k - 1), 0)>>
    OBVIOUS
  <2>2. s1 = Loop(0, depth, LAMBDA i : <<Conn(selective(i), 0, busy(i), 0)>>)
    BY <2>1 DEF Loop
  <2>3. \A k \in 1..((depth - 1) - 0) :
          b2[0 + k - 1] = <<Conn(busy(0 + k - 1), 0, selective((0 + k - 1) + 1), 0)>>
    OBVIOUS
  <2>4. s2 = Loop(0, depth - 1, LAMBDA i : <<Conn(busy(i), 0, selective(i + 1), 0)>>)
    BY <2>3 DEF Loop
  <2> HIDE DEF s1, s2
  <2> QED BY <2>2, <2>4 DEF Chain
<1>2. /\ src \in O /\ timestamper(0) \in O /\ collector(0) \in O /\ sink(0) \in O
      /\ \A i \in 0..(depth - 1) : busy(i) \in O /\ selective(i) \in O
  BY DEF ChainOps, All, timestamper, collector, sink, busy, selective, Node
<1>3. timestamper(0) # selective(0) /\ collector(0) # sink(0)
  BY RolesDiffer
<1>4. /\ \A u \in {src, timestamper(0), collector(0)} : Outs(u[1], 1) = 1
      /\ \A i : Outs(busy(i)[1], 1) = 1 /\ Outs(selective(i)[1], 1) = 1
      /\ \A u \in {timestamper(0), collector(0), sink(0)} : Ins(u[1], 1) = 1
      /\ \A i : Ins(busy(i)[1], 1) = 1 /\ Ins(selective(i)[1], 1) = 1
  BY Widths
<1> HIDE DEF O
<1>5. \A u, v \in O : Outs(u[1], 1) = 1 /\ Ins(v[1], 1) = 1 =>
         Conn(u, 0, v, 0) \in DOMAIN f /\ f[Conn(u, 0, v, 0)] = <<v, 0>>
  BY PlainLink
<1> HIDE DEF f, src
<1>6. Lists(s0, f, A)
  <2>1. timestamper(0) # selective(0)
    BY <1>3
  <2>2. /\ Conn(src, 0, timestamper(0), 0) \in DOMAIN f
        /\ f[Conn(src, 0, timestamper(0), 0)] = <<timestamper(0), 0>>
        /\ Conn(timestamper(0), 0, selective(0), 0) \in DOMAIN f
        /\ f[Conn(timestamper(0), 0, selective(0), 0)] = <<selective(0), 0>>
    BY <1>2, <1>4, <1>5
  <2> QED BY <2>1, <2>2, ListsTwo
<1>7. Lists(s3, f, C)
  <2>1. collector(0) # sink(0)
    BY <1>3
  <2>2. /\ Conn(busy(depth - 1), 0, collector(0), 0) \in DOMAIN f
        /\ f[Conn(busy(depth - 1), 0, collector(0), 0)] = <<collector(0), 0>>
        /\ Conn(collector(0), 0, sink(0), 0) \in DOMAIN f
        /\ f[Conn(collector(0), 0, sink(0), 0)] = <<sink(0), 0>>
    BY <1>2, <1>4, <1>5
  <2> QED BY <2>1, <2>2, ListsTwo
<1>8. Lists(s1, f, B1)
  <2>1. \A i \in 0..(depth - 1) : Lists(<<Conn(selective(i), 0, busy(i), 0)>>, f, {<<busy(i), 0>>})
    BY <1>2, <1>4, <1>5, ListsOne
  <2>2. EachLists(b1, f, J1, 0, depth - 1)
    BY <2>1 DEF EachLists
  <2>3. Disjoint(J1, 0, depth - 1)
    BY DEF Disjoint, busy, Node
  <2>4. 0 <= depth /\ depth \in Nat /\ 0 \in Nat
    OBVIOUS
  <2> HIDE DEF b1, J1
  <2> QED BY <2>2, <2>3, <2>4, ListsLoop
<1>9. Lists(s2, f, B2)
  <2>1. \A i \in 0..((depth - 1) - 1) :
          Lists(<<Conn(busy(i), 0, selective(i + 1), 0)>>, f, {<<selective(i + 1), 0>>})
    <3> TAKE i \in 0..((depth - 1) - 1)
    <3>1. i \in 0..(depth - 1) /\ i + 1 \in 0..(depth - 1)
      OBVIOUS
    <3> QED BY <1>2, <1>4, <1>5, <3>1, ListsOne
  <2>2. EachLists(b2, f, J2, 0, (depth - 1) - 1)
    BY <2>1 DEF EachLists
  <2>3. Disjoint(J2, 0, (depth - 1) - 1)
    BY DEF Disjoint, selective, Node
  <2>4. 0 <= depth - 1 /\ depth - 1 \in Nat /\ 0 \in Nat
    OBVIOUS
  <2> HIDE DEF b2, J2
  <2> QED BY <2>2, <2>3, <2>4, ListsLoop
<1>10. /\ A \cap B1 = {} /\ (A \cup B1) \cap B2 = {} /\ ((A \cup B1) \cup B2) \cap C = {}
  BY DEF All, timestamper, collector, sink, busy, selective, Node
<1> DEFINE K1 == [i \in 0..(depth - 1) |-> {Conn(selective(i), 0, busy(i), 0)}]
           K2 == [i \in 0..((depth - 1) - 1) |-> {Conn(busy(i), 0, selective(i + 1), 0)}]
           A0 == {Conn(src, 0, timestamper(0), 0), Conn(timestamper(0), 0, selective(0), 0)}
           A3 == {Conn(busy(depth - 1), 0, collector(0), 0), Conn(collector(0), 0, sink(0), 0)}
<1>14. Gathers(s0, A0, 2) /\ Gathers(s3, A3, 2)
  BY GatherFew
<1>15. Gathers(s1, All(K1, 0, depth - 1), (depth - 0) * 1)
  <2>1. \A i \in 0..(depth - 1) :
          b1[i] = <<Conn(selective(i), 0, busy(i), 0)>> /\ K1[i] = {Conn(selective(i), 0, busy(i), 0)}
    OBVIOUS
  <2>2. 0 <= depth /\ depth \in Nat /\ 0 \in Nat /\ 1 \in Nat
    OBVIOUS
  <2> HIDE DEF b1, K1
  <2>3. \A i : Gathers(<<Conn(selective(i), 0, busy(i), 0)>>, {Conn(selective(i), 0, busy(i), 0)}, 1)
    BY GatherFew, Zenon
  <2>4. \A i \in 0..(depth - 1) : Gathers(b1[i], K1[i], 1)
    BY <2>1, <2>3
  <2> QED BY <2>2, <2>4, GatherLoop
<1>16. Gathers(s2, All(K2, 0, (depth - 1) - 1), ((depth - 1) - 0) * 1)
  <2>1. \A i \in 0..((depth - 1) - 1) :
          b2[i] = <<Conn(busy(i), 0, selective(i + 1), 0)>> /\ K2[i] = {Conn(busy(i), 0, selective(i + 1), 0)}
    OBVIOUS
  <2>2. 0 <= depth - 1 /\ depth - 1 \in Nat /\ 0 \in Nat /\ 1 \in Nat
    OBVIOUS
  <2> HIDE DEF b2, K2
  <2>3. \A i : Gathers(<<Conn(busy(i), 0, selective(i + 1), 0)>>, {Conn(busy(i), 0, selective(i + 1), 0)}, 1)
    BY GatherFew, Zenon
  <2>4. \A i \in 0..((depth - 1) - 1) : Gathers(b2[i], K2[i], 1)
    BY <2>1, <2>3
  <2> QED BY <2>2, <2>4, GatherLoop
<1>17. ((A0 \cup All(K1, 0, depth - 1)) \cup All(K2, 0, (depth - 1) - 1)) \cup A3 = ChainConns(depth)
  <2>1. All(K1, 0, depth - 1) = {Conn(selective(i), 0, busy(i), 0) : i \in 0..(depth - 1)}
    BY DEF All
  <2>2. All(K2, 0, (depth - 1) - 1) = {Conn(busy(i), 0, selective(i + 1), 0) : i \in 0..((depth - 1) - 1)}
    BY DEF All
  <2> HIDE DEF K1, K2
  <2> QED BY <2>1, <2>2 DEF ChainConns, src
<1> HIDE DEF A, B1, B2, C, s0, s1, s2, s3, A0, A3, K1, K2
<1>18. ToSet(Chain(depth).conns) = ChainConns(depth)
  <2> DEFINE l1 == 2 + (depth - 0) * 1
             l2 == l1 + ((depth - 1) - 0) * 1
             M1 == A0 \cup All(K1, 0, depth - 1)
             M2 == M1 \cup All(K2, 0, (depth - 1) - 1)
  <2>1. Gathers(s0 \o s1, M1, l1)
    BY <1>14, <1>15, GatherConcat
  <2> HIDE DEF M1, l1
  <2>2. Gathers((s0 \o s1) \o s2, M2, l2)
    BY <1>16, <2>1, GatherConcat
  <2> HIDE DEF M2, l2
  <2>3. Gathers(((s0 \o s1) \o s2) \o s3, M2 \cup A3, l2 + 2)
    BY <1>14, <2>2, GatherConcat
  <2>4. M2 \cup A3 = ChainConns(depth)
    BY <1>17 DEF M1, M2
  <2> QED BY <1>1, <2>3, <2>4 DEF Gathers
<1>11. Lists(s0 \o s1, f, A \cup B1)
  BY <1>6, <1>8, <1>10, ListsConcat
<1>12. Lists((s0 \o s1) \o s2, f, (A \cup B1) \cup B2)
  BY <1>9, <1>10, <1>11, ListsConcat
<1>13. Lists(((s0 \o s1) \o s2) \o s3, f, ((A \cup B1) \cup B2) \cup C)
  BY <1>7, <1>10, <1>12, ListsConcat
<1> QED BY <1>1, <1>13, <1>18 DEF O, f

-----------------------------------------------------------------------------
(***************************************************************************)
(* DataParallel.                                                          *)
(***************************************************************************)

ParallelOps(n) ==
  {src0, timestamper(0), Node("Split", 0)}
  \cup All([i \in 0..(n - 1) |-> {selective(i), busy(i)}], 0, n - 1)
  \cup {Node("Merge", 0), collector(0), sink(0)}

\* No operator of a data-parallel flow is created twice.
LEMMA ParallelNames ==
  ASSUME NEW n \in Nat \ {0}
  PROVE  Lists(DataParallel(n).ops, Naming, ParallelOps(n)) /\ Len(DataParallel(n).ops) = 2 * n + 6
<1> DEFINE body == [i \in 0..(n - 1) |-> <<selective(i), busy(i)>>]
           J == [i \in 0..(n - 1) |-> {selective(i), busy(i)}]
           split == Node("Split", 0)
           merge == Node("Merge", 0)
           A == {src0, timestamper(0), split}
           B == All(J, 0, n - 1)
           C == {merge, collector(0), sink(0)}
           first == <<src0, timestamper(0), split>>
           middle == FlattenSeq([k \in 1..(n - 0) |-> body[0 + k - 1]])
           last == <<merge, collector(0), sink(0)>>
<1>1. DataParallel(n).ops = first \o middle \o last
  <2>1. \A k \in 1..(n - 0) : body[0 + k - 1] = <<selective(0 + k - 1), busy(0 + k - 1)>>
    OBVIOUS
  <2>2. middle = Loop(0, n, LAMBDA i : <<selective(i), busy(i)>>)
    BY <2>1 DEF Loop
  <2> HIDE DEF middle
  <2> QED BY <2>2 DEF DataParallel
<1>0. src0 \in DOMAIN Naming /\ Naming[src0] = src0 /\ src0[1] = "TupleGenerator"
  BY Names, RolesDiffer DEF src0
<1>10. /\ \A o \in {timestamper(0), split, merge, collector(0), sink(0)} : o \in DOMAIN Naming /\ Naming[o] = o
       /\ split[1] = "Split" /\ merge[1] = "Merge"
  BY Names, RolesDiffer
<1> HIDE DEF split, merge
<1>2. Lists(first, Naming, A)
  <2>1. src0 # timestamper(0) /\ src0 # split /\ timestamper(0) # split
    BY <1>0, <1>10, RolesDiffer
  <2> QED BY <1>0, <1>10, <2>1, ListsThree
<1>3. Lists(last, Naming, C)
  <2>1. merge # collector(0) /\ merge # sink(0) /\ collector(0) # sink(0)
    BY <1>10, RolesDiffer
  <2> QED BY <1>10, <2>1, ListsThree
<1>4. Lists(middle, Naming, B)
  <2>1. \A i \in 0..(n - 1) : Lists(<<selective(i), busy(i)>>, Naming, {selective(i), busy(i)})
    BY Names, RolesDiffer, ListsTwo
  <2>2. EachLists(body, Naming, J, 0, n - 1)
    BY <2>1 DEF EachLists
  <2>3. Disjoint(J, 0, n - 1)
    BY RolesDiffer DEF Disjoint
  <2>4. 0 <= n /\ n \in Nat /\ 0 \in Nat
    OBVIOUS
  <2> HIDE DEF body, J
  <2> QED BY <2>2, <2>3, <2>4, ListsLoop
<1>11. Gathers(first, A, 3) /\ Gathers(last, C, 3)
  BY GatherFew
<1>12. Gathers(middle, B, (n - 0) * 2)
  <2>1. \A i \in 0..(n - 1) : body[i] = <<selective(i), busy(i)>> /\ J[i] = {selective(i), busy(i)}
    OBVIOUS
  <2>2. 0 <= n /\ n \in Nat /\ 0 \in Nat /\ 2 \in Nat
    OBVIOUS
  <2> HIDE DEF body, J
  <2>3. \A i : Gathers(<<selective(i), busy(i)>>, {selective(i), busy(i)}, 2)
    BY GatherFew, Zenon
  <2>4. \A i \in 0..(n - 1) : Gathers(body[i], J[i], 2)
    BY <2>1, <2>3
  <2> QED BY <2>2, <2>4, GatherLoop
<1> HIDE DEF first, last, middle
<1>5. A \cap B = {} /\ (A \cup B) \cap C = {}
  BY <1>0, <1>10, RolesDiffer DEF All
<1>6. ParallelOps(n) = (A \cup B) \cup C
  BY DEF ParallelOps, split, merge
<1> HIDE DEF A, B, C, J
<1>7. Lists(first \o middle, Naming, A \cup B)
  BY <1>2, <1>4, <1>5, ListsConcat
<1>8. Lists((first \o middle) \o last, Naming, (A \cup B) \cup C)
  BY <1>3, <1>7, <1>5, ListsConcat
<1>13. Len(DataParallel(n).ops) = 2 * n + 6
  <2>1. Gathers(first \o middle, A \cup B, 3 + (n - 0) * 2)
    BY <1>11, <1>12, GatherConcat
  <2>2. Gathers((first \o middle) \o last, (A \cup B) \cup C, (3 + (n - 0) * 2) + 3)
    BY <1>11, <2>1, GatherConcat
  <2>3. (3 + (n - 0) * 2) + 3 = 2 * n + 6
    OBVIOUS
  <2> QED BY <1>1, <2>2, <2>3 DEF Gathers
<1> QED BY <1>1, <1>6, <1>8, <1>13

\* Its connections.
ParallelConns(n) ==
  {Conn(src0, 0, timestamper(0), 0), Conn(timestamper(0), 0, Node("Split", 0), 0)}
  \cup All([i \in 0..(n - 1) |-> {Conn(Node("Split", 0), i, selective(i), 0), Conn(selective(i), 0, busy(i), 0),
                                 Conn(busy(i), 0, Node("Merge", 0), i)}], 0, n - 1)
  \cup {Conn(Node("Merge", 0), 0, collector(0), 0), Conn(collector(0), 0, sink(0), 0)}

\* They are between ports that exist, and no two lead to the same one.
LEMMA ParallelLinks ==
  ASSUME NEW n \in Nat \ {0}
  PROVE  /\ \E I : Lists(DataParallel(n).conns, Leading(ParallelOps(n), n), I)
         /\ ToSet(DataParallel(n).conns) = ParallelConns(n)
<1> DEFINE O == ParallelOps(n)
           f == Leading(O, n)
           split == Node("Split", 0)
           merge == Node("Merge", 0)
           body == [i \in 0..(n - 1) |-> <<Conn(split, i, selective(i), 0), Conn(selective(i), 0, busy(i), 0),
                                           Conn(busy(i), 0, merge, i)>>]
           J == [i \in 0..(n - 1) |-> {<<selective(i), 0>>, <<busy(i), 0>>, <<merge, i>>}]
           A == {<<timestamper(0), 0>>, <<split, 0>>}
           B == All(J, 0, n - 1)
           C == {<<collector(0), 0>>, <<sink(0), 0>>}
           s0 == <<Conn(src0, 0, timestamper(0), 0), Conn(timestamper(0), 0, split, 0)>>
           s1 == FlattenSeq([k \in 1..(n - 0) |-> body[0 + k - 1]])
           s2 == <<Conn(merge, 0, collector(0), 0), Conn(collector(0), 0, sink(0), 0)>>
<1>1. DataParallel(n).conns = s0 \o s1 \o s2
  <2>1. \A k \in 1..(n - 0) :
          body[0 + k - 1] = <<Conn(split, 0 + k - 1, selective(0 + k - 1), 0),
                              Conn(selective(0 + k - 1), 0, busy(0 + k - 1), 0),
                              Conn(busy(0 + k - 1), 0, merge, 0 + k - 1)>>
    OBVIOUS
  <2>2. s1 = Loop(0, n, LAMBDA i : <<Conn(split, i, selective(i), 0), Conn(selective(i), 0, busy(i), 0),
                                     Conn(busy(i), 0, merge, i)>>)
    BY <2>1 DEF Loop
  <2> HIDE DEF s1
  <2> QED BY <2>2 DEF DataParallel
<1>2. /\ src0 \in O /\ timestamper(0) \in O /\ collector(0) \in O /\ sink(0) \in O
      /\ split \in O /\ merge \in O
      /\ \A i \in 0..(n - 1) : busy(i) \in O /\ selective(i) \in O
  BY DEF ParallelOps, All
<1>3. /\ timestamper(0) # split /\ collector(0) # sink(0)
      /\ \A i : selective(i) # busy(i) /\ selective(i) # merge /\ busy(i) # merge
  BY RolesDiffer
<1>4. /\ \A u \in {src0, timestamper(0), collector(0), merge} : Outs(u[1], n) = 1
      /\ \A i : Outs(busy(i)[1], n) = 1 /\ Outs(selective(i)[1], n) = 1
      /\ \A u \in {timestamper(0), collector(0), sink(0), split} : Ins(u[1], n) = 1
      /\ \A i : Ins(busy(i)[1], n) = 1 /\ Ins(selective(i)[1], n) = 1
      /\ Outs(split[1], n) = n /\ Ins(merge[1], n) = n
  BY Widths DEF src0
<1> HIDE DEF O, split, merge
<1>5. \A u, v \in O : Outs(u[1], n) = 1 /\ Ins(v[1], n) = 1 =>
         Conn(u, 0, v, 0) \in DOMAIN f /\ f[Conn(u, 0, v, 0)] = <<v, 0>>
  BY PlainLink
<1>6. \A i \in 0..(n - 1) :
        /\ Conn(split, i, selective(i), 0) \in DOMAIN f
        /\ f[Conn(split, i, selective(i), 0)] = <<selective(i), 0>>
        /\ Conn(busy(i), 0, merge, i) \in DOMAIN f
        /\ f[Conn(busy(i), 0, merge, i)] = <<merge, i>>
        /\ Conn(selective(i), 0, busy(i), 0) \in DOMAIN f
        /\ f[Conn(selective(i), 0, busy(i), 0)] = <<busy(i), 0>>
  <2> TAKE i \in 0..(n - 1)
  <2>1. i \in Nat /\ i < n /\ 0 \in Nat /\ 0 < 1
    OBVIOUS
  <2>2. /\ Conn(split, i, selective(i), 0) \in DOMAIN f
        /\ f[Conn(split, i, selective(i), 0)] = <<selective(i), 0>>
    BY <1>2, <1>4, <2>1, Link
  <2>3. /\ Conn(busy(i), 0, merge, i) \in DOMAIN f
        /\ f[Conn(busy(i), 0, merge, i)] = <<merge, i>>
    BY <1>2, <1>4, <2>1, Link
  <2> QED BY <1>2, <1>4, <1>5, <2>2, <2>3
<1> HIDE DEF f
<1>7. Lists(s0, f, A)
  <2>2. /\ Conn(src0, 0, timestamper(0), 0) \in DOMAIN f
        /\ f[Conn(src0, 0, timestamper(0), 0)] = <<timestamper(0), 0>>
        /\ Conn(timestamper(0), 0, split, 0) \in DOMAIN f
        /\ f[Conn(timestamper(0), 0, split, 0)] = <<split, 0>>
    BY <1>2, <1>4, <1>5
  <2> QED BY <1>3, <2>2, ListsTwo
<1>8. Lists(s2, f, C)
  <2>2. /\ Conn(merge, 0, collector(0), 0) \in DOMAIN f
        /\ f[Conn(merge, 0, collector(0), 0)] = <<collector(0), 0>>
        /\ Conn(collector(0), 0, sink(0), 0) \in DOMAIN f
        /\ f[Conn(collector(0), 0, sink(0), 0)] = <<sink(0), 0>>
    BY <1>2, <1>4, <1>5
  <2> QED BY <1>3, <2>2, ListsTwo
<1>9. Lists(s1, f, B)
  <2>1. \A i \in 0..(n - 1) :
          Lists(<<Conn(split, i, selective(i), 0), Conn(selective(i), 0, busy(i), 0), Conn(busy(i), 0, merge, i)>>,
                f, {<<selective(i), 0>>, <<busy(i), 0>>, <<merge, i>>})
    <3> TAKE i \in 0..(n - 1)
    <3>1. <<selective(i), 0>> # <<busy(i), 0>> /\ <<selective(i), 0>> # <<merge, i>> /\ <<busy(i), 0>> # <<merge, i>>
      BY <1>3
    <3> QED BY <1>6, <3>1, ListsThree
  <2>2. EachLists(body, f, J, 0, n - 1)
    BY <2>1 DEF EachLists
  <2>3. Disjoint(J, 0, n - 1)
    BY <1>3, RolesDiffer DEF Disjoint
  <2>4. 0 <= n /\ n \in Nat /\ 0 \in Nat
    OBVIOUS
  <2> HIDE DEF body, J
  <2> QED BY <2>2, <2>3, <2>4, ListsLoop
<1>10. A \cap B = {} /\ (A \cup B) \cap C = {}
  BY RolesDiffer DEF All, split, merge
<1> DEFINE K == [i \in 0..(n - 1) |-> {Conn(split, i, selective(i), 0), Conn(selective(i), 0, busy(i), 0),
                                       Conn(busy(i), 0, merge, i)}]
           A0 == {Conn(src0, 0, timestamper(0), 0), Conn(timestamper(0), 0, split, 0)}
           A2 == {Conn(merge, 0, collector(0), 0), Conn(collector(0), 0, sink(0), 0)}
<1>14. Gathers(s0, A0, 2) /\ Gathers(s2, A2, 2)
  BY GatherFew
<1>15. Gathers(s1, All(K, 0, n - 1), (n - 0) * 3)
  <2>1. \A i \in 0..(n - 1) :
          /\ body[i] = <<Conn(split, i, selective(i), 0), Conn(selective(i), 0, busy(i), 0), Conn(busy(i), 0, merge, i)>>
          /\ K[i] = {Conn(split, i, selective(i), 0), Conn(selective(i), 0, busy(i), 0), Conn(busy(i), 0, merge, i)}
    OBVIOUS
  <2>2. 0 <= n /\ n \in Nat /\ 0 \in Nat /\ 3 \in Nat
    OBVIOUS
  <2> HIDE DEF body, K
  <2>3. \A i : Gathers(<<Conn(split, i, selective(i), 0), Conn(selective(i), 0, busy(i), 0), Conn(busy(i), 0, merge, i)>>,
                       {Conn(split, i, selective(i), 0), Conn(selective(i), 0, busy(i), 0), Conn(busy(i), 0, merge, i)}, 3)
    BY GatherFew, Zenon
  <2>4. \A i \in 0..(n - 1) : Gathers(body[i], K[i], 3)
    BY <2>1, <2>3
  <2> QED BY <2>2, <2>4, GatherLoop
<1>16. (A0 \cup All(K, 0, n - 1)) \cup A2 = ParallelConns(n)
  BY DEF ParallelConns, split, merge
<1> HIDE DEF A, B, C, s0, s1, s2, A0, A2, K
<1>17. ToSet(DataParallel(n).conns) = ParallelConns(n)
  <2> DEFINE l1 == 2 + (n - 0) * 3
             M1 == A0 \cup All(K, 0, n - 1)
  <2>1. Gathers(s0 \o s1, M1, l1)
    BY <1>14, <1>15, GatherConcat
  <2> HIDE DEF M1, l1
  <2>2. Gathers((s0 \o s1) \o s2, M1 \cup A2, l1 + 2)
    BY <1>14, <2>1, GatherConcat
  <2>3. M1 \cup A2 = ParallelConns(n)
    BY <1>16 DEF M1
  <2> QED BY <1>1, <2>2, <2>3 DEF Gathers
<1>11. Lists(s0 \o s1, f, A \cup B)
  BY <1>7, <1>9, <1>10, ListsConcat
<1>12. Lists((s0 \o s1) \o s2, f, (A \cup B) \cup C)
  BY <1>8, <1>10, <1>11, ListsConcat
<1> QED BY <1>1, <1>12, <1>17 DEF O, f

-----------------------------------------------------------------------------
(***************************************************************************)
(* Tree.                                                                  *)
(***************************************************************************)

TreeOps(depth, n) ==
  {src0, timestamper(0)}
  \cup All([i \in 0..(Nodes(depth, n) - 1) |-> {selective(i), busy(i)}], 0, Nodes(depth, n) - 1)
  \cup All([i \in 0..(Nodes(depth - 1, n) - 1) |-> {Node("RoundRobinSplit", i)}], 0, Nodes(depth - 1, n) - 1)
  \cup All([i \in 0..(Power(n, depth - 1) - 1) |-> {collector(i), sink(i)}], 0, Power(n, depth - 1) - 1)

\* No operator of a tree is created twice.
LEMMA TreeNames ==
  ASSUME NEW depth \in Nat \ {0}, NEW n \in Nat, n > 1
  PROVE  /\ Lists(Tree(depth, n).ops, Naming, TreeOps(depth, n))
         /\ Len(Tree(depth, n).ops) = 2 + 2 * Nodes(depth, n) + Nodes(depth - 1, n) + 2 * Power(n, depth - 1)
<1> DEFINE nodes == Nodes(depth, n)
           splits == Nodes(depth - 1, n)
           leaves == Power(n, depth - 1)
           split(i) == Node("RoundRobinSplit", i)
           b1 == [i \in 0..(nodes - 1) |-> <<selective(i), busy(i)>>]
           b2 == [i \in 0..(splits - 1) |-> <<split(i)>>]
           b3 == [i \in 0..(leaves - 1) |-> <<collector(i), sink(i)>>]
           J1 == [i \in 0..(nodes - 1) |-> {selective(i), busy(i)}]
           J2 == [i \in 0..(splits - 1) |-> {split(i)}]
           J3 == [i \in 0..(leaves - 1) |-> {collector(i), sink(i)}]
           A == {src0, timestamper(0)}
           B1 == All(J1, 0, nodes - 1)
           B2 == All(J2, 0, splits - 1)
           B3 == All(J3, 0, leaves - 1)
           s0 == <<src0, timestamper(0)>>
           s1 == FlattenSeq([k \in 1..(nodes - 0) |-> b1[0 + k - 1]])
           s2 == FlattenSeq([k \in 1..(splits - 0) |-> b2[0 + k - 1]])
           s3 == FlattenSeq([k \in 1..(leaves - 0) |-> b3[0 + k - 1]])
<1>0. nodes \in Nat \ {0} /\ splits \in Nat /\ leaves \in Nat \ {0}
  BY SizesOfTree
<1>1. Tree(depth, n).ops = s0 \o s1 \o s2 \o s3
  <2>1. \A k \in 1..(nodes - 0) : b1[0 + k - 1] = <<selective(0 + k - 1), busy(0 + k - 1)>>
    BY <1>0
  <2>2. s1 = Loop(0, nodes, LAMBDA i : <<selective(i), busy(i)>>)
    BY <2>1 DEF Loop
  <2>3. \A k \in 1..(splits - 0) : b2[0 + k - 1] = <<split(0 + k - 1)>>
    BY <1>0
  <2>4. s2 = Loop(0, splits, LAMBDA i : <<split(i)>>)
    BY <2>3 DEF Loop
  <2>5. \A k \in 1..(leaves - 0) : b3[0 + k - 1] = <<collector(0 + k - 1), sink(0 + k - 1)>>
    BY <1>0
  <2>6. s3 = Loop(0, leaves, LAMBDA i : <<collector(i), sink(i)>>)
    BY <2>5 DEF Loop
  <2> HIDE DEF s1, s2, s3
  <2> QED BY <2>2, <2>4, <2>6 DEF Tree
<1>2. /\ \A i \in Nat : \A o \in {timestamper(i), selective(i), busy(i), split(i), collector(i), sink(i)} :
           o \in DOMAIN Naming /\ Naming[o] = o
      /\ src0 \in DOMAIN Naming /\ Naming[src0] = src0 /\ src0[1] = "TupleGenerator"
      /\ \A i, j : split(i)[1] = "RoundRobinSplit" /\ (split(i) = split(j) => i = j)
  BY Names, RolesDiffer DEF src0
<1>8. TreeOps(depth, n) = ((A \cup B1) \cup B2) \cup B3
  BY DEF TreeOps
<1> HIDE DEF nodes, splits, leaves, split
<1>3. Lists(s0, Naming, A)
  <2>1. src0 # timestamper(0)
    BY <1>2, RolesDiffer
  <2> QED BY <1>2, <2>1, ListsTwo
<1>4. Lists(s1, Naming, B1)
  <2>1. \A i \in 0..(nodes - 1) : Lists(<<selective(i), busy(i)>>, Naming, {selective(i), busy(i)})
    BY <1>0, <1>2, RolesDiffer, ListsTwo
  <2>2. EachLists(b1, Naming, J1, 0, nodes - 1)
    BY <2>1 DEF EachLists
  <2>3. Disjoint(J1, 0, nodes - 1)
    BY RolesDiffer DEF Disjoint
  <2>4. 0 <= nodes /\ nodes \in Nat /\ 0 \in Nat
    BY <1>0
  <2> HIDE DEF b1, J1
  <2> QED BY <2>2, <2>3, <2>4, ListsLoop
<1>5. Lists(s2, Naming, B2)
  <2>1. \A i \in 0..(splits - 1) : Lists(<<split(i)>>, Naming, {split(i)})
    BY <1>0, <1>2, ListsOne
  <2>2. EachLists(b2, Naming, J2, 0, splits - 1)
    BY <2>1 DEF EachLists
  <2>3. Disjoint(J2, 0, splits - 1)
    BY <1>2 DEF Disjoint
  <2>4. 0 <= splits /\ splits \in Nat /\ 0 \in Nat
    BY <1>0
  <2> HIDE DEF b2, J2
  <2> QED BY <2>2, <2>3, <2>4, ListsLoop
<1>6. Lists(s3, Naming, B3)
  <2>1. \A i \in 0..(leaves - 1) : Lists(<<collector(i), sink(i)>>, Naming, {collector(i), sink(i)})
    BY <1>0, <1>2, RolesDiffer, ListsTwo
  <2>2. EachLists(b3, Naming, J3, 0, leaves - 1)
    BY <2>1 DEF EachLists
  <2>3. Disjoint(J3, 0, leaves - 1)
    BY RolesDiffer DEF Disjoint
  <2>4. 0 <= leaves /\ leaves \in Nat /\ 0 \in Nat
    BY <1>0
  <2> HIDE DEF b3, J3
  <2> QED BY <2>2, <2>3, <2>4, ListsLoop
<1>12. Gathers(s0, A, 2)
  BY GatherFew
<1>13. Gathers(s1, B1, (nodes - 0) * 2)
  <2>1. \A i \in 0..(nodes - 1) : b1[i] = <<selective(i), busy(i)>> /\ J1[i] = {selective(i), busy(i)}
    OBVIOUS
  <2>2. 0 <= nodes /\ nodes \in Nat /\ 0 \in Nat /\ 2 \in Nat
    BY <1>0
  <2> HIDE DEF b1, J1
  <2>3. \A i : Gathers(<<selective(i), busy(i)>>, {selective(i), busy(i)}, 2)
    BY GatherFew, Zenon
  <2>4. \A i \in 0..(nodes - 1) : Gathers(b1[i], J1[i], 2)
    BY <2>1, <2>3
  <2> QED BY <2>2, <2>4, GatherLoop
<1>14. Gathers(s2, B2, (splits - 0) * 1)
  <2>1. \A i \in 0..(splits - 1) : b2[i] = <<split(i)>> /\ J2[i] = {split(i)}
    OBVIOUS
  <2>2. 0 <= splits /\ splits \in Nat /\ 0 \in Nat /\ 1 \in Nat
    BY <1>0
  <2> HIDE DEF b2, J2
  <2>3. \A i : Gathers(<<split(i)>>, {split(i)}, 1)
    BY GatherFew, Zenon
  <2>4. \A i \in 0..(splits - 1) : Gathers(b2[i], J2[i], 1)
    BY <2>1, <2>3
  <2> QED BY <2>2, <2>4, GatherLoop
<1>15. Gathers(s3, B3, (leaves - 0) * 2)
  <2>1. \A i \in 0..(leaves - 1) : b3[i] = <<collector(i), sink(i)>> /\ J3[i] = {collector(i), sink(i)}
    OBVIOUS
  <2>2. 0 <= leaves /\ leaves \in Nat /\ 0 \in Nat /\ 2 \in Nat
    BY <1>0
  <2> HIDE DEF b3, J3
  <2>3. \A i : Gathers(<<collector(i), sink(i)>>, {collector(i), sink(i)}, 2)
    BY GatherFew, Zenon
  <2>4. \A i \in 0..(leaves - 1) : Gathers(b3[i], J3[i], 2)
    BY <2>1, <2>3
  <2> QED BY <2>2, <2>4, GatherLoop
<1> HIDE DEF s0, s1, s2, s3
<1>7. A \cap B1 = {} /\ (A \cup B1) \cap B2 = {} /\ ((A \cup B1) \cup B2) \cap B3 = {}
  BY <1>2, RolesDiffer DEF All
<1> HIDE DEF A, B1, B2, B3, J1, J2, J3
<1>9. Lists(s0 \o s1, Naming, A \cup B1)
  BY <1>3, <1>4, <1>7, ListsConcat
<1>10. Lists((s0 \o s1) \o s2, Naming, (A \cup B1) \cup B2)
  BY <1>5, <1>7, <1>9, ListsConcat
<1>11. Lists(((s0 \o s1) \o s2) \o s3, Naming, ((A \cup B1) \cup B2) \cup B3)
  BY <1>6, <1>7, <1>10, ListsConcat
<1>16. Len(Tree(depth, n).ops) = 2 + 2 * nodes + splits + 2 * leaves
  <2> DEFINE l1 == 2 + (nodes - 0) * 2
             l2 == l1 + (splits - 0) * 1
             l3 == l2 + (leaves - 0) * 2
  <2>1. Gathers(s0 \o s1, A \cup B1, l1)
    BY <1>12, <1>13, GatherConcat
  <2>2. l3 = 2 + 2 * nodes + splits + 2 * leaves
    BY <1>0
  <2> HIDE DEF l1
  <2>3. Gathers((s0 \o s1) \o s2, (A \cup B1) \cup B2, l2)
    BY <1>14, <2>1, GatherConcat
  <2> HIDE DEF l2
  <2>4. Gathers(((s0 \o s1) \o s2) \o s3, ((A \cup B1) \cup B2) \cup B3, l3)
    BY <1>15, <2>3, GatherConcat
  <2> HIDE DEF l3
  <2> QED BY <1>1, <2>2, <2>4 DEF Gathers
<1> QED BY <1>1, <1>8, <1>11, <1>16 DEF nodes, splits, leaves

\* Its connections.
TreeConns(depth, n) ==
  LET nodes == Nodes(depth, n)  splits == Nodes(depth - 1, n)  leaves == Power(n, depth - 1)
      split(i) == Node("RoundRobinSplit", i)
  IN {Conn(src0, 0, timestamper(0), 0), Conn(timestamper(0), 0, selective(0), 0)}
     \cup {Conn(selective(i), 0, busy(i), 0) : i \in 0..(nodes - 1)}
     \cup {Conn(busy(i), 0, split(i), 0) : i \in 0..(splits - 1)}
     \cup (UNION {{Conn(split(i), j, selective(Child(i, j, n)), 0) : j \in 0..(n - 1)} : i \in 0..(splits - 1)})
     \cup (UNION {{Conn(busy(i + splits), 0, collector(i), 0), Conn(collector(i), 0, sink(i), 0)} :
                    i \in 0..(leaves - 1)})

\* They are between ports that exist, and no two lead to the same one.
LEMMA TreeLinks ==
  ASSUME NEW depth \in Nat \ {0}, NEW n \in Nat, n > 1
  PROVE  /\ \E I : Lists(Tree(depth, n).conns, Leading(TreeOps(depth, n), n), I)
         /\ ToSet(Tree(depth, n).conns) = TreeConns(depth, n)
<1> DEFINE O == TreeOps(depth, n)
           f == Leading(O, n)
           nodes == Nodes(depth, n)
           splits == Nodes(depth - 1, n)
           leaves == Power(n, depth - 1)
           inner == nodes - leaves
           split(i) == Node("RoundRobinSplit", i)
           b1 == [i \in 0..(nodes - 1) |-> <<Conn(selective(i), 0, busy(i), 0)>>]
           b2 == [i \in 0..(splits - 1) |-> <<Conn(busy(i), 0, split(i), 0)>>]
           b3(i) == [j \in 0..(n - 1) |-> <<Conn(split(i), j, selective(Child(i, j, n)), 0)>>]
           c3(i) == FlattenSeq([k \in 1..(n - 0) |-> b3(i)[0 + k - 1]])
           b4 == [i \in 0..(inner - 1) |-> c3(i)]
           b5 == [i \in 0..(leaves - 1) |-> <<Conn(busy(i + inner), 0, collector(i), 0),
                                              Conn(collector(i), 0, sink(i), 0)>>]
           J1 == [i \in 0..(nodes - 1) |-> {<<busy(i), 0>>}]
           J2 == [i \in 0..(splits - 1) |-> {<<split(i), 0>>}]
           J3(i) == [j \in 0..(n - 1) |-> {<<selective(Child(i, j, n)), 0>>}]
           J4 == [i \in 0..(inner - 1) |-> All(J3(i), 0, n - 1)]
           J5 == [i \in 0..(leaves - 1) |-> {<<collector(i), 0>>, <<sink(i), 0>>}]
           A == {<<timestamper(0), 0>>, <<selective(0), 0>>}
           B1 == All(J1, 0, nodes - 1)
           B2 == All(J2, 0, splits - 1)
           B4 == All(J4, 0, inner - 1)
           B5 == All(J5, 0, leaves - 1)
           s0 == <<Conn(src0, 0, timestamper(0), 0), Conn(timestamper(0), 0, selective(0), 0)>>
           s1 == FlattenSeq([k \in 1..(nodes - 0) |-> b1[0 + k - 1]])
           s2 == FlattenSeq([k \in 1..(splits - 0) |-> b2[0 + k - 1]])
           s4 == FlattenSeq([k \in 1..(inner - 0) |-> b4[0 + k - 1]])
           s5 == FlattenSeq([k \in 1..(leaves - 0) |-> b5[0 + k - 1]])
<1>0. /\ nodes \in Nat \ {0} /\ splits \in Nat /\ leaves \in Nat \ {0} /\ inner = splits
      /\ nodes = n * splits + 1 /\ nodes = leaves + splits
  BY SizesOfTree
<1>18. nodes \in Nat /\ splits \in Nat /\ leaves \in Nat
  BY <1>0
<1>1. Tree(depth, n).conns = s0 \o s1 \o s2 \o s4 \o s5
  <2>1. \A k \in 1..(nodes - 0) : b1[0 + k - 1] = <<Conn(selective(0 + k - 1), 0, busy(0 + k - 1), 0)>>
    BY <1>18
  <2>2. s1 = Loop(0, nodes, LAMBDA i : <<Conn(selective(i), 0, busy(i), 0)>>)
    BY <2>1 DEF Loop
  <2>3. \A k \in 1..(splits - 0) : b2[0 + k - 1] = <<Conn(busy(0 + k - 1), 0, split(0 + k - 1), 0)>>
    BY <1>18
  <2>4. s2 = Loop(0, splits, LAMBDA i : <<Conn(busy(i), 0, split(i), 0)>>)
    BY <2>3 DEF Loop
  <2>5. \A i, k : k \in 1..(n - 0) => b3(i)[0 + k - 1] =
                         <<Conn(split(i), 0 + k - 1, selective(Child(i, 0 + k - 1, n)), 0)>>
    BY <1>18
  <2>6. \A i : c3(i) = Loop(0, n, LAMBDA j : <<Conn(split(i), j, selective(Child(i, j, n)), 0)>>)
    BY <2>5 DEF Loop
  <2>7. s4 = Loop(0, inner, LAMBDA i : Loop(0, n, LAMBDA j : <<Conn(split(i), j, selective(Child(i, j, n)), 0)>>))
    <3>1. \A k \in 1..(inner - 0) : b4[0 + k - 1] = c3(0 + k - 1)
      <4>1. \A k \in 1..(inner - 0) : 0 + k - 1 \in 0..(inner - 1)
        BY <1>0
      <4> HIDE DEF c3
      <4> QED BY <4>1
    <3> HIDE DEF c3, b4
    <3>2. s4 = FlattenSeq([k \in 1..(inner - 0) |->
                             Loop(0, n, LAMBDA j : <<Conn(split(0 + k - 1), j,
                                                          selective(Child(0 + k - 1, j, n)), 0)>>)])
      BY <2>6, <3>1
    <3> QED BY <3>2 DEF Loop
  <2>8. \A k \in 1..(leaves - 0) :
          b5[0 + k - 1] = <<Conn(busy((0 + k - 1) + inner), 0, collector(0 + k - 1), 0),
                            Conn(collector(0 + k - 1), 0, sink(0 + k - 1), 0)>>
    BY <1>18
  <2>9. s5 = Loop(0, leaves, LAMBDA i : <<Conn(busy(i + inner), 0, collector(i), 0),
                                          Conn(collector(i), 0, sink(i), 0)>>)
    BY <2>8 DEF Loop
  <2> HIDE DEF s1, s2, s4, s5
  <2> QED BY <2>2, <2>4, <2>7, <2>9 DEF Tree
<1>2. /\ src0 \in O /\ timestamper(0) \in O
      /\ \A i \in 0..(nodes - 1) : busy(i) \in O /\ selective(i) \in O
      /\ \A i \in 0..(splits - 1) : split(i) \in O
      /\ \A i \in 0..(leaves - 1) : collector(i) \in O /\ sink(i) \in O
  BY DEF TreeOps, All
<1>3. /\ timestamper(0) # selective(0)
      /\ \A i : collector(i) # sink(i)
  BY RolesDiffer
<1>4. /\ \A i : /\ Outs(busy(i)[1], n) = 1 /\ Outs(selective(i)[1], n) = 1
                /\ Outs(timestamper(i)[1], n) = 1 /\ Outs(collector(i)[1], n) = 1
                /\ Outs(split(i)[1], n) = n /\ Ins(split(i)[1], n) = 1
                /\ Ins(busy(i)[1], n) = 1 /\ Ins(selective(i)[1], n) = 1
                /\ Ins(timestamper(i)[1], n) = 1 /\ Ins(collector(i)[1], n) = 1 /\ Ins(sink(i)[1], n) = 1
      /\ Outs(src0[1], n) = 1
  BY Widths DEF src0
<1>13. \A i, j : split(i)[1] = "RoundRobinSplit" /\ (split(i) = split(j) => i = j)
  BY RolesDiffer
<1> HIDE DEF O, nodes, splits, leaves, split
<1>5. \A u, v \in O : Outs(u[1], n) = 1 /\ Ins(v[1], n) = 1 =>
         Conn(u, 0, v, 0) \in DOMAIN f /\ f[Conn(u, 0, v, 0)] = <<v, 0>>
  BY PlainLink
<1>6. \A i \in 0..(inner - 1), j \in 0..(n - 1) :
        /\ Child(i, j, n) \in 1..(nodes - 1)
        /\ Conn(split(i), j, selective(Child(i, j, n)), 0) \in DOMAIN f
        /\ f[Conn(split(i), j, selective(Child(i, j, n)), 0)] = <<selective(Child(i, j, n)), 0>>
  <2> TAKE i \in 0..(inner - 1), j \in 0..(n - 1)
  <2>0. nodes - 1 = n * splits /\ n * splits \in Nat
    BY <1>0
  <2>1. Child(i, j, n) \in 1..(nodes - 1)
    BY <1>0, <2>0, Children
  <2>2. j \in Nat /\ j < n /\ 0 \in Nat /\ 0 < 1 /\ Child(i, j, n) \in 0..(nodes - 1)
    BY <1>0, <2>1
  <2>3. split(i) \in O /\ selective(Child(i, j, n)) \in O
    BY <1>0, <1>2, <2>2
  <2>4. j < Outs(split(i)[1], n) /\ 0 < Ins(selective(Child(i, j, n))[1], n)
    BY <1>4, <2>2
  <2> QED BY <2>1, <2>2, <2>3, <2>4, Link
<1> HIDE DEF f
<1>7. Lists(s0, f, A)
  <2>1. 0 \in 0..(nodes - 1)
    BY <1>0
  <2>2. /\ Conn(src0, 0, timestamper(0), 0) \in DOMAIN f
        /\ f[Conn(src0, 0, timestamper(0), 0)] = <<timestamper(0), 0>>
        /\ Conn(timestamper(0), 0, selective(0), 0) \in DOMAIN f
        /\ f[Conn(timestamper(0), 0, selective(0), 0)] = <<selective(0), 0>>
    BY <1>2, <1>4, <1>5, <2>1
  <2> QED BY <1>3, <2>2, ListsTwo
<1>8. Lists(s1, f, B1)
  <2>1. \A i \in 0..(nodes - 1) : Lists(<<Conn(selective(i), 0, busy(i), 0)>>, f, {<<busy(i), 0>>})
    BY <1>2, <1>4, <1>5, ListsOne
  <2>2. EachLists(b1, f, J1, 0, nodes - 1)
    BY <2>1 DEF EachLists
  <2>3. Disjoint(J1, 0, nodes - 1)
    BY RolesDiffer DEF Disjoint
  <2>4. 0 <= nodes /\ nodes \in Nat /\ 0 \in Nat
    BY <1>0
  <2> HIDE DEF b1, J1
  <2> QED BY <2>2, <2>3, <2>4, ListsLoop
<1>9. Lists(s2, f, B2)
  <2>1. \A i \in 0..(splits - 1) : Lists(<<Conn(busy(i), 0, split(i), 0)>>, f, {<<split(i), 0>>})
    <3> TAKE i \in 0..(splits - 1)
    <3>1. i \in 0..(nodes - 1)
      BY <1>0
    <3> QED BY <1>2, <1>4, <1>5, <3>1, ListsOne
  <2>2. EachLists(b2, f, J2, 0, splits - 1)
    BY <2>1 DEF EachLists
  <2>3. Disjoint(J2, 0, splits - 1)
    BY <1>13 DEF Disjoint
  <2>4. 0 <= splits /\ splits \in Nat /\ 0 \in Nat
    BY <1>0
  <2> HIDE DEF b2, J2
  <2> QED BY <2>2, <2>3, <2>4, ListsLoop
<1>10. Lists(s4, f, B4)
  <2>0. \A i, k \in 0..(inner - 1), j, l \in 0..(n - 1) :
          Child(i, j, n) = Child(k, l, n) => i = k /\ j = l
    <3>1. inner \in Nat
      BY <1>0
    <3> HIDE DEF inner
    <3> QED BY <3>1, Children
  <2>1. \A i \in 0..(inner - 1) : Lists(c3(i), f, All(J3(i), 0, n - 1))
    <3> TAKE i \in 0..(inner - 1)
    <3>1. \A j \in 0..(n - 1) : Lists(<<Conn(split(i), j, selective(Child(i, j, n)), 0)>>,
                                      f, {<<selective(Child(i, j, n)), 0>>})
      BY <1>6, ListsOne
    <3> DEFINE b == b3(i)
               J == J3(i)
    <3>2. EachLists(b, f, J, 0, n - 1)
      BY <3>1 DEF EachLists
    <3>3. \A j, l \in 0..(n - 1) : Child(i, j, n) = Child(i, l, n) => j = l
      BY <2>0
    <3>4. Disjoint(J, 0, n - 1)
      BY <3>3, RolesDiffer DEF Disjoint
    <3>5. 0 <= n /\ n \in Nat /\ 0 \in Nat
      OBVIOUS
    <3> HIDE DEF b, J
    <3>6. Lists(FlattenSeq([k \in 1..(n - 0) |-> b[0 + k - 1]]), f, All(J, 0, n - 1))
      BY <3>2, <3>4, <3>5, ListsLoop
    <3> QED BY <3>6 DEF b, J
  <2>2. EachLists(b4, f, J4, 0, inner - 1)
    <3> HIDE DEF c3, J3
    <3> QED BY <2>1 DEF EachLists
  <2>3. Disjoint(J4, 0, inner - 1)
    <3>1. \A i, k \in 0..(inner - 1), j, l \in 0..(n - 1) : Child(i, j, n) = Child(k, l, n) => i = k
      BY <2>0
    <3>2. ASSUME NEW i \in 0..(inner - 1), NEW k \in 0..(inner - 1), i # k
          PROVE  All(J3(i), 0, n - 1) \cap All(J3(k), 0, n - 1) = {}
      <4>1. \A x : x \in All(J3(i), 0, n - 1) => \E j \in 0..(n - 1) : x[1] = selective(Child(i, j, n))
        BY DEF All
      <4>2. \A x : x \in All(J3(k), 0, n - 1) => \E l \in 0..(n - 1) : x[1] = selective(Child(k, l, n))
        BY DEF All
      <4> HIDE DEF J3
      <4> QED BY <3>1, <3>2, <4>1, <4>2, RolesDiffer
    <3> HIDE DEF J3
    <3> QED BY <3>2 DEF Disjoint
  <2>4. 0 <= inner /\ inner \in Nat /\ 0 \in Nat
    BY <1>0
  <2> HIDE DEF b4, J4
  <2> QED BY <2>2, <2>3, <2>4, ListsLoop
<1>11. Lists(s5, f, B5)
  <2>1. \A i \in 0..(leaves - 1) :
          Lists(<<Conn(busy(i + inner), 0, collector(i), 0), Conn(collector(i), 0, sink(i), 0)>>,
                f, {<<collector(i), 0>>, <<sink(i), 0>>})
    <3> TAKE i \in 0..(leaves - 1)
    <3>1. i + inner \in 0..(nodes - 1)
      BY <1>0
    <3>2. /\ Conn(busy(i + inner), 0, collector(i), 0) \in DOMAIN f
          /\ f[Conn(busy(i + inner), 0, collector(i), 0)] = <<collector(i), 0>>
          /\ Conn(collector(i), 0, sink(i), 0) \in DOMAIN f
          /\ f[Conn(collector(i), 0, sink(i), 0)] = <<sink(i), 0>>
      BY <1>2, <1>4, <1>5, <3>1
    <3>3. <<collector(i), 0>> # <<sink(i), 0>>
      BY <1>3
    <3> QED BY <3>2, <3>3, ListsTwo
  <2>2. EachLists(b5, f, J5, 0, leaves - 1)
    BY <2>1 DEF EachLists
  <2>3. Disjoint(J5, 0, leaves - 1)
    BY RolesDiffer DEF Disjoint
  <2>4. 0 <= leaves /\ leaves \in Nat /\ 0 \in Nat
    BY <1>0
  <2> HIDE DEF b5, J5
  <2> QED BY <2>2, <2>3, <2>4, ListsLoop
<1>12. /\ A \cap B1 = {} /\ (A \cup B1) \cap B2 = {} /\ ((A \cup B1) \cup B2) \cap B4 = {}
       /\ (((A \cup B1) \cup B2) \cup B4) \cap B5 = {}
  <2>1. \A x \in A : x[1] = timestamper(0) \/ x[1] = selective(0)
    OBVIOUS
  <2>2. \A x \in B1 : \E i : x[1] = busy(i)
    BY DEF All
  <2>3. \A x \in B2 : \E i : x[1] = split(i)
    BY DEF All
  <2>4. \A x \in B4 : \E i \in 0..(inner - 1), j \in 0..(n - 1) :
          x[1] = selective(Child(i, j, n)) /\ Child(i, j, n) # 0
    BY <1>6 DEF All
  <2>5. \A x \in B5 : \E i : x[1] = collector(i) \/ x[1] = sink(i)
    BY DEF All
  <2> HIDE DEF A, B1, B2, B4, B5
  <2>6. A \cap B1 = {}
    BY <2>1, <2>2, RolesDiffer
  <2>7. (A \cup B1) \cap B2 = {}
    BY <1>13, <2>1, <2>2, <2>3, RolesDiffer
  <2>8. ((A \cup B1) \cup B2) \cap B4 = {}
    BY <1>13, <2>1, <2>2, <2>3, <2>4, RolesDiffer
  <2>9. (((A \cup B1) \cup B2) \cup B4) \cap B5 = {}
    BY <1>13, <2>1, <2>2, <2>3, <2>4, <2>5, RolesDiffer
  <2> QED BY <2>6, <2>7, <2>8, <2>9
<1> DEFINE K1 == [i \in 0..(nodes - 1) |-> {Conn(selective(i), 0, busy(i), 0)}]
           K2 == [i \in 0..(splits - 1) |-> {Conn(busy(i), 0, split(i), 0)}]
           K3(i) == [j \in 0..(n - 1) |-> {Conn(split(i), j, selective(Child(i, j, n)), 0)}]
           K4 == [i \in 0..(inner - 1) |-> All(K3(i), 0, n - 1)]
           K5 == [i \in 0..(leaves - 1) |-> {Conn(busy(i + inner), 0, collector(i), 0),
                                              Conn(collector(i), 0, sink(i), 0)}]
           A0 == {Conn(src0, 0, timestamper(0), 0), Conn(timestamper(0), 0, selective(0), 0)}
<1>19. Gathers(s0, A0, 2)
  BY GatherFew
<1>20. Gathers(s1, All(K1, 0, nodes - 1), (nodes - 0) * 1)
  <2>1. \A i \in 0..(nodes - 1) :
          b1[i] = <<Conn(selective(i), 0, busy(i), 0)>> /\ K1[i] = {Conn(selective(i), 0, busy(i), 0)}
    OBVIOUS
  <2>2. 0 <= nodes /\ nodes \in Nat /\ 0 \in Nat /\ 1 \in Nat
    BY <1>0
  <2> HIDE DEF b1, K1
  <2>3. \A i : Gathers(<<Conn(selective(i), 0, busy(i), 0)>>, {Conn(selective(i), 0, busy(i), 0)}, 1)
    BY GatherFew, Zenon
  <2>4. \A i \in 0..(nodes - 1) : Gathers(b1[i], K1[i], 1)
    BY <2>1, <2>3
  <2> QED BY <2>2, <2>4, GatherLoop
<1>21. Gathers(s2, All(K2, 0, splits - 1), (splits - 0) * 1)
  <2>1. \A i \in 0..(splits - 1) :
          b2[i] = <<Conn(busy(i), 0, split(i), 0)>> /\ K2[i] = {Conn(busy(i), 0, split(i), 0)}
    OBVIOUS
  <2>2. 0 <= splits /\ splits \in Nat /\ 0 \in Nat /\ 1 \in Nat
    BY <1>0
  <2> HIDE DEF b2, K2
  <2>3. \A i : Gathers(<<Conn(busy(i), 0, split(i), 0)>>, {Conn(busy(i), 0, split(i), 0)}, 1)
    BY GatherFew, Zenon
  <2>4. \A i \in 0..(splits - 1) : Gathers(b2[i], K2[i], 1)
    BY <2>1, <2>3
  <2> QED BY <2>2, <2>4, GatherLoop
<1>22. \A i : Gathers(c3(i), All(K3(i), 0, n - 1), (n - 0) * 1)
  <2> TAKE i
  <2> DEFINE b == b3(i)
             K == K3(i)
  <2>1. \A j \in 0..(n - 1) : /\ b[j] = <<Conn(split(i), j, selective(Child(i, j, n)), 0)>>
                             /\ K[j] = {Conn(split(i), j, selective(Child(i, j, n)), 0)}
    OBVIOUS
  <2>2. 0 <= n /\ n \in Nat /\ 0 \in Nat /\ 1 \in Nat
    OBVIOUS
  <2> HIDE DEF b, K
  <2>3. \A j : Gathers(<<Conn(split(i), j, selective(Child(i, j, n)), 0)>>,
                       {Conn(split(i), j, selective(Child(i, j, n)), 0)}, 1)
    BY GatherFew, Zenon
  <2>4. \A j \in 0..(n - 1) : Gathers(b[j], K[j], 1)
    BY <2>1, <2>3
  <2>5. Gathers(FlattenSeq([k \in 1..(n - 0) |-> b[0 + k - 1]]), All(K, 0, n - 1), (n - 0) * 1)
    BY <2>2, <2>4, GatherLoop
  <2> QED BY <2>5 DEF b, K
<1>23. Gathers(s4, All(K4, 0, inner - 1), (inner - 0) * ((n - 0) * 1))
  <2> DEFINE l == (n - 0) * 1
  <2>1. \A i \in 0..(inner - 1) : b4[i] = c3(i) /\ K4[i] = All(K3(i), 0, n - 1)
    <3> HIDE DEF c3, K3
    <3> QED OBVIOUS
  <2>2. 0 <= inner /\ inner \in Nat /\ 0 \in Nat /\ l \in Nat
    BY <1>0
  <2>3. \A i : Gathers(c3(i), All(K3(i), 0, n - 1), l)
    BY <1>22
  <2> HIDE DEF b4, K4, c3, K3, l
  <2>4. \A i \in 0..(inner - 1) : Gathers(b4[i], K4[i], l)
    BY <2>1, <2>3
  <2>5. Gathers(s4, All(K4, 0, inner - 1), (inner - 0) * l)
    BY <2>2, <2>4, GatherLoop
  <2> QED BY <2>5 DEF l
<1>24. Gathers(s5, All(K5, 0, leaves - 1), (leaves - 0) * 2)
  <2>1. \A i \in 0..(leaves - 1) :
          /\ b5[i] = <<Conn(busy(i + inner), 0, collector(i), 0), Conn(collector(i), 0, sink(i), 0)>>
          /\ K5[i] = {Conn(busy(i + inner), 0, collector(i), 0), Conn(collector(i), 0, sink(i), 0)}
    OBVIOUS
  <2>2. 0 <= leaves /\ leaves \in Nat /\ 0 \in Nat /\ 2 \in Nat
    BY <1>0
  <2> HIDE DEF b5, K5
  <2>3. \A i : Gathers(<<Conn(busy(i + inner), 0, collector(i), 0), Conn(collector(i), 0, sink(i), 0)>>,
                       {Conn(busy(i + inner), 0, collector(i), 0), Conn(collector(i), 0, sink(i), 0)}, 2)
    BY GatherFew, Zenon
  <2>4. \A i \in 0..(leaves - 1) : Gathers(b5[i], K5[i], 2)
    BY <2>1, <2>3
  <2> QED BY <2>2, <2>4, GatherLoop
<1>25. (((A0 \cup All(K1, 0, nodes - 1)) \cup All(K2, 0, splits - 1)) \cup All(K4, 0, inner - 1))
         \cup All(K5, 0, leaves - 1) = TreeConns(depth, n)
  <2>1. All(K1, 0, nodes - 1) = {Conn(selective(i), 0, busy(i), 0) : i \in 0..(nodes - 1)}
    BY DEF All
  <2>2. All(K2, 0, splits - 1) = {Conn(busy(i), 0, split(i), 0) : i \in 0..(splits - 1)}
    BY DEF All
  <2>3. \A i : All(K3(i), 0, n - 1) = {Conn(split(i), j, selective(Child(i, j, n)), 0) : j \in 0..(n - 1)}
    BY DEF All
  <2> HIDE DEF K3
  <2>4. All(K4, 0, inner - 1) =
          UNION {{Conn(split(i), j, selective(Child(i, j, n)), 0) : j \in 0..(n - 1)} : i \in 0..(splits - 1)}
    <3>1. All(K4, 0, inner - 1) = UNION {All(K3(i), 0, n - 1) : i \in 0..(splits - 1)}
      BY <1>0 DEF All
    <3> QED BY <2>3, <3>1
  <2>5. All(K5, 0, leaves - 1) =
          UNION {{Conn(busy(i + splits), 0, collector(i), 0), Conn(collector(i), 0, sink(i), 0)} :
                  i \in 0..(leaves - 1)}
    BY <1>0 DEF All
  <2> HIDE DEF K1, K2, K4, K5
  <2> QED BY <2>1, <2>2, <2>4, <2>5 DEF TreeConns, nodes, splits, leaves, split
<1> HIDE DEF A, B1, B2, B4, B5, s0, s1, s2, s4, s5, A0, K1, K2, K3, K4, K5
<1>26. ToSet(Tree(depth, n).conns) = TreeConns(depth, n)
  <2> DEFINE l1 == 2 + (nodes - 0) * 1
             l2 == l1 + (splits - 0) * 1
             l3 == l2 + (inner - 0) * ((n - 0) * 1)
             l4 == l3 + (leaves - 0) * 2
             M1 == A0 \cup All(K1, 0, nodes - 1)
             M2 == M1 \cup All(K2, 0, splits - 1)
             M3 == M2 \cup All(K4, 0, inner - 1)
             M4 == M3 \cup All(K5, 0, leaves - 1)
  <2>1. Gathers(s0 \o s1, M1, l1)
    BY <1>19, <1>20, GatherConcat
  <2>5. M4 = TreeConns(depth, n)
    BY <1>25
  <2> HIDE DEF M1, l1
  <2>2. Gathers((s0 \o s1) \o s2, M2, l2)
    BY <1>21, <2>1, GatherConcat
  <2> HIDE DEF M2, l2
  <2>3. Gathers(((s0 \o s1) \o s2) \o s4, M3, l3)
    BY <1>23, <2>2, GatherConcat
  <2> HIDE DEF M3, l3
  <2>4. Gathers((((s0 \o s1) \o s2) \o s4) \o s5, M4, l4)
    BY <1>24, <2>3, GatherConcat
  <2> HIDE DEF M4, l4
  <2> QED BY <1>1, <2>4, <2>5 DEF Gathers
<1>14. Lists(s0 \o s1, f, A \cup B1)
  BY <1>7, <1>8, <1>12, ListsConcat
<1>15. Lists((s0 \o s1) \o s2, f, (A \cup B1) \cup B2)
  BY <1>9, <1>12, <1>14, ListsConcat
<1>16. Lists(((s0 \o s1) \o s2) \o s4, f, ((A \cup B1) \cup B2) \cup B4)
  BY <1>10, <1>12, <1>15, ListsConcat
<1>17. Lists((((s0 \o s1) \o s2) \o s4) \o s5, f, (((A \cup B1) \cup B2) \cup B4) \cup B5)
  BY <1>11, <1>12, <1>16, ListsConcat
<1> QED BY <1>1, <1>17, <1>26 DEF O, f

-----------------------------------------------------------------------------
(***************************************************************************)
(* ReverseTree.                                                           *)
(***************************************************************************)

ReverseOps(depth, n) ==
  All([i \in 0..(Power(n, depth - 1) - 1) |-> {Node("TupleGenerator", i), timestamper(i)}],
      0, Power(n, depth - 1) - 1)
  \cup All([i \in 0..(Nodes(depth, n) - 1) |-> {selective(i), busy(i)}], 0, Nodes(depth, n) - 1)
  \cup All([i \in Power(n, depth - 1)..(Nodes(depth, n) - 1) |-> {Node("Union", i - Power(n, depth - 1))}],
           Power(n, depth - 1), Nodes(depth, n) - 1)
  \cup {collector(0), sink(0)}

\* No operator of a reversed tree is created twice.
LEMMA ReverseNames ==
  ASSUME NEW depth \in Nat \ {0}, NEW n \in Nat, n > 1
  PROVE  /\ Lists(ReverseTree(depth, n).ops, Naming, ReverseOps(depth, n))
         /\ Len(ReverseTree(depth, n).ops) = 3 * Nodes(depth, n) + Power(n, depth - 1) + 2
<1> DEFINE nodes == Nodes(depth, n)
           sources == Power(n, depth - 1)
           src(i) == Node("TupleGenerator", i)
           union(i) == Node("Union", i)
           b1 == [i \in 0..(sources - 1) |-> <<src(i), timestamper(i)>>]
           b2 == [i \in 0..(nodes - 1) |-> <<selective(i), busy(i)>>]
           b3 == [i \in sources..(nodes - 1) |-> <<union(i - sources)>>]
           J1 == [i \in 0..(sources - 1) |-> {src(i), timestamper(i)}]
           J2 == [i \in 0..(nodes - 1) |-> {selective(i), busy(i)}]
           J3 == [i \in sources..(nodes - 1) |-> {union(i - sources)}]
           B1 == All(J1, 0, sources - 1)
           B2 == All(J2, 0, nodes - 1)
           B3 == All(J3, sources, nodes - 1)
           C == {collector(0), sink(0)}
           s1 == FlattenSeq([k \in 1..(sources - 0) |-> b1[0 + k - 1]])
           s2 == FlattenSeq([k \in 1..(nodes - 0) |-> b2[0 + k - 1]])
           s3 == FlattenSeq([k \in 1..(nodes - sources) |-> b3[sources + k - 1]])
           s4 == <<collector(0), sink(0)>>
<1>0. nodes \in Nat \ {0} /\ sources \in Nat \ {0} /\ sources <= nodes
  <2> DEFINE less == Nodes(depth - 1, n)
  <2>1. nodes \in Nat \ {0} /\ sources \in Nat \ {0} /\ less \in Nat /\ sources = nodes - less
    BY SizesOfTree, Zenon
  <2> HIDE DEF nodes, sources, less
  <2> QED BY <2>1
<1>1. ReverseTree(depth, n).ops = s1 \o s2 \o s3 \o s4
  <2>1. \A k \in 1..(sources - 0) : b1[0 + k - 1] = <<src(0 + k - 1), timestamper(0 + k - 1)>>
    BY <1>0
  <2>2. s1 = Loop(0, sources, LAMBDA i : <<src(i), timestamper(i)>>)
    BY <2>1 DEF Loop
  <2>3. \A k \in 1..(nodes - 0) : b2[0 + k - 1] = <<selective(0 + k - 1), busy(0 + k - 1)>>
    BY <1>0
  <2>4. s2 = Loop(0, nodes, LAMBDA i : <<selective(i), busy(i)>>)
    BY <2>3 DEF Loop
  <2>5. \A k \in 1..(nodes - sources) : b3[sources + k - 1] = <<union((sources + k - 1) - sources)>>
    BY <1>0
  <2>6. s3 = Loop(sources, nodes, LAMBDA i : <<union(i - sources)>>)
    BY <2>5 DEF Loop
  <2> HIDE DEF s1, s2, s3
  <2> QED BY <2>2, <2>4, <2>6 DEF ReverseTree
<1>2. /\ \A i \in Nat : \A o \in {src(i), timestamper(i), selective(i), busy(i), union(i), collector(i), sink(i)} :
           o \in DOMAIN Naming /\ Naming[o] = o
      /\ \A i, j : /\ src(i)[1] = "TupleGenerator" /\ (src(i) = src(j) => i = j)
                   /\ union(i)[1] = "Union" /\ (union(i) = union(j) => i = j)
  BY Names, RolesDiffer
<1>3. ReverseOps(depth, n) = ((B1 \cup B2) \cup B3) \cup C
  BY DEF ReverseOps
<1> HIDE DEF nodes, sources, src, union
<1>4. Lists(s1, Naming, B1)
  <2>1. \A i \in 0..(sources - 1) : Lists(<<src(i), timestamper(i)>>, Naming, {src(i), timestamper(i)})
    <3> TAKE i \in 0..(sources - 1)
    <3>1. i \in Nat /\ src(i) # timestamper(i)
      BY <1>0, <1>2, RolesDiffer
    <3> QED BY <1>2, <3>1, ListsTwo
  <2>2. EachLists(b1, Naming, J1, 0, sources - 1)
    BY <2>1 DEF EachLists
  <2>3. Disjoint(J1, 0, sources - 1)
    BY <1>2, RolesDiffer DEF Disjoint
  <2>4. 0 <= sources /\ sources \in Nat /\ 0 \in Nat
    BY <1>0
  <2> HIDE DEF b1, J1
  <2> QED BY <2>2, <2>3, <2>4, ListsLoop
<1>5. Lists(s2, Naming, B2)
  <2>1. \A i \in 0..(nodes - 1) : Lists(<<selective(i), busy(i)>>, Naming, {selective(i), busy(i)})
    BY <1>0, <1>2, RolesDiffer, ListsTwo
  <2>2. EachLists(b2, Naming, J2, 0, nodes - 1)
    BY <2>1 DEF EachLists
  <2>3. Disjoint(J2, 0, nodes - 1)
    BY RolesDiffer DEF Disjoint
  <2>4. 0 <= nodes /\ nodes \in Nat /\ 0 \in Nat
    BY <1>0
  <2> HIDE DEF b2, J2
  <2> QED BY <2>2, <2>3, <2>4, ListsLoop
<1>6. Lists(s3, Naming, B3)
  <2>1. \A i \in sources..(nodes - 1) : Lists(<<union(i - sources)>>, Naming, {union(i - sources)})
    <3> TAKE i \in sources..(nodes - 1)
    <3>1. i - sources \in Nat
      BY <1>0
    <3> QED BY <1>2, <3>1, ListsOne
  <2>2. EachLists(b3, Naming, J3, sources, nodes - 1)
    BY <2>1 DEF EachLists
  <2>3. Disjoint(J3, sources, nodes - 1)
    <3>1. \A i, k \in sources..(nodes - 1) : i - sources = k - sources => i = k
      BY <1>0
    <3> QED BY <1>2, <3>1 DEF Disjoint
  <2>4. sources <= nodes /\ nodes \in Nat /\ sources \in Nat
    BY <1>0
  <2> HIDE DEF b3, J3
  <2> QED BY <2>2, <2>3, <2>4, ListsLoop
<1>7. Lists(s4, Naming, C)
  BY <1>2, RolesDiffer, ListsTwo
<1>12. Gathers(s1, All(J1, 0, sources - 1), (sources - 0) * 2)
  <2>1. \A i \in 0..(sources - 1) : /\ b1[i] = <<src(i), timestamper(i)>>
                               /\ J1[i] = {src(i), timestamper(i)}
    OBVIOUS
  <2>2. 0 <= sources /\ sources \in Nat /\ 0 \in Nat /\ 2 \in Nat
    BY <1>0
  <2> HIDE DEF b1, J1
  <2>3. \A i : Gathers(<<src(i), timestamper(i)>>,
                       {src(i), timestamper(i)}, 2)
    BY GatherFew, Zenon
  <2>4. \A i \in 0..(sources - 1) : Gathers(b1[i], J1[i], 2)
    BY <2>1, <2>3
  <2> QED BY <2>2, <2>4, GatherLoop
<1>13. Gathers(s2, All(J2, 0, nodes - 1), (nodes - 0) * 2)
  <2>1. \A i \in 0..(nodes - 1) : /\ b2[i] = <<selective(i), busy(i)>>
                               /\ J2[i] = {selective(i), busy(i)}
    OBVIOUS
  <2>2. 0 <= nodes /\ nodes \in Nat /\ 0 \in Nat /\ 2 \in Nat
    BY <1>0
  <2> HIDE DEF b2, J2
  <2>3. \A i : Gathers(<<selective(i), busy(i)>>,
                       {selective(i), busy(i)}, 2)
    BY GatherFew, Zenon
  <2>4. \A i \in 0..(nodes - 1) : Gathers(b2[i], J2[i], 2)
    BY <2>1, <2>3
  <2> QED BY <2>2, <2>4, GatherLoop
<1>14. Gathers(s3, All(J3, sources, nodes - 1), (nodes - sources) * 1)
  <2>1. \A i \in sources..(nodes - 1) : /\ b3[i] = <<union(i - sources)>>
                               /\ J3[i] = {union(i - sources)}
    OBVIOUS
  <2>2. sources <= nodes /\ nodes \in Nat /\ sources \in Nat /\ 1 \in Nat
    BY <1>0
  <2> HIDE DEF b3, J3
  <2>3. \A i : Gathers(<<union(i - sources)>>,
                       {union(i - sources)}, 1)
    BY GatherFew, Zenon
  <2>4. \A i \in sources..(nodes - 1) : Gathers(b3[i], J3[i], 1)
    BY <2>1, <2>3
  <2> QED BY <2>2, <2>4, GatherLoop
<1>15. Gathers(s4, C, 2)
  BY GatherFew
<1> HIDE DEF s1, s2, s3, s4
<1>8. B1 \cap B2 = {} /\ (B1 \cup B2) \cap B3 = {} /\ ((B1 \cup B2) \cup B3) \cap C = {}
  BY <1>2, RolesDiffer DEF All
<1> HIDE DEF B1, B2, B3, C, J1, J2, J3
<1>9. Lists(s1 \o s2, Naming, B1 \cup B2)
  BY <1>4, <1>5, <1>8, ListsConcat
<1>10. Lists((s1 \o s2) \o s3, Naming, (B1 \cup B2) \cup B3)
  BY <1>6, <1>8, <1>9, ListsConcat
<1>11. Lists(((s1 \o s2) \o s3) \o s4, Naming, ((B1 \cup B2) \cup B3) \cup C)
  BY <1>7, <1>8, <1>10, ListsConcat
<1>16. Len(ReverseTree(depth, n).ops) = 3 * nodes + sources + 2
  <2> DEFINE l1 == (sources - 0) * 2
             l2 == l1 + (nodes - 0) * 2
             l3 == l2 + (nodes - sources) * 1
             l4 == l3 + 2
  <2>1. Gathers(s1, B1, l1) /\ Gathers(s2, B2, (nodes - 0) * 2) /\ Gathers(s3, B3, (nodes - sources) * 1)
    BY <1>12, <1>13, <1>14 DEF B1, B2, B3
  <2>2. l4 = 3 * nodes + sources + 2
    BY <1>0
  <2> HIDE DEF l1
  <2>3. Gathers(s1 \o s2, B1 \cup B2, l2)
    BY <2>1, GatherConcat
  <2> HIDE DEF l2
  <2>4. Gathers((s1 \o s2) \o s3, (B1 \cup B2) \cup B3, l3)
    BY <2>1, <2>3, GatherConcat
  <2> HIDE DEF l3
  <2>5. Gathers(((s1 \o s2) \o s3) \o s4, ((B1 \cup B2) \cup B3) \cup C, l4)
    BY <1>15, <2>4, GatherConcat
  <2> HIDE DEF l4
  <2> QED BY <1>1, <2>2, <2>5 DEF Gathers
<1> QED BY <1>1, <1>3, <1>11, <1>16 DEF nodes, sources

\* Its connections.
ReverseConns(depth, n) ==
  LET nodes == Nodes(depth, n)  sources == Power(n, depth - 1)
      src(i) == Node("TupleGenerator", i)
      union(i) == Node("Union", i)
  IN (UNION {{Conn(src(i), 0, timestamper(i), 0), Conn(timestamper(i), 0, selective(i), 0),
              Conn(selective(i), 0, busy(i), 0)} : i \in 0..(sources - 1)})
     \cup (UNION {{Conn(union(i - sources), 0, selective(i), 0), Conn(selective(i), 0, busy(i), 0)} :
                    i \in sources..(nodes - 1)})
     \cup {Conn(busy(i), 0, union(i \div n), i % n) : i \in 0..((nodes - 1) - 1)}
     \cup {Conn(busy(nodes - 1), 0, collector(0), 0), Conn(collector(0), 0, sink(0), 0)}

\* They are between ports that exist, and no two lead to the same one.
LEMMA ReverseLinks ==
  ASSUME NEW depth \in Nat \ {0}, NEW n \in Nat, n > 1
  PROVE  /\ \E I : Lists(ReverseTree(depth, n).conns, Leading(ReverseOps(depth, n), n), I)
         /\ ToSet(ReverseTree(depth, n).conns) = ReverseConns(depth, n)
<1> DEFINE O == ReverseOps(depth, n)
           f == Leading(O, n)
           nodes == Nodes(depth, n)
           inner == Nodes(depth - 1, n)
           sources == Power(n, depth - 1)
           src(i) == Node("TupleGenerator", i)
           union(i) == Node("Union", i)
           b1 == [i \in 0..(sources - 1) |-> <<Conn(src(i), 0, timestamper(i), 0),
                                               Conn(timestamper(i), 0, selective(i), 0),
                                               Conn(selective(i), 0, busy(i), 0)>>]
           b2 == [i \in sources..(nodes - 1) |-> <<Conn(union(i - sources), 0, selective(i), 0),
                                                   Conn(selective(i), 0, busy(i), 0)>>]
           b3 == [i \in 0..((nodes - 1) - 1) |-> <<Conn(busy(i), 0, union(i \div n), i % n)>>]
           J1 == [i \in 0..(sources - 1) |-> {<<timestamper(i), 0>>, <<selective(i), 0>>, <<busy(i), 0>>}]
           J2 == [i \in sources..(nodes - 1) |-> {<<selective(i), 0>>, <<busy(i), 0>>}]
           J3 == [i \in 0..((nodes - 1) - 1) |-> {<<union(i \div n), i % n>>}]
           B1 == All(J1, 0, sources - 1)
           B2 == All(J2, sources, nodes - 1)
           B3 == All(J3, 0, (nodes - 1) - 1)
           C == {<<collector(0), 0>>, <<sink(0), 0>>}
           s1 == FlattenSeq([k \in 1..(sources - 0) |-> b1[0 + k - 1]])
           s2 == FlattenSeq([k \in 1..(nodes - sources) |-> b2[sources + k - 1]])
           s3 == FlattenSeq([k \in 1..((nodes - 1) - 0) |-> b3[0 + k - 1]])
           s4 == <<Conn(busy(nodes - 1), 0, collector(0), 0), Conn(collector(0), 0, sink(0), 0)>>
<1>0. nodes \in Nat \ {0} /\ sources \in Nat \ {0} /\ sources <= nodes
  <2> DEFINE less == Nodes(depth - 1, n)
  <2>1. nodes \in Nat \ {0} /\ sources \in Nat \ {0} /\ less \in Nat /\ sources = nodes - less
    BY SizesOfTree, Zenon
  <2> HIDE DEF nodes, sources, less
  <2> QED BY <2>1
<1>18. inner \in Nat /\ nodes - 1 = n * inner /\ nodes - sources = inner /\ n * inner \in Nat
  <2>1. inner \in Nat /\ nodes = n * inner + 1 /\ sources = nodes - inner
    BY SizesOfTree
  <2> HIDE DEF nodes, inner, sources
  <2> QED BY <2>1
<1>1. ReverseTree(depth, n).conns = s1 \o s2 \o s3 \o s4
  <2>1. \A k \in 1..(sources - 0) :
          b1[0 + k - 1] = <<Conn(src(0 + k - 1), 0, timestamper(0 + k - 1), 0),
                            Conn(timestamper(0 + k - 1), 0, selective(0 + k - 1), 0),
                            Conn(selective(0 + k - 1), 0, busy(0 + k - 1), 0)>>
    BY <1>0
  <2>2. s1 = Loop(0, sources, LAMBDA i : <<Conn(src(i), 0, timestamper(i), 0),
                                           Conn(timestamper(i), 0, selective(i), 0),
                                           Conn(selective(i), 0, busy(i), 0)>>)
    BY <2>1 DEF Loop
  <2>3. \A k \in 1..(nodes - sources) :
          b2[sources + k - 1] = <<Conn(union((sources + k - 1) - sources), 0, selective(sources + k - 1), 0),
                                  Conn(selective(sources + k - 1), 0, busy(sources + k - 1), 0)>>
    BY <1>0
  <2>4. s2 = Loop(sources, nodes, LAMBDA i : <<Conn(union(i - sources), 0, selective(i), 0),
                                               Conn(selective(i), 0, busy(i), 0)>>)
    BY <2>3 DEF Loop
  <2>5. \A k \in 1..((nodes - 1) - 0) :
          b3[0 + k - 1] = <<Conn(busy(0 + k - 1), 0, union((0 + k - 1) \div n), (0 + k - 1) % n)>>
    <3>1. \A k \in 1..((nodes - 1) - 0) : 0 + k - 1 \in 0..((nodes - 1) - 1)
      BY <1>0
    <3> QED BY <3>1
  <2>6. s3 = Loop(0, nodes - 1, LAMBDA i : <<Conn(busy(i), 0, union(i \div n), i % n)>>)
    BY <2>5 DEF Loop
  <2> HIDE DEF s1, s2, s3
  <2> QED BY <2>2, <2>4, <2>6 DEF ReverseTree
<1>2. /\ \A i \in 0..(sources - 1) : src(i) \in O /\ timestamper(i) \in O
      /\ \A i \in 0..(nodes - 1) : busy(i) \in O /\ selective(i) \in O
      /\ \A i \in sources..(nodes - 1) : union(i - sources) \in O
      /\ collector(0) \in O /\ sink(0) \in O
  BY DEF ReverseOps, All
<1>3. \A i : /\ timestamper(i) # selective(i) /\ timestamper(i) # busy(i) /\ selective(i) # busy(i)
             /\ collector(i) # sink(i)
  BY RolesDiffer
<1>4. \A i : /\ Outs(busy(i)[1], n) = 1 /\ Outs(selective(i)[1], n) = 1 /\ Outs(src(i)[1], n) = 1
             /\ Outs(timestamper(i)[1], n) = 1 /\ Outs(collector(i)[1], n) = 1 /\ Outs(union(i)[1], n) = 1
             /\ Ins(busy(i)[1], n) = 1 /\ Ins(selective(i)[1], n) = 1 /\ Ins(union(i)[1], n) = n
             /\ Ins(timestamper(i)[1], n) = 1 /\ Ins(collector(i)[1], n) = 1 /\ Ins(sink(i)[1], n) = 1
  BY Widths
<1>13. \A i, j : union(i)[1] = "Union" /\ (union(i) = union(j) => i = j)
  BY RolesDiffer
<1> HIDE DEF O, nodes, inner, sources, src, union
<1>5. \A u, v \in O : Outs(u[1], n) = 1 /\ Ins(v[1], n) = 1 =>
         Conn(u, 0, v, 0) \in DOMAIN f /\ f[Conn(u, 0, v, 0)] = <<v, 0>>
  BY PlainLink
<1>6. /\ \A i \in 0..((nodes - 1) - 1) : i \div n \in 0..(inner - 1) /\ i % n \in 0..(n - 1)
      /\ \A i, k \in 0..((nodes - 1) - 1) : i \div n = k \div n /\ i % n = k % n => i = k
  BY <1>18, Parents
<1>14. \A i \in 0..((nodes - 1) - 1) :
         /\ Conn(busy(i), 0, union(i \div n), i % n) \in DOMAIN f
         /\ f[Conn(busy(i), 0, union(i \div n), i % n)] = <<union(i \div n), i % n>>
  <2> TAKE i \in 0..((nodes - 1) - 1)
  <2> DEFINE q == i \div n
             r == i % n
  <2>1. q \in 0..(inner - 1) /\ r \in 0..(n - 1)
    BY <1>6
  <2> HIDE DEF q, r
  <2>2. q + sources \in sources..(nodes - 1) /\ (q + sources) - sources = q
    BY <1>0, <1>18, <2>1
  <2>3. union(q) \in O /\ busy(i) \in O
    BY <1>0, <1>2, <2>2
  <2>4. 0 < Outs(busy(i)[1], n) /\ r < Ins(union(q)[1], n) /\ 0 \in Nat /\ r \in Nat
    BY <1>4, <2>1
  <2>5. Conn(busy(i), 0, union(q), r) \in DOMAIN f /\ f[Conn(busy(i), 0, union(q), r)] = <<union(q), r>>
    BY <2>3, <2>4, Link
  <2> QED BY <2>5 DEF q, r
<1> HIDE DEF f
<1>7. Lists(s1, f, B1)
  <2>1. \A i \in 0..(sources - 1) :
          Lists(<<Conn(src(i), 0, timestamper(i), 0), Conn(timestamper(i), 0, selective(i), 0),
                  Conn(selective(i), 0, busy(i), 0)>>,
                f, {<<timestamper(i), 0>>, <<selective(i), 0>>, <<busy(i), 0>>})
    <3> TAKE i \in 0..(sources - 1)
    <3>1. i \in 0..(nodes - 1)
      BY <1>0
    <3>2. /\ Conn(src(i), 0, timestamper(i), 0) \in DOMAIN f
          /\ f[Conn(src(i), 0, timestamper(i), 0)] = <<timestamper(i), 0>>
          /\ Conn(timestamper(i), 0, selective(i), 0) \in DOMAIN f
          /\ f[Conn(timestamper(i), 0, selective(i), 0)] = <<selective(i), 0>>
          /\ Conn(selective(i), 0, busy(i), 0) \in DOMAIN f
          /\ f[Conn(selective(i), 0, busy(i), 0)] = <<busy(i), 0>>
      BY <1>2, <1>4, <1>5, <3>1
    <3>3. /\ <<timestamper(i), 0>> # <<selective(i), 0>> /\ <<timestamper(i), 0>> # <<busy(i), 0>>
          /\ <<selective(i), 0>> # <<busy(i), 0>>
      BY <1>3
    <3> QED BY <3>2, <3>3, ListsThree
  <2>2. EachLists(b1, f, J1, 0, sources - 1)
    BY <2>1 DEF EachLists
  <2>3. Disjoint(J1, 0, sources - 1)
    BY RolesDiffer DEF Disjoint
  <2>4. 0 <= sources /\ sources \in Nat /\ 0 \in Nat
    BY <1>0
  <2> HIDE DEF b1, J1
  <2> QED BY <2>2, <2>3, <2>4, ListsLoop
<1>8. Lists(s2, f, B2)
  <2>1. \A i \in sources..(nodes - 1) :
          Lists(<<Conn(union(i - sources), 0, selective(i), 0), Conn(selective(i), 0, busy(i), 0)>>,
                f, {<<selective(i), 0>>, <<busy(i), 0>>})
    <3> TAKE i \in sources..(nodes - 1)
    <3>1. i \in 0..(nodes - 1)
      BY <1>0
    <3>2. /\ Conn(union(i - sources), 0, selective(i), 0) \in DOMAIN f
          /\ f[Conn(union(i - sources), 0, selective(i), 0)] = <<selective(i), 0>>
          /\ Conn(selective(i), 0, busy(i), 0) \in DOMAIN f
          /\ f[Conn(selective(i), 0, busy(i), 0)] = <<busy(i), 0>>
      BY <1>2, <1>4, <1>5, <3>1
    <3>3. <<selective(i), 0>> # <<busy(i), 0>>
      BY <1>3
    <3> QED BY <3>2, <3>3, ListsTwo
  <2>2. EachLists(b2, f, J2, sources, nodes - 1)
    BY <2>1 DEF EachLists
  <2>3. Disjoint(J2, sources, nodes - 1)
    BY RolesDiffer DEF Disjoint
  <2>4. sources <= nodes /\ nodes \in Nat /\ sources \in Nat
    BY <1>0
  <2> HIDE DEF b2, J2
  <2> QED BY <2>2, <2>3, <2>4, ListsLoop
<1>9. Lists(s3, f, B3)
  <2>1. \A i \in 0..((nodes - 1) - 1) :
          Lists(<<Conn(busy(i), 0, union(i \div n), i % n)>>, f, {<<union(i \div n), i % n>>})
    BY <1>14, ListsOne
  <2>2. EachLists(b3, f, J3, 0, (nodes - 1) - 1)
    BY <2>1 DEF EachLists
  <2>3. Disjoint(J3, 0, (nodes - 1) - 1)
    BY <1>6, <1>13 DEF Disjoint
  <2>4. 0 <= nodes - 1 /\ nodes - 1 \in Nat /\ 0 \in Nat
    BY <1>0
  <2> HIDE DEF b3, J3
  <2> QED BY <2>2, <2>3, <2>4, ListsLoop
<1>10. Lists(s4, f, C)
  <2>1. nodes - 1 \in 0..(nodes - 1)
    BY <1>0
  <2>2. /\ Conn(busy(nodes - 1), 0, collector(0), 0) \in DOMAIN f
        /\ f[Conn(busy(nodes - 1), 0, collector(0), 0)] = <<collector(0), 0>>
        /\ Conn(collector(0), 0, sink(0), 0) \in DOMAIN f
        /\ f[Conn(collector(0), 0, sink(0), 0)] = <<sink(0), 0>>
    BY <1>2, <1>4, <1>5, <2>1
  <2> QED BY <1>3, <2>2, ListsTwo
<1>12. B1 \cap B2 = {} /\ (B1 \cup B2) \cap B3 = {} /\ ((B1 \cup B2) \cup B3) \cap C = {}
  <2>1. \A x \in B1 : \E i \in 0..(sources - 1) : x[1] \in {timestamper(i), selective(i), busy(i)}
    BY DEF All
  <2>2. \A x \in B2 : \E i \in sources..(nodes - 1) : x[1] \in {selective(i), busy(i)}
    BY DEF All
  <2>3. \A x \in B3 : \E i : x[1] = union(i)
    BY DEF All
  <2>4. \A x \in C : x[1] = collector(0) \/ x[1] = sink(0)
    OBVIOUS
  <2>5. \A i \in 0..(sources - 1), k \in sources..(nodes - 1) : i # k
    BY <1>0
  <2> HIDE DEF B1, B2, B3, C
  <2>6. B1 \cap B2 = {}
    <3> SUFFICES ASSUME NEW x \in B1, x \in B2 PROVE FALSE
      OBVIOUS
    <3>1. PICK i \in 0..(sources - 1) : x[1] \in {timestamper(i), selective(i), busy(i)}
      BY <2>1
    <3>2. PICK k \in sources..(nodes - 1) : x[1] \in {selective(k), busy(k)}
      BY <2>2
    <3>3. i # k
      BY <2>5
    <3> QED BY <3>1, <3>2, <3>3, RolesDiffer
  <2>7. (B1 \cup B2) \cap B3 = {}
    BY <1>13, <2>1, <2>2, <2>3, RolesDiffer
  <2>8. ((B1 \cup B2) \cup B3) \cap C = {}
    BY <1>13, <2>1, <2>2, <2>3, <2>4, RolesDiffer
  <2> QED BY <2>6, <2>7, <2>8
<1> DEFINE K1 == [i \in 0..(sources - 1) |-> {Conn(src(i), 0, timestamper(i), 0), Conn(timestamper(i), 0, selective(i), 0), Conn(selective(i), 0, busy(i), 0)}]
           K2 == [i \in sources..(nodes - 1) |-> {Conn(union(i - sources), 0, selective(i), 0), Conn(selective(i), 0, busy(i), 0)}]
           K3 == [i \in 0..((nodes - 1) - 1) |-> {Conn(busy(i), 0, union(i \div n), i % n)}]
           A4 == {Conn(busy(nodes - 1), 0, collector(0), 0), Conn(collector(0), 0, sink(0), 0)}
<1>19. Gathers(s1, All(K1, 0, sources - 1), (sources - 0) * 3)
  <2>1. \A i \in 0..(sources - 1) : /\ b1[i] = <<Conn(src(i), 0, timestamper(i), 0), Conn(timestamper(i), 0, selective(i), 0), Conn(selective(i), 0, busy(i), 0)>>
                               /\ K1[i] = {Conn(src(i), 0, timestamper(i), 0), Conn(timestamper(i), 0, selective(i), 0), Conn(selective(i), 0, busy(i), 0)}
    OBVIOUS
  <2>2. 0 <= sources /\ sources \in Nat /\ 0 \in Nat /\ 3 \in Nat
    BY <1>0
  <2> HIDE DEF b1, K1
  <2>3. \A i : Gathers(<<Conn(src(i), 0, timestamper(i), 0), Conn(timestamper(i), 0, selective(i), 0), Conn(selective(i), 0, busy(i), 0)>>,
                       {Conn(src(i), 0, timestamper(i), 0), Conn(timestamper(i), 0, selective(i), 0), Conn(selective(i), 0, busy(i), 0)}, 3)
    BY GatherFew, Zenon
  <2>4. \A i \in 0..(sources - 1) : Gathers(b1[i], K1[i], 3)
    BY <2>1, <2>3
  <2> QED BY <2>2, <2>4, GatherLoop
<1>20. Gathers(s2, All(K2, sources, nodes - 1), (nodes - sources) * 2)
  <2>1. \A i \in sources..(nodes - 1) : /\ b2[i] = <<Conn(union(i - sources), 0, selective(i), 0), Conn(selective(i), 0, busy(i), 0)>>
                               /\ K2[i] = {Conn(union(i - sources), 0, selective(i), 0), Conn(selective(i), 0, busy(i), 0)}
    OBVIOUS
  <2>2. sources <= nodes /\ nodes \in Nat /\ sources \in Nat /\ 2 \in Nat
    BY <1>0
  <2> HIDE DEF b2, K2
  <2>3. \A i : Gathers(<<Conn(union(i - sources), 0, selective(i), 0), Conn(selective(i), 0, busy(i), 0)>>,
                       {Conn(union(i - sources), 0, selective(i), 0), Conn(selective(i), 0, busy(i), 0)}, 2)
    BY GatherFew, Zenon
  <2>4. \A i \in sources..(nodes - 1) : Gathers(b2[i], K2[i], 2)
    BY <2>1, <2>3
  <2> QED BY <2>2, <2>4, GatherLoop
<1>21. Gathers(s3, All(K3, 0, (nodes - 1) - 1), ((nodes - 1) - 0) * 1)
  <2>1. \A i \in 0..((nodes - 1) - 1) : /\ b3[i] = <<Conn(busy(i), 0, union(i \div n), i % n)>>
                               /\ K3[i] = {Conn(busy(i), 0, union(i \div n), i % n)}
    OBVIOUS
  <2>2. 0 <= nodes - 1 /\ nodes - 1 \in Nat /\ 0 \in Nat /\ 1 \in Nat
    BY <1>0
  <2> HIDE DEF b3, K3
  <2>3. \A i : Gathers(<<Conn(busy(i), 0, union(i \div n), i % n)>>,
                       {Conn(busy(i), 0, union(i \div n), i % n)}, 1)
    BY GatherFew, Zenon
  <2>4. \A i \in 0..((nodes - 1) - 1) : Gathers(b3[i], K3[i], 1)
    BY <2>1, <2>3
  <2> QED BY <2>2, <2>4, GatherLoop
<1>22. Gathers(s4, A4, 2)
  BY GatherFew
<1>23. ((All(K1, 0, sources - 1) \cup All(K2, sources, nodes - 1)) \cup All(K3, 0, (nodes - 1) - 1)) \cup A4
         = ReverseConns(depth, n)
  <2>1. All(K1, 0, sources - 1) =
          UNION {{Conn(src(i), 0, timestamper(i), 0), Conn(timestamper(i), 0, selective(i), 0), Conn(selective(i), 0, busy(i), 0)} : i \in 0..(sources - 1)}
    BY DEF All
  <2>2. All(K2, sources, nodes - 1) =
          UNION {{Conn(union(i - sources), 0, selective(i), 0), Conn(selective(i), 0, busy(i), 0)} : i \in sources..(nodes - 1)}
    BY DEF All
  <2>3. All(K3, 0, (nodes - 1) - 1) = {Conn(busy(i), 0, union(i \div n), i % n) : i \in 0..((nodes - 1) - 1)}
    BY DEF All
  <2> HIDE DEF K1, K2, K3
  <2> QED BY <2>1, <2>2, <2>3 DEF ReverseConns, nodes, sources, src, union
<1> HIDE DEF B1, B2, B3, C, s1, s2, s3, s4, K1, K2, K3, A4
<1>24. ToSet(ReverseTree(depth, n).conns) = ReverseConns(depth, n)
  <2> DEFINE l1 == (sources - 0) * 3
             l2 == l1 + (nodes - sources) * 2
             l3 == l2 + ((nodes - 1) - 0) * 1
             M1 == All(K1, 0, sources - 1)
             M2 == M1 \cup All(K2, sources, nodes - 1)
             M3 == M2 \cup All(K3, 0, (nodes - 1) - 1)
             M4 == M3 \cup A4
  <2>5. M4 = ReverseConns(depth, n)
    BY <1>23
  <2>1. Gathers(s1, M1, l1)
    BY <1>19
  <2> HIDE DEF M1, l1
  <2>2. Gathers(s1 \o s2, M2, l2)
    BY <1>20, <2>1, GatherConcat
  <2> HIDE DEF M2, l2
  <2>3. Gathers((s1 \o s2) \o s3, M3, l3)
    BY <1>21, <2>2, GatherConcat
  <2> HIDE DEF M3, l3
  <2>4. Gathers(((s1 \o s2) \o s3) \o s4, M4, l3 + 2)
    BY <1>22, <2>3, GatherConcat
  <2> HIDE DEF M4
  <2> QED BY <1>1, <2>4, <2>5 DEF Gathers
<1>15. Lists(s1 \o s2, f, B1 \cup B2)
  BY <1>7, <1>8, <1>12, ListsConcat
<1>16. Lists((s1 \o s2) \o s3, f, (B1 \cup B2) \cup B3)
  BY <1>9, <1>12, <1>15, ListsConcat
<1>17. Lists(((s1 \o s2) \o s3) \o s4, f, ((B1 \cup B2) \cup B3) \cup C)
  BY <1>10, <1>12, <1>16, ListsConcat
<1> QED BY <1>1, <1>17, <1>24 DEF O, f

-----------------------------------------------------------------------------
(***************************************************************************)
(* All of them.                                                           *)
(***************************************************************************)

\* Every flow that the constructors and the operator tests build.
AllFlows ==
  {FilterSink, UnionSink, BarrierSink}
  \cup {Chain(depth) : depth \in Nat \ {0}}
  \cup {DataParallel(n) : n \in Nat \ {0}}
  \cup {Tree(depth, n) : depth \in Nat \ {0}, n \in Nat \ {0, 1}}
  \cup {ReverseTree(depth, n) : depth \in Nat \ {0}, n \in Nat \ {0, 1}}

\* The statements of each of them are right, whatever its depth and width: no
\* operator is created twice, a connection is between ports of operators that have
\* been created and is not repeated, and but for the two tests with four files no
\* input port gets a second publisher.
THEOREM EveryFlowSound ==
  \A d \in AllFlows : Sound(d) /\ (d \notin {UnionSink, BarrierSink} => WithoutFanIn(d))
<1>1. ASSUME NEW depth \in Nat \ {0}
      PROVE  Sound(Chain(depth)) /\ WithoutFanIn(Chain(depth))
  <2>1. Chain(depth).n = 1
    BY DEF Chain
  <2>2. /\ Lists(Chain(depth).ops, Naming, ChainOps(depth))
        /\ \E I : Lists(Chain(depth).conns, Leading(ChainOps(depth), 1), I)
    BY ChainNames, ChainLinks
  <2> QED BY <2>1, <2>2, Soundness
<1>2. ASSUME NEW n \in Nat \ {0}
      PROVE  Sound(DataParallel(n)) /\ WithoutFanIn(DataParallel(n))
  <2>1. DataParallel(n).n = n
    BY DEF DataParallel
  <2>2. /\ Lists(DataParallel(n).ops, Naming, ParallelOps(n))
        /\ \E I : Lists(DataParallel(n).conns, Leading(ParallelOps(n), n), I)
    BY ParallelNames, ParallelLinks
  <2> QED BY <2>1, <2>2, Soundness
<1>3. ASSUME NEW depth \in Nat \ {0}, NEW n \in Nat \ {0, 1}
      PROVE  Sound(Tree(depth, n)) /\ WithoutFanIn(Tree(depth, n))
  <2>1. Tree(depth, n).n = n
    BY DEF Tree
  <2>2. n \in Nat /\ n > 1
    OBVIOUS
  <2>3. /\ Lists(Tree(depth, n).ops, Naming, TreeOps(depth, n))
        /\ \E I : Lists(Tree(depth, n).conns, Leading(TreeOps(depth, n), n), I)
    BY <2>2, TreeNames, TreeLinks
  <2> QED BY <2>1, <2>2, <2>3, Soundness
<1>4. ASSUME NEW depth \in Nat \ {0}, NEW n \in Nat \ {0, 1}
      PROVE  Sound(ReverseTree(depth, n)) /\ WithoutFanIn(ReverseTree(depth, n))
  <2>1. ReverseTree(depth, n).n = n
    BY DEF ReverseTree
  <2>2. n \in Nat /\ n > 1
    OBVIOUS
  <2>3. /\ Lists(ReverseTree(depth, n).ops, Naming, ReverseOps(depth, n))
        /\ \E I : Lists(ReverseTree(depth, n).conns, Leading(ReverseOps(depth, n), n), I)
    BY <2>2, ReverseNames, ReverseLinks
  <2> QED BY <2>1, <2>2, <2>3, Soundness
<1>5. Sound(UnionSink) /\ Sound(BarrierSink)
  BY FourFilesSound DEF UnionSink, BarrierSink
<1> QED BY <1>1, <1>2, <1>3, <1>4, <1>5, FilterSinkSound DEF AllFlows

-----------------------------------------------------------------------------
(***************************************************************************)
(* The construction.                                                      *)
(***************************************************************************)

DesignsAreSound == \A d \in Designs : Sound(d)

\* An empty flow.
LEMMA InitBuild == ASSUME DesignsAreSound, Init PROVE BuildInv
<1>1. opList = <<>> /\ outConns = <<>> /\ inConns = <<>> /\ nextConn = 0 /\ design \in Designs
  BY DEF Init
<1>2. design.conns \in Seq(Possible(design)) /\ design.ops \in Seq(ToSet(design.ops))
  BY <1>1 DEF DesignsAreSound, Sound
<1>3. Len(design.conns) \in Nat /\ Len(design.ops) \in Nat
  BY <1>2
<1>4. ToSet(opList) = {}
  BY <1>1 DEF ToSet
<1>5. DOMAIN outConns = {} /\ DOMAIN inConns = {} /\ Len(opList) = 0
  BY <1>1
<1>6. outConns \in [{} -> Seq({})] /\ inConns \in [{} -> Seq({})]
  BY <1>1, <1>5
<1>7. opList \in Seq(ToSet(design.ops))
  BY <1>1
<1> QED
  BY <1>1, <1>3, <1>4, <1>5, <1>6, <1>7 DEF BuildInv

\* Different operators have different ports.
LEMMA PortsApart ==
  ASSUME NEW o, NEW u, o # u
  PROVE  OutPortsOf(o) \cap OutPortsOf(u) = {} /\ InPortsOf(o) \cap InPortsOf(u) = {}
BY DEF OutPortsOf, InPortsOf

\* createOperator: the new operator and its ports, which nothing is connected to.
LEMMA AddOperatorBuild ==
  ASSUME DesignsAreSound, BuildInv, AddOperator
  PROVE  BuildInv'
<1> DEFINE o == design.ops[Len(opList) + 1]
<1>1. /\ Len(opList) < Len(design.ops) /\ ~Contains(opList, o) /\ opList' = Append(opList, o)
      /\ outConns' = WithPorts(outConns, OutPortsOf(o)) /\ inConns' = WithPorts(inConns, InPortsOf(o))
      /\ design' = design /\ nextConn' = nextConn
  BY DEF AddOperator
<1>2. /\ design \in Designs
      /\ opList \in Seq(ToSet(design.ops))
      /\ \A i \in 1..Len(opList) : opList[i] = design.ops[i]
      /\ DOMAIN outConns = UNION {OutPortsOf(u) : u \in ToSet(opList)}
      /\ DOMAIN inConns = UNION {InPortsOf(u) : u \in ToSet(opList)}
      /\ outConns \in [DOMAIN outConns -> Seq(DOMAIN inConns)]
      /\ inConns \in [DOMAIN inConns -> Seq(DOMAIN outConns)]
      /\ nextConn \in 0..Len(design.conns)
  BY DEF BuildInv
<1>3. design.ops \in Seq(ToSet(design.ops)) /\ Len(opList) \in Nat
  BY <1>2 DEF DesignsAreSound, Sound
<1>4. nextConn = 0
  BY <1>1, <1>3 DEF BuildInv
<1>5. o \in ToSet(design.ops) /\ o \notin ToSet(opList)
  <2>1. Len(opList) + 1 \in DOMAIN design.ops
    BY <1>1, <1>3
  <2>2. DOMAIN opList = 1..Len(opList)
    BY <1>2
  <2> QED BY <1>1, <2>1, <2>2 DEF ToSet, Contains
<1>6. /\ opList' \in Seq(ToSet(design.ops)) /\ Len(opList') <= Len(design.ops)
      /\ \A i \in 1..Len(opList') : opList'[i] = design.ops[i]
  <2> HIDE DEF o
  <2>1. opList' \in Seq(ToSet(design.ops)) /\ Len(opList') = Len(opList) + 1
    BY <1>1, <1>2, <1>5
  <2>2. Len(opList') <= Len(design.ops)
    BY <1>1, <1>3, <2>1
  <2>3. ASSUME NEW i \in 1..Len(opList') PROVE opList'[i] = design.ops[i]
    <3>1. CASE i = Len(opList) + 1
      <4>1. opList'[i] = o
        BY <1>1, <1>2, <1>3, <3>1
      <4> QED BY <3>1, <4>1 DEF o
    <3>2. CASE i # Len(opList) + 1
      <4>1. i \in 1..Len(opList)
        BY <1>3, <2>1, <3>2
      <4>2. opList'[i] = opList[i]
        BY <1>1, <1>2, <1>3, <4>1
      <4> QED BY <1>2, <4>1, <4>2
    <3> QED BY <3>1, <3>2
  <2> QED BY <2>1, <2>2, <2>3
<1>7. ToSet(opList') = ToSet(opList) \cup {o}
  <2> HIDE DEF o
  <2>1. Len(opList') = Len(opList) + 1 /\ opList'[Len(opList) + 1] = o
        /\ \A i \in 1..Len(opList) : opList'[i] = opList[i]
    BY <1>1, <1>2, <1>3
  <2>2. DOMAIN opList' = 1..(Len(opList) + 1) /\ DOMAIN opList = 1..Len(opList)
    BY <1>1, <1>2, <1>6, <2>1
  <2> QED BY <1>3, <2>1, <2>2 DEF ToSet
<1> HIDE DEF o
<1>8. \A u \in ToSet(opList) : OutPortsOf(u) \cap OutPortsOf(o) = {} /\ InPortsOf(u) \cap InPortsOf(o) = {}
  BY <1>5, PortsApart
<1>9. DOMAIN outConns \cap OutPortsOf(o) = {} /\ DOMAIN inConns \cap InPortsOf(o) = {}
  BY <1>2, <1>8
<1>10. /\ DOMAIN outConns' = DOMAIN outConns \cup OutPortsOf(o)
       /\ \A q \in DOMAIN outConns : outConns'[q] = outConns[q]
       /\ \A q \in OutPortsOf(o) : outConns'[q] = <<>>
       /\ DOMAIN inConns' = DOMAIN inConns \cup InPortsOf(o)
       /\ \A p \in DOMAIN inConns : inConns'[p] = inConns[p]
       /\ \A p \in InPortsOf(o) : inConns'[p] = <<>>
  BY <1>1, <1>9 DEF WithPorts
<1>11. outConns' = [q \in DOMAIN outConns' |-> outConns'[q]] /\ inConns' = [p \in DOMAIN inConns' |-> inConns'[p]]
  BY <1>1 DEF WithPorts
<1>12. \A u : OutPortsOf(u)' = OutPortsOf(u) /\ InPortsOf(u)' = InPortsOf(u)
  BY <1>1 DEF OutPortsOf, InPortsOf
<1>13. DOMAIN outConns' = UNION {OutPortsOf(u) : u \in ToSet(opList')}
  BY <1>2, <1>7, <1>10
<1>14. DOMAIN inConns' = UNION {InPortsOf(u) : u \in ToSet(opList')}
  BY <1>2, <1>7, <1>10
<1>15. outConns' \in [DOMAIN outConns' -> Seq(DOMAIN inConns')]
  <2>1. \A q \in DOMAIN outConns' : outConns'[q] \in Seq(DOMAIN inConns')
    <3>1. \A q \in DOMAIN outConns : outConns[q] \in Seq(DOMAIN inConns')
      <4>1. Seq(DOMAIN inConns) \subseteq Seq(DOMAIN inConns')
        BY <1>10
      <4> QED BY <1>2, <4>1
    <3>2. \A S : <<>> \in Seq(S)
      OBVIOUS
    <3> QED BY <1>10, <3>1, <3>2
  <2> QED BY <2>1, <1>11
<1>16. inConns' \in [DOMAIN inConns' -> Seq(DOMAIN outConns')]
  <2>1. \A q \in DOMAIN inConns' : inConns'[q] \in Seq(DOMAIN outConns')
    <3>1. \A q \in DOMAIN inConns : inConns[q] \in Seq(DOMAIN outConns')
      <4>1. Seq(DOMAIN outConns) \subseteq Seq(DOMAIN outConns')
        BY <1>10
      <4> QED BY <1>2, <4>1
    <3>2. \A S : <<>> \in Seq(S)
      OBVIOUS
    <3> QED BY <1>10, <3>1, <3>2
  <2> QED BY <2>1, <1>11
<1>17. ToSet(<<>>) = {} /\ IsInjective(<<>>)
  BY DEF ToSet, IsInjective
<1>18. \A q \in DOMAIN outConns' :
         /\ IsInjective(outConns'[q])
         /\ ToSet(outConns'[q]) =
              {Target(design.conns[i]) : i \in {j \in 1..nextConn : Start(design.conns[j]) = q}}
  <2>1. 1..nextConn = {}
    BY <1>4
  <2>2. \A q \in DOMAIN outConns : IsInjective(outConns[q]) /\ ToSet(outConns[q]) = {}
    BY <2>1 DEF BuildInv
  <2> QED BY <1>10, <1>17, <2>1, <2>2
<1>19. \A p \in DOMAIN inConns' :
         /\ IsInjective(inConns'[p])
         /\ ToSet(inConns'[p]) =
              {Start(design.conns[i]) : i \in {j \in 1..nextConn : Target(design.conns[j]) = p}}
  <2>1. 1..nextConn = {}
    BY <1>4
  <2>2. \A p \in DOMAIN inConns : IsInjective(inConns[p]) /\ ToSet(inConns[p]) = {}
    BY <2>1 DEF BuildInv
  <2> QED BY <1>10, <1>17, <2>1, <2>2
<1>20. /\ DOMAIN outConns' = UNION {OutPortsOf(u)' : u \in ToSet(opList')}
       /\ DOMAIN inConns' = UNION {InPortsOf(u)' : u \in ToSet(opList')}
  BY <1>12, <1>13, <1>14
<1>21. \A q \in DOMAIN outConns' :
         /\ IsInjective(outConns'[q])
         /\ ToSet(outConns'[q]) =
              {Target(design'.conns[i]) : i \in {j \in 1..nextConn' : Start(design'.conns[j]) = q}}
  BY <1>1, <1>18
<1>22. \A p \in DOMAIN inConns' :
         /\ IsInjective(inConns'[p])
         /\ ToSet(inConns'[p]) =
              {Start(design'.conns[i]) : i \in {j \in 1..nextConn' : Target(design'.conns[j]) = p}}
  BY <1>1, <1>19
<1>23. /\ design' \in Designs /\ nextConn' \in 0..Len(design'.conns) /\ (nextConn' # 0 => opList' = design'.ops)
       /\ opList' \in Seq(ToSet(design'.ops)) /\ Len(opList') <= Len(design'.ops)
       /\ \A i \in 1..Len(opList') : opList'[i] = design'.ops[i]
  BY <1>1, <1>2, <1>4, <1>6
<1> QED
  BY <1>15, <1>16, <1>20, <1>21, <1>22, <1>23 DEF BuildInv

\* Once all operators are there, the ports of every connection are.
LEMMA PortsThere ==
  ASSUME DesignsAreSound, BuildInv, opList = design.ops,
         NEW i \in 1..Len(design.conns)
  PROVE  /\ Start(design.conns[i]) \in DOMAIN outConns
         /\ Target(design.conns[i]) \in DOMAIN inConns
<1> DEFINE c == design.conns[i]
<1>1. /\ design \in Designs
      /\ DOMAIN outConns = UNION {OutPortsOf(u) : u \in ToSet(opList)}
      /\ DOMAIN inConns = UNION {InPortsOf(u) : u \in ToSet(opList)}
  BY DEF BuildInv
<1>2. c \in Possible(design) /\ design.n \in Nat
  BY <1>1 DEF DesignsAreSound, Sound
<1> HIDE DEF c
<1>3. /\ c.from \in ToSet(design.ops) /\ c.to \in ToSet(design.ops) /\ c.out \in Nat /\ c.in \in Nat
      /\ c.out < Outs(c.from[1], design.n) /\ c.in < Ins(c.to[1], design.n)
  BY <1>2 DEF Possible
<1>4. Outs(c.from[1], design.n) \in Nat /\ Ins(c.to[1], design.n) \in Nat
  BY <1>2 DEF Outs, Ins
<1>5. Start(c) \in OutPortsOf(c.from) /\ Target(c) \in InPortsOf(c.to)
  <2>1. c.out \in 0..(Outs(c.from[1], design.n) - 1) /\ c.in \in 0..(Ins(c.to[1], design.n) - 1)
    BY <1>3, <1>4
  <2> QED BY <2>1 DEF Start, Target, OutPortsOf, InPortsOf
<1> QED BY <1>1, <1>3, <1>5 DEF c

\* What Append does to the elements of a sequence.
LEMMA AppendSet ==
  ASSUME NEW S, NEW s \in Seq(S), NEW x \in S
  PROVE  /\ Append(s, x) \in Seq(S) /\ ToSet(Append(s, x)) = ToSet(s) \cup {x}
         /\ IsInjective(s) /\ x \notin ToSet(s) => IsInjective(Append(s, x))
<1> DEFINE t == Append(s, x)
<1>1. /\ t \in Seq(S) /\ Len(s) \in Nat /\ Len(t) = Len(s) + 1
      /\ t[Len(s) + 1] = x /\ \A i \in 1..Len(s) : t[i] = s[i]
  OBVIOUS
<1> HIDE DEF t
<1>2. DOMAIN t = 1..(Len(s) + 1) /\ DOMAIN s = 1..Len(s)
  BY <1>1
<1>3. ToSet(t) = ToSet(s) \cup {x}
  BY <1>1, <1>2 DEF ToSet
<1>4. ASSUME IsInjective(s), x \notin ToSet(s), NEW i \in DOMAIN t, NEW j \in DOMAIN t, t[i] = t[j]
      PROVE  i = j
  <2>1. \A k \in 1..Len(s) : s[k] # x
    BY <1>2, <1>4 DEF ToSet
  <2>2. i \in Nat /\ j \in Nat
    BY <1>1, <1>2
  <2>3. CASE i = Len(s) + 1
    BY <1>1, <1>2, <1>4, <2>1, <2>3
  <2>4. CASE j = Len(s) + 1
    BY <1>1, <1>2, <1>4, <2>1, <2>4
  <2>5. CASE i \in 1..Len(s) /\ j \in 1..Len(s)
    BY <1>1, <1>2, <1>4, <2>5 DEF IsInjective
  <2> QED BY <1>1, <1>2, <2>3, <2>4, <2>5
<1>5. IsInjective(s) /\ x \notin ToSet(s) => IsInjective(t)
  BY <1>4 DEF IsInjective
<1> QED BY <1>1, <1>3, <1>5 DEF t

\* addConnection: one more connection at both of its ports.
LEMMA AddConnectionBuild ==
  ASSUME DesignsAreSound, BuildInv, AddConnection
  PROVE  BuildInv'
<1> DEFINE n == nextConn + 1
           c == design.conns[n]
<1>1. /\ opList = design.ops /\ nextConn < Len(design.conns)
      /\ outConns' = [outConns EXCEPT ![Start(c)] = Append(@, Target(c))]
      /\ inConns' = [inConns EXCEPT ![Target(c)] = Append(@, Start(c))]
      /\ nextConn' = n /\ design' = design /\ opList' = opList
  BY DEF AddConnection, Start, Target
<1>2. /\ design \in Designs
      /\ DOMAIN outConns = UNION {OutPortsOf(u) : u \in ToSet(opList)}
      /\ DOMAIN inConns = UNION {InPortsOf(u) : u \in ToSet(opList)}
      /\ outConns \in [DOMAIN outConns -> Seq(DOMAIN inConns)]
      /\ inConns \in [DOMAIN inConns -> Seq(DOMAIN outConns)]
      /\ nextConn \in 0..Len(design.conns)
  BY DEF BuildInv
<1>3. design.conns \in Seq(Possible(design)) /\ Len(design.conns) \in Nat
  <2>1. design.conns \in Seq(Possible(design))
    BY <1>2 DEF DesignsAreSound, Sound
  <2> QED BY <2>1
<1>4. n \in 1..Len(design.conns) /\ n \in 0..Len(design.conns) /\ n # 0
  BY <1>1, <1>2, <1>3
<1>5. Start(c) \in DOMAIN outConns /\ Target(c) \in DOMAIN inConns
  BY <1>1, <1>4, PortsThere
<1>6. \A u : OutPortsOf(u)' = OutPortsOf(u) /\ InPortsOf(u)' = InPortsOf(u)
  BY <1>1 DEF OutPortsOf, InPortsOf
<1>7. DOMAIN outConns' = DOMAIN outConns /\ DOMAIN inConns' = DOMAIN inConns
  BY <1>1
<1>8. outConns[Start(c)] \in Seq(DOMAIN inConns) /\ inConns[Target(c)] \in Seq(DOMAIN outConns)
  BY <1>2, <1>5
<1>9. 1..n = 1..nextConn \cup {n} /\ n \notin 1..nextConn /\ nextConn \in Nat
  BY <1>2, <1>3
<1> HIDE DEF n, c
<1>10. \A j \in 1..nextConn :
         j \in DOMAIN design.conns /\ n \in DOMAIN design.conns /\ j # n
  BY <1>2, <1>3, <1>4, <1>9
<1>11. \A j \in 1..nextConn :
         ~(Start(design.conns[j]) = Start(c) /\ Target(design.conns[j]) = Target(c))
  BY <1>2, <1>10 DEF DesignsAreSound, Sound, c
<1>12. \A q \in DOMAIN outConns :
         /\ IsInjective(outConns[q])
         /\ ToSet(outConns[q]) =
              {Target(design.conns[i]) : i \in {j \in 1..nextConn : Start(design.conns[j]) = q}}
  BY DEF BuildInv
<1>13. \A p \in DOMAIN inConns :
         /\ IsInjective(inConns[p])
         /\ ToSet(inConns[p]) =
              {Start(design.conns[i]) : i \in {j \in 1..nextConn : Target(design.conns[j]) = p}}
  BY DEF BuildInv
<1>14. outConns' \in [DOMAIN outConns' -> Seq(DOMAIN inConns')]
  <2>1. Append(outConns[Start(c)], Target(c)) \in Seq(DOMAIN inConns)
    BY <1>5, <1>8, AppendSet
  <2> QED BY <1>1, <1>2, <1>7, <2>1
<1>15. inConns' \in [DOMAIN inConns' -> Seq(DOMAIN outConns')]
  <2>1. Append(inConns[Target(c)], Start(c)) \in Seq(DOMAIN outConns)
    BY <1>5, <1>8, AppendSet
  <2> QED BY <1>1, <1>2, <1>7, <2>1
<1>16. ASSUME NEW q \in DOMAIN outConns
       PROVE  /\ IsInjective(outConns'[q])
              /\ ToSet(outConns'[q]) =
                   {Target(design.conns[i]) : i \in {j \in 1..n : Start(design.conns[j]) = q}}
  <2>1. CASE q = Start(c)
    <3>1. outConns'[q] = Append(outConns[q], Target(c))
      BY <1>1, <1>5, <2>1
    <3>2. Target(c) \notin ToSet(outConns[q])
      BY <1>11, <1>12, <2>1
    <3>3. IsInjective(outConns'[q]) /\ ToSet(outConns'[q]) = ToSet(outConns[q]) \cup {Target(c)}
      BY <1>5, <1>8, <1>12, <2>1, <3>1, <3>2, AppendSet
    <3>4. {j \in 1..n : Start(design.conns[j]) = q} = {j \in 1..nextConn : Start(design.conns[j]) = q} \cup {n}
      BY <1>9, <2>1 DEF c
    <3> QED BY <1>12, <3>3, <3>4 DEF c
  <2>2. CASE q # Start(c)
    <3>1. outConns'[q] = outConns[q]
      BY <1>1, <2>2
    <3>2. {j \in 1..n : Start(design.conns[j]) = q} = {j \in 1..nextConn : Start(design.conns[j]) = q}
      BY <1>9, <2>2 DEF c
    <3> QED BY <1>12, <3>1, <3>2
  <2> QED BY <2>1, <2>2
<1>17. ASSUME NEW p \in DOMAIN inConns
       PROVE  /\ IsInjective(inConns'[p])
              /\ ToSet(inConns'[p]) =
                   {Start(design.conns[i]) : i \in {j \in 1..n : Target(design.conns[j]) = p}}
  <2>1. CASE p = Target(c)
    <3>1. inConns'[p] = Append(inConns[p], Start(c))
      BY <1>1, <1>5, <2>1
    <3>2. Start(c) \notin ToSet(inConns[p])
      BY <1>11, <1>13, <2>1
    <3>3. IsInjective(inConns'[p]) /\ ToSet(inConns'[p]) = ToSet(inConns[p]) \cup {Start(c)}
      BY <1>5, <1>8, <1>13, <2>1, <3>1, <3>2, AppendSet
    <3>4. {j \in 1..n : Target(design.conns[j]) = p} = {j \in 1..nextConn : Target(design.conns[j]) = p} \cup {n}
      BY <1>9, <2>1 DEF c
    <3> QED BY <1>13, <3>3, <3>4 DEF c
  <2>2. CASE p # Target(c)
    <3>1. inConns'[p] = inConns[p]
      BY <1>1, <2>2
    <3>2. {j \in 1..n : Target(design.conns[j]) = p} = {j \in 1..nextConn : Target(design.conns[j]) = p}
      BY <1>9, <2>2 DEF c
    <3> QED BY <1>13, <3>1, <3>2
  <2> QED BY <2>1, <2>2
<1>18. /\ DOMAIN outConns' = UNION {OutPortsOf(u)' : u \in ToSet(opList')}
       /\ DOMAIN inConns' = UNION {InPortsOf(u)' : u \in ToSet(opList')}
  BY <1>1, <1>2, <1>6, <1>7
<1>19. /\ opList \in Seq(ToSet(design.ops)) /\ Len(opList) <= Len(design.ops)
       /\ \A i \in 1..Len(opList) : opList[i] = design.ops[i]
  BY DEF BuildInv
<1>20. \A q \in DOMAIN outConns' :
         /\ IsInjective(outConns'[q])
         /\ ToSet(outConns'[q]) =
              {Target(design'.conns[i]) : i \in {j \in 1..nextConn' : Start(design'.conns[j]) = q}}
  BY <1>1, <1>7, <1>16
<1>21. \A p \in DOMAIN inConns' :
         /\ IsInjective(inConns'[p])
         /\ ToSet(inConns'[p]) =
              {Start(design'.conns[i]) : i \in {j \in 1..nextConn' : Target(design'.conns[j]) = p}}
  BY <1>1, <1>7, <1>17
<1>22. /\ design' \in Designs /\ nextConn' \in 0..Len(design'.conns) /\ (nextConn' # 0 => opList' = design'.ops)
       /\ opList' \in Seq(ToSet(design'.ops)) /\ Len(opList') <= Len(design'.ops)
       /\ \A i \in 1..Len(opList') : opList'[i] = design'.ops[i]
  BY <1>1, <1>2, <1>4, <1>19
<1> QED
  BY <1>14, <1>15, <1>18, <1>20, <1>21, <1>22 DEF BuildInv

\* What has been recorded is at any time what the statements so far say.
LEMMA Building == ASSUME DesignsAreSound PROVE Spec => []BuildInv
<1>1. Init => BuildInv
  BY InitBuild
<1>2. BuildInv /\ [Next]_vars => BuildInv'
  <2> SUFFICES ASSUME BuildInv, [Next]_vars PROVE BuildInv'
    OBVIOUS
  <2>1. CASE AddOperator
    BY <2>1, AddOperatorBuild
  <2>2. CASE AddConnection
    BY <2>2, AddConnectionBuild
  <2>3. CASE UNCHANGED vars
    <3>1. /\ design' = design /\ opList' = opList /\ outConns' = outConns /\ inConns' = inConns
          /\ nextConn' = nextConn
      BY <2>3 DEF vars
    <3>2. \A u : OutPortsOf(u)' = OutPortsOf(u) /\ InPortsOf(u)' = InPortsOf(u)
      BY <3>1 DEF OutPortsOf, InPortsOf
    <3>3. /\ DOMAIN outConns' = UNION {OutPortsOf(u)' : u \in ToSet(opList')}
          /\ DOMAIN inConns' = UNION {InPortsOf(u)' : u \in ToSet(opList')}
      BY <3>1, <3>2 DEF BuildInv
    <3> QED BY <3>1, <3>3 DEF BuildInv
  <2> QED BY <2>1, <2>2, <2>3 DEF Next
<1> QED BY <1>1, <1>2, PTL DEF Spec

\* Then the next statement finds the operators and the ports that it uses.
LEMMA NoFailure ==
  ASSUME DesignsAreSound, BuildInv
  PROVE  NoStatementFails
<1>1. /\ design \in Designs /\ opList \in Seq(ToSet(design.ops)) /\ Len(opList) <= Len(design.ops)
      /\ \A i \in 1..Len(opList) : opList[i] = design.ops[i]
      /\ nextConn \in 0..Len(design.conns)
  BY DEF BuildInv
<1>2. design.ops \in Seq(ToSet(design.ops)) /\ IsInjective(design.ops) /\ design.conns \in Seq(Possible(design))
  BY <1>1 DEF DesignsAreSound, Sound
<1>3. Len(opList) \in Nat /\ Len(design.ops) \in Nat /\ Len(design.conns) \in Nat
  BY <1>1, <1>2
<1>4. ASSUME Len(opList) < Len(design.ops), Contains(opList, design.ops[Len(opList) + 1])
      PROVE  FALSE
  <2>1. PICK i \in 1..Len(opList) : opList[i] = design.ops[Len(opList) + 1]
    BY <1>4 DEF Contains
  <2>2. design.ops[i] = design.ops[Len(opList) + 1]
    BY <1>1, <2>1
  <2>3. i \in DOMAIN design.ops /\ Len(opList) + 1 \in DOMAIN design.ops /\ i # Len(opList) + 1
    BY <1>2, <1>3, <1>4
  <2> QED BY <1>2, <2>2, <2>3 DEF IsInjective
<1>5. ASSUME opList = design.ops, nextConn < Len(design.conns)
      PROVE  /\ Start(design.conns[nextConn + 1]) \in DOMAIN outConns
             /\ Target(design.conns[nextConn + 1]) \in DOMAIN inConns
  <2>1. nextConn + 1 \in 1..Len(design.conns)
    BY <1>1, <1>3, <1>5
  <2> QED BY <1>5, <2>1, PortsThere
<1> QED BY <1>4, <1>5 DEF NoStatementFails, Start, Target

\* Then both ends of every connection agree.
LEMMA Agreement ==
  ASSUME DesignsAreSound, BuildInv
  PROVE  PublishersAgree
<1> SUFFICES ASSUME NEW p \in DOMAIN inConns
             PROVE  Graph!PublisherPorts(p) = ToSet(inConns[p])
  BY DEF PublishersAgree
<1>1. /\ nextConn \in 0..Len(design.conns) /\ (nextConn # 0 => opList = design.ops)
      /\ \A q \in DOMAIN outConns :
           ToSet(outConns[q]) =
             {Target(design.conns[i]) : i \in {j \in 1..nextConn : Start(design.conns[j]) = q}}
      /\ ToSet(inConns[p]) =
           {Start(design.conns[i]) : i \in {j \in 1..nextConn : Target(design.conns[j]) = p}}
      /\ design \in Designs
  BY DEF BuildInv
<1>2. Len(design.conns) \in Nat
  <2>1. design.conns \in Seq(Possible(design))
    BY <1>1 DEF DesignsAreSound, Sound
  <2> QED BY <2>1
<1>3. \A i \in 1..nextConn : Start(design.conns[i]) \in DOMAIN outConns
  <2>1. \A i \in 1..nextConn : i \in 1..Len(design.conns) /\ opList = design.ops
    BY <1>1, <1>2
  <2> QED BY <2>1, PortsThere
<1>4. Graph!PublisherPorts(p) = {q \in DOMAIN outConns : p \in ToSet(outConns[q])}
  BY DEF Graph!PublisherPorts, Graph!SubscribersOf, ToSet
<1>5. ASSUME NEW q \in DOMAIN outConns, p \in ToSet(outConns[q]) PROVE q \in ToSet(inConns[p])
  BY <1>1, <1>5
<1>6. ASSUME NEW q \in ToSet(inConns[p]) PROVE q \in DOMAIN outConns /\ p \in ToSet(outConns[q])
  <2>1. PICK i \in 1..nextConn : Target(design.conns[i]) = p /\ q = Start(design.conns[i])
    BY <1>1
  <2>2. q \in DOMAIN outConns
    BY <1>3, <2>1
  <2> QED BY <1>1, <2>1, <2>2
<1> QED BY <1>4, <1>5, <1>6

\* Then the graph is fit for the runtime, if no two connections of the design meet.
LEMMA Fitness ==
  ASSUME DesignsAreSound, BuildInv,
         design \notin {UnionSink, BarrierSink} => WithoutFanIn(design)
  PROVE  FitForRuntime
<1>1. /\ nextConn \in 0..Len(design.conns)
      /\ outConns \in [DOMAIN outConns -> Seq(DOMAIN inConns)]
      /\ \A q \in DOMAIN outConns :
           /\ IsInjective(outConns[q])
           /\ ToSet(outConns[q]) =
                {Target(design.conns[i]) : i \in {j \in 1..nextConn : Start(design.conns[j]) = q}}
      /\ design \in Designs
  BY DEF BuildInv
<1>2. Graph!ConnectedOnce
  BY <1>1 DEF Graph!ConnectedOnce, Graph!Once, IsInjective
<1>3. design.conns \in Seq(Possible(design))
  BY <1>1 DEF DesignsAreSound, Sound
<1>4. \A i \in 1..nextConn : i \in DOMAIN design.conns
  BY <1>1, <1>3
<1>5. ASSUME WithoutFanIn(design), NEW q \in DOMAIN outConns, NEW r \in DOMAIN outConns,
             NEW i \in DOMAIN outConns[q], NEW j \in DOMAIN outConns[r], outConns[q][i] = outConns[r][j]
      PROVE  q = r /\ i = j
  <2>1. outConns[q][i] \in ToSet(outConns[q]) /\ outConns[r][j] \in ToSet(outConns[r])
    BY DEF ToSet
  <2>2. PICK k \in 1..nextConn : Start(design.conns[k]) = q /\ outConns[q][i] = Target(design.conns[k])
    BY <1>1, <2>1
  <2>3. PICK l \in 1..nextConn : Start(design.conns[l]) = r /\ outConns[r][j] = Target(design.conns[l])
    BY <1>1, <2>1
  <2>4. k = l
    BY <1>4, <1>5, <2>2, <2>3 DEF WithoutFanIn
  <2>5. q = r
    BY <2>2, <2>3, <2>4
  <2> QED BY <1>1, <1>5, <2>5 DEF IsInjective
<1>6. WithoutFanIn(design) => Graph!NoFanIn
  BY <1>5 DEF Graph!NoFanIn
<1> QED BY <1>1, <1>2, <1>6 DEF FitForRuntime

\* Constructors, of every depth and width, execute without an error: no name is
\* created twice, and Flow.cpp, which indexes the connections of an operator
\* unchecked, is never given a port or an operator that is not there.
THEOREM ConstructorsSucceed ==
  ASSUME Designs \subseteq AllFlows
  PROVE  Spec => []NoStatementFails
<1>1. DesignsAreSound
  BY EveryFlowSound DEF DesignsAreSound
<1>2. Spec => []BuildInv
  BY <1>1, Building
<1>3. BuildInv => NoStatementFails
  BY <1>1, NoFailure
<1> QED BY <1>2, <1>3, PTL

\* At any time of the construction, closure (which looks at the publishers of a
\* port) and blocking (which looks at its subscribers) would go by the same
\* connections.
THEOREM EndsAgree ==
  ASSUME Designs \subseteq AllFlows
  PROVE  Spec => []PublishersAgree
<1>1. DesignsAreSound
  BY EveryFlowSound DEF DesignsAreSound
<1>2. Spec => []BuildInv
  BY <1>1, Building
<1>3. BuildInv => PublishersAgree
  BY <1>1, Agreement
<1> QED BY <1>2, <1>3, PTL

\* The graphs are those that the theorems about the runtime assume: connected at
\* most once and, but for the two tests with four files, without fan-in.
THEOREM GraphsFit ==
  ASSUME Designs \subseteq AllFlows
  PROVE  Spec => []FitForRuntime
<1>1. DesignsAreSound
  BY EveryFlowSound DEF DesignsAreSound
<1>2. Spec => []BuildInv
  BY <1>1, Building
<1>3. BuildInv => FitForRuntime
  <2> SUFFICES ASSUME BuildInv PROVE FitForRuntime
    OBVIOUS
  <2>1. design \in AllFlows
    BY DEF BuildInv
  <2>2. design \notin {UnionSink, BarrierSink} => WithoutFanIn(design)
    BY <2>1, EveryFlowSound
  <2> QED BY <1>1, <2>2, Fitness
<1> QED BY <1>2, <1>3, PTL

-----------------------------------------------------------------------------
(***************************************************************************)
(* Tuples by the names of their attributes.                               *)
(***************************************************************************)

\* Everywhere in the flows an attribute has the type that goes with its name.
Kind(name) ==
  IF name \in {"lineNo", "seqNo"} THEN "Integer"
  ELSE IF name = "Timestamp" THEN "Timestamp" ELSE "String"
Carrying(D) == [name \in D |-> Kind(name)]

\* The names in a format, and that it has them with their types.
Named(format) == {format[i][1] : i \in DOMAIN format}
Typed == {<<name, Kind(name)>> :
            name \in {"name", "grade", "name1", "grade1", "name2", "grade2", "name3", "grade3", "lineNo"}}
WellTyped(format) == format \in Seq(Typed)

\* Two functions that are folds over a finite set, of any element first, and that
\* agree in every step, have the same value in the end.
LEMMA FoldsAgree ==
  ASSUME NEW E, IsFiniteSet(E), NEW g, NEW h, g[{}] = h[{}],
         \A s \in SUBSET E : s # {} => \E x \in s : g[s \ {x}] = h[s \ {x}] => g[s] = h[s]
  PROVE  g[E] = h[E]
<1> DEFINE bad == {s \in SUBSET E : g[s] # h[s]}
           T == {Cardinality(s) : s \in bad}
<1> SUFFICES ASSUME g[E] # h[E] PROVE FALSE
  OBVIOUS
<1>1. \A s \in SUBSET E : IsFiniteSet(s)
  BY FS_Subset
<1>2. \A s \in SUBSET E : Cardinality(s) \in Nat
  BY <1>1, FS_CardinalityType
<1>3. E \in bad
  OBVIOUS
<1>4. PICK m \in T : \A k \in T : m <= k
  <2>1. T \subseteq Nat /\ T # {}
    BY <1>2, <1>3
  <2> HIDE DEF T
  <2> QED BY <2>1, Smallest
<1>5. PICK s \in bad : m = Cardinality(s)
  BY <1>4
<1>6. s \in SUBSET E /\ s # {}
  BY <1>5
<1>7. PICK x \in s : g[s \ {x}] = h[s \ {x}] => g[s] = h[s]
  BY <1>6
<1>8. s \ {x} \in bad
  BY <1>5, <1>6, <1>7
<1>9. Cardinality(s \ {x}) = Cardinality(s) - 1
  BY <1>1, <1>6, FS_RemoveElement
<1>10. Cardinality(s \ {x}) \in T
  BY <1>8
<1> HIDE DEF T, bad
<1> QED BY <1>2, <1>4, <1>5, <1>6, <1>9, <1>10

\* Setting an attribute to its type.
LEMMA SetOne ==
  ASSUME NEW D, NEW a
  PROVE  SetAttribute(Carrying(D), a, Kind(a)) = Carrying(D \cup {a})
BY DEF SetAttribute, Carrying

\* Removing an attribute.
LEMMA RemoveOne ==
  ASSUME NEW D, NEW a
  PROVE  RemoveAttribute(Carrying(D), a) = Carrying(D \ {a})
BY DEF RemoveAttribute, Carrying, Restrict

\* Appending a tuple.
LEMMA AppendNames ==
  ASSUME NEW D, NEW E, IsFiniteSet(E)
  PROVE  AppendTuple(Carrying(D), Carrying(E)) = Carrying(D \cup E)
<1> DEFINE other == Carrying(E)
           IsIter(f) == f = [s \in SUBSET E |-> IF s = {} THEN Carrying(D)
                                  ELSE LET x == CHOOSE x \in s : TRUE
                                       IN SetAttribute(f[s \ {x}], x, other[x])]
           g == CHOOSE f : IsIter(f)
           h == [s \in SUBSET E |-> Carrying(D \cup s)]
<1>1. DOMAIN other = E /\ \A x \in E : other[x] = Kind(x)
  BY DEF Carrying
<1>2. AppendTuple(Carrying(D), Carrying(E)) = g[E]
  BY <1>1 DEF AppendTuple, FoldSet, MapThenFoldSet
<1> HIDE DEF other
<1>3. ASSUME NEW s \in SUBSET E, s # {}
      PROVE  LET x == CHOOSE x \in s : TRUE
             IN x \in s /\ Carrying(D \cup s) = SetAttribute(Carrying(D \cup (s \ {x})), x, other[x])
  <2> DEFINE x == CHOOSE x \in s : TRUE
  <2>1. x \in s
    BY <1>3
  <2> HIDE DEF x
  <2>2. other[x] = Kind(x) /\ (D \cup (s \ {x})) \cup {x} = D \cup s
    BY <1>1, <2>1
  <2>3. Carrying(D \cup s) = SetAttribute(Carrying(D \cup (s \ {x})), x, other[x])
    BY <2>2, SetOne
  <2> QED BY <2>1, <2>3 DEF x
<1>4. IsIter(h)
  <2>1. \A s \in SUBSET E : h[s] = IF s = {} THEN Carrying(D)
                                  ELSE LET x == CHOOSE x \in s : TRUE
                                       IN SetAttribute(h[s \ {x}], x, other[x])
    <3> TAKE s \in SUBSET E
    <3>1. CASE s = {}
      <4>1. h[s] = Carrying(D)
        BY <3>1
      <4> QED BY <3>1, <4>1
    <3>2. CASE s # {}
      <4> DEFINE x == CHOOSE x \in s : TRUE
      <4>1. x \in s /\ Carrying(D \cup s) = SetAttribute(Carrying(D \cup (s \ {x})), x, other[x])
        BY <1>3, <3>2
      <4>2. h[s] = Carrying(D \cup s) /\ h[s \ {x}] = Carrying(D \cup (s \ {x}))
        OBVIOUS
      <4>3. h[s] = SetAttribute(h[s \ {x}], x, other[x])
        BY <4>1, <4>2
      <4> HIDE DEF h
      <4> QED BY <3>2, <4>3
    <3> QED BY <3>1, <3>2
  <2>2. h = [s \in SUBSET E |-> h[s]]
    OBVIOUS
  <2> HIDE DEF h
  <2> QED BY <2>1, <2>2
<1>5. IsIter(g)
  BY <1>4
<1>6. g[{}] = h[{}] /\ \A s \in SUBSET E : s # {} => \E x \in s : g[s \ {x}] = h[s \ {x}] => g[s] = h[s]
  <2> HIDE DEF g
  <2>1. g[{}] = Carrying(D) /\ h[{}] = Carrying(D)
    BY <1>5
  <2>2. ASSUME NEW s \in SUBSET E, s # {}
        PROVE  \E x \in s : g[s \ {x}] = h[s \ {x}] => g[s] = h[s]
    <3> DEFINE x == CHOOSE x \in s : TRUE
    <3>1. x \in s /\ Carrying(D \cup s) = SetAttribute(Carrying(D \cup (s \ {x})), x, other[x])
      BY <1>3, <2>2
    <3>2. h[s] = Carrying(D \cup s) /\ h[s \ {x}] = Carrying(D \cup (s \ {x}))
      OBVIOUS
    <3>3. g[s] = SetAttribute(g[s \ {x}], x, other[x])
      BY <1>5, <2>2
    <3> HIDE DEF x, h
    <3>4. g[s \ {x}] = h[s \ {x}] => g[s] = h[s]
      BY <3>1, <3>2, <3>3
    <3> QED BY <3>1, <3>4
  <2> QED BY <2>1, <2>2
<1> HIDE DEF g, h
<1>7. g[E] = h[E]
  BY <1>6, FoldsAgree
<1> QED BY <1>2, <1>7 DEF h

\* The largest element of a set that is not empty, of the first numbers.
LEMMA MaxIn ==
  ASSUME NEW n \in Nat, NEW s, s \subseteq 1..n, s # {}
  PROVE  Max(s) \in s
<1> DEFINE over == {k \in Nat : \A y \in s : y <= k}
<1>1. n \in over
  OBVIOUS
<1>2. PICK m \in over : \A k \in over : m <= k
  BY <1>1, Smallest
<1>3. m \in s
  <2> SUFFICES ASSUME m \notin s PROVE FALSE
    OBVIOUS
  <2>1. m \in Nat /\ \A y \in s : y <= m /\ y \in Nat /\ 1 <= y
    BY <1>2
  <2>2. m # 0 /\ m - 1 \in Nat
    <3>1. PICK y \in s : TRUE
      OBVIOUS
    <3> QED BY <2>1, <3>1
  <2>3. \A y \in s : y <= m - 1
    BY <2>1, <2>2
  <2> QED BY <1>2, <2>2, <2>3
<1>4. \E x \in s : \A y \in s : x >= y
  BY <1>2, <1>3
<1> QED BY <1>4 DEF Max

\* Setting the columns of a format one after the other.
LEMMA SetNames ==
  ASSUME NEW D, NEW format, WellTyped(format)
  PROVE  SetAll(Carrying(D), format) = Carrying(D \cup Named(format))
<1> DEFINE n == Len(format)
           Set(t, i) == SetAttribute(t, format[i][1], format[i][2])
           After(s) == Carrying(D \cup {format[i][1] : i \in s})
           IsIter(f) == f = [s \in SUBSET (1..n) |-> IF s = {} THEN Carrying(D)
                                                     ELSE Set(f[s \ {Max(s)}], Max(s))]
           g == CHOOSE f : IsIter(f)
           h == [s \in SUBSET (1..n) |-> After(s)]
<1>1. n \in Nat /\ DOMAIN format = 1..n /\ \A i \in 1..n : format[i][2] = Kind(format[i][1])
  BY DEF WellTyped, Typed
<1>2. SetAll(Carrying(D), format) = g[1..n]
  BY <1>1 DEF SetAll, FoldLeft, MapThenFoldSet
<1> HIDE DEF n
<1>3. ASSUME NEW s \in SUBSET (1..n), s # {}
      PROVE  Max(s) \in s /\ After(s) = Set(After(s \ {Max(s)}), Max(s))
  <2>1. Max(s) \in s
    BY <1>1, <1>3, MaxIn
  <2>2. D \cup {format[i][1] : i \in s}
          = (D \cup {format[i][1] : i \in s \ {Max(s)}}) \cup {format[Max(s)][1]}
    BY <2>1
  <2>3. format[Max(s)][2] = Kind(format[Max(s)][1])
    BY <1>1, <2>1
  <2> QED BY <2>1, <2>2, <2>3, SetOne
<1>4. After({}) = Carrying(D)
  <2>1. D \cup {format[i][1] : i \in {}} = D
    OBVIOUS
  <2> QED BY <2>1
<1> HIDE DEF Set, After
<1>5. \A s \in SUBSET (1..n) : h[s] = After(s) /\ h[s \ {Max(s)}] = After(s \ {Max(s)})
  OBVIOUS
<1>6. IsIter(h)
  <2>1. \A s \in SUBSET (1..n) : h[s] = IF s = {} THEN Carrying(D) ELSE Set(h[s \ {Max(s)}], Max(s))
    <3> HIDE DEF h
    <3> QED BY <1>3, <1>4, <1>5
  <2>2. h = [s \in SUBSET (1..n) |-> h[s]]
    OBVIOUS
  <2> HIDE DEF h
  <2> QED BY <2>1, <2>2
<1>7. IsIter(g)
  BY <1>6
<1> HIDE DEF g, h
<1>8. g[{}] = h[{}]
  BY <1>4, <1>5, <1>7
<1>9. ASSUME NEW s \in SUBSET (1..n), s # {}
      PROVE  \E x \in s : g[s \ {x}] = h[s \ {x}] => g[s] = h[s]
  <2>1. g[s] = Set(g[s \ {Max(s)}], Max(s))
    BY <1>7, <1>9
  <2>2. Max(s) \in s /\ h[s] = Set(h[s \ {Max(s)}], Max(s))
    BY <1>3, <1>5, <1>9
  <2> QED BY <2>1, <2>2
<1>10. IsFiniteSet(1..n)
  BY <1>1, FS_Interval
<1>11. g[1..n] = h[1..n]
  BY <1>8, <1>9, <1>10, FoldsAgree
<1> QED BY <1>1, <1>2, <1>5, <1>11 DEF After, Named

\* Joining the tuples of the ports of a barrier.
LEMMA JoinNames ==
  ASSUME NEW n \in Nat, NEW parts, \A i \in 1..n : IsFiniteSet(parts[i])
  PROVE  Joined([i \in 1..n |-> Carrying(parts[i])]) = Carrying(UNION {parts[i] : i \in 1..n})
<1> DEFINE tuples == [i \in 1..n |-> Carrying(parts[i])]
           After(s) == Carrying(UNION {parts[i] : i \in s})
           IsIter(f) == f = [s \in SUBSET (1..n) |-> IF s = {} THEN EmptyTuple
                                                     ELSE AppendTuple(f[s \ {Max(s)}], tuples[Max(s)])]
           g == CHOOSE f : IsIter(f)
           h == [s \in SUBSET (1..n) |-> After(s)]
<1>1. DOMAIN tuples = 1..n /\ \A i \in 1..n : tuples[i] = Carrying(parts[i])
  OBVIOUS
<1> HIDE DEF tuples
<1>2. Joined(tuples) = g[1..n]
  BY <1>1 DEF Joined, FoldLeft, MapThenFoldSet
<1>3. ASSUME NEW s \in SUBSET (1..n), s # {}
      PROVE  Max(s) \in s /\ After(s) = AppendTuple(After(s \ {Max(s)}), tuples[Max(s)])
  <2>1. Max(s) \in s
    BY <1>3, MaxIn
  <2>2. UNION {parts[i] : i \in s} = (UNION {parts[i] : i \in s \ {Max(s)}}) \cup parts[Max(s)]
    BY <2>1
  <2>3. tuples[Max(s)] = Carrying(parts[Max(s)]) /\ IsFiniteSet(parts[Max(s)])
    BY <1>1, <2>1
  <2> QED BY <2>1, <2>2, <2>3, AppendNames
<1>4. After({}) = EmptyTuple
  <2>1. UNION {parts[i] : i \in {}} = {}
    OBVIOUS
  <2> QED BY <2>1 DEF Carrying, EmptyTuple
<1> HIDE DEF After
<1>5. \A s \in SUBSET (1..n) : h[s] = After(s) /\ h[s \ {Max(s)}] = After(s \ {Max(s)})
  OBVIOUS
<1>6. IsIter(h)
  <2>1. \A s \in SUBSET (1..n) : h[s] = IF s = {} THEN EmptyTuple ELSE AppendTuple(h[s \ {Max(s)}], tuples[Max(s)])
    <3> HIDE DEF h
    <3> QED BY <1>3, <1>4, <1>5
  <2>2. h = [s \in SUBSET (1..n) |-> h[s]]
    OBVIOUS
  <2> HIDE DEF h
  <2> QED BY <2>1, <2>2
<1>7. IsIter(g)
  BY <1>6
<1> HIDE DEF g, h
<1>8. g[{}] = h[{}]
  BY <1>4, <1>5, <1>7
<1>9. ASSUME NEW s \in SUBSET (1..n), s # {}
      PROVE  \E x \in s : g[s \ {x}] = h[s \ {x}] => g[s] = h[s]
  <2>1. g[s] = AppendTuple(g[s \ {Max(s)}], tuples[Max(s)])
    BY <1>7, <1>9
  <2>2. Max(s) \in s /\ h[s] = AppendTuple(h[s \ {Max(s)}], tuples[Max(s)])
    BY <1>3, <1>5, <1>9
  <2> QED BY <2>1, <2>2
<1>10. IsFiniteSet(1..n)
  BY FS_Interval
<1>11. g[1..n] = h[1..n]
  BY <1>8, <1>9, <1>10, FoldsAgree
<1> QED BY <1>2, <1>5, <1>11 DEF After, tuples

\* What a source sets.
Generated == {"name", "grade", "lineNo"}

\* What a source sets: the columns of its file, or what the generator is told to.
LEMMA ProducedNames ==
  /\ \A format : WellTyped(format) => Produced("FileSource", format) = Carrying(Named(format))
  /\ \A format : Produced("TupleGenerator", format) = Carrying(Generated)
<1>1. EmptyTuple = Carrying({})
  BY DEF EmptyTuple, Carrying
<1>2. ASSUME NEW format, WellTyped(format) PROVE SetAll(EmptyTuple, format) = Carrying(Named(format))
  <2>1. {} \cup Named(format) = Named(format)
    OBVIOUS
  <2> QED BY <1>1, <1>2, <2>1, SetNames
<1> DEFINE three == << <<"name", "String">>, <<"grade", "String">>, <<"lineNo", "Integer">> >>
<1>3. WellTyped(three)
  <2>1. <<"name", "String">> \in Typed /\ <<"grade", "String">> \in Typed /\ <<"lineNo", "Integer">> \in Typed
    <3>1. Kind("name") = "String" /\ Kind("grade") = "String" /\ Kind("lineNo") = "Integer"
      BY DEF Kind
    <3> QED BY <3>1 DEF Typed
  <2>2. \A x, y, z \in Typed : <<x, y, z>> \in Seq(Typed)
    OBVIOUS
  <2> QED BY <2>1, <2>2 DEF WellTyped
<1>4. Named(three) = Generated
  <2>1. DOMAIN three = {1, 2, 3}
    OBVIOUS
  <2> QED BY <2>1 DEF Named, Generated
<1>5. SetAll(EmptyTuple, three) = Carrying(Generated)
  BY <1>2, <1>3, <1>4
<1> QED BY <1>2, <1>5 DEF Produced

\* What an operator with one input port, a union or a merge makes of a tuple.
NamesPassed(role, D) ==
  CASE role = "Timestamper" -> D \cup {"Timestamp"}
    [] role = "Split" -> D \cup {"seqNo"}
    [] role = "Merge" -> D \ {"seqNo"}
    [] OTHER -> D

\* What an operator passes on has the names that NamesPassed says.
LEMMA PassedNames ==
  \A role, D : Passed(role, Carrying(D)) = Carrying(NamesPassed(role, D))
<1>1. ASSUME NEW D
      PROVE  /\ SetAttribute(Carrying(D), "Timestamp", "Timestamp") = Carrying(D \cup {"Timestamp"})
             /\ SetAttribute(Carrying(D), "seqNo", "Integer") = Carrying(D \cup {"seqNo"})
             /\ RemoveAttribute(Carrying(D), "seqNo") = Carrying(D \ {"seqNo"})
  <2>1. Kind("Timestamp") = "Timestamp" /\ Kind("seqNo") = "Integer"
    BY DEF Kind
  <2> QED BY <2>1, SetOne, RemoveOne
<1> QED BY <1>1 DEF Passed, NamesPassed

\* The names that an operator needs to find.
Suffices(role, format, D) ==
  CASE role = "Merge" -> "seqNo" \in D
    [] role = "ResultCollector" -> "Timestamp" \in D
    [] role \in {"Filter", "Split"} -> Named(format) \subseteq D
    [] role = "FileSink" -> format # <<>> /\ Named(format) \subseteq D
    [] OTHER -> TRUE

\* A tuple with the names an operator needs is digested by it.
LEMMA Digestible ==
  ASSUME NEW role, NEW format, NEW D, WellTyped(format), Suffices(role, format, D)
  PROVE  Digests(role, format, Carrying(D))
<1>1. \A a \in D : Gets(Carrying(D), a, Kind(a))
  BY DEF Gets, Carrying
<1>2. Kind("seqNo") = "Integer" /\ Kind("Timestamp") = "Timestamp"
  BY DEF Kind
<1>3. ASSUME Named(format) \subseteq D, NEW i \in DOMAIN format
      PROVE  Gets(Carrying(D), format[i][1], format[i][2]) /\ format[i][1] \in DOMAIN Carrying(D)
  <2>1. format[i][1] \in D /\ format[i][2] = Kind(format[i][1])
    BY <1>3 DEF Named, WellTyped, Typed
  <2> QED BY <1>1, <2>1 DEF Carrying
<1> QED BY <1>1, <1>2, <1>3 DEF Digests, Suffices

-----------------------------------------------------------------------------
(***************************************************************************)
(* Designs that are laid out in levels.                                   *)
(***************************************************************************)

\* Every port has a connection, an output port one; connections lead from smaller to
\* larger ranks, and to the level of the operator that they leave, or to the next one
\* if they lead to a node; and every sink is on the last level.
LaidOut(d, level, rank) ==
  /\ \A o \in ToSet(d.ops) :
       /\ level[o] \in Nat /\ rank[o] \in 0..Len(d.ops)
       /\ Ins(o[1], d.n) = 0 => level[o] = 0 /\ o[1] # "Busy"
       /\ o[1] = "FileSink" => level[o] = d.depth
       /\ \A i \in 0..(Ins(o[1], d.n) - 1) : \E c \in ToSet(d.conns) : Target(c) = <<o, i>>
       /\ \A i \in 0..(Outs(o[1], d.n) - 1) : \E c \in ToSet(d.conns) : Start(c) = <<o, i>>
  /\ \E o \in ToSet(d.ops) : o[1] = "FileSink"
  /\ \A c, e \in ToSet(d.conns) : Start(c) = Start(e) => c = e
  /\ \A c \in ToSet(d.conns) :
       /\ rank[c.from] < rank[c.to]
       /\ level[c.to] = level[c.from] + IF c.to[1] = "Busy" THEN 1 ELSE 0

\* The output ports that feed an input port, and how many there are.
Feeding(d, p) == {Start(c) : c \in {e \in ToSet(d.conns) : Target(e) = p}}
Fed(d) ==
  \A o \in ToSet(d.ops) : \A i \in 0..(Ins(o[1], d.n) - 1) :
    IF d \in {UnionSink, BarrierSink} /\ i = 1
      THEN \E q, r : q # r /\ Feeding(d, <<o, i>>) = {q, r}
      ELSE \E q : Feeding(d, <<o, i>>) = {q}

\* The numbers of ports are numbers.
LEMMA PortNumbers ==
  ASSUME NEW r, NEW n \in Nat PROVE Ins(r, n) \in Nat /\ Outs(r, n) \in Nat
BY DEF Ins, Outs

\* A connection of a sound design.
LEMMA SoundConnections ==
  ASSUME NEW d, Sound(d), NEW c \in ToSet(d.conns)
  PROVE  /\ c.from \in ToSet(d.ops) /\ c.to \in ToSet(d.ops)
         /\ c.out \in 0..(Outs(c.from[1], d.n) - 1) /\ c.in \in 0..(Ins(c.to[1], d.n) - 1)
         /\ c = Conn(c.from, c.out, c.to, c.in)
<1>1. d.conns \in Seq(Possible(d)) /\ d.n \in Nat
  BY DEF Sound
<1>2. PICK i \in DOMAIN d.conns : c = d.conns[i]
  BY DEF ToSet
<1>3. c \in Possible(d)
  BY <1>1, <1>2
<1>4. /\ c.from \in ToSet(d.ops) /\ c.to \in ToSet(d.ops) /\ c.out \in Nat /\ c.in \in Nat
      /\ c.out < Outs(c.from[1], d.n) /\ c.in < Ins(c.to[1], d.n)
      /\ c = [from |-> c.from, out |-> c.out, to |-> c.to, in |-> c.in]
  BY <1>3 DEF Possible
<1>5. Outs(c.from[1], d.n) \in Nat /\ Ins(c.to[1], d.n) \in Nat
  BY <1>1, PortNumbers
<1> QED BY <1>4, <1>5 DEF Conn

\* Without fan-in, an input port that has a connection has one.
LEMMA FedOnce ==
  ASSUME NEW d, NEW level, NEW rank, WithoutFanIn(d), LaidOut(d, level, rank),
         d \notin {UnionSink, BarrierSink}
  PROVE  Fed(d)
<1> SUFFICES ASSUME NEW o \in ToSet(d.ops), NEW i \in 0..(Ins(o[1], d.n) - 1)
             PROVE  \E q : Feeding(d, <<o, i>>) = {q}
  BY DEF Fed
<1>1. PICK c \in ToSet(d.conns) : Target(c) = <<o, i>>
  BY DEF LaidOut
<1>2. ASSUME NEW e \in ToSet(d.conns), Target(e) = <<o, i>> PROVE e = c
  BY <1>1, <1>2 DEF WithoutFanIn, ToSet
<1>3. Feeding(d, <<o, i>>) = {Start(c)}
  BY <1>1, <1>2 DEF Feeding
<1> QED BY <1>3

-----------------------------------------------------------------------------
(***************************************************************************)
(* The finished flow.                                                     *)
(***************************************************************************)

\* What the ports of a finished flow are connected to is what the design says.
LEMMA FinishedPorts ==
  ASSUME DesignsAreSound, BuildInv, Built
  PROVE  /\ opList = design.ops /\ design \in Designs /\ Sound(design)
         /\ DOMAIN outConns = UNION {OutPortsOf(o) : o \in ToSet(design.ops)}
         /\ DOMAIN inConns = UNION {InPortsOf(o) : o \in ToSet(design.ops)}
         /\ outConns \in [DOMAIN outConns -> Seq(DOMAIN inConns)]
         /\ inConns \in [DOMAIN inConns -> Seq(DOMAIN outConns)]
         /\ \A q \in DOMAIN outConns :
              /\ IsInjective(outConns[q])
              /\ ToSet(outConns[q]) = {Target(c) : c \in {e \in ToSet(design.conns) : Start(e) = q}}
         /\ \A p \in DOMAIN inConns : IsInjective(inConns[p]) /\ ToSet(inConns[p]) = Feeding(design, p)
<1>1. /\ opList = design.ops /\ nextConn = Len(design.conns) /\ design \in Designs
      /\ DOMAIN outConns = UNION {OutPortsOf(o) : o \in ToSet(opList)}
      /\ DOMAIN inConns = UNION {InPortsOf(o) : o \in ToSet(opList)}
      /\ outConns \in [DOMAIN outConns -> Seq(DOMAIN inConns)]
      /\ inConns \in [DOMAIN inConns -> Seq(DOMAIN outConns)]
  BY DEF BuildInv, Built
<1>2. Sound(design)
  BY <1>1 DEF DesignsAreSound
<1>3. design.conns \in Seq(Possible(design))
  BY <1>2 DEF Sound
<1>4. ToSet(design.conns) = {design.conns[i] : i \in 1..nextConn}
  BY <1>1, <1>3 DEF ToSet
<1>5. ASSUME NEW q \in DOMAIN outConns
      PROVE  /\ IsInjective(outConns[q])
             /\ ToSet(outConns[q]) = {Target(c) : c \in {e \in ToSet(design.conns) : Start(e) = q}}
  <2>1. /\ IsInjective(outConns[q])
        /\ ToSet(outConns[q]) =
             {Target(design.conns[i]) : i \in {j \in 1..nextConn : Start(design.conns[j]) = q}}
    BY DEF BuildInv
  <2> QED BY <1>4, <2>1
<1>6. ASSUME NEW p \in DOMAIN inConns
      PROVE  IsInjective(inConns[p]) /\ ToSet(inConns[p]) = Feeding(design, p)
  <2>1. /\ IsInjective(inConns[p])
        /\ ToSet(inConns[p]) =
             {Start(design.conns[i]) : i \in {j \in 1..nextConn : Target(design.conns[j]) = p}}
    BY DEF BuildInv
  <2> QED BY <1>4, <2>1 DEF Feeding
<1> QED BY <1>1, <1>2, <1>5, <1>6

\* The length of a list that has one element, or two, and no element twice.
LEMMA LengthOne ==
  ASSUME NEW S, NEW s \in Seq(S), NEW q, ToSet(s) = {q}, IsInjective(s)
  PROVE  Len(s) = 1
<1>1. Len(s) \in Nat /\ DOMAIN s = 1..Len(s)
  OBVIOUS
<1>2. \A i \in 1..Len(s) : s[i] = q
  BY <1>1 DEF ToSet
<1>3. Len(s) # 0
  BY <1>1 DEF ToSet
<1>4. ASSUME Len(s) > 1 PROVE FALSE
  <2>1. 1 \in DOMAIN s /\ 2 \in DOMAIN s
    BY <1>1, <1>4
  <2>2. s[1] = s[2]
    BY <1>1, <1>2, <2>1
  <2> QED BY <2>1, <2>2 DEF IsInjective
<1> QED BY <1>1, <1>3, <1>4

\* A list of two things that repeats nothing has length two.
LEMMA LengthTwo ==
  ASSUME NEW S, NEW s \in Seq(S), NEW q, NEW r, q # r, ToSet(s) = {q, r}, IsInjective(s)
  PROVE  Len(s) = 2
<1>1. Len(s) \in Nat /\ DOMAIN s = 1..Len(s)
  OBVIOUS
<1>2. \A i \in 1..Len(s) : s[i] = q \/ s[i] = r
  BY <1>1 DEF ToSet
<1>3. PICK i \in 1..Len(s), j \in 1..Len(s) : s[i] = q /\ s[j] = r
  BY <1>1 DEF ToSet
<1>4. Len(s) >= 2
  BY <1>1, <1>3
<1>5. \A k, l \in 1..Len(s) : s[k] = s[l] => k = l
  BY <1>1 DEF IsInjective
<1>6. ASSUME Len(s) > 2 PROVE FALSE
  <2>1. 1 \in 1..Len(s) /\ 2 \in 1..Len(s) /\ 3 \in 1..Len(s)
    BY <1>1, <1>6
  <2>2. s[1] # s[2] /\ s[1] # s[3] /\ s[2] # s[3]
    BY <1>5, <2>1
  <2> QED BY <1>2, <2>1, <2>2
<1> QED BY <1>1, <1>4, <1>6

\* Values that are determined one from the other.
Follows(h, step, base, n) == h[0] = base /\ \A k \in 1..n : h[k] = step[h[k - 1]]

\* A function applied n times, as the folds over a level of a flow are written.
LEMMA Iterated ==
  ASSUME NEW T, NEW base \in T, NEW step \in [T -> T], NEW n \in Nat
  PROVE  \E h \in [0..n -> T] : Follows(h, step, base, n)
<1> DEFINE Is(h, m) == \A k \in 0..m : h[k] = IF k = 0 THEN base ELSE step[h[k - 1]]
           good == {m \in Nat : \E h \in [0..m -> T] : Is(h, m)}
<1>1. 0 \in good
  <2>1. [k \in 0..0 |-> base] \in [0..0 -> T] /\ Is([k \in 0..0 |-> base], 0)
    OBVIOUS
  <2> QED BY <2>1
<1>2. ASSUME NEW m \in Nat, m \in good PROVE m + 1 \in good
  <2>1. PICK h \in [0..m -> T] : Is(h, m)
    BY <1>2
  <2> DEFINE g == [k \in 0..(m + 1) |-> IF k = m + 1 THEN step[h[m]] ELSE h[k]]
  <2>2. \A k \in 0..m : g[k] = h[k] /\ k \in 0..(m + 1) /\ (k # 0 => k - 1 \in 0..m)
    OBVIOUS
  <2>3. g[m + 1] = step[h[m]] /\ g[m] = h[m] /\ m + 1 \in 0..(m + 1) /\ m + 1 # 0 /\ (m + 1) - 1 = m
    OBVIOUS
  <2>4. g \in [0..(m + 1) -> T]
    <3>1. h[m] \in T /\ step[h[m]] \in T
      OBVIOUS
    <3> QED BY <3>1
  <2> HIDE DEF g
  <2>5. Is(g, m + 1)
    <3> TAKE k \in 0..(m + 1)
    <3>1. CASE k = m + 1
      <4>1. g[k] = step[h[m]] /\ g[k - 1] = h[m] /\ k # 0
        BY <2>3, <3>1
      <4> QED BY <4>1
    <3>2. CASE k # m + 1
      <4>1. k \in 0..m
        BY <3>2
      <4>2. g[k] = h[k] /\ (k # 0 => g[k - 1] = h[k - 1])
        BY <2>2, <4>1
      <4> QED BY <2>1, <4>1, <4>2
    <3> QED BY <3>1, <3>2
  <2> QED BY <2>4, <2>5
<1> HIDE DEF good
<1>3. n \in good
  BY <1>1, <1>2, Induction
<1>4. PICK h \in [0..n -> T] : Is(h, n)
  BY <1>3 DEF good
<1>5. Follows(h, step, base, n)
  <2>1. 0 \in 0..n /\ \A k \in 1..n : k \in 0..n /\ k # 0
    OBVIOUS
  <2> QED BY <1>4, <2>1 DEF Follows
<1> QED BY <1>5

\* Induction over an interval.
LEMMA UpTo ==
  ASSUME NEW n \in Nat, NEW S, 0 \in S, \A i \in 1..n : i - 1 \in S => i \in S
  PROVE  0..n \subseteq S
<1> DEFINE good == {i \in Nat : i <= n => i \in S}
<1>1. 0 \in good
  OBVIOUS
<1>2. ASSUME NEW k \in Nat, k \in good PROVE k + 1 \in good
  <2>1. k + 1 <= n => k + 1 \in 1..n /\ (k + 1) - 1 = k
    OBVIOUS
  <2> QED BY <1>2, <2>1
<1> HIDE DEF good
<1>3. Nat \subseteq good
  BY <1>1, <1>2, Induction
<1> QED BY <1>3 DEF good

\* The graph's successors of an operator.
LEMMA Downstream ==
  ASSUME DesignsAreSound, BuildInv, Built, NEW o \in ToSet(design.ops)
  PROVE  Graph!DownstreamOperators(o) = {c.to : c \in {e \in ToSet(design.conns) : e.from = o}}
<1>1. /\ Sound(design)
      /\ DOMAIN outConns = UNION {OutPortsOf(u) : u \in ToSet(design.ops)}
      /\ outConns \in [DOMAIN outConns -> Seq(DOMAIN inConns)]
      /\ \A q \in DOMAIN outConns :
           ToSet(outConns[q]) = {Target(c) : c \in {e \in ToSet(design.conns) : Start(e) = q}}
  BY FinishedPorts
<1>2. Graph!OutPortsOf(o) = {q \in DOMAIN outConns : q[1] = o}
  BY DEF Graph!OutPortsOf
<1>3. Graph!DownstreamPorts(o) = UNION {ToSet(outConns[q]) : q \in {r \in DOMAIN outConns : r[1] = o}}
  BY <1>2 DEF Graph!DownstreamPorts, Graph!SubscribersOf, ToSet
<1>4. \A q \in DOMAIN outConns : ToSet(outConns[q]) \subseteq DOMAIN inConns
  BY <1>1 DEF ToSet
<1>5. Graph!DownstreamOperators(o) = {p[1] : p \in Graph!DownstreamPorts(o)}
  BY <1>3, <1>4 DEF Graph!DownstreamOperators
<1>6. ASSUME NEW p \in Graph!DownstreamPorts(o)
      PROVE  \E c \in ToSet(design.conns) : c.from = o /\ c.to = p[1]
  <2>1. PICK q \in DOMAIN outConns : q[1] = o /\ p \in ToSet(outConns[q])
    BY <1>3, <1>6
  <2>2. PICK c \in ToSet(design.conns) : Start(c) = q /\ p = Target(c)
    BY <1>1, <2>1
  <2>3. c.from = q[1] /\ c.to = p[1]
    BY <2>2 DEF Start, Target
  <2> QED BY <2>1, <2>3
<1>7. ASSUME NEW c \in ToSet(design.conns), c.from = o
      PROVE  Target(c) \in Graph!DownstreamPorts(o) /\ c.to = Target(c)[1]
  <2>1. c.out \in 0..(Outs(o[1], design.n) - 1)
    BY <1>1, <1>7, SoundConnections
  <2>2. Start(c) \in OutPortsOf(o) /\ Start(c)[1] = o
    BY <1>7, <2>1 DEF Start, OutPortsOf
  <2>3. Start(c) \in DOMAIN outConns
    BY <1>1, <2>2
  <2>4. Target(c) \in ToSet(outConns[Start(c)])
    BY <1>1, <2>3
  <2> QED BY <1>3, <2>2, <2>3, <2>4 DEF Target
<1> HIDE DEF Graph!DownstreamOperators, Graph!DownstreamPorts
<1> QED BY <1>5, <1>6, <1>7

\* In a flow that is laid out the operators have been counted along every path: an
\* operator of rank k is reached over k connections, and the nodes on the way to it
\* are those of the levels before its own.
LEMMA PathsCounted ==
  ASSUME DesignsAreSound, BuildInv, Built, NEW level, NEW rank, LaidOut(design, level, rank)
  PROVE  PathCounts("Busy") = {<<o, level[o]>> : o \in ToSet(design.ops)}
<1> DEFINE ops == ToSet(design.ops)
           n == Len(opList)
           One(o) == IF o[1] = "Busy" THEN 1 ELSE 0
           roots == {<<o, One(o)>> : o \in {q \in ToSet(opList) : InPortsOf(q) = {}}}
           On(x) == UNION {{<<d, c[2] + One(d)>> : d \in Graph!DownstreamOperators(c[1])} : c \in x}
           IsCount(f) == f = [k \in 0..n |-> roots \cup IF k = 0 THEN {} ELSE On(f[k - 1])]
           g == CHOOSE f : IsCount(f)
           all == {<<o, level[o]>> : o \in ops}
           T == SUBSET all
           step == [x \in T |-> roots \cup On(x)]
<1>1. PathCounts("Busy") = g[n]
  BY DEF PathCounts
<1>2. opList = design.ops /\ Sound(design)
  BY FinishedPorts
<1>3. n \in Nat /\ design.n \in Nat
  BY <1>2 DEF Sound
<1>4. \A o \in ops : level[o] \in Nat /\ rank[o] \in 0..n
  BY <1>2 DEF LaidOut
<1>5. \A o \in ops : Ins(o[1], design.n) \in Nat /\ (InPortsOf(o) = {} <=> Ins(o[1], design.n) = 0)
  <2> TAKE o \in ops
  <2>1. Ins(o[1], design.n) \in Nat
    BY <1>3, PortNumbers
  <2>2. InPortsOf(o) = {} <=> 0..(Ins(o[1], design.n) - 1) = {}
    BY DEF InPortsOf
  <2> QED BY <2>1, <2>2
<1>6. \A o \in ops : InPortsOf(o) = {} => level[o] = 0 /\ One(o) = 0
  BY <1>5 DEF LaidOut
<1>7. roots \in T
  BY <1>2, <1>6
<1>8. ASSUME NEW u \in ops, NEW v \in Graph!DownstreamOperators(u)
      PROVE  v \in ops /\ level[u] + One(v) = level[v]
  <2>1. PICK c \in ToSet(design.conns) : c.from = u /\ c.to = v
    BY <1>8, Downstream
  <2>2. v \in ops
    BY <1>2, <2>1, SoundConnections
  <2>3. level[v] = level[u] + One(v)
    BY <2>1 DEF LaidOut
  <2> QED BY <2>2, <2>3
<1>9. \A x \in T : On(x) \in T
  <2> SUFFICES ASSUME NEW x \in T, NEW y \in On(x) PROVE y \in all
    OBVIOUS
  <2>1. PICK c \in x : y \in {<<d, c[2] + One(d)>> : d \in Graph!DownstreamOperators(c[1])}
    OBVIOUS
  <2>2. PICK d \in Graph!DownstreamOperators(c[1]) : y = <<d, c[2] + One(d)>>
    BY <2>1
  <2>3. PICK u \in ops : c = <<u, level[u]>>
    OBVIOUS
  <2>4. d \in ops /\ y = <<d, level[d]>>
    BY <1>8, <2>2, <2>3
  <2> QED BY <2>4
<1>10. step \in [T -> T]
  <2>1. \A x \in T : roots \cup On(x) \in T
    BY <1>7, <1>9
  <2> HIDE DEF T, roots, On
  <2> QED BY <2>1
<1> HIDE DEF T, n, roots, On, step, ops, One
<1>11. PICK h \in [0..n -> T] : Follows(h, step, roots, n)
  BY <1>3, <1>7, <1>10, Iterated
<1>12. IsCount(h)
  <2>1. \A k \in 0..n : h[k] = roots \cup IF k = 0 THEN {} ELSE On(h[k - 1])
    <3> TAKE k \in 0..n
    <3>1. CASE k = 0
      BY <1>11, <3>1 DEF Follows
    <3>2. CASE k # 0
      <4>1. k - 1 \in 0..n /\ k \in 1..n
        BY <1>3, <3>2
      <4>2. h[k - 1] \in T
        BY <4>1
      <4>3. h[k] = step[h[k - 1]]
        BY <1>11, <4>1 DEF Follows
      <4>4. h[k] = roots \cup On(h[k - 1])
        BY <4>2, <4>3 DEF step
      <4> QED BY <3>2, <4>4
    <3> QED BY <3>1, <3>2
  <2>2. h = [k \in 0..n |-> h[k]]
    OBVIOUS
  <2> QED BY <2>1, <2>2
<1>13. IsCount(g)
  BY <1>12
<1> HIDE DEF g
<1>14. \A k \in 0..n : g[k] = roots \cup IF k = 0 THEN {} ELSE On(g[k - 1])
  BY <1>13
<1> DEFINE good == {k \in 0..n : /\ g[k] \in T
                                 /\ \A o \in ops : rank[o] <= k => <<o, level[o]>> \in g[k]}
<1>15. ASSUME NEW k \in 0..n, k # 0 => k - 1 \in good PROVE k \in good
  <2>1. g[k] \in T
    <3>1. CASE k = 0
      <4>1. g[k] = roots
        BY <1>14, <3>1
      <4> QED BY <1>7, <4>1
    <3>2. CASE k # 0
      <4>1. g[k] = roots \cup On(g[k - 1]) /\ g[k - 1] \in T
        BY <1>14, <1>15, <3>2
      <4>2. On(g[k - 1]) \in T
        BY <1>9, <4>1
      <4> QED BY <1>7, <4>1, <4>2 DEF T
    <3> QED BY <3>1, <3>2
  <2>2. ASSUME NEW o \in ops, rank[o] <= k PROVE <<o, level[o]>> \in g[k]
    <3>1. CASE InPortsOf(o) = {}
      <4>1. <<o, level[o]>> \in roots
        BY <1>2, <1>6, <3>1 DEF roots, ops
      <4> QED BY <1>14, <4>1
    <3>2. CASE InPortsOf(o) # {}
      <4>1. 0 \in 0..(Ins(o[1], design.n) - 1)
        BY <1>5, <3>2
      <4>2. PICK c \in ToSet(design.conns) : Target(c) = <<o, 0>>
        BY <4>1 DEF LaidOut, ops
      <4>3. c.to = o /\ c.from \in ops /\ rank[c.from] < rank[o]
        <5>1. c.to = o
          BY <4>2 DEF Target
        <5>2. c.from \in ops
          BY <1>2, SoundConnections DEF ops
        <5> QED BY <5>1, <5>2 DEF LaidOut
      <4>4. k # 0 /\ k - 1 \in 0..n /\ rank[c.from] <= k - 1
        BY <1>3, <1>4, <2>2, <4>3
      <4>5. <<c.from, level[c.from]>> \in g[k - 1]
        BY <1>15, <4>3, <4>4
      <4>6. o \in Graph!DownstreamOperators(c.from)
        BY <4>3, Downstream DEF ops
      <4>7. level[c.from] + One(o) = level[o]
        BY <1>8, <4>3, <4>6
      <4>8. <<o, level[o]>> \in On(g[k - 1])
        <5>1. <<o, level[c.from] + One(o)>> \in
                {<<d, <<c.from, level[c.from]>>[2] + One(d)>>
                   : d \in Graph!DownstreamOperators(<<c.from, level[c.from]>>[1])}
          BY <4>6
        <5> QED BY <4>5, <4>7, <5>1 DEF On
      <4> QED BY <1>14, <4>4, <4>8
    <3> QED BY <3>1, <3>2
  <2> QED BY <2>1, <2>2
<1>16. 0..n \subseteq good
  <2>1. 0 \in good
    BY <1>3, <1>15
  <2>2. \A k \in 1..n : k - 1 \in good => k \in good
    <3>1. \A k \in 1..n : k \in 0..n
      OBVIOUS
    <3> HIDE DEF good
    <3> QED BY <1>15, <3>1
  <2> HIDE DEF good
  <2> QED BY <1>3, <2>1, <2>2, UpTo
<1>17. n \in good
  BY <1>3, <1>16
<1>18. g[n] \subseteq all
  BY <1>17 DEF T
<1>19. all \subseteq g[n]
  BY <1>4, <1>17
<1> QED BY <1>1, <1>18, <1>19 DEF ops

\* A finished flow is then as documented.
LEMMA Documented ==
  ASSUME DesignsAreSound, BuildInv, NEW level, NEW rank, LaidOut(design, level, rank), Fed(design)
  PROVE  BuiltAsDocumented
<1> SUFFICES ASSUME Built PROVE BuiltAsDocumented
  BY DEF BuiltAsDocumented
<1> DEFINE ops == ToSet(design.ops)
           paths == PathCounts("Busy")
<1>1. /\ opList = design.ops /\ Sound(design)
      /\ DOMAIN outConns = UNION {OutPortsOf(o) : o \in ToSet(design.ops)}
      /\ DOMAIN inConns = UNION {InPortsOf(o) : o \in ToSet(design.ops)}
      /\ outConns \in [DOMAIN outConns -> Seq(DOMAIN inConns)]
      /\ inConns \in [DOMAIN inConns -> Seq(DOMAIN outConns)]
      /\ \A q \in DOMAIN outConns :
           /\ IsInjective(outConns[q])
           /\ ToSet(outConns[q]) = {Target(c) : c \in {e \in ToSet(design.conns) : Start(e) = q}}
      /\ \A p \in DOMAIN inConns : IsInjective(inConns[p]) /\ ToSet(inConns[p]) = Feeding(design, p)
  BY FinishedPorts
<1>2. ASSUME NEW p \in DOMAIN inConns
      PROVE  Len(inConns[p]) = IF design \in {UnionSink, BarrierSink} /\ p[2] = 1 THEN 2 ELSE 1
  <2>0. PICK o \in ops : p \in InPortsOf(o)
    BY <1>1
  <2>1. PICK i \in 0..(Ins(o[1], design.n) - 1) : p = <<o, i>>
    BY <2>0 DEF InPortsOf
  <2>2. p[2] = i /\ inConns[p] \in Seq(DOMAIN outConns)
    BY <1>1, <2>1
  <2>3. CASE design \in {UnionSink, BarrierSink} /\ i = 1
    <3>1. PICK q, r : q # r /\ Feeding(design, <<o, i>>) = {q, r}
      BY <2>3, Zenon DEF Fed
    <3>2. ToSet(inConns[p]) = {q, r}
      BY <1>1, <2>1, <3>1
    <3>3. Len(inConns[p]) = 2
      BY <1>1, <2>2, <3>1, <3>2, LengthTwo
    <3> QED BY <2>2, <2>3, <3>3
  <2>4. CASE ~(design \in {UnionSink, BarrierSink} /\ i = 1)
    <3>1. PICK q : Feeding(design, <<o, i>>) = {q}
      BY <2>4, Zenon DEF Fed
    <3>2. ToSet(inConns[p]) = {q}
      BY <1>1, <2>1, <3>1
    <3>3. Len(inConns[p]) = 1
      BY <1>1, <2>2, <3>2, LengthOne
    <3> QED BY <2>2, <2>4, <3>3
  <2> QED BY <2>3, <2>4
<1>3. ASSUME NEW q \in DOMAIN outConns PROVE Len(outConns[q]) = 1
  <2>0. PICK o \in ops : q \in OutPortsOf(o)
    BY <1>1
  <2>1. PICK i \in 0..(Outs(o[1], design.n) - 1) : q = <<o, i>>
    BY <2>0 DEF OutPortsOf
  <2>2. PICK c \in ToSet(design.conns) : Start(c) = q
    BY <2>1 DEF LaidOut
  <2>3. \A e \in ToSet(design.conns) : Start(e) = q => e = c
    BY <2>2 DEF LaidOut
  <2>4. ToSet(outConns[q]) = {Target(c)}
    BY <1>1, <2>2, <2>3
  <2> QED BY <1>1, <2>4, LengthOne
<1>4. paths = {<<o, level[o]>> : o \in ops}
  BY PathsCounted
<1> HIDE DEF paths
<1>5. \A c \in paths : \E o \in ops : c = <<o, level[o]>>
  BY <1>4
<1>6. \A o \in ops : <<o, level[o]>> \in paths
  BY <1>4
<1> DEFINE ends == {d \in paths : d[1][1] = "FileSink"}
<1>7. {c[1] : c \in paths} = ops
  <2>1. \A c \in paths : c[1] \in ops
    BY <1>5
  <2>2. \A o \in ops : \E c \in paths : c[1] = o
    BY <1>6
  <2> HIDE DEF ops
  <2> QED BY <2>1, <2>2
<1>8. {c[2] : c \in ends} = {design.depth}
  <2>1. \A o \in ops : o[1] = "FileSink" => level[o] = design.depth
    BY DEF LaidOut
  <2>2. PICK o \in ops : o[1] = "FileSink"
    BY DEF LaidOut
  <2>3. \A c \in ends : c[2] = design.depth
    <3> TAKE c \in ends
    <3>1. PICK u \in ops : c = <<u, level[u]>>
      BY <1>5
    <3>2. u[1] = "FileSink"
      BY <3>1
    <3> QED BY <2>1, <3>1, <3>2
  <2>4. <<o, level[o]>> \in ends /\ <<o, level[o]>>[2] = level[o]
    BY <1>6, <2>2
  <2>5. \E c \in ends : c[2] = design.depth
    BY <2>1, <2>2, <2>4
  <2> HIDE DEF ends
  <2> QED BY <2>3, <2>5
<1> QED BY <1>1, <1>2, <1>3, <1>7, <1>8 DEF paths, ends, BuiltAsDocumented

-----------------------------------------------------------------------------
(***************************************************************************)
(* The names that arrive.                                                 *)
(***************************************************************************)

\* FormatOf, of a design.
Format(d, o) == IF o \in DOMAIN d.formats THEN d.formats[o] ELSE <<>>

\* The sets of names that o pushes, when those of the tuples of port p are always G[p].
Pushes(d, G, o) ==
  IF o[1] = "FileSource" THEN {Named(Format(d, o))}
  ELSE IF o[1] = "TupleGenerator" THEN {Generated}
  ELSE IF o[1] = "Barrier" THEN {UNION {G[<<o, i - 1>>] : i \in 1..d.n}}
  ELSE {NamesPassed(o[1], G[<<o, i>>]) : i \in 0..(Ins(o[1], d.n) - 1)}

\* What is pushed into a port are the names G says, and they suffice.
Supplied(d, G) ==
  /\ d.n # 0
  /\ \A o \in ToSet(d.ops) :
       /\ WellTyped(Format(d, o))
       /\ \A i \in 0..(Ins(o[1], d.n) - 1) :
            IsFiniteSet(G[<<o, i>>]) /\ Suffices(o[1], Format(d, o), G[<<o, i>>])
  /\ \A c \in ToSet(d.conns) : Pushes(d, G, c.from) = {G[Target(c)]}

\* An operator that is given the names of G pushes those that Pushes says.
LEMMA PushedNames ==
  ASSUME DesignsAreSound, BuildInv, Built, NEW G, Supplied(design, G),
         NEW o \in ToSet(design.ops), NEW arrived,
         arrived \subseteq {<<p, Carrying(G[p])>> : p \in DOMAIN inConns}
  PROVE  Pushed(o, arrived) \subseteq {Carrying(D) : D \in Pushes(design, G, o)}
<1> DEFINE n == design.n
           role == o[1]
<1>1. /\ Sound(design) /\ DOMAIN inConns = UNION {InPortsOf(u) : u \in ToSet(design.ops)}
  BY FinishedPorts
<1>2. n \in Nat \ {0} /\ WellTyped(FormatOf(o)) /\ FormatOf(o) = Format(design, o)
  BY <1>1 DEF Sound, Supplied, FormatOf, Format
<1>3. Ins(role, n) \in Nat
  BY <1>2, PortNumbers
<1>4. ASSUME NEW a \in arrived, a[1][1] = o
      PROVE  \E i \in 0..(Ins(role, n) - 1) : a = <<<<o, i>>, Carrying(G[<<o, i>>])>>
  <2>1. PICK p \in DOMAIN inConns : a = <<p, Carrying(G[p])>>
    OBVIOUS
  <2>2. PICK u \in ToSet(design.ops) : p \in InPortsOf(u)
    BY <1>1
  <2>3. PICK i \in 0..(Ins(u[1], design.n) - 1) : p = <<u, i>>
    BY <2>2 DEF InPortsOf
  <2>4. u = o
    BY <1>4, <2>1, <2>3
  <2> QED BY <2>1, <2>3, <2>4
<1>5. CASE Ins(role, n) = 0
  <2>1. role \in {"FileSource", "TupleGenerator"}
    BY <1>2, <1>5 DEF Ins
  <2>2. Pushed(o, arrived) = {Produced(role, FormatOf(o))}
    <3>1. Ins(o[1], design.n) = 0 /\ ~(o[1] = "Barrier")
      BY <1>5, <2>1
    <3> QED BY <3>1, Zenon DEF Pushed
  <2>3. CASE role = "FileSource"
    <3>1. Produced(role, FormatOf(o)) = Carrying(Named(Format(design, o)))
      BY <1>2, <2>3, ProducedNames
    <3>2. Pushes(design, G, o) = {Named(Format(design, o))}
      BY <2>3 DEF Pushes
    <3> QED BY <2>2, <3>1, <3>2
  <2>4. CASE role = "TupleGenerator"
    <3>1. Produced(role, FormatOf(o)) = Carrying(Generated)
      BY <2>4, ProducedNames
    <3>2. Pushes(design, G, o) = {Generated}
      BY <2>4 DEF Pushes
    <3> QED BY <2>2, <3>1, <3>2
  <2> QED BY <2>1, <2>3, <2>4
<1>6. CASE role = "Barrier"
  <2>1. Ins(role, n) = n
    BY <1>6 DEF Ins
  <2>2. Pushed(o, arrived) =
          {Joined([i \in 1..n |-> c[<<o, i - 1>>]]) : c \in OneOfEach(o, arrived)}
    <3>1. ~(Ins(o[1], design.n) = 0) /\ o[1] = "Barrier"
      BY <1>2, <1>6, <2>1
    <3> QED BY <3>1, Zenon DEF Pushed
  <2>3. Pushes(design, G, o) = {UNION {G[<<o, i - 1>>] : i \in 1..n}}
    BY <1>6 DEF Pushes
  <2> DEFINE parts == [i \in 1..n |-> G[<<o, i - 1>>]]
  <2>4. \A i \in 1..n : i - 1 \in 0..(n - 1) /\ IsFiniteSet(parts[i]) /\ parts[i] = G[<<o, i - 1>>]
    <3> TAKE i \in 1..n
    <3>1. i - 1 \in 0..(Ins(role, n) - 1)
      BY <1>2, <2>1
    <3> QED BY <2>1, <3>1 DEF Supplied
  <2> HIDE DEF parts
  <2>5. ASSUME NEW c \in OneOfEach(o, arrived)
        PROVE  Joined([i \in 1..n |-> c[<<o, i - 1>>]]) = Carrying(UNION {G[<<o, i - 1>>] : i \in 1..n})
    <3>1. \A p \in InPortsOf(o) : <<p, c[p]>> \in arrived
      BY DEF OneOfEach
    <3>2. ASSUME NEW i \in 1..n PROVE c[<<o, i - 1>>] = Carrying(parts[i])
      <4>1. <<o, i - 1>> \in InPortsOf(o)
        BY <2>1, <2>4 DEF InPortsOf
      <4>2. <<<<o, i - 1>>, c[<<o, i - 1>>]>> \in arrived
        BY <3>1, <4>1
      <4>3. PICK p \in DOMAIN inConns : <<<<o, i - 1>>, c[<<o, i - 1>>]>> = <<p, Carrying(G[p])>>
        BY <4>2
      <4> QED BY <2>4, <4>3
    <3>3. [i \in 1..n |-> c[<<o, i - 1>>]] = [i \in 1..n |-> Carrying(parts[i])]
      BY <3>2
    <3>4. Joined([i \in 1..n |-> Carrying(parts[i])]) = Carrying(UNION {parts[i] : i \in 1..n})
      <4>1. n \in Nat /\ \A i \in 1..n : IsFiniteSet(parts[i])
        BY <1>2, <2>4
      <4> QED BY <4>1, JoinNames
    <3>5. UNION {parts[i] : i \in 1..n} = UNION {G[<<o, i - 1>>] : i \in 1..n}
      BY <2>4
    <3> QED BY <3>3, <3>4, <3>5
  <2> QED BY <2>2, <2>3, <2>5
<1>7. CASE Ins(role, n) # 0 /\ role # "Barrier"
  <2>1. Pushed(o, arrived) = {Passed(role, a[2]) : a \in {b \in arrived : b[1][1] = o}}
    BY <1>7, Zenon DEF Pushed
  <2>2. role # "FileSource" /\ role # "TupleGenerator"
    BY <1>7 DEF Ins
  <2>3. Pushes(design, G, o) = {NamesPassed(role, G[<<o, i>>]) : i \in 0..(Ins(role, n) - 1)}
    BY <1>7, <2>2 DEF Pushes
  <2>4. ASSUME NEW a \in arrived, a[1][1] = o
        PROVE  \E D \in Pushes(design, G, o) : Passed(role, a[2]) = Carrying(D)
    <3>1. PICK i \in 0..(Ins(role, n) - 1) : a = <<<<o, i>>, Carrying(G[<<o, i>>])>>
      BY <1>4, <2>4
    <3>2. Passed(role, a[2]) = Carrying(NamesPassed(role, G[<<o, i>>]))
      BY <3>1, PassedNames
    <3> QED BY <2>3, <3>2
  <2> QED BY <2>1, <2>4
<1> QED BY <1>5, <1>6, <1>7

\* Then the tuples delivered next are as G says, too.
LEMMA DeliveredNames ==
  ASSUME DesignsAreSound, BuildInv, Built, NEW G, Supplied(design, G), NEW arrived,
         arrived \subseteq {<<p, Carrying(G[p])>> : p \in DOMAIN inConns}
  PROVE  Delivered(arrived) \subseteq {<<p, Carrying(G[p])>> : p \in DOMAIN inConns}
<1>1. /\ opList = design.ops /\ Sound(design)
      /\ DOMAIN outConns = UNION {OutPortsOf(o) : o \in ToSet(design.ops)}
      /\ outConns \in [DOMAIN outConns -> Seq(DOMAIN inConns)]
      /\ \A q \in DOMAIN outConns :
           ToSet(outConns[q]) = {Target(c) : c \in {e \in ToSet(design.conns) : Start(e) = q}}
  BY FinishedPorts
<1> SUFFICES ASSUME NEW o \in ToSet(design.ops), NEW q \in OutPortsOf(o),
                    NEW p \in ToSet(outConns[q]), NEW t \in Pushed(o, arrived)
             PROVE  p \in DOMAIN inConns /\ t = Carrying(G[p])
  BY <1>1 DEF Delivered
<1>2. q \in DOMAIN outConns
  BY <1>1
<1>3. p \in DOMAIN inConns
  BY <1>1, <1>2 DEF ToSet
<1>4. PICK c \in ToSet(design.conns) : Start(c) = q /\ p = Target(c)
  BY <1>1, <1>2
<1>5. c.from = o
  BY <1>4 DEF Start, OutPortsOf
<1>6. Pushes(design, G, o) = {G[p]}
  BY <1>4, <1>5 DEF Supplied
<1>7. t \in {Carrying(D) : D \in Pushes(design, G, o)}
  BY PushedNames
<1> QED BY <1>3, <1>6, <1>7

\* So everything that arrives is, and is digested.
LEMMA Suited ==
  ASSUME DesignsAreSound, BuildInv, NEW G, Supplied(design, G)
  PROVE  TuplesSuitReaders
<1> SUFFICES ASSUME Built, NEW a \in Arrivals
             PROVE  Digests(a[1][1][1], FormatOf(a[1][1]), a[2])
  BY DEF TuplesSuitReaders
<1> DEFINE all == {<<p, Carrying(G[p])>> : p \in DOMAIN inConns}
           T == SUBSET all
           n == Len(opList)
           step == [x \in T |-> Delivered(x)]
           IsWithin(f) == f = [k \in 0..n |-> IF k = 0 THEN {} ELSE Delivered(f[k - 1])]
           g == CHOOSE f : IsWithin(f)
<1>1. Arrivals = g[n]
  BY DEF Arrivals
<1>2. opList = design.ops /\ Sound(design) /\ DOMAIN inConns = UNION {InPortsOf(u) : u \in ToSet(design.ops)}
  BY FinishedPorts
<1>3. n \in Nat
  BY <1>2 DEF Sound
<1>4. {} \in T /\ \A x \in T : Delivered(x) \in T
  BY DeliveredNames
<1>5. step \in [T -> T]
  BY <1>4
<1> HIDE DEF T, n, step
<1>6. PICK h \in [0..n -> T] : Follows(h, step, {}, n)
  BY <1>3, <1>4, <1>5, Iterated
<1>7. IsWithin(h)
  <2>1. \A k \in 0..n : h[k] = IF k = 0 THEN {} ELSE Delivered(h[k - 1])
    <3> TAKE k \in 0..n
    <3>1. CASE k = 0
      BY <1>6, <3>1 DEF Follows
    <3>2. CASE k # 0
      <4>1. k - 1 \in 0..n /\ k \in 1..n
        BY <1>3, <3>2
      <4>2. h[k - 1] \in T /\ h[k] = step[h[k - 1]]
        BY <1>6, <4>1 DEF Follows
      <4> QED BY <3>2, <4>2 DEF step
    <3> QED BY <3>1, <3>2
  <2>2. h = [k \in 0..n |-> h[k]]
    OBVIOUS
  <2> QED BY <2>1, <2>2
<1>8. IsWithin(g)
  BY <1>7
<1> HIDE DEF g
<1>9. \A k \in 0..n : g[k] = IF k = 0 THEN {} ELSE Delivered(g[k - 1])
  BY <1>8
<1> DEFINE good == {k \in 0..n : g[k] \in T}
<1>10. 0..n \subseteq good
  <2>1. 0 \in good
    BY <1>3, <1>4, <1>9
  <2>2. ASSUME NEW k \in 1..n, k - 1 \in good PROVE k \in good
    <3>1. k \in 0..n /\ k # 0
      BY <1>3
    <3> QED BY <1>4, <1>9, <2>2, <3>1
  <2> HIDE DEF good
  <2> QED BY <1>3, <2>1, <2>2, UpTo
<1>11. a \in all
  <2>1. n \in good
    BY <1>3, <1>10
  <2> QED BY <1>1, <2>1 DEF T
<1>12. PICK p \in DOMAIN inConns : a = <<p, Carrying(G[p])>>
  BY <1>11
<1>13. PICK o \in ToSet(design.ops) : p \in InPortsOf(o)
  BY <1>2
<1>14. PICK i \in 0..(Ins(o[1], design.n) - 1) : p = <<o, i>>
  BY <1>13 DEF InPortsOf
<1>15. WellTyped(Format(design, o)) /\ Suffices(o[1], Format(design, o), G[p])
  BY <1>14 DEF Supplied
<1>16. Digests(o[1], Format(design, o), Carrying(G[p]))
  BY <1>15, Digestible
<1>17. FormatOf(o) = Format(design, o) /\ a[1][1] = o /\ a[2] = Carrying(G[p])
  BY <1>12, <1>14 DEF FormatOf, Format
<1> QED BY <1>16, <1>17

\* The fields of a connection, and its ends.
LEMMA Ends ==
  \A u, i, v, j :
    LET c == Conn(u, i, v, j)
    IN c.from = u /\ c.out = i /\ c.to = v /\ c.in = j /\ Start(c) = <<u, i>> /\ Target(c) = <<v, j>>
BY DEF Conn, Start, Target

\* A design whose connections are the values of a function of the output ports.
LEMMA ByPorts ==
  ASSUME NEW d, Sound(d), NEW level, NEW rank, NEW succ,
         \A o \in ToSet(d.ops) :
           /\ level[o] \in Nat /\ rank[o] \in 0..Len(d.ops)
           /\ Ins(o[1], d.n) = 0 => level[o] = 0 /\ o[1] # "Busy"
           /\ o[1] = "FileSink" => level[o] = d.depth
           /\ \A i \in 0..(Ins(o[1], d.n) - 1) : \E c \in ToSet(d.conns) : Target(c) = <<o, i>>
           /\ \A i \in 0..(Outs(o[1], d.n) - 1) : \E c \in ToSet(d.conns) : Start(c) = <<o, i>>,
         \E o \in ToSet(d.ops) : o[1] = "FileSink",
         \A c \in ToSet(d.conns) :
           /\ rank[c.from] < rank[c.to]
           /\ level[c.to] = level[c.from] + IF c.to[1] = "Busy" THEN 1 ELSE 0
           /\ Target(c) = succ[Start(c)]
  PROVE  LaidOut(d, level, rank)
<1>1. ASSUME NEW c \in ToSet(d.conns), NEW e \in ToSet(d.conns), Start(c) = Start(e) PROVE c = e
  <2>1. Target(c) = Target(e)
    BY <1>1
  <2>2. c = Conn(c.from, c.out, c.to, c.in) /\ e = Conn(e.from, e.out, e.to, e.in)
    BY SoundConnections
  <2>3. c.from = e.from /\ c.out = e.out /\ c.to = e.to /\ c.in = e.in
    BY <1>1, <2>1 DEF Start, Target
  <2> QED BY <2>2, <2>3
<1> QED BY <1>1 DEF LaidOut

\* A design in which the names depend on the class of the reader only: first are those
\* that the sources set.
Given(r, names, first) ==
  IF r \in {"FileSource", "TupleGenerator"} THEN first ELSE NamesPassed(r, names[r])
ByClass(names) == [p \in (Classes \X Nat) \X Nat |-> names[p[1][1]]]

\* It is enough to know the names that arrive at the operators of each class.
LEMMA SuppliedByClass ==
  ASSUME NEW d, Sound(d), d.n # 0, ToSet(d.ops) \subseteq Classes \X Nat, NEW names, NEW first,
         \A o \in ToSet(d.ops) :
           /\ o[1] # "Barrier" /\ WellTyped(Format(d, o))
           /\ o[1] = "FileSource" => Named(Format(d, o)) = first
           /\ o[1] = "TupleGenerator" => Generated = first
           /\ Ins(o[1], d.n) # 0 => IsFiniteSet(names[o[1]]) /\ Suffices(o[1], Format(d, o), names[o[1]]),
         \A c \in ToSet(d.conns) : Given(c.from[1], names, first) = names[c.to[1]]
  PROVE  Supplied(d, ByClass(names))
<1> DEFINE G == ByClass(names)
<1>1. d.n \in Nat \ {0}
  BY DEF Sound
<1>2. ASSUME NEW o \in ToSet(d.ops), NEW i \in Nat PROVE G[<<o, i>>] = names[o[1]]
  BY DEF ByClass
<1>3. ASSUME NEW o \in ToSet(d.ops), NEW i \in 0..(Ins(o[1], d.n) - 1)
      PROVE  IsFiniteSet(G[<<o, i>>]) /\ Suffices(o[1], Format(d, o), G[<<o, i>>])
  <2>1. Ins(o[1], d.n) \in Nat /\ Ins(o[1], d.n) # 0 /\ i \in Nat
    BY <1>1, PortNumbers
  <2> QED BY <1>2, <2>1
<1>4. ASSUME NEW c \in ToSet(d.conns) PROVE Pushes(d, G, c.from) = {G[Target(c)]}
  <2>1. /\ c.from \in ToSet(d.ops) /\ c.to \in ToSet(d.ops)
        /\ c.in \in 0..(Ins(c.to[1], d.n) - 1)
    BY SoundConnections
  <2>2. Ins(c.to[1], d.n) \in Nat
    BY <1>1, PortNumbers
  <2>3. G[Target(c)] = names[c.to[1]]
    BY <1>2, <2>1, <2>2 DEF Target
  <2> DEFINE o == c.from
             r == o[1]
  <2>4. CASE r = "FileSource"
    <3>1. Pushes(d, G, o) = {first}
      BY <2>1, <2>4 DEF Pushes
    <3> QED BY <2>3, <2>4, <3>1 DEF Given
  <2>5. CASE r = "TupleGenerator"
    <3>1. Pushes(d, G, o) = {first}
      BY <2>1, <2>5 DEF Pushes
    <3> QED BY <2>3, <2>5, <3>1 DEF Given
  <2>6. CASE r \notin {"FileSource", "TupleGenerator"}
    <3>1. Ins(r, d.n) # 0 /\ Ins(r, d.n) \in Nat
      BY <1>1, <2>6 DEF Ins
    <3>2. Pushes(d, G, o) = {NamesPassed(r, G[<<o, i>>]) : i \in 0..(Ins(r, d.n) - 1)}
      BY <2>1, <2>6 DEF Pushes
    <3>3. \A i \in 0..(Ins(r, d.n) - 1) : G[<<o, i>>] = names[r]
      BY <1>2, <2>1, <3>1
    <3>4. 0 \in 0..(Ins(r, d.n) - 1)
      BY <3>1
    <3>5. Pushes(d, G, o) = {NamesPassed(r, names[r])}
      BY <3>2, <3>3, <3>4
    <3> QED BY <2>3, <2>6, <3>5 DEF Given
  <2> QED BY <2>4, <2>5, <2>6
<1> QED BY <1>1, <1>3, <1>4 DEF Supplied

\* A sequence of three is one of two with the third appended.
LEMMA AppendToTwo ==
  ASSUME NEW S, NEW s \in Seq(S), NEW z \in S
  PROVE  \A u \in Seq(S) : Len(s) = 2 /\ Len(u) = 3 /\ u[1] = s[1] /\ u[2] = s[2] /\ u[3] = z => Append(s, z) = u
<1> DEFINE v == Append(s, z)
<1>1. /\ v \in Seq(S) /\ Len(s) \in Nat /\ Len(v) = Len(s) + 1
      /\ v[Len(s) + 1] = z /\ \A i \in 1..Len(s) : v[i] = s[i]
  OBVIOUS
<1> HIDE DEF v
<1>2. ASSUME NEW u \in Seq(S), Len(s) = 2, Len(u) = 3, u[1] = s[1], u[2] = s[2], u[3] = z
      PROVE  v = u
  <2>1. Len(v) = 3 /\ v[1] = s[1] /\ v[2] = s[2] /\ v[3] = z
    <3>1. 1 \in 1..Len(s) /\ 2 \in 1..Len(s) /\ Len(s) + 1 = 3
      BY <1>2
    <3> QED BY <1>1, <1>2, <3>1
  <2>2. v = [i \in 1..3 |-> v[i]]
    <3>1. v \in Seq(S) /\ Len(v) = 3
      BY <1>1, <2>1
    <3> QED BY <3>1
  <2>3. u = [i \in 1..3 |-> u[i]]
    BY <1>2
  <2>4. \A i \in 1..3 : v[i] = u[i]
    BY <1>2, <2>1
  <2> QED BY <2>2, <2>3, <2>4
<1> QED BY <1>2 DEF v

\* The formats of the topologies.
LEMMA Formats ==
  /\ WellTyped(NameAndGrade) /\ Named(NameAndGrade) = {"name", "grade"} /\ NameAndGrade # <<>>
  /\ WellTyped(WithLineNo) /\ Named(WithLineNo) = Generated
  /\ WellTyped(<< <<"lineNo", "Integer">> >>) /\ Named(<< <<"lineNo", "Integer">> >>) = {"lineNo"}
  /\ WellTyped(Texts(<<"grade">>)) /\ Named(Texts(<<"grade">>)) = {"grade"}
  /\ WellTyped(Texts(<<"name">>)) /\ Named(Texts(<<"name">>)) = {"name"}
  /\ WellTyped(<<>>)
<1> DEFINE name == <<"name", "String">>
           grade == <<"grade", "String">>
           line == <<"lineNo", "Integer">>
<1>1. name \in Typed /\ grade \in Typed /\ line \in Typed
  <2>1. Kind("name") = "String" /\ Kind("grade") = "String" /\ Kind("lineNo") = "Integer"
    BY DEF Kind
  <2> QED BY <2>1 DEF Typed
<1>2. name[1] = "name" /\ grade[1] = "grade" /\ line[1] = "lineNo"
  OBVIOUS
<1>3. /\ Texts(<<"grade">>) = <<grade>> /\ Texts(<<"name">>) = <<name>>
      /\ NameAndGrade = <<name, grade>>
  BY DEF Texts, Text, NameAndGrade
<1> HIDE DEF name, grade, line
<1>4. <<name, grade>> \o <<line>> = <<name, grade, line>>
  <2>1. <<name, grade>> \in Seq(Typed) /\ line \in Typed
    BY <1>1
  <2>2. Append(<<name, grade>>, line) = <<name, grade>> \o <<line>>
    BY <2>1, AppendIsConcat
  <2>3. Append(<<name, grade>>, line) = <<name, grade, line>>
    <3>1. /\ Len(<<name, grade>>) = 2 /\ <<name, grade>>[1] = name /\ <<name, grade>>[2] = grade
          /\ Len(<<name, grade, line>>) = 3 /\ <<name, grade, line>>[1] = name
          /\ <<name, grade, line>>[2] = grade /\ <<name, grade, line>>[3] = line
          /\ <<name, grade, line>> \in Seq(Typed)
      BY <1>1
    <3> QED BY <2>1, <3>1, AppendToTwo
  <2> QED BY <2>2, <2>3
<1>5. WithLineNo = <<name, grade, line>>
  BY <1>3, <1>4 DEF WithLineNo, line
<1>6. ASSUME NEW x \in Typed, NEW y \in Typed, NEW z \in Typed
      PROVE  /\ WellTyped(<<x>>) /\ WellTyped(<<x, y>>) /\ WellTyped(<<x, y, z>>)
             /\ Named(<<x>>) = {x[1]} /\ Named(<<x, y>>) = {x[1], y[1]}
             /\ Named(<<x, y, z>>) = {x[1], y[1], z[1]}
  <2>1. WellTyped(<<x>>) /\ WellTyped(<<x, y>>) /\ WellTyped(<<x, y, z>>)
    BY DEF WellTyped
  <2>2. /\ DOMAIN <<x>> = {1} /\ DOMAIN <<x, y>> = {1, 2} /\ DOMAIN <<x, y, z>> = {1, 2, 3}
    OBVIOUS
  <2>3. Named(<<x>>) = {x[1]}
    BY <2>2 DEF Named
  <2>4. Named(<<x, y>>) = {x[1], y[1]}
    BY <2>2 DEF Named
  <2>5. Named(<<x, y, z>>) = {x[1], y[1], z[1]}
    BY <2>2 DEF Named
  <2> QED BY <2>1, <2>3, <2>4, <2>5
<1>7. WellTyped(<<>>)
  BY DEF WellTyped
<1>8. NameAndGrade # <<>>
  BY <1>3
<1>9. WellTyped(NameAndGrade) /\ Named(NameAndGrade) = {"name", "grade"}
  <2>1. name \in Typed /\ grade \in Typed
    BY <1>1
  <2>2. WellTyped(<<name, grade>>) /\ Named(<<name, grade>>) = {name[1], grade[1]}
    BY <1>6, <2>1
  <2> QED BY <1>2, <1>3, <2>2
<1>10. WellTyped(WithLineNo) /\ Named(WithLineNo) = Generated
  <2>1. Named(<<name, grade, line>>) = {name[1], grade[1], line[1]}
    <3>1. name \in Typed /\ grade \in Typed /\ line \in Typed
      BY <1>1
    <3>2. \A x, y, z \in Typed : Named(<<x, y, z>>) = {x[1], y[1], z[1]}
      BY <1>6
    <3> QED BY <3>1, <3>2
  <2>2. WellTyped(<<name, grade, line>>)
    <3>1. name \in Typed /\ grade \in Typed /\ line \in Typed
      BY <1>1
    <3> QED BY <1>6, <3>1
  <2> QED BY <1>2, <1>5, <2>1, <2>2 DEF Generated
<1>11. WellTyped(<<line>>) /\ Named(<<line>>) = {"lineNo"}
  BY <1>1, <1>2, <1>6
<1>12. /\ WellTyped(Texts(<<"grade">>)) /\ Named(Texts(<<"grade">>)) = {"grade"}
       /\ WellTyped(Texts(<<"name">>)) /\ Named(Texts(<<"name">>)) = {"name"}
  BY <1>1, <1>2, <1>3, <1>6
<1> QED BY <1>7, <1>8, <1>9, <1>10, <1>11, <1>12 DEF line

\* What a design has if its flows are as documented.
Orderly(d) ==
  /\ \E level, rank : LaidOut(d, level, rank)
  /\ Fed(d)
  /\ \E G : Supplied(d, G)

\* The names that arrive in the flows of the topologies: the operators in numbered also
\* get a sequence number.
RoleNames(numbered) ==
  [r \in Classes |-> IF r = "Timestamper" THEN Generated
                     ELSE IF r \in numbered THEN Generated \cup {"Timestamp", "seqNo"}
                     ELSE Generated \cup {"Timestamp"}]

\* There are finitely many of them.
LEMMA FiniteNames ==
  /\ IsFiniteSet(Generated) /\ IsFiniteSet({"name", "grade"})
  /\ \A numbered : \A r \in Classes : IsFiniteSet(RoleNames(numbered)[r])
<1> DEFINE five == {"name", "grade", "lineNo", "Timestamp", "seqNo"}
<1>1. IsFiniteSet(five)
  <2> DEFINE s2 == {"name"} \cup {"grade"}
             s3 == s2 \cup {"lineNo"}
             s4 == s3 \cup {"Timestamp"}
             s5 == s4 \cup {"seqNo"}
  <2>1. IsFiniteSet(s2)
    BY FS_Singleton, FS_AddElement
  <2> HIDE DEF s2
  <2>2. IsFiniteSet(s3)
    BY <2>1, FS_AddElement
  <2> HIDE DEF s3
  <2>3. IsFiniteSet(s4)
    BY <2>2, FS_AddElement
  <2> HIDE DEF s4
  <2>4. IsFiniteSet(s5)
    BY <2>3, FS_AddElement
  <2>5. s5 = five
    BY DEF s4, s3, s2
  <2> QED BY <2>4, <2>5
<1>2. \A s : s \subseteq five => IsFiniteSet(s)
  BY <1>1, FS_Subset
<1>3. /\ Generated \subseteq five /\ {"name", "grade"} \subseteq five
      /\ Generated \cup {"Timestamp", "seqNo"} \subseteq five /\ Generated \cup {"Timestamp"} \subseteq five
  BY DEF Generated
<1> HIDE DEF five
<1>4. /\ IsFiniteSet(Generated) /\ IsFiniteSet({"name", "grade"})
      /\ IsFiniteSet(Generated \cup {"Timestamp", "seqNo"}) /\ IsFiniteSet(Generated \cup {"Timestamp"})
  BY <1>2, <1>3
<1> QED BY <1>4 DEF RoleNames

\* The names of the tests with four files.
LEMMA FourFilesNames == UnionSink.name = "Union" /\ BarrierSink.name = "Barrier"
<1>1. \A join, s, t : FourFiles(join, s, t).name = join[1]
  BY DEF FourFiles
<1>2. Node("Union", 0)[1] = "Union" /\ Node("Barrier", 0)[1] = "Barrier"
  BY DEF Node
<1> QED BY <1>1, <1>2 DEF UnionSink, BarrierSink

\* The connections of FileFilterSink_test.
LEMMA FilterConnections ==
  FilterSink.conns = <<Conn(Node("FileSource", 0), 0, Node("Filter", 0), 0),
                       Conn(Node("Filter", 0), 0, Node("Filter", 1), 0),
                       Conn(Node("Filter", 1), 0, Node("FileSink", 0), 0)>>
<1> DEFINE src == Node("FileSource", 0)
           snk == Node("FileSink", 0)
           flt0 == Node("Filter", 0)
           flt1 == Node("Filter", 1)
           c1 == Conn(src, 0, flt0, 0)
           c2 == Conn(flt0, 0, flt1, 0)
           c3 == Conn(flt1, 0, snk, 0)
           knot(i) == [in |-> 0, op |-> Node("Filter", i), out |-> 0]
           k1 == FromKnot(src, 0, knot(0))
           k2 == Extended(k1, knot(1))
<1>1. k1.conns = <<c1>> /\ k1.out = 0
  BY DEF FromKnot
<1>2. Last(<<c1>>) = c1 /\ c1.to = flt0
  BY DEF Last, Conn
<1>3. k2.conns = Append(<<c1>>, c2) /\ k2.out = 0
  BY <1>1, <1>2 DEF Extended
<1>4. FilterSink.conns = Closed(k2, snk, 0)
  BY DEF FilterSink
<1> HIDE DEF k1, k2, c1, c2
<1>5. Last(k2.conns) = c2
  BY <1>3 DEF Last
<1>6. c2.to = flt1
  BY DEF c2, Conn
<1>7. Closed(k2, snk, 0) = Append(Append(<<c1>>, c2), c3)
  BY <1>3, <1>5, <1>6 DEF Closed
<1>8. FilterSink.conns = <<c1, c2, c3>>
  BY <1>4, <1>7
<1> QED BY <1>8 DEF c1, c2, c3

\* The flow of FileFilterSink_test: tuples come with all the attributes, on one level.
LEMMA FilterSinkOrderly == Orderly(FilterSink)
<1> DEFINE src == Node("FileSource", 0)
           snk == Node("FileSink", 0)
           flt0 == Node("Filter", 0)
           flt1 == Node("Filter", 1)
           d == FilterSink
           c1 == Conn(src, 0, flt0, 0)
           c2 == Conn(flt0, 0, flt1, 0)
           c3 == Conn(flt1, 0, snk, 0)
           level == [o \in Classes \X Nat |-> 0]
           rank == [o \in Classes \X Nat |-> IF o[1] = "FileSource" THEN 0
                                             ELSE IF o[1] = "FileSink" THEN 3 ELSE o[2] + 1]
           succ == [p \in (Classes \X Nat) \X Nat |->
                      IF p[1] = src THEN <<flt0, 0>> ELSE IF p[1] = flt0 THEN <<flt1, 0>> ELSE <<snk, 0>>]
           D == {"name", "grade"}
           names == [r \in Classes |-> D]
<1>1. Sound(d) /\ WithoutFanIn(d) /\ d.n = 1 /\ d.depth = 0
  BY FilterSinkSound DEF FilterSink
<1>2. d.ops = <<src, flt0, flt1, snk>>
  BY DEF FilterSink
<1>3. ToSet(d.ops) = {src, flt0, flt1, snk} /\ Len(d.ops) = 4
  BY <1>2, GatherFew DEF Gathers
<1>4. ToSet(d.conns) = {c1, c2, c3}
  <2>1. d.conns = <<c1, c2, c3>>
    BY FilterConnections
  <2> HIDE DEF c1, c2, c3, d
  <2> QED BY <2>1, GatherFew DEF Gathers
<1>5. /\ \A o \in {src, flt0, flt1, snk} : o \in Classes \X Nat
      /\ src[1] = "FileSource" /\ flt0[1] = "Filter" /\ flt1[1] = "Filter" /\ snk[1] = "FileSink"
      /\ flt0[2] = 0 /\ flt1[2] = 1
      /\ src # flt0 /\ src # flt1 /\ src # snk /\ flt0 # flt1 /\ flt0 # snk /\ flt1 # snk
  BY DEF Node, Classes
<1>6. /\ Format(d, src) = NameAndGrade /\ Format(d, snk) = NameAndGrade
      /\ Format(d, flt0) = Texts(<<"grade">>) /\ Format(d, flt1) = Texts(<<"name">>)
  <2>1. d.formats = Together(Together(Columns(src, NameAndGrade), Columns(snk, NameAndGrade)),
                             Together(Columns(flt0, Texts(<<"grade">>)), Columns(flt1, Texts(<<"name">>))))
    BY DEF FilterSink
  <2> HIDE DEF src, snk, flt0, flt1, d
  <2> QED BY <1>5, <2>1 DEF Format, Together, Columns
<1>7. /\ \A u \in {src, flt0, flt1} : Outs(u[1], 1) = 1
      /\ Outs(snk[1], 1) = 0 /\ Ins(src[1], 1) = 0
      /\ \A u \in {flt0, flt1, snk} : Ins(u[1], 1) = 1
  BY <1>5 DEF Outs, Ins
<1>8. d \notin {UnionSink, BarrierSink}
  <2>1. d.name = "filterSink"
    BY DEF FilterSink
  <2> HIDE DEF d
  <2> QED BY <2>1, FourFilesNames
<1>9. /\ c1.from = src /\ c1.to = flt0 /\ Start(c1) = <<src, 0>> /\ Target(c1) = <<flt0, 0>>
      /\ c2.from = flt0 /\ c2.to = flt1 /\ Start(c2) = <<flt0, 0>> /\ Target(c2) = <<flt1, 0>>
      /\ c3.from = flt1 /\ c3.to = snk /\ Start(c3) = <<flt1, 0>> /\ Target(c3) = <<snk, 0>>
  BY Ends
<1> HIDE DEF src, snk, flt0, flt1, d, c1, c2, c3
<1>10. LaidOut(d, level, rank)
  <2>1. /\ level[src] = 0 /\ level[flt0] = 0 /\ level[flt1] = 0 /\ level[snk] = 0
        /\ rank[src] = 0 /\ rank[flt0] = 1 /\ rank[flt1] = 2 /\ rank[snk] = 3
    BY <1>5
  <2>2. succ[<<src, 0>>] = <<flt0, 0>> /\ succ[<<flt0, 0>>] = <<flt1, 0>> /\ succ[<<flt1, 0>>] = <<snk, 0>>
    BY <1>5
  <2> HIDE DEF level, rank, succ
  <2>3. \A i \in 0..(1 - 1) : i = 0
    OBVIOUS
  <2>4. ASSUME NEW o \in ToSet(d.ops)
        PROVE  /\ level[o] \in Nat /\ rank[o] \in 0..Len(d.ops)
               /\ Ins(o[1], d.n) = 0 => level[o] = 0 /\ o[1] # "Busy"
               /\ o[1] = "FileSink" => level[o] = d.depth
               /\ \A i \in 0..(Ins(o[1], d.n) - 1) : \E c \in ToSet(d.conns) : Target(c) = <<o, i>>
               /\ \A i \in 0..(Outs(o[1], d.n) - 1) : \E c \in ToSet(d.conns) : Start(c) = <<o, i>>
    <3>1. CASE o = src
      BY <1>1, <1>3, <1>4, <1>5, <1>7, <1>9, <2>1, <2>3, <3>1
    <3>2. CASE o = flt0
      BY <1>1, <1>3, <1>4, <1>5, <1>7, <1>9, <2>1, <2>3, <3>2
    <3>3. CASE o = flt1
      BY <1>1, <1>3, <1>4, <1>5, <1>7, <1>9, <2>1, <2>3, <3>3
    <3>4. CASE o = snk
      BY <1>1, <1>3, <1>4, <1>5, <1>7, <1>9, <2>1, <2>3, <3>4
    <3> QED BY <1>3, <3>1, <3>2, <3>3, <3>4
  <2>5. \E o \in ToSet(d.ops) : o[1] = "FileSink"
    BY <1>3, <1>5
  <2>6. ASSUME NEW c \in ToSet(d.conns)
        PROVE  /\ rank[c.from] < rank[c.to]
               /\ level[c.to] = level[c.from] + IF c.to[1] = "Busy" THEN 1 ELSE 0
               /\ Target(c) = succ[Start(c)]
    BY <1>4, <1>5, <1>9, <2>1, <2>2
  <2> QED BY <1>1, <2>4, <2>5, <2>6, ByPorts
<1>11. Supplied(d, ByClass(names))
  <2>1. \A r \in Classes : names[r] = D /\ IsFiniteSet(names[r])
    BY FiniteNames
  <2>2. \A o \in ToSet(d.ops) : o \in Classes \X Nat /\ o[1] \in Classes
    BY <1>3, <1>5
  <2> HIDE DEF names
  <2>3. ASSUME NEW o \in ToSet(d.ops)
        PROVE  /\ o[1] # "Barrier" /\ WellTyped(Format(d, o))
               /\ o[1] = "FileSource" => Named(Format(d, o)) = D
               /\ o[1] = "TupleGenerator" => Generated = D
               /\ Ins(o[1], d.n) # 0 => IsFiniteSet(names[o[1]]) /\ Suffices(o[1], Format(d, o), names[o[1]])
    <3>1. WellTyped(Format(d, o)) /\ Named(Format(d, o)) \subseteq D
      BY <1>3, <1>6, Formats
    <3>2. o[1] = "FileSource" => Named(Format(d, o)) = D
      BY <1>3, <1>5, <1>6, Formats
    <3>3. o[1] # "Barrier" /\ o[1] # "TupleGenerator"
      BY <1>3, <1>5
    <3>4. o[1] = "FileSink" => Format(d, o) # <<>>
      BY <1>3, <1>5, <1>6, Formats
    <3>5. o[1] \in {"FileSource", "Filter", "FileSink"}
      BY <1>3, <1>5
    <3>6. Suffices(o[1], Format(d, o), D)
      BY <3>1, <3>4, <3>5 DEF Suffices
    <3> QED BY <2>1, <2>2, <3>1, <3>2, <3>3, <3>6
  <2>4. ASSUME NEW c \in ToSet(d.conns) PROVE Given(c.from[1], names, D) = names[c.to[1]]
    <3>1. c.from[1] \in {"FileSource", "Filter"} /\ c.from[1] \in Classes /\ c.to[1] \in Classes
      BY <1>3, <1>4, <1>5, <1>9, <2>2
    <3>2. NamesPassed("Filter", D) = D
      BY DEF NamesPassed
    <3> QED BY <2>1, <3>1, <3>2 DEF Given
  <2>5. d.n # 0 /\ ToSet(d.ops) \subseteq Classes \X Nat
    BY <1>1, <2>2
  <2> QED BY <1>1, <2>3, <2>4, <2>5, SuppliedByClass
<1>12. Fed(d)
  BY <1>1, <1>8, <1>10, FedOnce
<1>13. Orderly(d)
  <2> HIDE DEF level, rank, names
  <2> QED BY <1>10, <1>11, <1>12 DEF Orderly
<1> QED BY <1>13 DEF d

\* The operators and the connections of the tests with four files.
FourNodes(join) ==
  {Node("FileSource", 1), Node("FileSource", 2), Node("FileSource", 3), Node("FileSource", 4), join,
   Node("FileSink", 0)}
FourLinks(join) ==
  {Conn(Node("FileSource", 1), 0, join, 0), Conn(Node("FileSource", 2), 0, join, 1),
   Conn(Node("FileSource", 3), 0, join, 1), Conn(Node("FileSource", 4), 0, join, 2),
   Conn(join, 0, Node("FileSink", 0), 0)}

\* They are those that the constructor adds; and the formats are those of the files.
LEMMA FourFilesParts ==
  ASSUME NEW join, join \in {Node("Union", 0), Node("Barrier", 0)}, NEW s, NEW t
  PROVE  /\ ToSet(FourFiles(join, s, t).ops) = FourNodes(join) /\ Len(FourFiles(join, s, t).ops) = 6
         /\ ToSet(FourFiles(join, s, t).conns) = FourLinks(join)
         /\ \A i \in 1..4 : Format(FourFiles(join, s, t), Node("FileSource", i)) = s[i]
         /\ Format(FourFiles(join, s, t), Node("FileSink", 0)) = t
         /\ Format(FourFiles(join, s, t), join) = <<>>
<1> DEFINE d == FourFiles(join, s, t)
           src(i) == Node("FileSource", i)
           snk == Node("FileSink", 0)
           body == [i \in 1..4 |-> <<src(i)>>]
           J == [i \in 1..4 |-> {src(i)}]
           first == FlattenSeq([k \in 1..(5 - 1) |-> body[1 + k - 1]])
           c1 == Conn(src(1), 0, join, 0)
           c2 == Conn(src(2), 0, join, 1)
           c3 == Conn(src(3), 0, join, 1)
           c4 == Conn(src(4), 0, join, 2)
           c5 == Conn(join, 0, snk, 0)
           cs == <<c1, c2, c3, c4, c5>>
           sources == [o \in {src(j) : j \in 1..4} |-> s[o[2]]]
<1>1. d.ops = first \o <<join, snk>> /\ d.conns = cs /\ d.formats = Together(sources, Columns(snk, t))
  <2>1. \A k \in 1..(5 - 1) : body[1 + k - 1] = <<src(1 + k - 1)>>
    OBVIOUS
  <2>2. first = Loop(1, 5, LAMBDA i : <<src(i)>>)
    BY <2>1 DEF Loop
  <2> HIDE DEF first
  <2> QED BY <2>2 DEF FourFiles
<1>2. /\ \A i : src(i)[2] = i /\ src(i) # snk /\ src(i) # join
      /\ snk # join
  BY DEF Node
<1> HIDE DEF src, snk, d
<1>3. Gathers(first, All(J, 1, 5 - 1), (5 - 1) * 1)
  <2>1. \A i \in 1..(5 - 1) : Gathers(body[i], J[i], 1)
    <3>1. \A i \in 1..(5 - 1) : body[i] = <<src(i)>> /\ J[i] = {src(i)}
      OBVIOUS
    <3>2. \A i : Gathers(<<src(i)>>, {src(i)}, 1)
      BY GatherFew
    <3> HIDE DEF body, J
    <3> QED BY <3>1, <3>2
  <2>2. 1 \in Nat /\ 5 \in Nat /\ 1 <= 5
    OBVIOUS
  <2> HIDE DEF body, J
  <2> QED BY <2>1, <2>2, GatherLoop
<1>4. All(J, 1, 5 - 1) = {src(1), src(2), src(3), src(4)}
  BY DEF All
<1>5. Gathers(<<join, snk>>, {join, snk}, 2)
  BY GatherFew
<1> HIDE DEF first, J
<1>6. Gathers(first \o <<join, snk>>, All(J, 1, 5 - 1) \cup {join, snk}, (5 - 1) * 1 + 2)
  BY <1>3, <1>5, GatherConcat
<1>7. (5 - 1) * 1 + 2 = 6
  OBVIOUS
<1>8. ToSet(d.ops) = {src(1), src(2), src(3), src(4), join, snk} /\ Len(d.ops) = 6
  BY <1>1, <1>4, <1>6, <1>7 DEF Gathers
<1>9. ToSet(d.conns) = {c1, c2, c3, c4, c5}
  <2> HIDE DEF c1, c2, c3, c4, c5
  <2> QED BY <1>1, GatherFew DEF Gathers
<1>10. \A i \in 1..4 : Format(d, src(i)) = s[i]
  BY <1>1, <1>2 DEF Format, Together
<1>11. Format(d, snk) = t
  BY <1>1, <1>2 DEF Format, Together, Columns
<1>12. Format(d, join) = <<>>
  BY <1>1, <1>2 DEF Format, Together, Columns
<1> QED BY <1>8, <1>9, <1>10, <1>11, <1>12 DEF src, snk, d, FourNodes, FourLinks

\* They are on one level, and the middle port is fed by two of the files.
LEMMA FourFilesLaidOut ==
  ASSUME NEW join, join \in {Node("Union", 0), Node("Barrier", 0)}, NEW s, NEW t,
         FourFiles(join, s, t) \in {UnionSink, BarrierSink}
  PROVE  LET d == FourFiles(join, s, t)
         IN (\E level, rank : LaidOut(d, level, rank)) /\ Fed(d)
<1> DEFINE d == FourFiles(join, s, t)
           src(i) == Node("FileSource", i)
           snk == Node("FileSink", 0)
           c1 == Conn(src(1), 0, join, 0)
           c2 == Conn(src(2), 0, join, 1)
           c3 == Conn(src(3), 0, join, 1)
           c4 == Conn(src(4), 0, join, 2)
           c5 == Conn(join, 0, snk, 0)
           level == [o \in Classes \X Nat |-> 0]
           rank == [o \in Classes \X Nat |-> IF o[1] = "FileSource" THEN 0
                                             ELSE IF o[1] = "FileSink" THEN 2 ELSE 1]
           succ == [p \in (Classes \X Nat) \X Nat |->
                      IF p[1] = join THEN <<snk, 0>> ELSE IF p[1][2] = 1 THEN <<join, 0>>
                      ELSE IF p[1][2] = 4 THEN <<join, 2>> ELSE <<join, 1>>]
<1>1. Sound(d) /\ d.n = 3 /\ d.depth = 0
  BY FourFilesSound DEF FourFiles
<1>2. /\ ToSet(d.ops) = {src(1), src(2), src(3), src(4), join, snk} /\ Len(d.ops) = 6
      /\ ToSet(d.conns) = {c1, c2, c3, c4, c5}
  <2>1. ToSet(d.ops) = FourNodes(join) /\ Len(d.ops) = 6 /\ ToSet(d.conns) = FourLinks(join)
    BY FourFilesParts
  <2> HIDE DEF d
  <2> QED BY <2>1 DEF FourNodes, FourLinks
<1>3. /\ \A i \in 1..4 : src(i) \in Classes \X Nat /\ src(i)[1] = "FileSource" /\ src(i)[2] = i /\ src(i) # join
      /\ snk \in Classes \X Nat /\ snk[1] = "FileSink" /\ snk # join
      /\ join \in Classes \X Nat /\ join[1] \in {"Union", "Barrier"}
      /\ src(2) # src(3)
  BY DEF Node, Classes
<1>4. /\ \A i : Outs(src(i)[1], 3) = 1 /\ Ins(src(i)[1], 3) = 0
      /\ Outs(join[1], 3) = 1 /\ Ins(join[1], 3) = 3
      /\ Outs(snk[1], 3) = 0 /\ Ins(snk[1], 3) = 1
  BY DEF Node, Outs, Ins
<1>5. /\ c1.from = src(1) /\ c1.to = join /\ Start(c1) = <<src(1), 0>> /\ Target(c1) = <<join, 0>>
      /\ c2.from = src(2) /\ c2.to = join /\ Start(c2) = <<src(2), 0>> /\ Target(c2) = <<join, 1>>
      /\ c3.from = src(3) /\ c3.to = join /\ Start(c3) = <<src(3), 0>> /\ Target(c3) = <<join, 1>>
      /\ c4.from = src(4) /\ c4.to = join /\ Start(c4) = <<src(4), 0>> /\ Target(c4) = <<join, 2>>
      /\ c5.from = join /\ c5.to = snk /\ Start(c5) = <<join, 0>> /\ Target(c5) = <<snk, 0>>
  BY Ends
<1>6. 1 \in 1..4 /\ 2 \in 1..4 /\ 3 \in 1..4 /\ 4 \in 1..4
  OBVIOUS
<1>7. /\ \A i \in 0..(1 - 1) : i = 0
      /\ \A i \in 0..(3 - 1) : i = 0 \/ i = 1 \/ i = 2
      /\ \A i \in 0..(0 - 1) : FALSE
  OBVIOUS
<1> HIDE DEF src, snk, d, c1, c2, c3, c4, c5
<1>8. LaidOut(d, level, rank)
  <2>1. /\ \A o \in Classes \X Nat : level[o] = 0
        /\ \A i \in 1..4 : rank[src(i)] = 0
        /\ rank[join] = 1 /\ rank[snk] = 2
    BY <1>3
  <2>2. /\ succ[<<src(1), 0>>] = <<join, 0>> /\ succ[<<src(2), 0>>] = <<join, 1>>
        /\ succ[<<src(3), 0>>] = <<join, 1>> /\ succ[<<src(4), 0>>] = <<join, 2>>
        /\ succ[<<join, 0>>] = <<snk, 0>>
    BY <1>3, <1>6
  <2> HIDE DEF level, rank, succ
  <2>3. ASSUME NEW o \in ToSet(d.ops)
        PROVE  /\ level[o] \in Nat /\ rank[o] \in 0..Len(d.ops)
               /\ Ins(o[1], d.n) = 0 => level[o] = 0 /\ o[1] # "Busy"
               /\ o[1] = "FileSink" => level[o] = d.depth
    BY <1>1, <1>2, <1>3, <1>4, <1>6, <2>1
  <2>4. ASSUME NEW o \in ToSet(d.ops)
        PROVE  \A i \in 0..(Ins(o[1], d.n) - 1) : \E c \in ToSet(d.conns) : Target(c) = <<o, i>>
    <3>1. CASE o = join
      BY <1>1, <1>2, <1>4, <1>5, <1>7, <3>1
    <3>2. CASE o = snk
      BY <1>1, <1>2, <1>4, <1>5, <1>7, <3>2
    <3>3. CASE o \in {src(1), src(2), src(3), src(4)}
      BY <1>1, <1>4, <1>7, <3>3
    <3> QED BY <1>2, <3>1, <3>2, <3>3
  <2>5. ASSUME NEW o \in ToSet(d.ops)
        PROVE  \A i \in 0..(Outs(o[1], d.n) - 1) : \E c \in ToSet(d.conns) : Start(c) = <<o, i>>
    <3>1. CASE o = snk
      BY <1>1, <1>4, <1>7, <3>1
    <3>2. CASE o # snk
      BY <1>1, <1>2, <1>4, <1>5, <1>7, <3>2
    <3> QED BY <3>1, <3>2
  <2>6. \E o \in ToSet(d.ops) : o[1] = "FileSink"
    BY <1>2, <1>3
  <2>7. ASSUME NEW c \in ToSet(d.conns)
        PROVE  /\ rank[c.from] < rank[c.to]
               /\ level[c.to] = level[c.from] + IF c.to[1] = "Busy" THEN 1 ELSE 0
               /\ Target(c) = succ[Start(c)]
    <3>1. Target(c) = succ[Start(c)]
      BY <1>2, <1>5, <2>2
    <3>2. rank[c.from] < rank[c.to]
      BY <1>2, <1>5, <1>6, <2>1
    <3>3. c.from \in Classes \X Nat /\ c.to \in Classes \X Nat /\ c.to[1] # "Busy"
      BY <1>2, <1>3, <1>5, <1>6
    <3> QED BY <2>1, <3>1, <3>2, <3>3
  <2> QED BY <1>1, <2>3, <2>4, <2>5, <2>6, <2>7, ByPorts
<1>9. Fed(d)
  <2>1. /\ Feeding(d, <<join, 0>>) = {<<src(1), 0>>} /\ Feeding(d, <<join, 2>>) = {<<src(4), 0>>}
        /\ Feeding(d, <<join, 1>>) = {<<src(2), 0>>, <<src(3), 0>>} /\ Feeding(d, <<snk, 0>>) = {<<join, 0>>}
    BY <1>2, <1>3, <1>5 DEF Feeding
  <2>2. <<src(2), 0>> # <<src(3), 0>>
    BY <1>3
  <2>3. ASSUME NEW o \in ToSet(d.ops), NEW i \in 0..(Ins(o[1], d.n) - 1)
        PROVE  IF i = 1 THEN \E q, r : q # r /\ Feeding(d, <<o, i>>) = {q, r}
               ELSE \E q : Feeding(d, <<o, i>>) = {q}
    <3>1. CASE o = join
      <4>1. i = 0 \/ i = 1 \/ i = 2
        BY <1>1, <1>4, <1>7, <3>1
      <4> QED BY <2>1, <2>2, <3>1, <4>1
    <3>2. CASE o = snk
      BY <1>1, <1>4, <1>7, <2>1, <3>2
    <3>3. CASE o \in {src(1), src(2), src(3), src(4)}
      BY <1>1, <1>4, <1>7, <3>3
    <3> QED BY <1>2, <3>1, <3>2, <3>3
  <2>4. d \in {UnionSink, BarrierSink}
    BY DEF d
  <2> QED BY <2>3, <2>4 DEF Fed
<1>10. (\E l, r : LaidOut(d, l, r)) /\ Fed(d)
  <2> HIDE DEF level, rank
  <2> QED BY <1>8, <1>9
<1> QED BY <1>10 DEF d

\* FileUnionSink_test.
LEMMA UnionSinkOrderly == Orderly(UnionSink)
<1> DEFINE join == Node("Union", 0)
           s == [i \in 1..4 |-> NameAndGrade]
           d == FourFiles(join, s, NameAndGrade)
           src(i) == Node("FileSource", i)
           snk == Node("FileSink", 0)
           D == {"name", "grade"}
           names == [r \in Classes |-> D]
<1>1. d = UnionSink
  BY DEF UnionSink
<1>2. (\E level, rank : LaidOut(d, level, rank)) /\ Fed(d)
  <2> HIDE DEF s
  <2>1. FourFiles(join, s, NameAndGrade) \in {UnionSink, BarrierSink} /\ join \in {Node("Union", 0), Node("Barrier", 0)}
    BY <1>1
  <2> HIDE DEF join
  <2> QED BY <2>1, FourFilesLaidOut
<1>3. Sound(d) /\ d.n = 3
  <2>1. \A x : FourFiles(join, x, NameAndGrade).n = 3
    BY DEF FourFiles
  <2> HIDE DEF s
  <2> QED BY <2>1, FourFilesSound
<1>4. /\ ToSet(d.ops) = FourNodes(join) /\ ToSet(d.conns) = FourLinks(join)
      /\ \A i \in 1..4 : Format(d, src(i)) = s[i]
      /\ Format(d, snk) = NameAndGrade /\ Format(d, join) = <<>>
  <2> HIDE DEF s
  <2> QED BY FourFilesParts
<1>5. ASSUME NEW o \in ToSet(d.ops)
      PROVE  /\ o \in Classes \X Nat /\ o[1] \in {"FileSource", "Union", "FileSink"}
             /\ o[1] # "Union" => Format(d, o) = NameAndGrade
             /\ o[1] = "Union" => Format(d, o) = <<>>
  <2>1. 1 \in 1..4 /\ 2 \in 1..4 /\ 3 \in 1..4 /\ 4 \in 1..4
    OBVIOUS
  <2>2. \A i \in 1..4 : Format(d, src(i)) = NameAndGrade
    BY <1>4
  <2>3. o \in Classes \X Nat /\ o[1] \in {"FileSource", "Union", "FileSink"}
    BY <1>4 DEF FourNodes, Node, Classes
  <2>4. o[1] = "Union" => o = join
    BY <1>4 DEF FourNodes, Node
  <2>5. o[1] # "Union" => o \in {src(1), src(2), src(3), src(4), snk}
    BY <1>4 DEF FourNodes, Node
  <2> HIDE DEF src, snk, join, d
  <2>6. o[1] # "Union" => Format(d, o) = NameAndGrade
    BY <1>4, <2>1, <2>2, <2>5
  <2>7. o[1] = "Union" => Format(d, o) = <<>>
    BY <1>4, <2>4
  <2> QED BY <2>3, <2>6, <2>7
<1>6. ASSUME NEW c \in ToSet(d.conns) PROVE c.from \in ToSet(d.ops) /\ c.to \in ToSet(d.ops)
  BY <1>3, SoundConnections
<1>7. ASSUME NEW c \in ToSet(d.conns) PROVE c.from[1] \in {"FileSource", "Union"}
  <2>1. c.from \in {src(1), src(2), src(3), src(4), join}
    <3>1. c \in FourLinks(join)
      BY <1>4
    <3> HIDE DEF d
    <3> QED BY <3>1, Ends DEF FourLinks
  <2> QED BY <2>1 DEF Node
<1> HIDE DEF d
<1>8. Supplied(d, ByClass(names))
  <2>1. \A r \in Classes : names[r] = D /\ IsFiniteSet(names[r])
    BY FiniteNames
  <2> HIDE DEF names
  <2>2. ASSUME NEW o \in ToSet(d.ops)
        PROVE  /\ o[1] # "Barrier" /\ WellTyped(Format(d, o))
               /\ o[1] = "FileSource" => Named(Format(d, o)) = D
               /\ o[1] = "TupleGenerator" => Generated = D
               /\ Ins(o[1], d.n) # 0 => IsFiniteSet(names[o[1]]) /\ Suffices(o[1], Format(d, o), names[o[1]])
    <3>1. WellTyped(Format(d, o))
      BY <1>5, Formats
    <3>2. o[1] = "FileSource" => Named(Format(d, o)) = D
      BY <1>5, Formats
    <3>3. o[1] \in Classes
      BY <1>5 DEF Classes
    <3>4. o[1] = "FileSink" => Format(d, o) # <<>> /\ Named(Format(d, o)) \subseteq D
      BY <1>5, Formats
    <3>5. Suffices(o[1], Format(d, o), D)
      BY <1>5, <3>4 DEF Suffices
    <3> QED BY <1>5, <2>1, <3>1, <3>2, <3>3, <3>5
  <2>3. ASSUME NEW c \in ToSet(d.conns) PROVE Given(c.from[1], names, D) = names[c.to[1]]
    <3>1. c.from[1] \in Classes /\ c.to[1] \in Classes
      BY <1>5, <1>6
    <3>2. NamesPassed("Union", D) = D
      BY DEF NamesPassed
    <3> QED BY <1>7, <2>1, <3>1, <3>2 DEF Given
  <2>4. d.n # 0 /\ ToSet(d.ops) \subseteq Classes \X Nat
    BY <1>3, <1>5
  <2> QED BY <1>3, <2>2, <2>3, <2>4, SuppliedByClass
<1>9. Orderly(d)
  <2> HIDE DEF names
  <2> QED BY <1>2, <1>8 DEF Orderly
<1> QED BY <1>1, <1>9

\* The names in the files of FileBarrierSink_test, and those that the barrier joins.
Part(i) == IF i = 0 THEN {"name1", "grade1"} ELSE IF i = 1 THEN {"name2", "grade2"} ELSE {"name3", "grade3"}
Joint == {"name1", "grade1", "name2", "grade2", "name3", "grade3"}

\* The names of a tuple that the barrier of four files has joined, by the file they are from.
LEMMA JointNames ==
  /\ Joint = UNION {Part(i - 1) : i \in 1..3}
  /\ IsFiniteSet(Joint) /\ \A i : Part(i) \subseteq Joint /\ IsFiniteSet(Part(i))
<1>1. Joint = UNION {Part(i - 1) : i \in 1..3}
  <2>1. \A i \in 1..3 : i = 1 \/ i = 2 \/ i = 3
    OBVIOUS
  <2>2. /\ 1 - 1 = 0 /\ 2 - 1 = 1 /\ 3 - 1 = 2
        /\ 1 \in 1..3 /\ 2 \in 1..3 /\ 3 \in 1..3
    OBVIOUS
  <2>3. UNION {Part(i - 1) : i \in 1..3} = Part(0) \cup Part(1) \cup Part(2)
    <3> HIDE DEF Part
    <3> QED BY <2>1, <2>2
  <2>4. Joint = Part(0) \cup Part(1) \cup Part(2)
    BY DEF Joint, Part
  <2> QED BY <2>3, <2>4
<1>2. IsFiniteSet(Joint)
  <2> DEFINE s2 == {"name1"} \cup {"grade1"}
             s3 == s2 \cup {"name2"}
             s4 == s3 \cup {"grade2"}
             s5 == s4 \cup {"name3"}
             s6 == s5 \cup {"grade3"}
  <2>1. IsFiniteSet(s2)
    BY FS_Singleton, FS_AddElement
  <2> HIDE DEF s2
  <2>2. IsFiniteSet(s3)
    BY <2>1, FS_AddElement
  <2> HIDE DEF s3
  <2>3. IsFiniteSet(s4)
    BY <2>2, FS_AddElement
  <2> HIDE DEF s4
  <2>4. IsFiniteSet(s5)
    BY <2>3, FS_AddElement
  <2> HIDE DEF s5
  <2>5. IsFiniteSet(s6)
    BY <2>4, FS_AddElement
  <2>6. s6 = Joint
    BY DEF s5, s4, s3, s2, Joint
  <2> QED BY <2>5, <2>6
<1>3. \A i : Part(i) \subseteq Joint
  BY DEF Part, Joint
<1> QED BY <1>1, <1>2, <1>3, FS_Subset

\* The columns of its files, and of what the sink writes.
LEMMA BarrierFormats ==
  LET one == Texts(<<"name1", "grade1">>)
      two == Texts(<<"name2", "grade2">>)
      three == Texts(<<"name3", "grade3">>)
  IN /\ WellTyped(one) /\ Named(one) = Part(0)
     /\ WellTyped(two) /\ Named(two) = Part(1)
     /\ WellTyped(three) /\ Named(three) = Part(2)
     /\ WellTyped(one \o two \o three) /\ Named(one \o two \o three) = Joint /\ one \o two \o three # <<>>
<1>1. ASSUME NEW a \in {"name1", "name2", "name3"}, NEW b \in {"grade1", "grade2", "grade3"}
      PROVE  WellTyped(Texts(<<a, b>>)) /\ Named(Texts(<<a, b>>)) = {a, b} /\ Len(Texts(<<a, b>>)) = 2
  <2>1. Texts(<<a, b>>) = <<<<a, "String">>, <<b, "String">>>>
    BY DEF Texts, Text
  <2>2. <<a, "String">> \in Typed /\ <<b, "String">> \in Typed
    <3>1. Kind(a) = "String" /\ Kind(b) = "String"
      BY DEF Kind
    <3> QED BY <3>1 DEF Typed
  <2> DEFINE x == <<a, "String">>
             y == <<b, "String">>
  <2>3. x[1] = a /\ y[1] = b
    OBVIOUS
  <2> HIDE DEF x, y
  <2>4. WellTyped(<<x, y>>) /\ DOMAIN <<x, y>> = {1, 2} /\ Len(<<x, y>>) = 2
    <3>1. x \in Typed /\ y \in Typed
      BY <2>2 DEF x, y
    <3> QED BY <3>1 DEF WellTyped
  <2>5. Named(<<x, y>>) = {a, b}
    BY <2>3, <2>4 DEF Named
  <2> QED BY <2>1, <2>4, <2>5 DEF x, y
<1>2. ASSUME NEW u, NEW v, WellTyped(u), WellTyped(v)
      PROVE  WellTyped(u \o v) /\ Named(u \o v) = Named(u) \cup Named(v)
  <2> DEFINE w == u \o v
  <2>1. /\ u \in Seq(Typed) /\ v \in Seq(Typed) /\ w \in Seq(Typed)
        /\ Len(u) \in Nat /\ Len(v) \in Nat /\ DOMAIN u = 1..Len(u) /\ DOMAIN v = 1..Len(v)
        /\ DOMAIN w = 1..(Len(u) + Len(v))
        /\ \A i \in 1..Len(u) : w[i] = u[i]
        /\ \A i \in (Len(u) + 1)..(Len(u) + Len(v)) : w[i] = v[i - Len(u)]
    BY <1>2 DEF WellTyped
  <2> HIDE DEF w
  <2>2. \A i \in DOMAIN u : i \in DOMAIN w /\ w[i] = u[i]
    BY <2>1
  <2>3. \A i \in DOMAIN v : i + Len(u) \in DOMAIN w /\ w[i + Len(u)] = v[i]
    <3> TAKE i \in DOMAIN v
    <3>1. i + Len(u) \in (Len(u) + 1)..(Len(u) + Len(v)) /\ (i + Len(u)) - Len(u) = i
      BY <2>1
    <3> QED BY <2>1, <3>1
  <2>4. \A i \in DOMAIN w : (\E j \in DOMAIN u : w[i] = u[j]) \/ (\E j \in DOMAIN v : w[i] = v[j])
    <3> TAKE i \in DOMAIN w
    <3>1. CASE i <= Len(u)
      BY <2>1, <3>1
    <3>2. CASE ~(i <= Len(u))
      <4>1. i \in (Len(u) + 1)..(Len(u) + Len(v)) /\ i - Len(u) \in DOMAIN v
        BY <2>1, <3>2
      <4> QED BY <2>1, <4>1
    <3> QED BY <3>1, <3>2
  <2>5. Named(w) = Named(u) \cup Named(v)
    BY <2>2, <2>3, <2>4 DEF Named
  <2> QED BY <2>1, <2>5 DEF w, WellTyped
<1> DEFINE one == Texts(<<"name1", "grade1">>)
           two == Texts(<<"name2", "grade2">>)
           three == Texts(<<"name3", "grade3">>)
<1>3. /\ WellTyped(one) /\ Named(one) = {"name1", "grade1"}
      /\ WellTyped(two) /\ Named(two) = {"name2", "grade2"}
      /\ WellTyped(three) /\ Named(three) = {"name3", "grade3"}
  BY <1>1
<1>4. Named(one) = Part(0) /\ Named(two) = Part(1) /\ Named(three) = Part(2)
  BY <1>3 DEF Part
<1> HIDE DEF one, two, three
<1>5. WellTyped(one \o two) /\ Named(one \o two) = Named(one) \cup Named(two)
  BY <1>2, <1>3
<1>6. /\ WellTyped((one \o two) \o three)
      /\ Named((one \o two) \o three) = (Named(one) \cup Named(two)) \cup Named(three)
  BY <1>2, <1>3, <1>5
<1>7. Named((one \o two) \o three) = Joint
  BY <1>3, <1>6 DEF Joint
<1>8. (one \o two) \o three # <<>>
  <2>1. Named(<<>>) = {}
    BY DEF Named
  <2> QED BY <1>7, <2>1 DEF Joint
<1> QED BY <1>3, <1>4, <1>6, <1>7, <1>8 DEF one, two, three

\* FileBarrierSink_test: each port of the barrier gets the names of its files, and the
\* sink all of them.
LEMMA BarrierSinkOrderly == Orderly(BarrierSink)
<1> DEFINE join == Node("Barrier", 0)
           one == Texts(<<"name1", "grade1">>)
           two == Texts(<<"name2", "grade2">>)
           three == Texts(<<"name3", "grade3">>)
           s == <<one, two, two, three>>
           t == one \o two \o three
           d == FourFiles(join, s, t)
           src(i) == Node("FileSource", i)
           snk == Node("FileSink", 0)
           G == [p \in (Classes \X Nat) \X Nat |-> IF p[1] = join THEN Part(p[2]) ELSE Joint]
           c1 == Conn(src(1), 0, join, 0)
           c2 == Conn(src(2), 0, join, 1)
           c3 == Conn(src(3), 0, join, 1)
           c4 == Conn(src(4), 0, join, 2)
           c5 == Conn(join, 0, snk, 0)
<1>1. d = BarrierSink
  BY DEF BarrierSink
<1>2. (\E level, rank : LaidOut(d, level, rank)) /\ Fed(d)
  <2> HIDE DEF s, t
  <2>1. FourFiles(join, s, t) \in {UnionSink, BarrierSink} /\ join \in {Node("Union", 0), Node("Barrier", 0)}
    BY <1>1
  <2> HIDE DEF join
  <2> QED BY <2>1, FourFilesLaidOut
<1>3. d.n = 3
  <2> HIDE DEF s, t
  <2> QED BY DEF FourFiles
<1>4. /\ ToSet(d.ops) = FourNodes(join) /\ ToSet(d.conns) = FourLinks(join)
      /\ \A i \in 1..4 : Format(d, src(i)) = s[i]
      /\ Format(d, snk) = t /\ Format(d, join) = <<>>
  <2> HIDE DEF s, t
  <2> QED BY FourFilesParts
<1>5. /\ WellTyped(one) /\ Named(one) = Part(0)
      /\ WellTyped(two) /\ Named(two) = Part(1)
      /\ WellTyped(three) /\ Named(three) = Part(2)
      /\ WellTyped(t) /\ Named(t) = Joint /\ t # <<>> /\ WellTyped(<<>>)
  BY BarrierFormats, Formats
<1>6. s[1] = one /\ s[2] = two /\ s[3] = two /\ s[4] = three
  OBVIOUS
<1>7. /\ ToSet(d.ops) = {src(1), src(2), src(3), src(4), join, snk}
      /\ ToSet(d.conns) = {c1, c2, c3, c4, c5}
  <2> HIDE DEF d
  <2> QED BY <1>4 DEF FourNodes, FourLinks
<1>8. /\ Format(d, src(1)) = one /\ Format(d, src(2)) = two /\ Format(d, src(3)) = two /\ Format(d, src(4)) = three
      /\ Format(d, snk) = t /\ Format(d, join) = <<>>
  <2>1. 1 \in 1..4 /\ 2 \in 1..4 /\ 3 \in 1..4 /\ 4 \in 1..4
    OBVIOUS
  <2> HIDE DEF d, s, t, one, two, three
  <2> QED BY <1>4, <1>6, <2>1
<1>9. /\ \A i \in 1..4 : src(i)[1] = "FileSource" /\ src(i) # join
      /\ snk[1] = "FileSink" /\ snk \in Classes \X Nat /\ snk # join
      /\ join[1] = "Barrier" /\ join \in Classes \X Nat
      /\ \A i : Ins(src(i)[1], 3) = 0
      /\ Ins(join[1], 3) = 3 /\ Ins(snk[1], 3) = 1
  BY DEF Node, Classes, Ins
<1>10. /\ c1.from = src(1) /\ Target(c1) = <<join, 0>> /\ c2.from = src(2) /\ Target(c2) = <<join, 1>>
       /\ c3.from = src(3) /\ Target(c3) = <<join, 1>> /\ c4.from = src(4) /\ Target(c4) = <<join, 2>>
       /\ c5.from = join /\ Target(c5) = <<snk, 0>>
  BY Ends
<1>11. G[<<snk, 0>>] = Joint /\ \A i \in Nat : G[<<join, i>>] = Part(i)
  BY <1>9
<1> HIDE DEF src, snk, join, one, two, three, s, t, d, G, c1, c2, c3, c4, c5
<1>12. ASSUME NEW o \in ToSet(d.ops)
       PROVE  /\ WellTyped(Format(d, o))
              /\ \A i \in 0..(Ins(o[1], d.n) - 1) :
                   IsFiniteSet(G[<<o, i>>]) /\ Suffices(o[1], Format(d, o), G[<<o, i>>])
  <2>1. CASE o = join
    <3>1. Suffices(o[1], <<>>, {}) /\ \A D : Suffices("Barrier", <<>>, D)
      BY <1>9, <2>1 DEF Suffices
    <3>2. \A i \in 0..(Ins(o[1], d.n) - 1) : i \in Nat
      BY <1>3, <1>9, <2>1
    <3>3. \A i \in 0..(Ins(o[1], d.n) - 1) : G[<<o, i>>] = Part(i)
      BY <1>11, <2>1, <3>2
    <3>4. WellTyped(Format(d, o))
      BY <1>5, <1>8, <2>1
    <3> QED BY <1>8, <1>9, <2>1, <3>1, <3>3, <3>4, JointNames
  <2>2. CASE o = snk
    <3>1. \A i \in 0..(Ins(o[1], d.n) - 1) : i = 0
      BY <1>3, <1>9, <2>2
    <3>2. Suffices("FileSink", t, Joint)
      BY <1>5 DEF Suffices
    <3>3. \A i \in 0..(Ins(o[1], d.n) - 1) : G[<<o, i>>] = Joint
      BY <1>11, <2>2, <3>1
    <3>4. WellTyped(Format(d, o)) /\ Format(d, o) = t
      BY <1>5, <1>8, <2>2
    <3> QED BY <1>9, <2>2, <3>2, <3>3, <3>4, JointNames
  <2>3. CASE o \in {src(1), src(2), src(3), src(4)}
    <3>1. \A i \in 0..(Ins(o[1], d.n) - 1) : FALSE
      <4>1. Ins(o[1], d.n) = 0
        BY <1>3, <1>9, <2>3
      <4> QED BY <4>1
    <3>2. WellTyped(Format(d, o))
      BY <1>5, <1>8, <2>3
    <3> QED BY <3>1, <3>2
  <2> QED BY <1>7, <2>1, <2>2, <2>3
<1>13. ASSUME NEW c \in ToSet(d.conns) PROVE Pushes(d, G, c.from) = {G[Target(c)]}
  <2>0. 1 \in 1..4 /\ 2 \in 1..4 /\ 3 \in 1..4 /\ 4 \in 1..4 /\ 0 \in Nat /\ 1 \in Nat /\ 2 \in Nat
    OBVIOUS
  <2>1. \A i \in 1..4 : Pushes(d, G, src(i)) = {Named(Format(d, src(i)))}
    BY <1>9 DEF Pushes
  <2>2. Pushes(d, G, join) = {Joint}
    <3>1. Pushes(d, G, join) = {UNION {G[<<join, i - 1>>] : i \in 1..3}}
      BY <1>3, <1>9 DEF Pushes
    <3>2. \A i \in 1..3 : i - 1 \in Nat
      OBVIOUS
    <3>3. \A i \in 1..3 : G[<<join, i - 1>>] = Part(i - 1)
      BY <1>11, <3>2
    <3>4. {G[<<join, i - 1>>] : i \in 1..3} = {Part(i - 1) : i \in 1..3}
      BY <3>3
    <3> QED BY <3>1, <3>4, JointNames
  <2>3. /\ Pushes(d, G, src(1)) = {Part(0)} /\ Pushes(d, G, src(2)) = {Part(1)}
        /\ Pushes(d, G, src(3)) = {Part(1)} /\ Pushes(d, G, src(4)) = {Part(2)}
    BY <1>5, <1>8, <2>0, <2>1
  <2>4. G[<<join, 0>>] = Part(0) /\ G[<<join, 1>>] = Part(1) /\ G[<<join, 2>>] = Part(2)
    BY <1>11, <2>0
  <2> QED BY <1>7, <1>10, <1>11, <2>2, <2>3, <2>4
<1>14. Supplied(d, G)
  BY <1>3, <1>12, <1>13 DEF Supplied
<1>15. Orderly(d)
  BY <1>2, <1>14 DEF Orderly
<1> QED BY <1>1, <1>15

\* The class and the number of an operator of the topologies.
LEMMA Classified ==
  /\ \A i \in Nat :
       /\ timestamper(i) \in Classes \X Nat /\ timestamper(i)[1] = "Timestamper" /\ timestamper(i)[2] = i
       /\ selective(i) \in Classes \X Nat /\ selective(i)[1] = "Selective" /\ selective(i)[2] = i
       /\ busy(i) \in Classes \X Nat /\ busy(i)[1] = "Busy" /\ busy(i)[2] = i
       /\ collector(i) \in Classes \X Nat /\ collector(i)[1] = "ResultCollector" /\ collector(i)[2] = i
       /\ sink(i) \in Classes \X Nat /\ sink(i)[1] = "FileSink" /\ sink(i)[2] = i
  /\ \A r \in Classes : \A i \in Nat : Node(r, i) \in Classes \X Nat /\ Node(r, i)[1] = r /\ Node(r, i)[2] = i
  /\ src0 \in Classes \X Nat /\ src0[1] = "TupleGenerator" /\ src0[2] = 0
  /\ {"FileSource", "TupleGenerator", "Split", "Merge", "RoundRobinSplit", "Union"} \subseteq Classes
BY DEF Node, timestamper, selective, busy, collector, sink, src0, Classes

\* The names in the flows of the topologies, where no operator needs what an operator
\* before it does not set.
LEMMA PlainNames ==
  LET names == RoleNames({})
  IN /\ \A r \in Classes \ {"FileSource", "TupleGenerator", "Split", "Merge"} :
          Given(r, names, Generated) = Generated \cup {"Timestamp"}
     /\ \A r \in {"FileSource", "TupleGenerator"} : Given(r, names, Generated) = Generated
     /\ \A r \in Classes \ {"Timestamper"} : names[r] = Generated \cup {"Timestamp"}
     /\ names["Timestamper"] = Generated /\ "Timestamper" \in Classes
<1> DEFINE names == RoleNames({})
<1>1. \A r \in Classes \ {"Timestamper"} : names[r] = Generated \cup {"Timestamp"}
  BY DEF RoleNames
<1>2. names["Timestamper"] = Generated /\ "Timestamper" \in Classes
  BY DEF RoleNames, Classes
<1> HIDE DEF names
<1>3. \A r \in {"FileSource", "TupleGenerator"} : Given(r, names, Generated) = Generated
  BY DEF Given
<1>4. ASSUME NEW r \in Classes \ {"FileSource", "TupleGenerator", "Split", "Merge"}
      PROVE  Given(r, names, Generated) = Generated \cup {"Timestamp"}
  <2>1. CASE r = "Timestamper"
    BY <1>2, <2>1 DEF Given, NamesPassed
  <2>2. CASE r # "Timestamper"
    <3>1. NamesPassed(r, names[r]) = names[r]
      BY <2>2 DEF NamesPassed
    <3> QED BY <1>1, <2>2, <3>1 DEF Given
  <2> QED BY <2>1, <2>2
<1> QED BY <1>1, <1>2, <1>3, <1>4 DEF names

\* They suffice.
LEMMA PlainSuffices ==
  ASSUME NEW r \in Classes \ {"Split", "Merge", "Filter", "Barrier"}, NEW format,
         r = "FileSink" => format = NameAndGrade
  PROVE  LET names == RoleNames({}) IN IsFiniteSet(names[r]) /\ Suffices(r, format, names[r])
<1>1. r # "Timestamper" => RoleNames({})[r] = Generated \cup {"Timestamp"}
  BY PlainNames
<1>2. r = "FileSink" => format # <<>> /\ Named(format) \subseteq Generated
  BY Formats DEF Generated
<1>3. Suffices(r, format, RoleNames({})[r])
  BY <1>1, <1>2 DEF Suffices
<1> QED BY <1>3, FiniteNames

\* What ByPorts asks for of a connection.
LEMMA Rising ==
  ASSUME NEW level, NEW rank, NEW succ, NEW u, NEW i, NEW v, NEW j, NEW c, c = Conn(u, i, v, j),
         rank[u] < rank[v], level[u] \in Int,
         v[1] = "Busy" => level[v] = level[u] + 1, v[1] # "Busy" => level[v] = level[u],
         succ[<<u, i>>] = <<v, j>>
  PROVE  /\ rank[c.from] < rank[c.to]
         /\ level[c.to] = level[c.from] + IF c.to[1] = "Busy" THEN 1 ELSE 0
         /\ Target(c) = succ[Start(c)]
BY Ends

\* What it asks for of an operator with at most one port of either kind.
LEMMA PortsUsed ==
  ASSUME NEW d, NEW o,
         \/ Ins(o[1], d.n) = 0
         \/ Ins(o[1], d.n) = 1 /\ \E c \in ToSet(d.conns) : Target(c) = <<o, 0>>,
         \/ Outs(o[1], d.n) = 0
         \/ Outs(o[1], d.n) = 1 /\ \E c \in ToSet(d.conns) : Start(c) = <<o, 0>>
  PROVE  /\ \A i \in 0..(Ins(o[1], d.n) - 1) : \E c \in ToSet(d.conns) : Target(c) = <<o, i>>
         /\ \A i \in 0..(Outs(o[1], d.n) - 1) : \E c \in ToSet(d.conns) : Start(c) = <<o, i>>
<1>1. 0..(1 - 1) = {0} /\ 0..(0 - 1) = {}
  OBVIOUS
<1>2. \A i \in 0..(Ins(o[1], d.n) - 1) : \E c \in ToSet(d.conns) : Target(c) = <<o, i>>
  BY <1>1
<1>3. \A i \in 0..(Outs(o[1], d.n) - 1) : \E c \in ToSet(d.conns) : Start(c) = <<o, i>>
  BY <1>1
<1> QED BY <1>2, <1>3

\* What it asks for of the level and the rank of an operator.
Placed(d, level, rank, o) ==
  /\ level[o] \in Nat /\ rank[o] \in 0..Len(d.ops)
  /\ Ins(o[1], d.n) = 0 => level[o] = 0 /\ o[1] # "Busy"
  /\ o[1] = "FileSink" => level[o] = d.depth

\* A chain of any depth.
LEMMA ChainLaidOut ==
  ASSUME NEW depth \in Nat \ {0}
  PROVE  \E level, rank : LaidOut(Chain(depth), level, rank)
<1> DEFINE d == Chain(depth)
           src == Node("FileSource", 0)
           top == 2 * depth + 2
           last == depth - 1
           level == [o \in Classes \X Nat |->
                       IF o[1] = "Busy" THEN o[2] + 1 ELSE IF o[1] = "Selective" THEN o[2]
                       ELSE IF o[1] \in {"ResultCollector", "FileSink"} THEN depth ELSE 0]
           rank == [o \in Classes \X Nat |->
                      IF o[1] = "Busy" THEN 3 + o[2] + o[2] ELSE IF o[1] = "Selective" THEN 2 + o[2] + o[2]
                      ELSE IF o[1] = "ResultCollector" THEN top
                      ELSE IF o[1] = "FileSink" THEN top + 1
                      ELSE IF o[1] = "Timestamper" THEN 1 ELSE 0]
           succ == [p \in (Classes \X Nat) \X Nat |->
                      IF p[1][1] = "FileSource" THEN <<timestamper(0), 0>>
                      ELSE IF p[1][1] = "Timestamper" THEN <<selective(0), 0>>
                      ELSE IF p[1][1] = "Selective" THEN <<busy(p[1][2]), 0>>
                      ELSE IF p[1][1] # "Busy" THEN <<sink(0), 0>>
                      ELSE IF p[1][2] = last THEN <<collector(0), 0>>
                      ELSE <<selective(p[1][2] + 1), 0>>]
           Linked(u, v) == Conn(u, 0, v, 0) \in ToSet(d.conns)
<1>1. Sound(d) /\ d.n = 1 /\ d.depth = depth /\ Len(d.ops) = 2 * depth + 4
  <2>1. Chain(depth) \in AllFlows
    BY DEF AllFlows
  <2>2. d.n = 1 /\ d.depth = depth
    BY DEF Chain
  <2>3. Len(d.ops) = 2 * depth + 4
    BY ChainNames
  <2>4. Sound(d)
    BY <2>1, EveryFlowSound
  <2> QED BY <2>2, <2>3, <2>4
<1>2. ToSet(d.ops) = ChainOps(depth) /\ ToSet(d.conns) = ChainConns(depth)
  <2>1. ToSet(d.conns) = ChainConns(depth)
    BY ChainLinks
  <2>2. Lists(d.ops, Naming, ChainOps(depth))
    BY ChainNames
  <2> HIDE DEF d
  <2> QED BY <2>1, <2>2, SoundOperators
<1>3. /\ \A o \in ToSet(d.ops) : \/ o = src \/ o = timestamper(0) \/ o = collector(0) \/ o = sink(0)
                                 \/ \E i \in 0..(depth - 1) : o = busy(i) \/ o = selective(i)
      /\ sink(0) \in ToSet(d.ops)
  BY <1>2 DEF ChainOps, All
<1>4. /\ Linked(src, timestamper(0)) /\ Linked(timestamper(0), selective(0))
      /\ \A i \in 0..(depth - 1) : Linked(selective(i), busy(i))
      /\ \A i \in 0..((depth - 1) - 1) : Linked(busy(i), selective(i + 1))
      /\ Linked(busy(last), collector(0)) /\ Linked(collector(0), sink(0))
  BY <1>2 DEF ChainConns
<1>5. ASSUME NEW c \in ToSet(d.conns)
      PROVE  \/ c = Conn(src, 0, timestamper(0), 0) \/ c = Conn(timestamper(0), 0, selective(0), 0)
             \/ \E i \in 0..(depth - 1) : c = Conn(selective(i), 0, busy(i), 0)
             \/ \E i \in 0..((depth - 1) - 1) : c = Conn(busy(i), 0, selective(i + 1), 0)
             \/ c = Conn(busy(last), 0, collector(0), 0) \/ c = Conn(collector(0), 0, sink(0), 0)
  BY <1>2 DEF ChainConns
<1>0. /\ last \in 0..(depth - 1) /\ last + 1 = depth /\ top \in Nat /\ top = depth + depth + 2
      /\ Len(d.ops) = top + 2 /\ Len(d.ops) \in Nat
  BY <1>1
<1> HIDE DEF last, top
<1>6. src \in Classes \X Nat /\ src[1] = "FileSource"
  BY Classified
<1>7. /\ level[src] = 0 /\ level[timestamper(0)] = 0 /\ level[collector(0)] = depth /\ level[sink(0)] = depth
      /\ \A i \in Nat : level[selective(i)] = i /\ level[busy(i)] = i + 1
  <2>1. level[src] = 0
    BY <1>6
  <2>2. level[timestamper(0)] = 0
    BY Classified
  <2>3. level[collector(0)] = depth /\ level[sink(0)] = depth
    BY Classified
  <2>4. \A i \in Nat : level[selective(i)] = i
    BY Classified
  <2>5. \A i \in Nat : level[busy(i)] = i + 1
    BY Classified
  <2> QED BY <2>1, <2>2, <2>3, <2>4, <2>5
<1>8. /\ rank[src] = 0 /\ rank[timestamper(0)] = 1
      /\ rank[collector(0)] = top /\ rank[sink(0)] = top + 1
      /\ \A i \in Nat : rank[selective(i)] = 2 + i + i /\ rank[busy(i)] = 3 + i + i
  <2>1. rank[src] = 0 /\ rank[timestamper(0)] = 1
    BY <1>6, Classified
  <2>2. rank[collector(0)] = top
    <3>1. collector(0) \in Classes \X Nat /\ collector(0)[1] = "ResultCollector"
      BY Classified
    <3> QED BY <3>1
  <2>3. rank[sink(0)] = top + 1
    <3>1. sink(0) \in Classes \X Nat /\ sink(0)[1] = "FileSink"
      BY Classified
    <3> HIDE DEF level, succ
    <3>2. \A o \in Classes \X Nat : o[1] = "FileSink" => rank[o] = top + 1
      OBVIOUS
    <3> QED BY <3>1, <3>2
  <2>4. \A i \in Nat : rank[selective(i)] = 2 + i + i
    <3>1. \A o \in Classes \X Nat : o[1] = "Selective" => rank[o] = 2 + o[2] + o[2]
      OBVIOUS
    <3> HIDE DEF rank
    <3> TAKE i \in Nat
    <3>2. selective(i) \in Classes \X Nat /\ selective(i)[1] = "Selective" /\ selective(i)[2] = i
      BY Classified
    <3> QED BY <3>1, <3>2
  <2>5. \A i \in Nat : rank[busy(i)] = 3 + i + i
    <3>1. \A o \in Classes \X Nat : o[1] = "Busy" => rank[o] = 3 + o[2] + o[2]
      OBVIOUS
    <3> HIDE DEF rank
    <3> TAKE i \in Nat
    <3>2. busy(i) \in Classes \X Nat /\ busy(i)[1] = "Busy" /\ busy(i)[2] = i
      BY Classified
    <3> QED BY <3>1, <3>2
  <2> QED BY <2>1, <2>2, <2>3, <2>4, <2>5
<1>9. /\ succ[<<src, 0>>] = <<timestamper(0), 0>> /\ succ[<<timestamper(0), 0>>] = <<selective(0), 0>>
      /\ \A i \in Nat : succ[<<selective(i), 0>>] = <<busy(i), 0>>
      /\ \A i \in Nat : i # last => succ[<<busy(i), 0>>] = <<selective(i + 1), 0>>
      /\ succ[<<busy(last), 0>>] = <<collector(0), 0>> /\ succ[<<collector(0), 0>>] = <<sink(0), 0>>
  <2>1. last \in Nat
    BY <1>0
  <2>2. \A o \in Classes \X Nat : <<o, 0>> \in (Classes \X Nat) \X Nat /\ <<o, 0>>[1] = o
    OBVIOUS
  <2>3. succ[<<src, 0>>] = <<timestamper(0), 0>>
    BY <1>6, <2>2
  <2>4. succ[<<timestamper(0), 0>>] = <<selective(0), 0>>
    BY <2>2, Classified
  <2>5. \A i \in Nat : succ[<<selective(i), 0>>] = <<busy(i), 0>>
    BY <2>2, Classified
  <2>6. \A i \in Nat : i # last => succ[<<busy(i), 0>>] = <<selective(i + 1), 0>>
    BY <2>2, Classified
  <2>7. succ[<<busy(last), 0>>] = <<collector(0), 0>>
    BY <2>1, <2>2, Classified
  <2>8. succ[<<collector(0), 0>>] = <<sink(0), 0>>
    BY <2>2, Classified
  <2> QED BY <2>3, <2>4, <2>5, <2>6, <2>7, <2>8
<1>10. /\ Ins(src[1], 1) = 0 /\ Outs(src[1], 1) = 1 /\ Outs(sink(0)[1], 1) = 0 /\ Ins(sink(0)[1], 1) = 1
       /\ \A u \in {timestamper(0), collector(0)} : Ins(u[1], 1) = 1 /\ Outs(u[1], 1) = 1
       /\ \A i \in Nat : \A u \in {selective(i), busy(i)} : Ins(u[1], 1) = 1 /\ Outs(u[1], 1) = 1
       /\ 0..(1 - 1) = {0} /\ 0..(0 - 1) = {}
  <2>1. 0..(1 - 1) = {0} /\ 0..(0 - 1) = {}
    OBVIOUS
  <2> QED BY <1>6, <2>1, Classified DEF Ins, Outs
<1> HIDE DEF src, level, rank, succ, d
<1>11. \A u, v : Linked(u, v) =>
         /\ \E c \in ToSet(d.conns) : Target(c) = <<v, 0>>
         /\ \E c \in ToSet(d.conns) : Start(c) = <<u, 0>>
  BY Ends
<1> DEFINE Into(v) == \E c \in ToSet(d.conns) : Target(c) = <<v, 0>>
           From(u) == \E c \in ToSet(d.conns) : Start(c) = <<u, 0>>
<1>12. /\ From(src) /\ Into(timestamper(0)) /\ From(timestamper(0)) /\ Into(collector(0)) /\ From(collector(0))
       /\ Into(sink(0)) /\ \A i \in 0..(depth - 1) : Into(selective(i)) /\ From(selective(i)) /\ Into(busy(i)) /\ From(busy(i))
  <2>1. From(src) /\ Into(timestamper(0)) /\ From(timestamper(0)) /\ Into(collector(0)) /\ From(collector(0)) /\ Into(sink(0))
    BY <1>4, <1>11
  <2>2. ASSUME NEW i \in 0..(depth - 1) PROVE Into(busy(i)) /\ From(selective(i))
    BY <1>4, <1>11
  <2>3. ASSUME NEW i \in 0..(depth - 1) PROVE Into(selective(i))
    <3>1. CASE i = 0
      BY <1>4, <1>11, <3>1
    <3>2. CASE i # 0
      <4>1. i - 1 \in 0..((depth - 1) - 1) /\ (i - 1) + 1 = i
        BY <3>2
      <4>2. Linked(busy(i - 1), selective((i - 1) + 1))
        BY <1>4, <4>1
      <4> HIDE DEF Linked, Into, From
      <4> QED BY <1>11, <4>1, <4>2 DEF Into
    <3> QED BY <3>1, <3>2
  <2>4. ASSUME NEW i \in 0..(depth - 1) PROVE From(busy(i))
    <3>1. CASE i = last
      BY <1>4, <1>11, <3>1
    <3>2. CASE i # last
      <4>1. i \in 0..((depth - 1) - 1)
        BY <1>0, <3>2
      <4> QED BY <1>4, <1>11, <4>1
    <3> QED BY <3>1, <3>2
  <2> HIDE DEF Into, From
  <2> QED BY <2>1, <2>2, <2>3, <2>4
<1> HIDE DEF Linked, Into, From
<1>13. ASSUME NEW o \in ToSet(d.ops)
       PROVE  /\ level[o] \in Nat /\ rank[o] \in 0..Len(d.ops)
              /\ Ins(o[1], d.n) = 0 => level[o] = 0 /\ o[1] # "Busy"
              /\ o[1] = "FileSink" => level[o] = d.depth
              /\ \A i \in 0..(Ins(o[1], d.n) - 1) : \E c \in ToSet(d.conns) : Target(c) = <<o, i>>
              /\ \A i \in 0..(Outs(o[1], d.n) - 1) : \E c \in ToSet(d.conns) : Start(c) = <<o, i>>
  <2>1. Ins(o[1], 1) = 0 \/ (Ins(o[1], 1) = 1 /\ Into(o))
    BY <1>3, <1>10, <1>12
  <2>2. Outs(o[1], 1) = 0 \/ (Outs(o[1], 1) = 1 /\ From(o))
    BY <1>3, <1>10, <1>12
  <2>6. /\ \A i \in 0..(Ins(o[1], d.n) - 1) : \E c \in ToSet(d.conns) : Target(c) = <<o, i>>
        /\ \A i \in 0..(Outs(o[1], d.n) - 1) : \E c \in ToSet(d.conns) : Start(c) = <<o, i>>
    BY <1>1, <2>1, <2>2, PortsUsed DEF Into, From
  <2>3. Placed(d, level, rank, src) /\ Placed(d, level, rank, timestamper(0))
    <3>1. rank[src] \in 0..Len(d.ops) /\ rank[timestamper(0)] \in 0..Len(d.ops)
      BY <1>0, <1>8
    <3>2. src[1] # "FileSink" /\ src[1] # "Busy" /\ timestamper(0)[1] # "FileSink"
      BY <1>6, Classified
    <3>3. level[src] = 0 /\ level[timestamper(0)] = 0
      BY <1>7
    <3>4. Ins(timestamper(0)[1], 1) # 0
      BY <1>10
    <3> QED BY <1>1, <3>1, <3>2, <3>3, <3>4 DEF Placed
  <2>4. Placed(d, level, rank, collector(0)) /\ Placed(d, level, rank, sink(0))
    <3>1. /\ rank[collector(0)] \in 0..Len(d.ops) /\ rank[sink(0)] \in 0..Len(d.ops)
          /\ level[collector(0)] = depth /\ level[sink(0)] = depth
      BY <1>0, <1>7, <1>8
    <3>2. Ins(collector(0)[1], 1) # 0 /\ Ins(sink(0)[1], 1) # 0
      BY <1>10
    <3> QED BY <1>1, <3>1, <3>2 DEF Placed
  <2>5. ASSUME NEW i \in 0..(depth - 1)
        PROVE  Placed(d, level, rank, selective(i)) /\ Placed(d, level, rank, busy(i))
    <3>1. i \in Nat /\ 3 + i + i \in 0..(top + 2) /\ 2 + i + i \in 0..(top + 2)
      BY <1>0
    <3>2. rank[selective(i)] \in 0..Len(d.ops) /\ rank[busy(i)] \in 0..Len(d.ops)
      BY <1>0, <1>8, <3>1
    <3>3. level[selective(i)] \in Nat /\ level[busy(i)] \in Nat
      BY <1>7, <3>1
    <3>4. selective(i)[1] # "FileSink" /\ busy(i)[1] # "FileSink"
      BY <3>1, Classified
    <3>5. Ins(selective(i)[1], 1) # 0 /\ Ins(busy(i)[1], 1) # 0
      BY <1>10, <3>1
    <3> QED BY <1>1, <3>2, <3>3, <3>4, <3>5 DEF Placed
  <2>7. Placed(d, level, rank, o)
    BY <1>3, <2>3, <2>4, <2>5
  <2> QED BY <2>6, <2>7 DEF Placed
<1>17. /\ \A u \in {timestamper(0), collector(0), sink(0)} : u[1] # "Busy"
       /\ \A i \in Nat : selective(i)[1] # "Busy" /\ busy(i)[1] = "Busy"
  BY Classified
<1>14. ASSUME NEW c \in ToSet(d.conns)
       PROVE  /\ rank[c.from] < rank[c.to]
              /\ level[c.to] = level[c.from] + IF c.to[1] = "Busy" THEN 1 ELSE 0
              /\ Target(c) = succ[Start(c)]
  <2>0. 0 \in Nat /\ last \in Nat /\ last + 1 = depth /\ top = depth + depth + 2
    BY <1>0
  <2>1. CASE c = Conn(src, 0, timestamper(0), 0)
    <3>1. rank[src] < rank[timestamper(0)]
      BY <1>8
    <3>2. level[timestamper(0)] = level[src] /\ level[src] \in Int
      BY <1>7
    <3>3. timestamper(0)[1] # "Busy" /\ succ[<<src, 0>>] = <<timestamper(0), 0>>
      BY <1>9, <1>17
    <3> QED BY <2>1, <3>1, <3>2, <3>3, Rising
  <2>2. CASE c = Conn(timestamper(0), 0, selective(0), 0)
    <3>1. rank[timestamper(0)] < rank[selective(0)]
      BY <1>8, <2>0
    <3>2. level[selective(0)] = level[timestamper(0)] /\ level[timestamper(0)] \in Int
      BY <1>7, <2>0
    <3>3. selective(0)[1] # "Busy" /\ succ[<<timestamper(0), 0>>] = <<selective(0), 0>>
      BY <1>9, <1>17, <2>0
    <3> QED BY <2>2, <3>1, <3>2, <3>3, Rising
  <2>3. CASE \E i \in 0..(depth - 1) : c = Conn(selective(i), 0, busy(i), 0)
    <3>1. PICK i \in 0..(depth - 1) : c = Conn(selective(i), 0, busy(i), 0)
      BY <2>3
    <3>0. i \in Nat
      OBVIOUS
    <3>2. rank[selective(i)] < rank[busy(i)]
      BY <1>8, <3>0
    <3>3. level[busy(i)] = level[selective(i)] + 1 /\ level[selective(i)] \in Int
      BY <1>7, <3>0
    <3>4. busy(i)[1] = "Busy" /\ succ[<<selective(i), 0>>] = <<busy(i), 0>>
      BY <1>9, <1>17, <3>0
    <3> QED BY <3>1, <3>2, <3>3, <3>4, Rising
  <2>4. CASE \E i \in 0..((depth - 1) - 1) : c = Conn(busy(i), 0, selective(i + 1), 0)
    <3>1. PICK i \in 0..((depth - 1) - 1) : c = Conn(busy(i), 0, selective(i + 1), 0)
      BY <2>4
    <3>0. i \in Nat /\ i + 1 \in Nat /\ i # last
      BY <2>0
    <3>2. rank[busy(i)] < rank[selective(i + 1)]
      <4>1. rank[busy(i)] = 3 + i + i /\ rank[selective(i + 1)] = 2 + (i + 1) + (i + 1)
        BY <1>8, <3>0
      <4> QED BY <3>0, <4>1
    <3>3. level[selective(i + 1)] = level[busy(i)] /\ level[busy(i)] \in Int
      BY <1>7, <3>0
    <3>4. selective(i + 1)[1] # "Busy" /\ succ[<<busy(i), 0>>] = <<selective(i + 1), 0>>
      BY <1>9, <1>17, <3>0
    <3> QED BY <3>1, <3>2, <3>3, <3>4, Rising
  <2>5. CASE c = Conn(busy(last), 0, collector(0), 0)
    <3>1. rank[busy(last)] < rank[collector(0)]
      <4>1. rank[busy(last)] = 3 + last + last /\ rank[collector(0)] = top
        BY <1>8, <2>0
      <4>2. 3 + last + last < top
        BY <2>0
      <4> QED BY <4>1, <4>2
    <3>2. level[collector(0)] = level[busy(last)] /\ level[busy(last)] \in Int
      <4>1. level[busy(last)] = last + 1 /\ level[collector(0)] = depth
        BY <1>7, <2>0
      <4> QED BY <2>0, <4>1
    <3>3. collector(0)[1] # "Busy" /\ succ[<<busy(last), 0>>] = <<collector(0), 0>>
      BY <1>9, <1>17
    <3> QED BY <2>5, <3>1, <3>2, <3>3, Rising
  <2>6. CASE c = Conn(collector(0), 0, sink(0), 0)
    <3>1. rank[collector(0)] < rank[sink(0)]
      <4>1. rank[collector(0)] = top /\ rank[sink(0)] = top + 1 /\ top \in Nat
        BY <1>0, <1>8
      <4> QED BY <4>1
    <3>2. level[sink(0)] = level[collector(0)] /\ level[collector(0)] \in Int
      BY <1>7
    <3>3. sink(0)[1] # "Busy" /\ succ[<<collector(0), 0>>] = <<sink(0), 0>>
      BY <1>9, <1>17
    <3> QED BY <2>6, <3>1, <3>2, <3>3, Rising
  <2> QED BY <1>5, <2>1, <2>2, <2>3, <2>4, <2>5, <2>6
<1>15. \E o \in ToSet(d.ops) : o[1] = "FileSink"
  BY <1>3, Classified
<1>16. LaidOut(d, level, rank)
  BY <1>1, <1>13, <1>14, <1>15, ByPorts
<1> QED BY <1>16 DEF d

\* The columns of the files of a topology without splits in sequence.
PlainFormat(r) == IF r = "FileSink" THEN NameAndGrade ELSE IF r = "FileSource" THEN WithLineNo ELSE <<>>

\* The tuples of a flow in which the sources, and they only, feed the timestampers.
LEMMA PlainSupplied ==
  ASSUME NEW d, Sound(d), d.n # 0,
         \A o \in ToSet(d.ops) :
           /\ o \in Classes \X Nat /\ o[1] \notin {"Barrier", "Split", "Merge", "Filter"}
           /\ Format(d, o) = PlainFormat(o[1]),
         \A c \in ToSet(d.conns) :
           c.from[1] \in {"FileSource", "TupleGenerator"} <=> c.to[1] = "Timestamper"
  PROVE  Supplied(d, ByClass(RoleNames({})))
<1> DEFINE names == RoleNames({})
<1>1. /\ \A r \in Classes \ {"FileSource", "TupleGenerator", "Split", "Merge"} :
           Given(r, names, Generated) = Generated \cup {"Timestamp"}
      /\ \A r \in {"FileSource", "TupleGenerator"} : Given(r, names, Generated) = Generated
      /\ \A r \in Classes \ {"Timestamper"} : names[r] = Generated \cup {"Timestamp"}
      /\ names["Timestamper"] = Generated /\ "Timestamper" \in Classes
  BY PlainNames
<1>2. ASSUME NEW o \in ToSet(d.ops)
      PROVE  /\ o[1] # "Barrier" /\ WellTyped(Format(d, o))
             /\ o[1] = "FileSource" => Named(Format(d, o)) = Generated
             /\ o[1] = "TupleGenerator" => Generated = Generated
             /\ Ins(o[1], d.n) # 0 => IsFiniteSet(names[o[1]]) /\ Suffices(o[1], Format(d, o), names[o[1]])
  <2>1. Format(d, o) = PlainFormat(o[1])
    OBVIOUS
  <2>2. WellTyped(Format(d, o)) /\ (o[1] = "FileSource" => Named(Format(d, o)) = Generated)
    BY <2>1, Formats DEF PlainFormat
  <2>3. o[1] \in Classes \ {"Split", "Merge", "Filter", "Barrier"}
    OBVIOUS
  <2>4. o[1] = "FileSink" => Format(d, o) = NameAndGrade
    BY <2>1 DEF PlainFormat
  <2>5. IsFiniteSet(names[o[1]]) /\ Suffices(o[1], Format(d, o), names[o[1]])
    BY <2>3, <2>4, PlainSuffices
  <2> QED BY <2>2, <2>3, <2>5
<1>3. ASSUME NEW c \in ToSet(d.conns) PROVE Given(c.from[1], names, Generated) = names[c.to[1]]
  <2>1. c.from \in ToSet(d.ops) /\ c.to \in ToSet(d.ops)
    BY SoundConnections
  <2>2. c.from[1] \in Classes \ {"Split", "Merge"} /\ c.to[1] \in Classes
    BY <2>1
  <2> HIDE DEF names
  <2>3. CASE c.to[1] = "Timestamper"
    BY <1>1, <2>3
  <2>4. CASE c.to[1] # "Timestamper"
    BY <1>1, <2>2, <2>4
  <2> QED BY <2>3, <2>4
<1>4. ToSet(d.ops) \subseteq Classes \X Nat
  OBVIOUS
<1> HIDE DEF names
<1>5. Supplied(d, ByClass(names))
  BY <1>2, <1>3, <1>4, SuppliedByClass
<1> QED BY <1>5 DEF names

\* A chain of any depth.
LEMMA ChainOrderly ==
  ASSUME NEW depth \in Nat \ {0}
  PROVE  Orderly(Chain(depth))
<1> DEFINE d == Chain(depth)
           src == Node("FileSource", 0)
<1>1. Sound(d) /\ WithoutFanIn(d) /\ d.n = 1 /\ d \notin {UnionSink, BarrierSink}
  <2>1. d \in AllFlows
    BY DEF AllFlows
  <2>2. d.n = 1 /\ d.name = "chain"
    BY DEF Chain
  <2> HIDE DEF d
  <2>3. d \notin {UnionSink, BarrierSink}
    <3>1. d.name # UnionSink.name /\ d.name # BarrierSink.name
      BY <2>2, FourFilesNames
    <3> QED BY <3>1
  <2> QED BY <2>1, <2>2, <2>3, EveryFlowSound
<1>2. ToSet(d.ops) = ChainOps(depth) /\ ToSet(d.conns) = ChainConns(depth)
  <2>1. ToSet(d.conns) = ChainConns(depth)
    BY ChainLinks
  <2>2. Lists(d.ops, Naming, ChainOps(depth))
    BY ChainNames
  <2> HIDE DEF d
  <2> QED BY <2>1, <2>2, SoundOperators
<1>3. \A o \in ToSet(d.ops) : \/ o = src \/ o = timestamper(0) \/ o = collector(0) \/ o = sink(0)
                              \/ \E i \in 0..(depth - 1) : o = busy(i) \/ o = selective(i)
  BY <1>2 DEF ChainOps, All
<1>4. \A c \in ToSet(d.conns) :
        \/ c = Conn(src, 0, timestamper(0), 0) \/ c = Conn(timestamper(0), 0, selective(0), 0)
        \/ \E i \in 0..(depth - 1) : c = Conn(selective(i), 0, busy(i), 0)
        \/ \E i \in 0..((depth - 1) - 1) : c = Conn(busy(i), 0, selective(i + 1), 0)
        \/ c = Conn(busy(depth - 1), 0, collector(0), 0) \/ c = Conn(collector(0), 0, sink(0), 0)
  BY <1>2 DEF ChainConns
<1>5. d.formats = Together(Columns(src, WithLineNo), Columns(sink(0), NameAndGrade))
  BY DEF Chain
<1>6. src \in Classes \X Nat /\ src[1] = "FileSource"
  BY Classified
<1>7. depth - 1 \in Nat
  OBVIOUS
<1> HIDE DEF d, src
<1>8. ASSUME NEW o \in ToSet(d.ops)
      PROVE  /\ o \in Classes \X Nat /\ o[1] \notin {"Barrier", "Split", "Merge", "Filter"}
             /\ Format(d, o) = PlainFormat(o[1])
  <2>1. /\ o \in Classes \X Nat /\ o[1] \notin {"Barrier", "Split", "Merge", "Filter"}
        /\ (o[1] = "FileSource") <=> (o = src)
        /\ (o[1] = "FileSink") <=> (o = sink(0))
    BY <1>3, <1>6, Classified
  <2>2. Format(d, o) = IF o = sink(0) THEN NameAndGrade ELSE IF o = src THEN WithLineNo ELSE <<>>
    <3>1. src # sink(0)
      BY <1>6, Classified
    <3> QED BY <1>5, <3>1 DEF Format, Together, Columns
  <2> QED BY <2>1, <2>2 DEF PlainFormat
<1>9. ASSUME NEW c \in ToSet(d.conns)
      PROVE  c.from[1] \in {"FileSource", "TupleGenerator"} <=> c.to[1] = "Timestamper"
  <2>1. CASE c = Conn(src, 0, timestamper(0), 0)
    BY <1>6, <2>1, Classified, Ends
  <2>2. CASE c = Conn(timestamper(0), 0, selective(0), 0)
    BY <2>2, Classified, Ends
  <2>3. CASE \E i \in 0..(depth - 1) : c = Conn(selective(i), 0, busy(i), 0)
    BY <2>3, Classified, Ends
  <2>4. CASE \E i \in 0..((depth - 1) - 1) : c = Conn(busy(i), 0, selective(i + 1), 0)
    BY <2>4, Classified, Ends
  <2>5. CASE c = Conn(busy(depth - 1), 0, collector(0), 0)
    BY <1>7, <2>5, Classified, Ends
  <2>6. CASE c = Conn(collector(0), 0, sink(0), 0)
    BY <2>6, Classified, Ends
  <2> QED BY <1>4, <2>1, <2>2, <2>3, <2>4, <2>5, <2>6
<1>10. Supplied(d, ByClass(RoleNames({})))
  BY <1>1, <1>8, <1>9, PlainSupplied
<1>11. \E level, rank : LaidOut(d, level, rank)
  BY ChainLaidOut DEF d
<1>13. Fed(d)
  BY <1>1, <1>11, FedOnce
<1>14. Orderly(d)
  BY <1>10, <1>11, <1>13 DEF Orderly
<1> QED BY <1>14 DEF d

\* That a connection leads to an input port, and that one leaves from an output port.
Into(d, v, i) == \E c \in ToSet(d.conns) : Target(c) = <<v, i>>
From(d, u, i) == \E c \in ToSet(d.conns) : Start(c) = <<u, i>>

\* A connection leads to a port and leaves from one.
LEMMA Connected ==
  ASSUME NEW d, NEW u, NEW i, NEW v, NEW j, Conn(u, i, v, j) \in ToSet(d.conns)
  PROVE  Into(d, v, j) /\ From(d, u, i)
BY Ends DEF Into, From

\* What a connection has in a flow that is laid out in levels.
Climbs(c, level, rank, succ) ==
  /\ rank[c.from] < rank[c.to]
  /\ level[c.to] = level[c.from] + IF c.to[1] = "Busy" THEN 1 ELSE 0
  /\ Target(c) = succ[Start(c)]

\* Its two ends, taken apart.
LEMMA Climbing ==
  ASSUME NEW level, NEW rank, NEW succ, NEW u, NEW i, NEW v, NEW j, NEW c, c = Conn(u, i, v, j),
         rank[u] < rank[v], level[u] \in Int,
         v[1] = "Busy" => level[v] = level[u] + 1, v[1] # "Busy" => level[v] = level[u],
         succ[<<u, i>>] = <<v, j>>
  PROVE  Climbs(c, level, rank, succ)
BY Rising DEF Climbs

\* The ports of an operator: none, one, or one for every branch.
Served(d, o) ==
  /\ \/ Ins(o[1], d.n) = 0
     \/ Ins(o[1], d.n) = 1 /\ Into(d, o, 0)
     \/ Ins(o[1], d.n) = d.n /\ \A i \in 0..(d.n - 1) : Into(d, o, i)
  /\ \/ Outs(o[1], d.n) = 0
     \/ Outs(o[1], d.n) = 1 /\ From(d, o, 0)
     \/ Outs(o[1], d.n) = d.n /\ \A i \in 0..(d.n - 1) : From(d, o, i)

\* What is left to show of a flow that is laid out in levels.
LEMMA Levels ==
  ASSUME NEW d, Sound(d), NEW level, NEW rank, NEW succ,
         \A o \in ToSet(d.ops) : Placed(d, level, rank, o) /\ Served(d, o),
         \E o \in ToSet(d.ops) : o[1] = "FileSink",
         \A c \in ToSet(d.conns) : Climbs(c, level, rank, succ)
  PROVE  LaidOut(d, level, rank)
<1>0. 0..(1 - 1) = {0} /\ 0..(0 - 1) = {}
  OBVIOUS
<1>1. ASSUME NEW o \in ToSet(d.ops)
      PROVE  /\ level[o] \in Nat /\ rank[o] \in 0..Len(d.ops)
             /\ Ins(o[1], d.n) = 0 => level[o] = 0 /\ o[1] # "Busy"
             /\ o[1] = "FileSink" => level[o] = d.depth
             /\ \A i \in 0..(Ins(o[1], d.n) - 1) : \E c \in ToSet(d.conns) : Target(c) = <<o, i>>
             /\ \A i \in 0..(Outs(o[1], d.n) - 1) : \E c \in ToSet(d.conns) : Start(c) = <<o, i>>
  <2>1. Placed(d, level, rank, o) /\ Served(d, o)
    OBVIOUS
  <2>2. \A i \in 0..(Ins(o[1], d.n) - 1) : Into(d, o, i)
    BY <1>0, <2>1 DEF Served
  <2>3. \A i \in 0..(Outs(o[1], d.n) - 1) : From(d, o, i)
    BY <1>0, <2>1 DEF Served
  <2> QED BY <2>1, <2>2, <2>3 DEF Placed, Into, From
<1>2. \A c \in ToSet(d.conns) :
        /\ rank[c.from] < rank[c.to]
        /\ level[c.to] = level[c.from] + IF c.to[1] = "Busy" THEN 1 ELSE 0
        /\ Target(c) = succ[Start(c)]
  BY DEF Climbs
<1> QED BY <1>1, <1>2, ByPorts

\* A data-parallel flow of any width.
LEMMA ParallelParts ==
  ASSUME NEW n \in Nat \ {0}
  PROVE  LET d == DataParallel(n)
             split == Node("Split", 0)
             merge == Node("Merge", 0)
         IN /\ Sound(d) /\ WithoutFanIn(d) /\ d.n = n /\ d.depth = 1 /\ Len(d.ops) = n + n + 6
            /\ d \notin {UnionSink, BarrierSink}
            /\ d.formats = Together(Columns(split, << <<"lineNo", "Integer">> >>),
                                    Columns(sink(0), NameAndGrade))
            /\ sink(0) \in ToSet(d.ops)
            /\ \A o \in ToSet(d.ops) :
                 \/ o = src0 \/ o = timestamper(0) \/ o = split \/ o = merge \/ o = collector(0) \/ o = sink(0)
                 \/ \E i \in 0..(n - 1) : o = selective(i) \/ o = busy(i)
            /\ Conn(src0, 0, timestamper(0), 0) \in ToSet(d.conns)
            /\ Conn(timestamper(0), 0, split, 0) \in ToSet(d.conns)
            /\ Conn(merge, 0, collector(0), 0) \in ToSet(d.conns)
            /\ Conn(collector(0), 0, sink(0), 0) \in ToSet(d.conns)
            /\ \A i \in 0..(n - 1) : /\ Conn(split, i, selective(i), 0) \in ToSet(d.conns)
                                     /\ Conn(selective(i), 0, busy(i), 0) \in ToSet(d.conns)
                                     /\ Conn(busy(i), 0, merge, i) \in ToSet(d.conns)
            /\ \A c \in ToSet(d.conns) :
                 \/ c = Conn(src0, 0, timestamper(0), 0) \/ c = Conn(timestamper(0), 0, split, 0)
                 \/ c = Conn(merge, 0, collector(0), 0) \/ c = Conn(collector(0), 0, sink(0), 0)
                 \/ \E i \in 0..(n - 1) : \/ c = Conn(split, i, selective(i), 0)
                                          \/ c = Conn(selective(i), 0, busy(i), 0)
                                          \/ c = Conn(busy(i), 0, merge, i)
<1> DEFINE d == DataParallel(n)
           split == Node("Split", 0)
           merge == Node("Merge", 0)
           K == [i \in 0..(n - 1) |-> {Conn(split, i, selective(i), 0), Conn(selective(i), 0, busy(i), 0),
                                       Conn(busy(i), 0, merge, i)}]
<1>1. /\ Sound(d) /\ WithoutFanIn(d) /\ d.n = n /\ d.depth = 1 /\ Len(d.ops) = n + n + 6
      /\ d \notin {UnionSink, BarrierSink}
  <2>1. d \in AllFlows
    BY DEF AllFlows
  <2>2. d.n = n /\ d.name = "dataParallel" /\ d.depth = 1
    BY DEF DataParallel
  <2>3. Len(d.ops) = 2 * n + 6
    BY ParallelNames
  <2> HIDE DEF d
  <2>4. d \notin {UnionSink, BarrierSink}
    <3>1. d.name # UnionSink.name /\ d.name # BarrierSink.name
      BY <2>2, FourFilesNames
    <3> QED BY <3>1
  <2>5. Len(d.ops) = n + n + 6
    BY <2>3
  <2> QED BY <2>1, <2>2, <2>4, <2>5, EveryFlowSound
<1>2. ToSet(d.ops) = ParallelOps(n) /\ ToSet(d.conns) = ParallelConns(n)
  <2>1. ToSet(d.conns) = ParallelConns(n)
    BY ParallelLinks
  <2>2. Lists(d.ops, Naming, ParallelOps(n))
    BY ParallelNames
  <2> HIDE DEF d
  <2> QED BY <2>1, <2>2, SoundOperators
<1>3. d.formats = Together(Columns(split, << <<"lineNo", "Integer">> >>), Columns(sink(0), NameAndGrade))
  BY DEF DataParallel
<1>4. ToSet(d.ops) = {src0, timestamper(0), split} \cup All([i \in 0..(n - 1) |-> {selective(i), busy(i)}], 0, n - 1)
                     \cup {merge, collector(0), sink(0)}
  BY <1>2 DEF ParallelOps
<1>5. ToSet(d.conns) = {Conn(src0, 0, timestamper(0), 0), Conn(timestamper(0), 0, split, 0)} \cup All(K, 0, n - 1)
                       \cup {Conn(merge, 0, collector(0), 0), Conn(collector(0), 0, sink(0), 0)}
  BY <1>2 DEF ParallelConns
<1>6. All(K, 0, n - 1) = UNION {K[i] : i \in 0..(n - 1)}
  BY DEF All
<1>7. \A i \in 0..(n - 1) : K[i] = {Conn(split, i, selective(i), 0), Conn(selective(i), 0, busy(i), 0),
                                    Conn(busy(i), 0, merge, i)}
  OBVIOUS
<1> HIDE DEF d, split, merge, K
<1>8. \A o \in ToSet(d.ops) :
        \/ o = src0 \/ o = timestamper(0) \/ o = split \/ o = merge \/ o = collector(0) \/ o = sink(0)
        \/ \E i \in 0..(n - 1) : o = selective(i) \/ o = busy(i)
  BY <1>4 DEF All
<1>9. \A i \in 0..(n - 1) : /\ Conn(split, i, selective(i), 0) \in ToSet(d.conns)
                            /\ Conn(selective(i), 0, busy(i), 0) \in ToSet(d.conns)
                            /\ Conn(busy(i), 0, merge, i) \in ToSet(d.conns)
  BY <1>5, <1>6, <1>7
<1>10. \A c \in ToSet(d.conns) :
         \/ c = Conn(src0, 0, timestamper(0), 0) \/ c = Conn(timestamper(0), 0, split, 0)
         \/ c = Conn(merge, 0, collector(0), 0) \/ c = Conn(collector(0), 0, sink(0), 0)
         \/ \E i \in 0..(n - 1) : \/ c = Conn(split, i, selective(i), 0)
                                  \/ c = Conn(selective(i), 0, busy(i), 0)
                                  \/ c = Conn(busy(i), 0, merge, i)
  BY <1>5, <1>6, <1>7
<1>11. /\ Conn(src0, 0, timestamper(0), 0) \in ToSet(d.conns)
       /\ Conn(timestamper(0), 0, split, 0) \in ToSet(d.conns)
       /\ Conn(merge, 0, collector(0), 0) \in ToSet(d.conns)
       /\ Conn(collector(0), 0, sink(0), 0) \in ToSet(d.conns)
  BY <1>5
<1>12. sink(0) \in ToSet(d.ops)
  BY <1>4
<1> QED BY <1>1, <1>3, <1>8, <1>9, <1>10, <1>11, <1>12 DEF d, split, merge

\* A data-parallel flow is laid out in levels: its one level is that of the branches.
LEMMA ParallelLaidOut ==
  ASSUME NEW n \in Nat \ {0}
  PROVE  \E level, rank : LaidOut(DataParallel(n), level, rank)
<1> DEFINE d == DataParallel(n)
           split == Node("Split", 0)
           merge == Node("Merge", 0)
           level == [o \in Classes \X Nat |->
                       IF o[1] \in {"Busy", "Merge", "ResultCollector", "FileSink"} THEN 1 ELSE 0]
           rank == [o \in Classes \X Nat |->
                      IF o[1] = "Timestamper" THEN 1 ELSE IF o[1] = "Split" THEN 2
                      ELSE IF o[1] = "Selective" THEN 3 ELSE IF o[1] = "Busy" THEN 4
                      ELSE IF o[1] = "Merge" THEN 5 ELSE IF o[1] = "ResultCollector" THEN 6
                      ELSE IF o[1] = "FileSink" THEN 7 ELSE 0]
           succ == [p \in (Classes \X Nat) \X Nat |->
                      IF p[1][1] = "TupleGenerator" THEN <<timestamper(0), 0>>
                      ELSE IF p[1][1] = "Timestamper" THEN <<split, 0>>
                      ELSE IF p[1][1] = "Split" THEN <<selective(p[2]), 0>>
                      ELSE IF p[1][1] = "Selective" THEN <<busy(p[1][2]), 0>>
                      ELSE IF p[1][1] = "Busy" THEN <<merge, p[1][2]>>
                      ELSE IF p[1][1] = "Merge" THEN <<collector(0), 0>> ELSE <<sink(0), 0>>]
           Linked(u, i, v, j) == Conn(u, i, v, j) \in ToSet(d.conns)
<1>1. /\ Sound(d) /\ d.n = n /\ d.depth = 1 /\ Len(d.ops) = n + n + 6 /\ sink(0) \in ToSet(d.ops)
      /\ \A o \in ToSet(d.ops) :
           \/ o = src0 \/ o = timestamper(0) \/ o = split \/ o = merge \/ o = collector(0) \/ o = sink(0)
           \/ \E i \in 0..(n - 1) : o = selective(i) \/ o = busy(i)
  BY ParallelParts
<1>2. /\ Linked(src0, 0, timestamper(0), 0) /\ Linked(timestamper(0), 0, split, 0)
      /\ Linked(merge, 0, collector(0), 0) /\ Linked(collector(0), 0, sink(0), 0)
      /\ \A i \in 0..(n - 1) : /\ Linked(split, i, selective(i), 0) /\ Linked(selective(i), 0, busy(i), 0)
                               /\ Linked(busy(i), 0, merge, i)
  BY ParallelParts
<1>3. \A c \in ToSet(d.conns) :
        \/ c = Conn(src0, 0, timestamper(0), 0) \/ c = Conn(timestamper(0), 0, split, 0)
        \/ c = Conn(merge, 0, collector(0), 0) \/ c = Conn(collector(0), 0, sink(0), 0)
        \/ \E i \in 0..(n - 1) : \/ c = Conn(split, i, selective(i), 0)
                                 \/ c = Conn(selective(i), 0, busy(i), 0)
                                 \/ c = Conn(busy(i), 0, merge, i)
  BY ParallelParts
<1>4. /\ split \in Classes \X Nat /\ split[1] = "Split" /\ split[2] = 0
      /\ merge \in Classes \X Nat /\ merge[1] = "Merge" /\ merge[2] = 0
  BY Classified
<1> HIDE DEF d, split, merge
<1>5. /\ \A u \in {src0, timestamper(0), split} : level[u] = 0
      /\ \A u \in {merge, collector(0), sink(0)} : level[u] = 1
      /\ \A i \in Nat : level[selective(i)] = 0 /\ level[busy(i)] = 1
  BY <1>4, Classified
<1>6. /\ rank[src0] = 0 /\ rank[timestamper(0)] = 1 /\ rank[split] = 2 /\ rank[merge] = 5
      /\ rank[collector(0)] = 6 /\ rank[sink(0)] = 7
      /\ \A i \in Nat : rank[selective(i)] = 3 /\ rank[busy(i)] = 4
  <2>1. rank[src0] = 0 /\ rank[timestamper(0)] = 1 /\ rank[split] = 2
    BY <1>4, Classified
  <2>2. rank[merge] = 5
    BY <1>4
  <2>3. rank[collector(0)] = 6 /\ rank[sink(0)] = 7
    BY Classified
  <2>4. \A i \in Nat : rank[selective(i)] = 3 /\ rank[busy(i)] = 4
    BY Classified
  <2> QED BY <2>1, <2>2, <2>3, <2>4
<1>7. /\ succ[<<src0, 0>>] = <<timestamper(0), 0>> /\ succ[<<timestamper(0), 0>>] = <<split, 0>>
      /\ succ[<<merge, 0>>] = <<collector(0), 0>> /\ succ[<<collector(0), 0>>] = <<sink(0), 0>>
      /\ \A i \in Nat : /\ succ[<<split, i>>] = <<selective(i), 0>>
                        /\ succ[<<selective(i), 0>>] = <<busy(i), 0>>
                        /\ succ[<<busy(i), 0>>] = <<merge, i>>
  <2>1. \A o \in Classes \X Nat, i \in Nat :
          <<o, i>> \in (Classes \X Nat) \X Nat /\ <<o, i>>[1] = o /\ <<o, i>>[2] = i
    OBVIOUS
  <2>2. succ[<<src0, 0>>] = <<timestamper(0), 0>> /\ succ[<<timestamper(0), 0>>] = <<split, 0>>
    BY <2>1, Classified
  <2>3. succ[<<merge, 0>>] = <<collector(0), 0>>
    BY <1>4, <2>1
  <2>4. succ[<<collector(0), 0>>] = <<sink(0), 0>>
    BY <2>1, Classified
  <2>5. \A i \in Nat : succ[<<split, i>>] = <<selective(i), 0>>
    BY <1>4, <2>1
  <2>6. \A i \in Nat : succ[<<selective(i), 0>>] = <<busy(i), 0>>
    BY <2>1, Classified
  <2>7. \A i \in Nat : succ[<<busy(i), 0>>] = <<merge, i>>
    BY <2>1, Classified
  <2> QED BY <2>2, <2>3, <2>4, <2>5, <2>6, <2>7
<1>8. /\ Ins(src0[1], n) = 0 /\ Outs(sink(0)[1], n) = 0 /\ Outs(src0[1], n) = 1 /\ Ins(sink(0)[1], n) = 1
      /\ \A u \in {timestamper(0), collector(0)} : Ins(u[1], n) = 1 /\ Outs(u[1], n) = 1
      /\ Ins(split[1], n) = 1 /\ Outs(split[1], n) = n /\ Ins(merge[1], n) = n /\ Outs(merge[1], n) = 1
      /\ \A i \in Nat : \A u \in {selective(i), busy(i)} : Ins(u[1], n) = 1 /\ Outs(u[1], n) = 1
  BY <1>4, Classified DEF Ins, Outs
<1>9. /\ \A u \in {src0, timestamper(0), split, merge, collector(0), sink(0)} : u[1] # "Busy"
      /\ \A i \in Nat : selective(i)[1] # "Busy" /\ busy(i)[1] = "Busy"
      /\ \A u \in {src0, timestamper(0), split, merge, collector(0)} : u[1] # "FileSink"
      /\ \A i \in Nat : selective(i)[1] # "FileSink" /\ busy(i)[1] # "FileSink"
      /\ sink(0)[1] = "FileSink"
  BY <1>4, Classified
<1> HIDE DEF level, rank, succ
<1>10. /\ From(d, src0, 0) /\ Into(d, timestamper(0), 0) /\ From(d, timestamper(0), 0) /\ Into(d, split, 0)
       /\ From(d, merge, 0) /\ Into(d, collector(0), 0) /\ From(d, collector(0), 0) /\ Into(d, sink(0), 0)
       /\ \A i \in 0..(n - 1) : /\ From(d, split, i) /\ Into(d, selective(i), 0) /\ From(d, selective(i), 0)
                                /\ Into(d, busy(i), 0) /\ From(d, busy(i), 0) /\ Into(d, merge, i)
  BY <1>2, Connected
<1> HIDE DEF Linked
<1>11. ASSUME NEW o \in ToSet(d.ops) PROVE Served(d, o)
  <2>1. CASE o \in {src0, timestamper(0), split, merge, collector(0), sink(0)}
    BY <1>1, <1>8, <1>10, <2>1 DEF Served
  <2>2. CASE \E i \in 0..(n - 1) : o = selective(i) \/ o = busy(i)
    BY <1>1, <1>8, <1>10, <2>2 DEF Served
  <2> QED BY <1>1, <2>1, <2>2
<1>12. ASSUME NEW o \in ToSet(d.ops) PROVE Placed(d, level, rank, o)
  <2>0. \A k \in 0..7 : k \in 0..Len(d.ops)
    BY <1>1
  <2>1. CASE o \in {src0, timestamper(0), split}
    <3>1. level[o] = 0 /\ rank[o] \in 0..7 /\ o[1] # "Busy" /\ o[1] # "FileSink"
      BY <1>5, <1>6, <1>9, <2>1
    <3> QED BY <2>0, <3>1 DEF Placed
  <2>2. CASE o \in {merge, collector(0), sink(0)}
    <3>1. level[o] = 1 /\ rank[o] \in 0..7 /\ Ins(o[1], n) # 0
      BY <1>5, <1>6, <1>8, <2>2
    <3> QED BY <1>1, <2>0, <3>1 DEF Placed
  <2>3. CASE \E i \in 0..(n - 1) : o = selective(i) \/ o = busy(i)
    <3>1. level[o] \in Nat /\ rank[o] \in 0..7 /\ Ins(o[1], n) # 0 /\ o[1] # "FileSink"
      BY <1>5, <1>6, <1>8, <1>9, <2>3
    <3> QED BY <1>1, <2>0, <3>1 DEF Placed
  <2> QED BY <1>1, <2>1, <2>2, <2>3
<1>13. ASSUME NEW c \in ToSet(d.conns) PROVE Climbs(c, level, rank, succ)
  <2>0. 0 \in Nat
    OBVIOUS
  <2>1. CASE c = Conn(src0, 0, timestamper(0), 0)
    <3>3. rank[src0] < rank[timestamper(0)]
      BY <1>6, <2>0
    <3>4. level[timestamper(0)] = level[src0] /\ level[src0] \in Int
      BY <1>5, <2>0
    <3>5. timestamper(0)[1] # "Busy" /\ succ[<<src0, 0>>] = <<timestamper(0), 0>>
      BY <1>7, <1>9, <2>0
    <3> QED BY <2>1, <3>3, <3>4, <3>5, Climbing
  <2>2. CASE c = Conn(timestamper(0), 0, split, 0)
    <3>3. rank[timestamper(0)] < rank[split]
      BY <1>6, <2>0
    <3>4. level[split] = level[timestamper(0)] /\ level[timestamper(0)] \in Int
      BY <1>5, <2>0
    <3>5. split[1] # "Busy" /\ succ[<<timestamper(0), 0>>] = <<split, 0>>
      BY <1>7, <1>9, <2>0
    <3> QED BY <2>2, <3>3, <3>4, <3>5, Climbing
  <2>3. CASE c = Conn(merge, 0, collector(0), 0)
    <3>3. rank[merge] < rank[collector(0)]
      BY <1>6, <2>0
    <3>4. level[collector(0)] = level[merge] /\ level[merge] \in Int
      BY <1>5, <2>0
    <3>5. collector(0)[1] # "Busy" /\ succ[<<merge, 0>>] = <<collector(0), 0>>
      BY <1>7, <1>9, <2>0
    <3> QED BY <2>3, <3>3, <3>4, <3>5, Climbing
  <2>4. CASE c = Conn(collector(0), 0, sink(0), 0)
    <3>3. rank[collector(0)] < rank[sink(0)]
      BY <1>6, <2>0
    <3>4. level[sink(0)] = level[collector(0)] /\ level[collector(0)] \in Int
      BY <1>5, <2>0
    <3>5. sink(0)[1] # "Busy" /\ succ[<<collector(0), 0>>] = <<sink(0), 0>>
      BY <1>7, <1>9, <2>0
    <3> QED BY <2>4, <3>3, <3>4, <3>5, Climbing
  <2>5. CASE \E i \in 0..(n - 1) : c = Conn(split, i, selective(i), 0)
    <3>1. PICK i \in 0..(n - 1) : c = Conn(split, i, selective(i), 0)
      BY <2>5
    <3>2. i \in Nat
      OBVIOUS
    <3>3. rank[split] < rank[selective(i)]
      BY <1>6, <3>2
    <3>4. level[selective(i)] = level[split] /\ level[split] \in Int
      BY <1>5, <3>2
    <3>5. selective(i)[1] # "Busy" /\ succ[<<split, i>>] = <<selective(i), 0>>
      BY <1>7, <1>9, <3>2
    <3> QED BY <3>1, <3>3, <3>4, <3>5, Climbing
  <2>6. CASE \E i \in 0..(n - 1) : c = Conn(selective(i), 0, busy(i), 0)
    <3>1. PICK i \in 0..(n - 1) : c = Conn(selective(i), 0, busy(i), 0)
      BY <2>6
    <3>2. i \in Nat
      OBVIOUS
    <3>3. rank[selective(i)] < rank[busy(i)]
      BY <1>6, <3>2
    <3>4. level[busy(i)] = level[selective(i)] + 1 /\ level[selective(i)] \in Int
      BY <1>5, <3>2
    <3>5. busy(i)[1] = "Busy" /\ succ[<<selective(i), 0>>] = <<busy(i), 0>>
      BY <1>7, <1>9, <3>2
    <3> QED BY <3>1, <3>3, <3>4, <3>5, Climbing
  <2>7. CASE \E i \in 0..(n - 1) : c = Conn(busy(i), 0, merge, i)
    <3>1. PICK i \in 0..(n - 1) : c = Conn(busy(i), 0, merge, i)
      BY <2>7
    <3>2. i \in Nat
      OBVIOUS
    <3>3. rank[busy(i)] < rank[merge]
      BY <1>6, <3>2
    <3>4. level[merge] = level[busy(i)] /\ level[busy(i)] \in Int
      BY <1>5, <3>2
    <3>5. merge[1] # "Busy" /\ succ[<<busy(i), 0>>] = <<merge, i>>
      BY <1>7, <1>9, <3>2
    <3> QED BY <3>1, <3>3, <3>4, <3>5, Climbing
  <2> QED BY <1>3, <2>1, <2>2, <2>3, <2>4, <2>5, <2>6, <2>7
<1>14. \E o \in ToSet(d.ops) : o[1] = "FileSink"
  BY <1>1, <1>9
<1>15. LaidOut(d, level, rank)
  BY <1>1, <1>11, <1>12, <1>13, <1>14, Levels
<1> QED BY <1>15 DEF d

\* The names in a data-parallel flow: between the split and the merge the tuples have a
\* sequence number.
LEMMA NumberedNames ==
  LET names == RoleNames({"Selective", "Busy", "Merge"})
      stamped == Generated \cup {"Timestamp"}
      numbered == Generated \cup {"Timestamp", "seqNo"}
  IN /\ names["Timestamper"] = Generated /\ names["Split"] = stamped
     /\ names["Selective"] = numbered /\ names["Busy"] = numbered /\ names["Merge"] = numbered
     /\ names["ResultCollector"] = stamped /\ names["FileSink"] = stamped
     /\ Given("TupleGenerator", names, Generated) = Generated
     /\ Given("Timestamper", names, Generated) = stamped
     /\ Given("Split", names, Generated) = numbered
     /\ Given("Selective", names, Generated) = numbered /\ Given("Busy", names, Generated) = numbered
     /\ Given("Merge", names, Generated) = stamped /\ Given("ResultCollector", names, Generated) = stamped
<1> DEFINE names == RoleNames({"Selective", "Busy", "Merge"})
           stamped == Generated \cup {"Timestamp"}
           numbered == Generated \cup {"Timestamp", "seqNo"}
<1>1. /\ names["Timestamper"] = Generated /\ names["Split"] = stamped
      /\ names["Selective"] = numbered /\ names["Busy"] = numbered /\ names["Merge"] = numbered
      /\ names["ResultCollector"] = stamped /\ names["FileSink"] = stamped
  <2>1. {"Timestamper", "Split", "Selective", "Busy", "Merge", "ResultCollector", "FileSink"} \subseteq Classes
    BY DEF Classes
  <2> QED BY <2>1 DEF RoleNames
<1>2. stamped \cup {"seqNo"} = numbered /\ numbered \ {"seqNo"} = stamped
  BY DEF Generated
<1> HIDE DEF names
<1>3. Given("TupleGenerator", names, Generated) = Generated
  BY DEF Given
<1>4. /\ NamesPassed("Timestamper", Generated) = stamped /\ NamesPassed("Split", stamped) = numbered
      /\ NamesPassed("Merge", numbered) = stamped /\ NamesPassed("Selective", numbered) = numbered
      /\ NamesPassed("Busy", numbered) = numbered /\ NamesPassed("ResultCollector", stamped) = stamped
  BY <1>2 DEF NamesPassed
<1> HIDE DEF stamped, numbered
<1>5. /\ Given("Timestamper", names, Generated) = stamped
      /\ Given("Split", names, Generated) = numbered
      /\ Given("Selective", names, Generated) = numbered /\ Given("Busy", names, Generated) = numbered
      /\ Given("Merge", names, Generated) = stamped /\ Given("ResultCollector", names, Generated) = stamped
  BY <1>1, <1>4 DEF Given
<1> QED BY <1>1, <1>3, <1>5 DEF names, stamped, numbered

\* The flows of any width are as documented.
LEMMA ParallelOrderly ==
  ASSUME NEW n \in Nat \ {0}
  PROVE  Orderly(DataParallel(n))
<1> DEFINE d == DataParallel(n)
           split == Node("Split", 0)
           merge == Node("Merge", 0)
           names == RoleNames({"Selective", "Busy", "Merge"})
           stamped == Generated \cup {"Timestamp"}
           numbered == Generated \cup {"Timestamp", "seqNo"}
           number == << <<"lineNo", "Integer">> >>
<1>1. /\ Sound(d) /\ WithoutFanIn(d) /\ d.n = n /\ d \notin {UnionSink, BarrierSink}
      /\ d.formats = Together(Columns(split, number), Columns(sink(0), NameAndGrade))
      /\ \A o \in ToSet(d.ops) :
           \/ o = src0 \/ o = timestamper(0) \/ o = split \/ o = merge \/ o = collector(0) \/ o = sink(0)
           \/ \E i \in 0..(n - 1) : o = selective(i) \/ o = busy(i)
  BY ParallelParts
<1>2. \A c \in ToSet(d.conns) :
        \/ c = Conn(src0, 0, timestamper(0), 0) \/ c = Conn(timestamper(0), 0, split, 0)
        \/ c = Conn(merge, 0, collector(0), 0) \/ c = Conn(collector(0), 0, sink(0), 0)
        \/ \E i \in 0..(n - 1) : \/ c = Conn(split, i, selective(i), 0)
                                 \/ c = Conn(selective(i), 0, busy(i), 0)
                                 \/ c = Conn(busy(i), 0, merge, i)
  BY ParallelParts
<1>3. /\ split \in Classes \X Nat /\ split[1] = "Split" /\ merge \in Classes \X Nat /\ merge[1] = "Merge"
  BY Classified
<1> HIDE DEF d, split, merge
<1>4. /\ names["Timestamper"] = Generated /\ names["Split"] = stamped
      /\ names["Selective"] = numbered /\ names["Busy"] = numbered /\ names["Merge"] = numbered
      /\ names["ResultCollector"] = stamped /\ names["FileSink"] = stamped
  BY NumberedNames
<1>5. /\ Given("TupleGenerator", names, Generated) = Generated
      /\ Given("Timestamper", names, Generated) = stamped
      /\ Given("Split", names, Generated) = numbered
      /\ Given("Selective", names, Generated) = numbered /\ Given("Busy", names, Generated) = numbered
      /\ Given("Merge", names, Generated) = stamped /\ Given("ResultCollector", names, Generated) = stamped
  BY NumberedNames
<1>6. \A r \in Classes : IsFiniteSet(names[r])
  BY FiniteNames
<1>7. /\ WellTyped(NameAndGrade) /\ NameAndGrade # <<>> /\ Named(NameAndGrade) \subseteq stamped
      /\ WellTyped(number) /\ Named(number) \subseteq stamped /\ WellTyped(<<>>)
      /\ "Timestamp" \in stamped /\ "seqNo" \in numbered
  BY Formats DEF Generated
<1> HIDE DEF names, stamped, numbered, number
<1>8. ASSUME NEW o \in ToSet(d.ops)
      PROVE  /\ o[1] # "Barrier" /\ WellTyped(Format(d, o))
             /\ o[1] = "FileSource" => Named(Format(d, o)) = Generated
             /\ o[1] = "TupleGenerator" => Generated = Generated
             /\ Ins(o[1], d.n) # 0 => IsFiniteSet(names[o[1]]) /\ Suffices(o[1], Format(d, o), names[o[1]])
  <2>1. /\ o \in Classes \X Nat /\ (o[1] = "FileSink" <=> o = sink(0)) /\ (o[1] = "Split" <=> o = split)
        /\ o[1] \in {"TupleGenerator", "Timestamper", "Split", "Selective", "Busy", "Merge", "ResultCollector",
                     "FileSink"}
    <3>1. CASE \E i \in 0..(n - 1) : o = selective(i) \/ o = busy(i)
      <4>1. PICK i \in 0..(n - 1) : o = selective(i) \/ o = busy(i)
        BY <3>1
      <4>2. o \in Classes \X Nat /\ o[1] \in {"Selective", "Busy"}
        BY <4>1, Classified
      <4>3. sink(0)[1] = "FileSink"
        BY Classified
      <4> QED BY <1>3, <4>2, <4>3
    <3>2. CASE o \in {src0, timestamper(0), merge, collector(0)}
      <4>1. o \in Classes \X Nat /\ o[1] \in {"TupleGenerator", "Timestamper", "Merge", "ResultCollector"}
        BY <1>3, <3>2, Classified
      <4>2. sink(0)[1] = "FileSink"
        BY Classified
      <4> QED BY <1>3, <4>1, <4>2
    <3>3. CASE o = sink(0) \/ o = split
      <4>1. sink(0)[1] = "FileSink" /\ sink(0) \in Classes \X Nat
        BY Classified
      <4> QED BY <1>3, <3>3, <4>1
    <3> QED BY <1>1, <3>1, <3>2, <3>3
  <2>2. Format(d, o) = IF o = sink(0) THEN NameAndGrade ELSE IF o = split THEN number ELSE <<>>
    <3>1. split # sink(0)
      BY <1>3, Classified
    <3> QED BY <1>1, <3>1 DEF Format, Together, Columns
  <2>3. WellTyped(Format(d, o))
    BY <1>7, <2>2
  <2>4. IsFiniteSet(names[o[1]])
    BY <1>6, <2>1
  <2>5. Suffices(o[1], Format(d, o), names[o[1]])
    <3>1. CASE o[1] = "FileSink"
      BY <1>4, <1>7, <2>1, <2>2, <3>1 DEF Suffices
    <3>2. CASE o[1] = "Split"
      <4>1. o # sink(0)
        BY <2>1, <3>2
      <4> QED BY <1>4, <1>7, <2>1, <2>2, <3>2, <4>1 DEF Suffices
    <3>3. CASE o[1] = "Merge"
      BY <1>4, <1>7, <3>3 DEF Suffices
    <3>4. CASE o[1] = "ResultCollector"
      BY <1>4, <1>7, <3>4 DEF Suffices
    <3>5. CASE o[1] \notin {"FileSink", "Split", "Merge", "ResultCollector"}
      BY <2>1, <3>5 DEF Suffices
    <3> QED BY <3>1, <3>2, <3>3, <3>4, <3>5
  <2> QED BY <2>1, <2>3, <2>4, <2>5
<1>9. ASSUME NEW c \in ToSet(d.conns) PROVE Given(c.from[1], names, Generated) = names[c.to[1]]
  <2>1. CASE c = Conn(src0, 0, timestamper(0), 0)
    <3>1. c.from[1] = "TupleGenerator" /\ c.to[1] = "Timestamper"
      BY <2>1, Classified, Ends
    <3> QED BY <1>4, <1>5, <3>1
  <2>2. CASE c = Conn(timestamper(0), 0, split, 0)
    <3>1. c.from[1] = "Timestamper" /\ c.to[1] = "Split"
      BY <1>3, <2>2, Classified, Ends
    <3> QED BY <1>4, <1>5, <3>1
  <2>3. CASE c = Conn(merge, 0, collector(0), 0)
    <3>1. c.from[1] = "Merge" /\ c.to[1] = "ResultCollector"
      BY <1>3, <2>3, Classified, Ends
    <3> QED BY <1>4, <1>5, <3>1
  <2>4. CASE c = Conn(collector(0), 0, sink(0), 0)
    <3>1. c.from[1] = "ResultCollector" /\ c.to[1] = "FileSink"
      BY <2>4, Classified, Ends
    <3> QED BY <1>4, <1>5, <3>1
  <2>5. CASE \E i \in 0..(n - 1) : c = Conn(split, i, selective(i), 0)
    <3>1. c.from[1] = "Split" /\ c.to[1] = "Selective"
      BY <1>3, <2>5, Classified, Ends
    <3> QED BY <1>4, <1>5, <3>1
  <2>6. CASE \E i \in 0..(n - 1) : c = Conn(selective(i), 0, busy(i), 0)
    <3>1. c.from[1] = "Selective" /\ c.to[1] = "Busy"
      BY <2>6, Classified, Ends
    <3> QED BY <1>4, <1>5, <3>1
  <2>7. CASE \E i \in 0..(n - 1) : c = Conn(busy(i), 0, merge, i)
    <3>1. c.from[1] = "Busy" /\ c.to[1] = "Merge"
      BY <1>3, <2>7, Classified, Ends
    <3> QED BY <1>4, <1>5, <3>1
  <2> QED BY <1>2, <2>1, <2>2, <2>3, <2>4, <2>5, <2>6, <2>7
<1>10. d.n # 0 /\ ToSet(d.ops) \subseteq Classes \X Nat
  <2>1. ASSUME NEW i \in 0..(n - 1) PROVE selective(i) \in Classes \X Nat /\ busy(i) \in Classes \X Nat
    BY Classified
  <2>2. \A o \in {src0, timestamper(0), merge, split, collector(0), sink(0)} : o \in Classes \X Nat
    BY <1>3, Classified
  <2> QED BY <1>1, <2>1, <2>2
<1>11. Supplied(d, ByClass(names))
  BY <1>1, <1>8, <1>9, <1>10, SuppliedByClass
<1>12. \E level, rank : LaidOut(d, level, rank)
  BY ParallelLaidOut DEF d
<1>13. Fed(d)
  BY <1>1, <1>12, FedOnce
<1>14. Orderly(d)
  BY <1>11, <1>12, <1>13 DEF Orderly
<1> QED BY <1>14 DEF d

-----------------------------------------------------------------------------
(***************************************************************************)
(* The rows of a tree.                                                    *)
(***************************************************************************)

\* Node i is in row l.
InRow(i, l, n) == Nodes(l, n) <= i /\ i < Nodes(l + 1, n)

\* The row of every node: one more than that of its parent.
Rows(row, depth, n) ==
  /\ \A i \in 0..(Nodes(depth, n) - 1) : row[i] \in 0..(depth - 1)
  /\ row[0] = 0
  /\ \A i \in 0..(Nodes(depth - 1, n) - 1), j \in 0..(n - 1) : row[Child(i, j, n)] = row[i] + 1
  /\ \A i \in Nodes(depth - 1, n)..(Nodes(depth, n) - 1) : row[i] = depth - 1

\* The nodes of the first k rows grow with k.
LEMMA RowSizes ==
  ASSUME NEW n \in Nat, n > 1
  PROVE  /\ \A k \in Nat : Nodes(k, n) \in Nat /\ Nodes(k + 1, n) = n * Nodes(k, n) + 1
         /\ \A k \in Nat : Nodes(k, n) < Nodes(k + 1, n)
         /\ Nodes(0, n) = 0 /\ Nodes(1, n) = 1
         /\ \A l, k \in Nat : l <= k => Nodes(l, n) <= Nodes(k, n)
<1>1. \A k \in Nat : Nodes(k, n) \in Nat /\ Nodes(k + 1, n) = n * Nodes(k, n) + 1
  BY NodesOfTree
<1>2. ASSUME NEW k \in Nat PROVE Nodes(k, n) < Nodes(k + 1, n)
  <2> DEFINE x == Nodes(k, n)
             y == Nodes(k + 1, n)
  <2>1. x \in Nat /\ y = n * x + 1
    BY <1>1
  <2> HIDE DEF x, y
  <2>2. n * x >= x /\ n * x \in Nat
    BY <2>1
  <2>3. x < y
    BY <2>1, <2>2
  <2> QED BY <2>3 DEF x, y
<1>3. Nodes(0, n) = 0
  <2>1. Power(n, 0) = 1
    BY PowerSteps
  <2>2. n - 1 \in Nat \ {0} /\ 0 \in 0..((n - 1) - 1)
    OBVIOUS
  <2>3. ((n - 1) * 0 + 0) \div (n - 1) = 0
    BY <2>2, Division
  <2>4. (n - 1) * 0 + 0 = 1 - 1
    OBVIOUS
  <2> QED BY <2>1, <2>3, <2>4 DEF Nodes
<1>4. Nodes(1, n) = 1
  <2>1. Nodes(0 + 1, n) = n * Nodes(0, n) + 1
    BY <1>1
  <2>2. n * 0 + 1 = 1 /\ 0 + 1 = 1
    OBVIOUS
  <2> QED BY <1>3, <2>1, <2>2
<1>5. \A l, k \in Nat : l <= k => Nodes(l, n) <= Nodes(k, n)
  <2> DEFINE good == {k \in Nat : \A l \in 0..k : Nodes(l, n) <= Nodes(k, n)}
  <2>1. 0 \in good
    <3>1. \A l \in 0..0 : l = 0
      OBVIOUS
    <3>2. Nodes(0, n) <= Nodes(0, n)
      BY <1>3
    <3> QED BY <3>1, <3>2
  <2>2. ASSUME NEW k \in Nat, k \in good PROVE k + 1 \in good
    <3>1. Nodes(k, n) \in Nat /\ Nodes(k + 1, n) \in Nat /\ Nodes(k, n) < Nodes(k + 1, n)
      BY <1>1, <1>2
    <3>2. ASSUME NEW l \in 0..(k + 1) PROVE Nodes(l, n) <= Nodes(k + 1, n)
      <4>1. CASE l = k + 1
        BY <3>1, <4>1
      <4>2. CASE l # k + 1
        <5>1. l \in 0..k /\ l \in Nat
          BY <4>2
        <5>2. Nodes(l, n) <= Nodes(k, n) /\ Nodes(l, n) \in Nat
          BY <1>1, <2>2, <5>1
        <5> QED BY <3>1, <5>2
      <4> QED BY <4>1, <4>2
    <3> QED BY <3>2
  <2> HIDE DEF good
  <2>3. Nat \subseteq good
    BY <2>1, <2>2, Induction
  <2>4. ASSUME NEW l \in Nat, NEW k \in Nat, l <= k PROVE Nodes(l, n) <= Nodes(k, n)
    <3>1. l \in 0..k
      BY <2>4
    <3>2. k \in good
      BY <2>3
    <3> QED BY <3>1, <3>2 DEF good
  <2> QED BY <2>4
<1> QED BY <1>1, <1>2, <1>3, <1>4, <1>5

\* Every node of a tree is in a row, and its children are in the next one.
LEMMA RowsExist ==
  ASSUME NEW depth \in Nat \ {0}, NEW n \in Nat, n > 1
  PROVE  \E row : Rows(row, depth, n)
<1>1. /\ \A k \in Nat : Nodes(k, n) \in Nat /\ Nodes(k + 1, n) = n * Nodes(k, n) + 1
      /\ \A k \in Nat : Nodes(k, n) < Nodes(k + 1, n)
      /\ Nodes(0, n) = 0 /\ Nodes(1, n) = 1
      /\ \A l, k \in Nat : l <= k => Nodes(l, n) <= Nodes(k, n)
  BY RowSizes
<1>2. ASSUME NEW i \in Nat, NEW l \in Nat, NEW k \in Nat, l < k, InRow(i, l, n), InRow(i, k, n) PROVE FALSE
  <2>1. l + 1 \in Nat /\ l + 1 <= k
    BY <1>2
  <2>2. Nodes(l + 1, n) <= Nodes(k, n) /\ Nodes(l + 1, n) \in Nat /\ Nodes(k, n) \in Nat
    BY <1>1, <2>1
  <2>3. Nodes(k, n) <= i /\ i < Nodes(l + 1, n)
    BY <1>2 DEF InRow
  <2> QED BY <2>2, <2>3
<1>3. ASSUME NEW i \in Nat, NEW l \in Nat, NEW k \in Nat, InRow(i, l, n), InRow(i, k, n) PROVE l = k
  <2>1. l < k \/ k < l \/ l = k
    OBVIOUS
  <2> QED BY <1>2, <1>3, <2>1
<1>4. ASSUME NEW i \in Nat, NEW l \in Nat, InRow(i, l, n), NEW j \in 0..(n - 1)
      PROVE  Child(i, j, n) \in Nat /\ InRow(Child(i, j, n), l + 1, n)
  <2> DEFINE x == Nodes(l, n)
             y == Nodes(l + 1, n)
             z == Nodes((l + 1) + 1, n)
             c == Child(i, j, n)
  <2>1. x \in Nat /\ y \in Nat /\ y = n * x + 1 /\ z = n * y + 1 /\ x <= i /\ i < y
    <3>1. l + 1 \in Nat
      OBVIOUS
    <3> QED BY <1>1, <1>4, <3>1 DEF InRow
  <2>2. c = n * i + j + 1
    <3>1. i * n = n * i
      OBVIOUS
    <3> QED BY <3>1 DEF Child
  <2> HIDE DEF x, y, z, c
  <2>3. n * x <= n * i /\ n * x \in Nat /\ n * i \in Nat /\ n * y \in Nat
    BY <2>1
  <2>4. n * (i + 1) <= n * y
    <3>1. i + 1 <= y /\ i + 1 \in Nat
      BY <2>1
    <3> QED BY <2>1, <3>1
  <2>5. n * (i + 1) = n * i + n
    OBVIOUS
  <2>6. y <= c /\ c < z /\ c \in Nat
    BY <2>1, <2>2, <2>3, <2>4, <2>5
  <2> QED BY <2>6 DEF x, y, z, c, InRow
<1>0. \A k \in Nat : Nodes(k, n) \in Nat
  BY <1>1
<1> DEFINE good == {k \in Nat : \A i \in 0..(Nodes(k, n) - 1) : \E l \in 0..(k - 1) : InRow(i, l, n)}
<1>5. 0 \in good
  <2>1. 0..(0 - 1) = {}
    OBVIOUS
  <2> QED BY <1>1, <2>1
<1>6. ASSUME NEW k \in Nat, k \in good PROVE k + 1 \in good
  <2>1. Nodes(k, n) \in Nat /\ Nodes(k + 1, n) \in Nat
    <3>1. k + 1 \in Nat
      OBVIOUS
    <3> QED BY <1>0, <3>1
  <2>2. ASSUME NEW i \in 0..(Nodes(k + 1, n) - 1) PROVE \E l \in 0..((k + 1) - 1) : InRow(i, l, n)
    <3>1. CASE i < Nodes(k, n)
      <4>1. i \in 0..(Nodes(k, n) - 1)
        BY <2>1, <3>1
      <4>2. PICK l \in 0..(k - 1) : InRow(i, l, n)
        BY <1>6, <4>1
      <4>3. l \in 0..((k + 1) - 1)
        OBVIOUS
      <4> QED BY <4>2, <4>3
    <3>2. CASE ~(i < Nodes(k, n))
      <4>1. InRow(i, k, n)
        BY <2>1, <3>2 DEF InRow
      <4>2. k \in 0..((k + 1) - 1)
        OBVIOUS
      <4> QED BY <4>1, <4>2
    <3> QED BY <3>1, <3>2
  <2> QED BY <2>2
<1> HIDE DEF good
<1>7. \A i \in 0..(Nodes(depth, n) - 1) : \E l \in 0..(depth - 1) : InRow(i, l, n)
  <2>1. depth \in good
    BY <1>5, <1>6, Induction
  <2> QED BY <2>1 DEF good
<1> DEFINE row == [i \in Nat |-> CHOOSE l \in Nat : InRow(i, l, n)]
<1>8. ASSUME NEW i \in Nat, NEW l \in Nat, InRow(i, l, n) PROVE row[i] = l
  <2> DEFINE k == CHOOSE l2 \in Nat : InRow(i, l2, n)
  <2>1. k \in Nat /\ InRow(i, k, n)
    BY <1>8
  <2> HIDE DEF k
  <2>2. k = l
    BY <1>3, <1>8, <2>1
  <2> QED BY <2>2 DEF k
<1> HIDE DEF row
<1>9. ASSUME NEW i \in 0..(Nodes(depth, n) - 1)
      PROVE  row[i] \in 0..(depth - 1) /\ InRow(i, row[i], n)
  <2>1. PICK l \in 0..(depth - 1) : InRow(i, l, n)
    BY <1>7
  <2>2. row[i] = l
    BY <1>8, <2>1
  <2> QED BY <2>1, <2>2
<1>10. row[0] = 0
  <2>1. InRow(0, 0, n)
    <3>1. 0 + 1 = 1
      OBVIOUS
    <3> QED BY <1>1, <3>1 DEF InRow
  <2> QED BY <1>8, <2>1
<1>11. depth - 1 \in Nat /\ (depth - 1) + 1 = depth
  OBVIOUS
<1>12. Nodes(depth - 1, n) \in Nat /\ Nodes(depth, n) \in Nat /\ Nodes(depth - 1, n) <= Nodes(depth, n)
  <2> DEFINE less == depth - 1
  <2>1. less \in Nat /\ depth \in Nat /\ less <= depth
    OBVIOUS
  <2> HIDE DEF less
  <2>2. Nodes(less, n) \in Nat /\ Nodes(depth, n) \in Nat /\ Nodes(less, n) <= Nodes(depth, n)
    BY <1>1, <2>1
  <2> QED BY <2>2 DEF less
<1>13. ASSUME NEW i \in 0..(Nodes(depth - 1, n) - 1), NEW j \in 0..(n - 1)
       PROVE  row[Child(i, j, n)] = row[i] + 1
  <2>1. i \in 0..(Nodes(depth, n) - 1)
    BY <1>12
  <2>2. row[i] \in Nat /\ InRow(i, row[i], n) /\ i \in Nat
    BY <1>9, <2>1
  <2>3. Child(i, j, n) \in Nat /\ InRow(Child(i, j, n), row[i] + 1, n)
    BY <1>4, <2>2
  <2>4. row[i] + 1 \in Nat
    BY <2>2
  <2> QED BY <1>8, <2>3, <2>4
<1>14. ASSUME NEW i \in Nodes(depth - 1, n)..(Nodes(depth, n) - 1) PROVE row[i] = depth - 1
  <2>1. InRow(i, depth - 1, n) /\ i \in Nat
    BY <1>11, <1>12 DEF InRow
  <2> QED BY <1>8, <1>11, <2>1
<1>15. Rows(row, depth, n)
  BY <1>9, <1>10, <1>13, <1>14 DEF Rows
<1> QED BY <1>15

\* What design d of a tree of this depth and width lists: its numbers, its operators and its connections.
TreeShape(d, depth, n, nodes, splits, leaves) ==
  LET split(i) == Node("RoundRobinSplit", i)
  IN
     /\ Sound(d) /\ WithoutFanIn(d) /\ d.n = n /\ d.depth = depth
     /\ Len(d.ops) = 2 + nodes + nodes + splits + leaves + leaves
     /\ d \notin {UnionSink, BarrierSink}
     /\ d.formats = [s \in {sink(i) : i \in 0..(leaves - 1)} |-> NameAndGrade]
     /\ \A i \in 0..(leaves - 1) : sink(i) \in ToSet(d.ops)
     /\ \A o \in ToSet(d.ops) :
          \/ o = src0 \/ o = timestamper(0)
          \/ \E i \in 0..(nodes - 1) : o = selective(i) \/ o = busy(i)
          \/ \E i \in 0..(splits - 1) : o = split(i)
          \/ \E i \in 0..(leaves - 1) : o = collector(i) \/ o = sink(i)
     /\ Conn(src0, 0, timestamper(0), 0) \in ToSet(d.conns)
     /\ Conn(timestamper(0), 0, selective(0), 0) \in ToSet(d.conns)
     /\ \A i \in 0..(nodes - 1) : Conn(selective(i), 0, busy(i), 0) \in ToSet(d.conns)
     /\ \A i \in 0..(splits - 1) : Conn(busy(i), 0, split(i), 0) \in ToSet(d.conns)
     /\ \A i \in 0..(splits - 1), j \in 0..(n - 1) :
          Conn(split(i), j, selective(Child(i, j, n)), 0) \in ToSet(d.conns)
     /\ \A i \in 0..(leaves - 1) : /\ Conn(busy(i + splits), 0, collector(i), 0) \in ToSet(d.conns)
                                   /\ Conn(collector(i), 0, sink(i), 0) \in ToSet(d.conns)
     /\ \A c \in ToSet(d.conns) :
          \/ c = Conn(src0, 0, timestamper(0), 0) \/ c = Conn(timestamper(0), 0, selective(0), 0)
          \/ \E i \in 0..(nodes - 1) : c = Conn(selective(i), 0, busy(i), 0)
          \/ \E i \in 0..(splits - 1) : c = Conn(busy(i), 0, split(i), 0)
          \/ \E i \in 0..(splits - 1), j \in 0..(n - 1) : c = Conn(split(i), j, selective(Child(i, j, n)), 0)
          \/ \E i \in 0..(leaves - 1) : c = Conn(busy(i + splits), 0, collector(i), 0)
          \/ \E i \in 0..(leaves - 1) : c = Conn(collector(i), 0, sink(i), 0)

\* The length of its list of operators, without products.
LEMMA TwiceTwice == \A x, y, z \in Nat : 2 + 2 * x + y + 2 * z = 2 + x + x + y + z + z
OBVIOUS

\* The operators and the connections of a tree of any depth and width.
LEMMA TreeParts ==
  ASSUME NEW depth \in Nat \ {0}, NEW n \in Nat, n > 1,
         NEW nodes, NEW splits, NEW leaves,
         nodes = Nodes(depth, n), splits = Nodes(depth - 1, n), leaves = Power(n, depth - 1)
  PROVE  TreeShape(Tree(depth, n), depth, n, nodes, splits, leaves)
<1> DEFINE d == Tree(depth, n)
           split(i) == Node("RoundRobinSplit", i)
<1>1. /\ Sound(d) /\ WithoutFanIn(d) /\ d.n = n /\ d.depth = depth
      /\ Len(d.ops) = 2 + nodes + nodes + splits + leaves + leaves
      /\ d \notin {UnionSink, BarrierSink}
      /\ d.formats = [s \in {sink(i) : i \in 0..(leaves - 1)} |-> NameAndGrade]
  <2>1. d \in AllFlows
    BY DEF AllFlows
  <2>2. d.n = n /\ d.name = "tree" /\ d.depth = depth
    BY DEF Tree
  <2>3. Len(d.ops) = 2 + 2 * nodes + splits + 2 * leaves
    BY TreeNames
  <2>4. d.formats = [s \in {sink(i) : i \in 0..(leaves - 1)} |-> NameAndGrade]
    BY DEF Tree
  <2>5. nodes \in Nat /\ splits \in Nat /\ leaves \in Nat
    BY SizesOfTree
  <2> HIDE DEF d
  <2>6. d \notin {UnionSink, BarrierSink}
    <3>1. d.name # UnionSink.name /\ d.name # BarrierSink.name
      BY <2>2, FourFilesNames
    <3> QED BY <3>1
  <2>7. Len(d.ops) = 2 + nodes + nodes + splits + leaves + leaves
    <3>1. 2 + 2 * nodes + splits + 2 * leaves = 2 + nodes + nodes + splits + leaves + leaves
      BY <2>5, TwiceTwice
    <3> QED BY <2>3, <3>1
  <2> QED BY <2>1, <2>2, <2>4, <2>6, <2>7, EveryFlowSound
<1>2. ToSet(d.ops) = TreeOps(depth, n) /\ ToSet(d.conns) = TreeConns(depth, n)
  <2>1. ToSet(d.conns) = TreeConns(depth, n)
    BY TreeLinks
  <2>2. Lists(d.ops, Naming, TreeOps(depth, n))
    BY TreeNames
  <2> HIDE DEF d
  <2> QED BY <2>1, <2>2, SoundOperators
<1>3. ToSet(d.ops) = {src0, timestamper(0)}
                     \cup (UNION {{selective(i), busy(i)} : i \in 0..(nodes - 1)})
                     \cup (UNION {{split(i)} : i \in 0..(splits - 1)})
                     \cup (UNION {{collector(i), sink(i)} : i \in 0..(leaves - 1)})
  <2>1. All([i \in 0..(nodes - 1) |-> {selective(i), busy(i)}], 0, nodes - 1)
          = UNION {{selective(i), busy(i)} : i \in 0..(nodes - 1)}
    BY DEF All
  <2>2. All([i \in 0..(splits - 1) |-> {split(i)}], 0, splits - 1) = UNION {{split(i)} : i \in 0..(splits - 1)}
    BY DEF All
  <2>3. All([i \in 0..(leaves - 1) |-> {collector(i), sink(i)}], 0, leaves - 1)
          = UNION {{collector(i), sink(i)} : i \in 0..(leaves - 1)}
    BY DEF All
  <2> HIDE DEF d
  <2> QED BY <1>2, <2>1, <2>2, <2>3 DEF TreeOps
<1>4. ToSet(d.conns) =
        {Conn(src0, 0, timestamper(0), 0), Conn(timestamper(0), 0, selective(0), 0)}
        \cup {Conn(selective(i), 0, busy(i), 0) : i \in 0..(nodes - 1)}
        \cup {Conn(busy(i), 0, split(i), 0) : i \in 0..(splits - 1)}
        \cup (UNION {{Conn(split(i), j, selective(Child(i, j, n)), 0) : j \in 0..(n - 1)} : i \in 0..(splits - 1)})
        \cup (UNION {{Conn(busy(i + splits), 0, collector(i), 0), Conn(collector(i), 0, sink(i), 0)} :
                       i \in 0..(leaves - 1)})
  <2> HIDE DEF d
  <2> QED BY <1>2 DEF TreeConns
<1> HIDE DEF d, split
<1>5. \A o \in ToSet(d.ops) :
        \/ o = src0 \/ o = timestamper(0)
        \/ \E i \in 0..(nodes - 1) : o = selective(i) \/ o = busy(i)
        \/ \E i \in 0..(splits - 1) : o = split(i)
        \/ \E i \in 0..(leaves - 1) : o = collector(i) \/ o = sink(i)
  BY <1>3
<1>6. \A i \in 0..(leaves - 1) : sink(i) \in ToSet(d.ops)
  BY <1>3
<1>7. /\ Conn(src0, 0, timestamper(0), 0) \in ToSet(d.conns)
      /\ Conn(timestamper(0), 0, selective(0), 0) \in ToSet(d.conns)
      /\ \A i \in 0..(nodes - 1) : Conn(selective(i), 0, busy(i), 0) \in ToSet(d.conns)
      /\ \A i \in 0..(splits - 1) : Conn(busy(i), 0, split(i), 0) \in ToSet(d.conns)
  BY <1>4
<1>8. \A i \in 0..(splits - 1), j \in 0..(n - 1) :
        Conn(split(i), j, selective(Child(i, j, n)), 0) \in ToSet(d.conns)
  BY <1>4
<1>9. \A i \in 0..(leaves - 1) : /\ Conn(busy(i + splits), 0, collector(i), 0) \in ToSet(d.conns)
                                 /\ Conn(collector(i), 0, sink(i), 0) \in ToSet(d.conns)
  BY <1>4
<1>10. \A c \in ToSet(d.conns) :
         \/ c = Conn(src0, 0, timestamper(0), 0) \/ c = Conn(timestamper(0), 0, selective(0), 0)
         \/ \E i \in 0..(nodes - 1) : c = Conn(selective(i), 0, busy(i), 0)
         \/ \E i \in 0..(splits - 1) : c = Conn(busy(i), 0, split(i), 0)
         \/ \E i \in 0..(splits - 1), j \in 0..(n - 1) : c = Conn(split(i), j, selective(Child(i, j, n)), 0)
         \/ \E i \in 0..(leaves - 1) : c = Conn(busy(i + splits), 0, collector(i), 0)
         \/ \E i \in 0..(leaves - 1) : c = Conn(collector(i), 0, sink(i), 0)
  BY <1>4
<1> QED BY <1>1, <1>5, <1>6, <1>7, <1>8, <1>9, <1>10 DEF d, split, TreeShape

\* A node of a tree that is not the root has a parent.
LEMMA ParentOf ==
  ASSUME NEW n \in Nat, n > 1, NEW m \in Nat, NEW k \in 1..(n * m)
  PROVE  \E i \in 0..(m - 1), j \in 0..(n - 1) : Child(i, j, n) = k
<1> DEFINE e == k - 1
           q == e \div n
           r == e % n
<1>1. n * m \in Nat
  OBVIOUS
<1>2. e \in 0..(n * m - 1) /\ e \in Nat /\ e + 1 = k
  BY <1>1
<1> HIDE DEF e
<1>3. q \in 0..(m - 1) /\ r \in 0..(n - 1)
  BY <1>2, Parents
<1>4. e = n * q + r
  BY <1>2, Remainder
<1> HIDE DEF q, r
<1>5. Child(q, r, n) = k
  <2>1. q * n = n * q /\ n * q \in Int
    BY <1>3
  <2> QED BY <1>2, <1>3, <1>4, <2>1 DEF Child
<1> QED BY <1>3, <1>5

\* A child has a larger number than its parent.
LEMMA ChildIsLater ==
  ASSUME NEW n \in Nat, n > 1, NEW i \in Nat, NEW j \in Nat
  PROVE  Child(i, j, n) \in Nat /\ i < Child(i, j, n)
<1>1. i * n = n * i /\ n * i \in Nat /\ n * i >= i
  OBVIOUS
<1> QED BY <1>1 DEF Child

\* A tree of any depth and width is laid out in levels: the levels are its rows.
LEMMA TreeLaidOut ==
  ASSUME NEW depth \in Nat \ {0}, NEW n \in Nat, n > 1
  PROVE  \E level, rank : LaidOut(Tree(depth, n), level, rank)
<1> DEFINE nodes == Nodes(depth, n)
           splits == Nodes(depth - 1, n)
           leaves == Power(n, depth - 1)
           d == Tree(depth, n)
           split(i) == Node("RoundRobinSplit", i)
           Linked(u, i, v, j) == Conn(u, i, v, j) \in ToSet(d.conns)
<1>0. /\ nodes \in Nat \ {0} /\ splits \in Nat /\ leaves \in Nat \ {0}
      /\ nodes = n * splits + 1 /\ leaves = nodes - splits
  BY SizesOfTree
<1>1. PICK row : Rows(row, depth, n)
  BY RowsExist
<1>2. /\ \A i \in 0..(nodes - 1) : row[i] \in 0..(depth - 1)
      /\ row[0] = 0
      /\ \A i \in 0..(splits - 1), j \in 0..(n - 1) : row[Child(i, j, n)] = row[i] + 1
      /\ \A i \in splits..(nodes - 1) : row[i] = depth - 1
  BY <1>1 DEF Rows
<1>21. TreeShape(d, depth, n, nodes, splits, leaves)
  BY TreeParts
<1> HIDE DEF nodes, splits, leaves, d
<1>3. /\ Sound(d) /\ d.n = n /\ d.depth = depth
      /\ Len(d.ops) = 2 + nodes + nodes + splits + leaves + leaves
      /\ \A i \in 0..(leaves - 1) : sink(i) \in ToSet(d.ops)
      /\ \A o \in ToSet(d.ops) :
           \/ o = src0 \/ o = timestamper(0)
           \/ \E i \in 0..(nodes - 1) : o = selective(i) \/ o = busy(i)
           \/ \E i \in 0..(splits - 1) : o = split(i)
           \/ \E i \in 0..(leaves - 1) : o = collector(i) \/ o = sink(i)
  BY <1>21 DEF TreeShape
<1>4. /\ Linked(src0, 0, timestamper(0), 0) /\ Linked(timestamper(0), 0, selective(0), 0)
      /\ \A i \in 0..(nodes - 1) : Linked(selective(i), 0, busy(i), 0)
      /\ \A i \in 0..(splits - 1) : Linked(busy(i), 0, split(i), 0)
      /\ \A i \in 0..(splits - 1), j \in 0..(n - 1) : Linked(split(i), j, selective(Child(i, j, n)), 0)
      /\ \A i \in 0..(leaves - 1) : Linked(busy(i + splits), 0, collector(i), 0)
                                    /\ Linked(collector(i), 0, sink(i), 0)
  BY <1>21 DEF TreeShape
<1>5. \A c \in ToSet(d.conns) :
        \/ c = Conn(src0, 0, timestamper(0), 0) \/ c = Conn(timestamper(0), 0, selective(0), 0)
        \/ \E i \in 0..(nodes - 1) : c = Conn(selective(i), 0, busy(i), 0)
        \/ \E i \in 0..(splits - 1) : c = Conn(busy(i), 0, split(i), 0)
        \/ \E i \in 0..(splits - 1), j \in 0..(n - 1) : c = Conn(split(i), j, selective(Child(i, j, n)), 0)
        \/ \E i \in 0..(leaves - 1) : c = Conn(busy(i + splits), 0, collector(i), 0)
        \/ \E i \in 0..(leaves - 1) : c = Conn(collector(i), 0, sink(i), 0)
  BY <1>21 DEF TreeShape
<1>6. \A i \in Nat : split(i) \in Classes \X Nat /\ split(i)[1] = "RoundRobinSplit" /\ split(i)[2] = i
  BY Classified
<1> HIDE DEF split
<1>7. \A i \in 0..(splits - 1), j \in 0..(n - 1) :
        Child(i, j, n) \in 1..(nodes - 1) /\ i < Child(i, j, n)
  <2> TAKE i \in 0..(splits - 1), j \in 0..(n - 1)
  <2>1. nodes - 1 = n * splits
    BY <1>0
  <2>2. Child(i, j, n) \in 1..(n * splits)
    BY <1>0, Children
  <2>3. i < Child(i, j, n)
    BY ChildIsLater
  <2> QED BY <2>1, <2>2, <2>3
<1>8. \A k \in 1..(nodes - 1) : \E i \in 0..(splits - 1), j \in 0..(n - 1) : Child(i, j, n) = k
  <2> TAKE k \in 1..(nodes - 1)
  <2>1. nodes - 1 = n * splits
    BY <1>0
  <2> QED BY <1>0, <2>1, ParentOf
<1>9. /\ nodes \in Nat /\ splits \in Nat /\ leaves \in Nat /\ nodes = leaves + splits /\ leaves > 0
      /\ Len(d.ops) = 2 + nodes + nodes + nodes + leaves
  BY <1>0, <1>3
<1> DEFINE top == 2 + nodes + nodes + nodes
           level == [o \in Classes \X Nat |->
                       IF o[1] \in {"Busy", "RoundRobinSplit"} THEN row[o[2]] + 1
                       ELSE IF o[1] = "Selective" THEN row[o[2]]
                       ELSE IF o[1] \in {"ResultCollector", "FileSink"} THEN depth ELSE 0]
           rank == [o \in Classes \X Nat |->
                      IF o[1] = "Timestamper" THEN 1
                      ELSE IF o[1] = "Selective" THEN 2 + o[2] + o[2] + o[2]
                      ELSE IF o[1] = "Busy" THEN 3 + o[2] + o[2] + o[2]
                      ELSE IF o[1] = "RoundRobinSplit" THEN 4 + o[2] + o[2] + o[2]
                      ELSE IF o[1] = "ResultCollector" THEN top
                      ELSE IF o[1] = "FileSink" THEN top + 1 ELSE 0]
           succ == [p \in (Classes \X Nat) \X Nat |->
                      IF p[1][1] = "TupleGenerator" THEN <<timestamper(0), 0>>
                      ELSE IF p[1][1] = "Timestamper" THEN <<selective(0), 0>>
                      ELSE IF p[1][1] = "Selective" THEN <<busy(p[1][2]), 0>>
                      ELSE IF p[1][1] = "RoundRobinSplit" THEN <<selective(Child(p[1][2], p[2], n)), 0>>
                      ELSE IF p[1][1] = "ResultCollector" THEN <<sink(p[1][2]), 0>>
                      ELSE IF p[1][2] < splits THEN <<split(p[1][2]), 0>>
                      ELSE <<collector(p[1][2] - splits), 0>>]
<1>10. /\ level[src0] = 0 /\ level[timestamper(0)] = 0
       /\ \A i \in Nat : level[selective(i)] = row[i] /\ level[busy(i)] = row[i] + 1 /\ level[split(i)] = row[i] + 1
       /\ \A i \in Nat : level[collector(i)] = depth /\ level[sink(i)] = depth
  <2>1. level[src0] = 0 /\ level[timestamper(0)] = 0
    BY Classified
  <2>2. \A i \in Nat : level[selective(i)] = row[i]
    BY Classified
  <2>3. \A i \in Nat : level[busy(i)] = row[i] + 1
    BY Classified
  <2>4. \A i \in Nat : level[split(i)] = row[i] + 1
    BY <1>6
  <2>5. \A i \in Nat : level[collector(i)] = depth /\ level[sink(i)] = depth
    BY Classified
  <2> QED BY <2>1, <2>2, <2>3, <2>4, <2>5
<1>18. top \in Nat /\ top + 1 <= Len(d.ops) /\ Len(d.ops) \in Nat /\ top = 2 + nodes + nodes + nodes
  BY <1>9
<1> HIDE DEF top
<1>11. /\ rank[src0] = 0 /\ rank[timestamper(0)] = 1
       /\ \A i \in Nat : rank[selective(i)] = 2 + i + i + i /\ rank[busy(i)] = 3 + i + i + i
       /\ \A i \in Nat : rank[split(i)] = 4 + i + i + i
       /\ \A i \in Nat : rank[collector(i)] = top /\ rank[sink(i)] = top + 1
  <2>1. rank[src0] = 0 /\ rank[timestamper(0)] = 1
    BY Classified
  <2>2. \A i \in Nat : rank[selective(i)] = 2 + i + i + i
    BY Classified
  <2>3. \A i \in Nat : rank[busy(i)] = 3 + i + i + i
    BY Classified
  <2>4. \A i \in Nat : rank[split(i)] = 4 + i + i + i
    BY <1>6
  <2>5. \A i \in Nat : rank[collector(i)] = top
    BY Classified
  <2>6. \A i \in Nat : rank[sink(i)] = top + 1
    BY Classified
  <2> QED BY <2>1, <2>2, <2>3, <2>4, <2>5, <2>6
<1>12. /\ succ[<<src0, 0>>] = <<timestamper(0), 0>> /\ succ[<<timestamper(0), 0>>] = <<selective(0), 0>>
       /\ \A i \in Nat : succ[<<selective(i), 0>>] = <<busy(i), 0>> /\ succ[<<collector(i), 0>>] = <<sink(i), 0>>
       /\ \A i, j \in Nat : succ[<<split(i), j>>] = <<selective(Child(i, j, n)), 0>>
       /\ \A i \in Nat : i < splits => succ[<<busy(i), 0>>] = <<split(i), 0>>
       /\ \A i \in Nat : ~(i < splits) => succ[<<busy(i), 0>>] = <<collector(i - splits), 0>>
  <2>1. \A o \in Classes \X Nat, i \in Nat :
          <<o, i>> \in (Classes \X Nat) \X Nat /\ <<o, i>>[1] = o /\ <<o, i>>[2] = i
    OBVIOUS
  <2>2. succ[<<src0, 0>>] = <<timestamper(0), 0>> /\ succ[<<timestamper(0), 0>>] = <<selective(0), 0>>
    BY <2>1, Classified
  <2>3. \A i \in Nat : succ[<<selective(i), 0>>] = <<busy(i), 0>>
    BY <2>1, Classified
  <2>4. \A i \in Nat : succ[<<collector(i), 0>>] = <<sink(i), 0>>
    BY <2>1, Classified
  <2>5. \A i, j \in Nat : succ[<<split(i), j>>] = <<selective(Child(i, j, n)), 0>>
    BY <1>6, <2>1
  <2>6. \A i \in Nat : i < splits => succ[<<busy(i), 0>>] = <<split(i), 0>>
    BY <2>1, Classified
  <2>7. \A i \in Nat : ~(i < splits) => succ[<<busy(i), 0>>] = <<collector(i - splits), 0>>
    BY <2>1, Classified
  <2> QED BY <2>2, <2>3, <2>4, <2>5, <2>6, <2>7
<1>13. /\ Ins(src0[1], n) = 0 /\ Outs(src0[1], n) = 1
       /\ \A i \in Nat : \A u \in {timestamper(i), selective(i), busy(i), collector(i)} :
                           Ins(u[1], n) = 1 /\ Outs(u[1], n) = 1
       /\ \A i \in Nat : Ins(split(i)[1], n) = 1 /\ Outs(split(i)[1], n) = n
       /\ \A i \in Nat : Ins(sink(i)[1], n) = 1 /\ Outs(sink(i)[1], n) = 0
  BY <1>6, Classified DEF Ins, Outs
<1>14. /\ src0[1] # "Busy" /\ src0[1] # "FileSink" /\ timestamper(0)[1] # "Busy" /\ timestamper(0)[1] # "FileSink"
       /\ \A i \in Nat : \A u \in {selective(i), split(i), collector(i)} : u[1] # "Busy" /\ u[1] # "FileSink"
       /\ \A i \in Nat : busy(i)[1] = "Busy" /\ sink(i)[1] = "FileSink"
  BY <1>6, Classified
<1> HIDE DEF level, rank, succ
<1>15. /\ From(d, src0, 0) /\ Into(d, timestamper(0), 0) /\ From(d, timestamper(0), 0)
       /\ \A i \in 0..(nodes - 1) : Into(d, selective(i), 0) /\ From(d, selective(i), 0) /\ Into(d, busy(i), 0)
                                    /\ From(d, busy(i), 0)
       /\ \A i \in 0..(splits - 1) : Into(d, split(i), 0) /\ \A j \in 0..(n - 1) : From(d, split(i), j)
       /\ \A i \in 0..(leaves - 1) : Into(d, collector(i), 0) /\ From(d, collector(i), 0) /\ Into(d, sink(i), 0)
  <2>1. From(d, src0, 0) /\ Into(d, timestamper(0), 0) /\ From(d, timestamper(0), 0)
    BY <1>4, Connected
  <2>2. \A i \in 0..(nodes - 1) : From(d, selective(i), 0) /\ Into(d, busy(i), 0)
    BY <1>4, Connected
  <2>3. ASSUME NEW i \in 0..(nodes - 1) PROVE Into(d, selective(i), 0)
    <3>1. CASE i = 0
      BY <1>4, <3>1, Connected
    <3>2. CASE i # 0
      <4>1. i \in 1..(nodes - 1)
        BY <1>9, <3>2
      <4>2. PICK k \in 0..(splits - 1), j \in 0..(n - 1) : Child(k, j, n) = i
        BY <1>8, <4>1
      <4>3. Linked(split(k), j, selective(i), 0)
        BY <1>4, <4>2
      <4> QED BY <4>3, Connected
    <3> QED BY <3>1, <3>2
  <2>4. ASSUME NEW i \in 0..(nodes - 1) PROVE From(d, busy(i), 0)
    <3>1. CASE i < splits
      <4>1. i \in 0..(splits - 1)
        BY <1>9, <3>1
      <4>2. Linked(busy(i), 0, split(i), 0)
        BY <1>4, <4>1
      <4> QED BY <4>2, Connected
    <3>2. CASE ~(i < splits)
      <4> DEFINE k == i - splits
      <4>1. k \in 0..(leaves - 1) /\ k + splits = i
        BY <1>9, <3>2
      <4> HIDE DEF k
      <4>2. Linked(busy(k + splits), 0, collector(k), 0)
        BY <1>4, <4>1
      <4>3. Linked(busy(i), 0, collector(k), 0)
        BY <4>1, <4>2
      <4> QED BY <4>3, Connected
    <3> QED BY <3>1, <3>2
  <2>5. \A i \in 0..(splits - 1) : Into(d, split(i), 0)
    BY <1>4, Connected
  <2>6. \A i \in 0..(splits - 1), j \in 0..(n - 1) : From(d, split(i), j)
    BY <1>4, Connected
  <2>7. \A i \in 0..(leaves - 1) : Into(d, collector(i), 0) /\ From(d, collector(i), 0) /\ Into(d, sink(i), 0)
    BY <1>4, Connected
  <2> QED BY <2>1, <2>2, <2>3, <2>4, <2>5, <2>6, <2>7
<1> HIDE DEF Linked
<1>16. ASSUME NEW o \in ToSet(d.ops) PROVE Served(d, o) /\ Placed(d, level, rank, o)
  <2>1. CASE o = src0 \/ o = timestamper(0)
    <3>1. Served(d, o)
      BY <1>3, <1>13, <1>15, <2>1 DEF Served
    <3>2. level[o] = 0 /\ o[1] # "Busy" /\ o[1] # "FileSink"
      BY <1>10, <1>14, <2>1
    <3>3. rank[o] \in 0..Len(d.ops)
      <4>1. 0 \in 0..Len(d.ops) /\ 1 \in 0..Len(d.ops)
        BY <1>9
      <4>2. CASE o = src0
        BY <1>11, <4>1, <4>2
      <4>3. CASE o = timestamper(0)
        BY <1>11, <4>1, <4>3
      <4> QED BY <2>1, <4>2, <4>3
    <3> QED BY <3>1, <3>2, <3>3 DEF Placed
  <2>2. CASE \E i \in 0..(nodes - 1) : o = selective(i) \/ o = busy(i)
    <3>0. PICK i \in 0..(nodes - 1) : o = selective(i) \/ o = busy(i)
      BY <2>2
    <3>1. Served(d, o)
      BY <1>3, <1>13, <1>15, <3>0 DEF Served
    <3>2. level[o] \in Nat
      <4>1. row[i] \in Nat /\ i \in Nat
        BY <1>2
      <4> QED BY <1>10, <3>0, <4>1
    <3>3. rank[o] \in 0..Len(d.ops)
      <4>1. i \in Nat /\ 2 + i + i + i \in 0..Len(d.ops) /\ 3 + i + i + i \in 0..Len(d.ops)
        BY <1>9
      <4>2. rank[selective(i)] = 2 + i + i + i /\ rank[busy(i)] = 3 + i + i + i
        BY <1>11, <4>1
      <4>3. CASE o = selective(i)
        BY <4>1, <4>2, <4>3
      <4>4. CASE o = busy(i)
        BY <4>1, <4>2, <4>4
      <4> QED BY <3>0, <4>3, <4>4
    <3>4. Ins(o[1], n) # 0 /\ o[1] # "FileSink"
      BY <1>13, <1>14, <3>0
    <3> QED BY <1>3, <3>1, <3>2, <3>3, <3>4 DEF Placed
  <2>3. CASE \E i \in 0..(splits - 1) : o = split(i)
    <3>0. PICK i \in 0..(splits - 1) : o = split(i)
      BY <2>3
    <3>5. i \in Nat /\ i \in 0..(nodes - 1)
      BY <1>9
    <3>1. Served(d, o)
      BY <1>3, <1>13, <1>15, <3>0, <3>5 DEF Served
    <3>2. level[o] \in Nat
      <4>1. row[i] \in Nat
        BY <1>2, <3>5
      <4> QED BY <1>10, <3>0, <3>5, <4>1
    <3>3. rank[o] \in 0..Len(d.ops)
      <4>1. 4 + i + i + i \in 0..Len(d.ops)
        BY <1>9, <3>5
      <4> QED BY <1>11, <3>0, <3>5, <4>1
    <3>4. Ins(o[1], n) # 0 /\ o[1] # "FileSink"
      BY <1>13, <1>14, <3>0, <3>5
    <3> QED BY <1>3, <3>1, <3>2, <3>3, <3>4 DEF Placed
  <2>4. CASE \E i \in 0..(leaves - 1) : o = collector(i) \/ o = sink(i)
    <3>0. PICK i \in 0..(leaves - 1) : o = collector(i) \/ o = sink(i)
      BY <2>4
    <3>5. i \in Nat
      BY <1>9
    <3>1. Served(d, o)
      BY <1>3, <1>13, <1>15, <3>0, <3>5 DEF Served
    <3>2. level[o] = depth
      BY <1>10, <3>0, <3>5
    <3>3. rank[o] \in 0..Len(d.ops)
      <4>1. top \in 0..Len(d.ops) /\ top + 1 \in 0..Len(d.ops)
        BY <1>18
      <4>2. CASE o = collector(i)
        BY <1>11, <3>5, <4>1, <4>2
      <4>3. CASE o = sink(i)
        BY <1>11, <3>5, <4>1, <4>3
      <4> QED BY <3>0, <4>2, <4>3
    <3>4. Ins(o[1], n) # 0
      BY <1>13, <3>0, <3>5
    <3> QED BY <1>3, <3>1, <3>2, <3>3, <3>4 DEF Placed
  <2> QED BY <1>3, <2>1, <2>2, <2>3, <2>4
<1>17. ASSUME NEW c \in ToSet(d.conns) PROVE Climbs(c, level, rank, succ)
  <2>0. 0 \in Nat /\ 0 \in 0..(nodes - 1)
    BY <1>9
  <2>1. CASE c = Conn(src0, 0, timestamper(0), 0)
    <3>3. rank[src0] < rank[timestamper(0)]
      BY <1>11, <2>0
    <3>4. level[timestamper(0)] = level[src0] /\ level[src0] \in Int
      BY <1>2, <1>10, <2>0
    <3>5. timestamper(0)[1] # "Busy" /\ succ[<<src0, 0>>] = <<timestamper(0), 0>>
      BY <1>12, <1>14, <2>0
    <3> QED BY <2>1, <3>3, <3>4, <3>5, Climbing
  <2>2. CASE c = Conn(timestamper(0), 0, selective(0), 0)
    <3>3. rank[timestamper(0)] < rank[selective(0)]
      <4>1. rank[selective(0)] = 2 + 0 + 0 + 0
        BY <1>11, <2>0
      <4>2. rank[timestamper(0)] = 1
        BY <1>11
      <4> QED BY <4>1, <4>2
    <3>4. level[selective(0)] = level[timestamper(0)] /\ level[timestamper(0)] \in Int
      BY <1>2, <1>10, <2>0
    <3>5. selective(0)[1] # "Busy" /\ succ[<<timestamper(0), 0>>] = <<selective(0), 0>>
      BY <1>12, <1>14, <2>0
    <3> QED BY <2>2, <3>3, <3>4, <3>5, Climbing
  <2>3. CASE \E i \in 0..(nodes - 1) : c = Conn(selective(i), 0, busy(i), 0)
    <3>1. PICK i \in 0..(nodes - 1) : c = Conn(selective(i), 0, busy(i), 0)
      BY <2>3
    <3>2. i \in Nat /\ row[i] \in Int
      BY <1>2
    <3>3. rank[selective(i)] < rank[busy(i)]
      BY <1>11, <3>2
    <3>4. level[busy(i)] = level[selective(i)] + 1 /\ level[selective(i)] \in Int
      BY <1>2, <1>10, <3>2
    <3>5. busy(i)[1] = "Busy" /\ succ[<<selective(i), 0>>] = <<busy(i), 0>>
      BY <1>12, <1>14, <3>2
    <3> QED BY <3>1, <3>3, <3>4, <3>5, Climbing
  <2>4. CASE \E i \in 0..(splits - 1) : c = Conn(busy(i), 0, split(i), 0)
    <3>1. PICK i \in 0..(splits - 1) : c = Conn(busy(i), 0, split(i), 0)
      BY <2>4
    <3>2. i \in Nat /\ i \in 0..(nodes - 1) /\ row[i] \in Int /\ i < splits
      BY <1>2, <1>9
    <3>3. rank[busy(i)] < rank[split(i)]
      BY <1>11, <3>2
    <3>4. level[split(i)] = level[busy(i)] /\ level[busy(i)] \in Int
      BY <1>2, <1>10, <3>2
    <3>5. split(i)[1] # "Busy" /\ succ[<<busy(i), 0>>] = <<split(i), 0>>
      BY <1>12, <1>14, <3>2
    <3> QED BY <3>1, <3>3, <3>4, <3>5, Climbing
  <2>5. CASE \E i \in 0..(splits - 1), j \in 0..(n - 1) : c = Conn(split(i), j, selective(Child(i, j, n)), 0)
    <3>1. PICK i \in 0..(splits - 1), j \in 0..(n - 1) : c = Conn(split(i), j, selective(Child(i, j, n)), 0)
      BY <2>5
    <3>2. i \in Nat /\ j \in Nat /\ i \in 0..(nodes - 1) /\ Child(i, j, n) \in Nat /\ i < Child(i, j, n)
      BY <1>7, <1>9
    <3>3. rank[split(i)] < rank[selective(Child(i, j, n))]
      <4>1. rank[split(i)] = 4 + i + i + i
        BY <1>11, <3>2
      <4> DEFINE k == Child(i, j, n)
      <4>2. k \in Nat /\ i < k
        BY <3>2
      <4> HIDE DEF k
      <4>3. rank[selective(k)] = 2 + k + k + k
        BY <1>11, <4>2
      <4>4. rank[split(i)] < rank[selective(k)]
        BY <3>2, <4>1, <4>2, <4>3
      <4> QED BY <4>4 DEF k
    <3>4. level[selective(Child(i, j, n))] = level[split(i)] /\ level[split(i)] \in Int
      <4>1. row[i] \in 0..(depth - 1) /\ row[Child(i, j, n)] = row[i] + 1
        BY <1>2, <3>2
      <4>2. level[selective(Child(i, j, n))] = row[Child(i, j, n)] /\ level[split(i)] = row[i] + 1
        BY <1>10, <3>2
      <4> QED BY <4>1, <4>2
    <3>5. selective(Child(i, j, n))[1] # "Busy" /\ succ[<<split(i), j>>] = <<selective(Child(i, j, n)), 0>>
      BY <1>12, <1>14, <3>2
    <3> QED BY <3>1, <3>3, <3>4, <3>5, Climbing
  <2>6. CASE \E i \in 0..(leaves - 1) : c = Conn(busy(i + splits), 0, collector(i), 0)
    <3>1. PICK i \in 0..(leaves - 1) : c = Conn(busy(i + splits), 0, collector(i), 0)
      BY <2>6
    <3>2. i \in Nat /\ i + splits \in Nat /\ i + splits \in splits..(nodes - 1) /\ ~(i + splits < splits) /\ (i + splits) - splits = i
      BY <1>9
    <3>3. rank[busy(i + splits)] < rank[collector(i)]
      <4> DEFINE k == i + splits
      <4>1. k \in Nat /\ k <= nodes - 1
        BY <1>9, <3>2
      <4> HIDE DEF k
      <4>2. rank[busy(k)] = 3 + k + k + k /\ rank[collector(i)] = top
        BY <1>11, <3>2, <4>1
      <4>3. 3 + k + k + k < top
        BY <1>9, <1>18, <4>1
      <4>4. rank[busy(k)] < rank[collector(i)]
        BY <4>2, <4>3
      <4> QED BY <4>4 DEF k
    <3>4. level[collector(i)] = level[busy(i + splits)] /\ level[busy(i + splits)] \in Int
      <4> DEFINE k == i + splits
      <4>1. row[k] = depth - 1 /\ k \in Nat
        BY <1>2, <3>2
      <4> HIDE DEF k
      <4>2. level[busy(k)] = (depth - 1) + 1
        BY <1>10, <4>1
      <4>3. level[collector(i)] = depth
        BY <1>10, <3>2
      <4>4. level[collector(i)] = level[busy(k)] /\ level[busy(k)] \in Int
        BY <4>2, <4>3
      <4> QED BY <4>4 DEF k
    <3>5. collector(i)[1] # "Busy" /\ succ[<<busy(i + splits), 0>>] = <<collector(i), 0>>
      <4> DEFINE k == i + splits
      <4>1. k \in Nat /\ ~(k < splits) /\ k - splits = i
        BY <3>2
      <4> HIDE DEF k
      <4>2. succ[<<busy(k), 0>>] = <<collector(i), 0>>
        BY <1>12, <4>1
      <4>3. collector(i)[1] # "Busy"
        BY <1>14, <3>2
      <4> QED BY <4>2, <4>3 DEF k
    <3> QED BY <3>1, <3>3, <3>4, <3>5, Climbing
  <2>7. CASE \E i \in 0..(leaves - 1) : c = Conn(collector(i), 0, sink(i), 0)
    <3>1. PICK i \in 0..(leaves - 1) : c = Conn(collector(i), 0, sink(i), 0)
      BY <2>7
    <3>2. i \in Nat /\ top \in Int
      BY <1>9, <1>18
    <3>3. rank[collector(i)] < rank[sink(i)]
      <4>1. rank[collector(i)] = top /\ rank[sink(i)] = top + 1
        BY <1>11, <3>2
      <4>2. top < top + 1
        BY <3>2
      <4> QED BY <4>1, <4>2
    <3>4. level[sink(i)] = level[collector(i)] /\ level[collector(i)] \in Int
      BY <1>2, <1>10, <3>2
    <3>5. sink(i)[1] # "Busy" /\ succ[<<collector(i), 0>>] = <<sink(i), 0>>
      <4>1. sink(i)[1] = "FileSink"
        BY <1>14, <3>2
      <4>2. succ[<<collector(i), 0>>] = <<sink(i), 0>>
        BY <1>12, <3>2
      <4> QED BY <4>1, <4>2
    <3> QED BY <3>1, <3>3, <3>4, <3>5, Climbing
  <2> QED BY <1>5, <2>1, <2>2, <2>3, <2>4, <2>5, <2>6, <2>7
<1>19. \E o \in ToSet(d.ops) : o[1] = "FileSink"
  <2>1. 0 \in 0..(leaves - 1) /\ 0 \in Nat
    BY <1>9
  <2> QED BY <1>3, <1>14, <2>1
<1>20. LaidOut(d, level, rank)
  BY <1>3, <1>16, <1>17, <1>19, Levels
<1> QED BY <1>20 DEF d

\* The flows of a tree of any depth and width are as documented.
LEMMA TreeOrderly ==
  ASSUME NEW depth \in Nat \ {0}, NEW n \in Nat, n > 1
  PROVE  Orderly(Tree(depth, n))
<1> DEFINE nodes == Nodes(depth, n)
           splits == Nodes(depth - 1, n)
           leaves == Power(n, depth - 1)
           d == Tree(depth, n)
           split(i) == Node("RoundRobinSplit", i)
<1>0. nodes \in Nat \ {0} /\ splits \in Nat /\ leaves \in Nat \ {0}
  BY SizesOfTree
<1>1. TreeShape(d, depth, n, nodes, splits, leaves)
  BY TreeParts
<1>2. \A i \in Nat : split(i) \in Classes \X Nat /\ split(i)[1] = "RoundRobinSplit" /\ split(i)[2] = i
  BY Classified
<1>3. \E level, rank : LaidOut(d, level, rank)
  BY TreeLaidOut
<1> HIDE DEF nodes, splits, leaves, d
<1>4. /\ Sound(d) /\ WithoutFanIn(d) /\ d.n = n /\ d \notin {UnionSink, BarrierSink}
      /\ d.formats = [s \in {sink(i) : i \in 0..(leaves - 1)} |-> NameAndGrade]
      /\ \A o \in ToSet(d.ops) :
           \/ o = src0 \/ o = timestamper(0)
           \/ \E i \in 0..(nodes - 1) : o = selective(i) \/ o = busy(i)
           \/ \E i \in 0..(splits - 1) : o = split(i)
           \/ \E i \in 0..(leaves - 1) : o = collector(i) \/ o = sink(i)
  BY <1>1 DEF TreeShape
<1>5. \A c \in ToSet(d.conns) :
        \/ c = Conn(src0, 0, timestamper(0), 0) \/ c = Conn(timestamper(0), 0, selective(0), 0)
        \/ \E i \in 0..(nodes - 1) : c = Conn(selective(i), 0, busy(i), 0)
        \/ \E i \in 0..(splits - 1) : c = Conn(busy(i), 0, split(i), 0)
        \/ \E i \in 0..(splits - 1), j \in 0..(n - 1) : c = Conn(split(i), j, selective(Child(i, j, n)), 0)
        \/ \E i \in 0..(leaves - 1) : c = Conn(busy(i + splits), 0, collector(i), 0)
        \/ \E i \in 0..(leaves - 1) : c = Conn(collector(i), 0, sink(i), 0)
  BY <1>1 DEF TreeShape
<1> HIDE DEF split
<1>6. ASSUME NEW o \in ToSet(d.ops)
      PROVE  /\ o \in Classes \X Nat /\ o[1] \notin {"Barrier", "Split", "Merge", "Filter"}
             /\ Format(d, o) = PlainFormat(o[1])
  <2>1. CASE \E i \in 0..(leaves - 1) : o = sink(i)
    <3>1. PICK i \in 0..(leaves - 1) : o = sink(i)
      BY <2>1
    <3>2. Format(d, o) = NameAndGrade
      BY <1>4, <3>1 DEF Format
    <3>3. o \in Classes \X Nat /\ o[1] = "FileSink"
      BY <3>1, Classified
    <3> QED BY <3>2, <3>3 DEF PlainFormat
  <2>2. CASE ~\E i \in 0..(leaves - 1) : o = sink(i)
    <3>1. Format(d, o) = <<>>
      BY <1>4, <2>2 DEF Format
    <3>2. /\ o \in Classes \X Nat
          /\ o[1] \in {"TupleGenerator", "Timestamper", "Selective", "Busy", "RoundRobinSplit", "ResultCollector"}
      <4>1. CASE o = src0 \/ o = timestamper(0)
        BY <4>1, Classified
      <4>2. CASE \E i \in 0..(nodes - 1) : o = selective(i) \/ o = busy(i)
        BY <4>2, Classified
      <4>3. CASE \E i \in 0..(splits - 1) : o = split(i)
        BY <1>2, <4>3
      <4>4. CASE \E i \in 0..(leaves - 1) : o = collector(i)
        BY <4>4, Classified
      <4> QED BY <1>4, <2>2, <4>1, <4>2, <4>3, <4>4
    <3> QED BY <3>1, <3>2 DEF PlainFormat
  <2> QED BY <2>1, <2>2
<1>7. ASSUME NEW c \in ToSet(d.conns)
      PROVE  c.from[1] \in {"FileSource", "TupleGenerator"} <=> c.to[1] = "Timestamper"
  <2>1. CASE c = Conn(src0, 0, timestamper(0), 0)
    BY <2>1, Classified, Ends
  <2>2. CASE c = Conn(timestamper(0), 0, selective(0), 0)
    BY <2>2, Classified, Ends
  <2>3. CASE \E i \in 0..(nodes - 1) : c = Conn(selective(i), 0, busy(i), 0)
    BY <2>3, Classified, Ends
  <2>4. CASE \E i \in 0..(splits - 1) : c = Conn(busy(i), 0, split(i), 0)
    BY <1>2, <2>4, Classified, Ends
  <2>5. CASE \E i \in 0..(splits - 1), j \in 0..(n - 1) : c = Conn(split(i), j, selective(Child(i, j, n)), 0)
    <3>1. PICK i \in 0..(splits - 1), j \in 0..(n - 1) : c = Conn(split(i), j, selective(Child(i, j, n)), 0)
      BY <2>5
    <3>2. Child(i, j, n) \in Nat /\ i \in Nat
      BY ChildIsLater
    <3> DEFINE k == Child(i, j, n)
    <3> HIDE DEF k
    <3>3. c = Conn(split(i), j, selective(k), 0) /\ k \in Nat
      BY <3>1, <3>2 DEF k
    <3> QED BY <1>2, <3>2, <3>3, Classified, Ends
  <2>6. CASE \E i \in 0..(leaves - 1) : c = Conn(busy(i + splits), 0, collector(i), 0)
    BY <1>0, <2>6, Classified, Ends
  <2>7. CASE \E i \in 0..(leaves - 1) : c = Conn(collector(i), 0, sink(i), 0)
    BY <2>7, Classified, Ends
  <2> QED BY <1>5, <2>1, <2>2, <2>3, <2>4, <2>5, <2>6, <2>7
<1>8. Supplied(d, ByClass(RoleNames({})))
  <2>1. d.n # 0
    BY <1>4
  <2> QED BY <1>4, <1>6, <1>7, <2>1, PlainSupplied
<1>9. Fed(d)
  BY <1>3, <1>4, FedOnce
<1>10. Orderly(d)
  BY <1>3, <1>8, <1>9 DEF Orderly
<1> QED BY <1>10 DEF d

-----------------------------------------------------------------------------
\* The rows of a reversed tree, from the sources up: those of the tree, read backwards.
ReverseRows(height, depth, n) ==
  LET nodes == Nodes(depth, n)  sources == Power(n, depth - 1)
  IN /\ \A i \in 0..(nodes - 1) : height[i] \in 0..(depth - 1)
     /\ \A i \in 0..(sources - 1) : height[i] = 0
     /\ height[nodes - 1] = depth - 1
     /\ \A i \in 0..((nodes - 1) - 1) :
          /\ (i \div n) \in 0..(Nodes(depth - 1, n) - 1) /\ i % n \in 0..(n - 1)
          /\ i < (i \div n) + sources
          /\ height[(i \div n) + sources] = height[i] + 1

\* They exist: the operators that feed union operator q are the children of a node of the tree.
LEMMA ReverseRowsExist ==
  ASSUME NEW depth \in Nat \ {0}, NEW n \in Nat, n > 1
  PROVE  \E height : ReverseRows(height, depth, n)
<1> DEFINE nodes == Nodes(depth, n)
           splits == Nodes(depth - 1, n)
           sources == Power(n, depth - 1)
<1>0. /\ nodes \in Nat \ {0} /\ splits \in Nat /\ sources \in Nat \ {0}
      /\ nodes = n * splits + 1 /\ sources = nodes - splits
  BY SizesOfTree
<1>1. PICK row : Rows(row, depth, n)
  BY RowsExist
<1>2. /\ \A i \in 0..(nodes - 1) : row[i] \in 0..(depth - 1)
      /\ row[0] = 0
      /\ \A i \in 0..(splits - 1), j \in 0..(n - 1) : row[Child(i, j, n)] = row[i] + 1
      /\ \A i \in splits..(nodes - 1) : row[i] = depth - 1
  BY <1>1 DEF Rows
<1> HIDE DEF nodes, splits, sources
<1> DEFINE height == [i \in Nat |-> (depth - 1) - row[(nodes - 1) - i]]
<1>9. nodes \in Nat /\ nodes >= 1 /\ splits \in Nat /\ sources \in Nat /\ sources = nodes - splits
  BY <1>0
<1>3. ASSUME NEW i \in 0..(nodes - 1) PROVE height[i] \in 0..(depth - 1)
  <2>1. (nodes - 1) - i \in 0..(nodes - 1) /\ i \in Nat
    BY <1>9
  <2>2. row[(nodes - 1) - i] \in 0..(depth - 1)
    BY <1>2, <2>1
  <2>3. height[i] = (depth - 1) - row[(nodes - 1) - i]
    BY <2>1
  <2> HIDE DEF height
  <2> QED BY <2>2, <2>3
<1>4. ASSUME NEW i \in 0..(sources - 1) PROVE height[i] = 0
  <2>1. (nodes - 1) - i \in splits..(nodes - 1) /\ i \in Nat
    BY <1>9
  <2>2. row[(nodes - 1) - i] = depth - 1
    BY <1>2, <2>1
  <2>3. height[i] = (depth - 1) - row[(nodes - 1) - i]
    BY <2>1
  <2> HIDE DEF height
  <2> QED BY <2>2, <2>3
<1>5. height[nodes - 1] = depth - 1
  <2>1. nodes - 1 \in Nat /\ (nodes - 1) - (nodes - 1) = 0
    BY <1>9
  <2>2. height[nodes - 1] = (depth - 1) - row[0]
    BY <2>1
  <2> HIDE DEF height
  <2> QED BY <1>2, <2>2
<1>6. ASSUME NEW i \in 0..((nodes - 1) - 1)
      PROVE  /\ (i \div n) \in 0..(splits - 1) /\ i % n \in 0..(n - 1)
             /\ i < (i \div n) + sources
             /\ height[(i \div n) + sources] = height[i] + 1
  <2> DEFINE q == i \div n
             r == i % n
             p == (splits - 1) - q
             s == (n - 1) - r
  <2>1. i \in 0..(n * splits - 1) /\ i \in Nat
    <3>1. nodes - 1 = n * splits
      BY <1>0
    <3>2. i \in Nat
      BY <1>9
    <3> QED BY <3>1, <3>2
  <2>2. q \in 0..(splits - 1) /\ r \in 0..(n - 1)
    BY <1>9, <2>1, Parents
  <2>3. i = n * q + r
    BY <2>1, Remainder
  <2> HIDE DEF q, r
  <2>4. p \in 0..(splits - 1) /\ p \in Nat /\ s \in 0..(n - 1) /\ s \in Nat /\ q = (splits - 1) - p /\ r = (n - 1) - s
    BY <1>9, <2>2
  <2> HIDE DEF p, s
  <2>5. Child(p, s, n) = (nodes - 1) - i
    <3>1. n * q = n * splits - n - n * p
      BY <1>9, <2>4
    <3>2. n * splits \in Int /\ n * p \in Int /\ p * n = n * p
      BY <1>9, <2>4
    <3>3. i = n * splits - n - n * p + ((n - 1) - s)
      BY <2>3, <2>4, <3>1
    <3>4. nodes - 1 = n * splits
      BY <1>0
    <3>5. n * splits - i = n * p + s + 1
      BY <2>4, <3>2, <3>3
    <3> QED BY <3>2, <3>4, <3>5 DEF Child
  <2>6. p < Child(p, s, n)
    BY <2>4, ChildIsLater
  <2>7. (nodes - 1) - (q + sources) = p /\ q + sources \in Nat
    BY <1>9, <2>2, <2>4
  <2>8. i < q + sources
    BY <1>9, <2>1, <2>2, <2>4, <2>5, <2>6, <2>7
  <2>9. row[(nodes - 1) - i] = row[p] + 1 /\ row[p] \in Nat
    <3>1. row[Child(p, s, n)] = row[p] + 1
      BY <1>2, <2>4
    <3>2. p \in 0..(nodes - 1)
      BY <1>9, <2>2, <2>4, <2>7
    <3>3. row[p] \in 0..(depth - 1)
      BY <1>2, <3>2
    <3> QED BY <2>5, <3>1, <3>3
  <2>10. height[q + sources] = (depth - 1) - row[p] /\ height[i] = (depth - 1) - row[(nodes - 1) - i]
    BY <2>1, <2>7
  <2> HIDE DEF height
  <2>11. height[q + sources] = height[i] + 1
    BY <2>9, <2>10
  <2> QED BY <2>2, <2>8, <2>11 DEF q, r
<1> HIDE DEF height
<1>7. ReverseRows(height, depth, n)
  BY <1>3, <1>4, <1>5, <1>6 DEF ReverseRows, nodes, splits, sources
<1> QED BY <1>7

\* What design d of a reversed tree of this depth and width lists.
ReverseShape(d, depth, n, nodes, splits, sources) ==
  LET src(i) == Node("TupleGenerator", i)
      union(i) == Node("Union", i)
  IN /\ Sound(d) /\ WithoutFanIn(d) /\ d.n = n /\ d.depth = depth
     /\ Len(d.ops) = 2 + nodes + nodes + nodes + sources
     /\ d \notin {UnionSink, BarrierSink}
     /\ d.formats = Columns(sink(0), NameAndGrade)
     /\ sink(0) \in ToSet(d.ops)
     /\ \A o \in ToSet(d.ops) :
          \/ o = collector(0) \/ o = sink(0)
          \/ \E i \in 0..(sources - 1) : o = src(i) \/ o = timestamper(i)
          \/ \E i \in 0..(nodes - 1) : o = selective(i) \/ o = busy(i)
          \/ \E q \in 0..(splits - 1) : o = union(q)
     /\ Conn(busy(nodes - 1), 0, collector(0), 0) \in ToSet(d.conns)
     /\ Conn(collector(0), 0, sink(0), 0) \in ToSet(d.conns)
     /\ \A i \in 0..(sources - 1) : /\ Conn(src(i), 0, timestamper(i), 0) \in ToSet(d.conns)
                                    /\ Conn(timestamper(i), 0, selective(i), 0) \in ToSet(d.conns)
     /\ \A i \in 0..(nodes - 1) : Conn(selective(i), 0, busy(i), 0) \in ToSet(d.conns)
     /\ \A q \in 0..(splits - 1) : Conn(union(q), 0, selective(q + sources), 0) \in ToSet(d.conns)
     /\ \A i \in 0..((nodes - 1) - 1) : Conn(busy(i), 0, union(i \div n), i % n) \in ToSet(d.conns)
     /\ \A c \in ToSet(d.conns) :
          \/ c = Conn(busy(nodes - 1), 0, collector(0), 0) \/ c = Conn(collector(0), 0, sink(0), 0)
          \/ \E i \in 0..(sources - 1) : c = Conn(src(i), 0, timestamper(i), 0)
          \/ \E i \in 0..(sources - 1) : c = Conn(timestamper(i), 0, selective(i), 0)
          \/ \E i \in 0..(nodes - 1) : c = Conn(selective(i), 0, busy(i), 0)
          \/ \E q \in 0..(splits - 1) : c = Conn(union(q), 0, selective(q + sources), 0)
          \/ \E i \in 0..((nodes - 1) - 1) : c = Conn(busy(i), 0, union(i \div n), i % n)

\* The operators and the connections of a reversed tree of any depth and width.
LEMMA ReverseParts ==
  ASSUME NEW depth \in Nat \ {0}, NEW n \in Nat, n > 1,
         NEW nodes, NEW splits, NEW sources,
         nodes = Nodes(depth, n), splits = Nodes(depth - 1, n), sources = Power(n, depth - 1)
  PROVE  ReverseShape(ReverseTree(depth, n), depth, n, nodes, splits, sources)
<1> DEFINE d == ReverseTree(depth, n)
           src(i) == Node("TupleGenerator", i)
           union(i) == Node("Union", i)
<1>0. /\ nodes \in Nat /\ splits \in Nat /\ sources \in Nat
      /\ sources = nodes - splits /\ nodes > 0 /\ sources > 0
  BY SizesOfTree
<1>1. /\ Sound(d) /\ WithoutFanIn(d) /\ d.n = n /\ d.depth = depth
      /\ Len(d.ops) = 2 + nodes + nodes + nodes + sources
      /\ d \notin {UnionSink, BarrierSink}
      /\ d.formats = Columns(sink(0), NameAndGrade)
  <2>1. d \in AllFlows
    BY DEF AllFlows
  <2>2. d.n = n /\ d.name = "reverseTree" /\ d.depth = depth
    BY DEF ReverseTree
  <2>3. Len(d.ops) = 3 * nodes + sources + 2
    BY ReverseNames
  <2>4. d.formats = Columns(sink(0), NameAndGrade)
    BY DEF ReverseTree
  <2> HIDE DEF d
  <2>6. d \notin {UnionSink, BarrierSink}
    <3>1. d.name # UnionSink.name /\ d.name # BarrierSink.name
      BY <2>2, FourFilesNames
    <3> QED BY <3>1
  <2>7. Len(d.ops) = 2 + nodes + nodes + nodes + sources
    <3>1. \A x, y \in Nat : 3 * x + y + 2 = 2 + x + x + x + y
      OBVIOUS
    <3> QED BY <1>0, <2>3, <3>1
  <2> QED BY <2>1, <2>2, <2>4, <2>6, <2>7, EveryFlowSound
<1>2. ToSet(d.ops) = ReverseOps(depth, n) /\ ToSet(d.conns) = ReverseConns(depth, n)
  <2>1. ToSet(d.conns) = ReverseConns(depth, n)
    BY ReverseLinks
  <2>2. Lists(d.ops, Naming, ReverseOps(depth, n))
    BY ReverseNames
  <2> HIDE DEF d
  <2> QED BY <2>1, <2>2, SoundOperators
<1>3. ToSet(d.ops) = (UNION {{src(i), timestamper(i)} : i \in 0..(sources - 1)})
                     \cup (UNION {{selective(i), busy(i)} : i \in 0..(nodes - 1)})
                     \cup (UNION {{union(i - sources)} : i \in sources..(nodes - 1)})
                     \cup {collector(0), sink(0)}
  <2>1. All([i \in 0..(sources - 1) |-> {src(i), timestamper(i)}], 0, sources - 1)
          = UNION {{src(i), timestamper(i)} : i \in 0..(sources - 1)}
    BY DEF All
  <2>2. All([i \in 0..(nodes - 1) |-> {selective(i), busy(i)}], 0, nodes - 1)
          = UNION {{selective(i), busy(i)} : i \in 0..(nodes - 1)}
    BY DEF All
  <2>3. All([i \in sources..(nodes - 1) |-> {union(i - sources)}], sources, nodes - 1)
          = UNION {{union(i - sources)} : i \in sources..(nodes - 1)}
    BY DEF All
  <2> HIDE DEF d
  <2> QED BY <1>2, <2>1, <2>2, <2>3 DEF ReverseOps
<1>4. ToSet(d.conns) =
        (UNION {{Conn(src(i), 0, timestamper(i), 0), Conn(timestamper(i), 0, selective(i), 0),
                 Conn(selective(i), 0, busy(i), 0)} : i \in 0..(sources - 1)})
        \cup (UNION {{Conn(union(i - sources), 0, selective(i), 0), Conn(selective(i), 0, busy(i), 0)} :
                       i \in sources..(nodes - 1)})
        \cup {Conn(busy(i), 0, union(i \div n), i % n) : i \in 0..((nodes - 1) - 1)}
        \cup {Conn(busy(nodes - 1), 0, collector(0), 0), Conn(collector(0), 0, sink(0), 0)}
  <2> HIDE DEF d
  <2> QED BY <1>2 DEF ReverseConns
<1> HIDE DEF d, src, union
<1>11. /\ \A q \in 0..(splits - 1) : q + sources \in sources..(nodes - 1) /\ (q + sources) - sources = q
       /\ \A i \in sources..(nodes - 1) : i - sources \in 0..(splits - 1) /\ (i - sources) + sources = i
       /\ \A i \in 0..(nodes - 1) : i \in 0..(sources - 1) \/ i \in sources..(nodes - 1)
       /\ \A i \in 0..(sources - 1) : i \in 0..(nodes - 1)
       /\ \A i \in sources..(nodes - 1) : i \in 0..(nodes - 1)
  BY <1>0
<1>5. ASSUME NEW o \in ToSet(d.ops)
      PROVE  \/ o = collector(0) \/ o = sink(0)
             \/ \E i \in 0..(sources - 1) : o = src(i) \/ o = timestamper(i)
             \/ \E i \in 0..(nodes - 1) : o = selective(i) \/ o = busy(i)
             \/ \E q \in 0..(splits - 1) : o = union(q)
  <2>1. \/ o = collector(0) \/ o = sink(0)
        \/ \E i \in 0..(sources - 1) : o = src(i) \/ o = timestamper(i)
        \/ \E i \in 0..(nodes - 1) : o = selective(i) \/ o = busy(i)
        \/ \E i \in sources..(nodes - 1) : o = union(i - sources)
    BY <1>3
  <2>2. CASE \E i \in sources..(nodes - 1) : o = union(i - sources)
    BY <1>11, <2>2
  <2> QED BY <2>1, <2>2
<1>6. sink(0) \in ToSet(d.ops)
  BY <1>3
<1>7. /\ Conn(busy(nodes - 1), 0, collector(0), 0) \in ToSet(d.conns)
      /\ Conn(collector(0), 0, sink(0), 0) \in ToSet(d.conns)
      /\ \A i \in 0..(sources - 1) : /\ Conn(src(i), 0, timestamper(i), 0) \in ToSet(d.conns)
                                     /\ Conn(timestamper(i), 0, selective(i), 0) \in ToSet(d.conns)
  <2>1. /\ Conn(busy(nodes - 1), 0, collector(0), 0) \in ToSet(d.conns)
        /\ Conn(collector(0), 0, sink(0), 0) \in ToSet(d.conns)
    BY <1>4
  <2>2. \A i \in 0..(sources - 1) : /\ Conn(src(i), 0, timestamper(i), 0) \in ToSet(d.conns)
                                    /\ Conn(timestamper(i), 0, selective(i), 0) \in ToSet(d.conns)
    BY <1>4
  <2> QED BY <2>1, <2>2
<1>8. \A i \in 0..(nodes - 1) : Conn(selective(i), 0, busy(i), 0) \in ToSet(d.conns)
  BY <1>4, <1>11
<1>9. \A q \in 0..(splits - 1) : Conn(union(q), 0, selective(q + sources), 0) \in ToSet(d.conns)
  <2> TAKE q \in 0..(splits - 1)
  <2> DEFINE i == q + sources
  <2>1. i \in sources..(nodes - 1) /\ i - sources = q
    BY <1>11
  <2> HIDE DEF i
  <2>2. Conn(union(i - sources), 0, selective(i), 0) \in ToSet(d.conns)
    BY <1>4, <2>1
  <2>3. Conn(union(q), 0, selective(i), 0) \in ToSet(d.conns)
    BY <2>1, <2>2
  <2> QED BY <2>3 DEF i
<1>10. \A i \in 0..((nodes - 1) - 1) : Conn(busy(i), 0, union(i \div n), i % n) \in ToSet(d.conns)
  BY <1>4
<1>12. ASSUME NEW c \in ToSet(d.conns)
       PROVE  \/ c = Conn(busy(nodes - 1), 0, collector(0), 0) \/ c = Conn(collector(0), 0, sink(0), 0)
              \/ \E i \in 0..(sources - 1) : c = Conn(src(i), 0, timestamper(i), 0)
              \/ \E i \in 0..(sources - 1) : c = Conn(timestamper(i), 0, selective(i), 0)
              \/ \E i \in 0..(nodes - 1) : c = Conn(selective(i), 0, busy(i), 0)
              \/ \E q \in 0..(splits - 1) : c = Conn(union(q), 0, selective(q + sources), 0)
              \/ \E i \in 0..((nodes - 1) - 1) : c = Conn(busy(i), 0, union(i \div n), i % n)
  <2>1. \/ c = Conn(busy(nodes - 1), 0, collector(0), 0) \/ c = Conn(collector(0), 0, sink(0), 0)
        \/ \E i \in 0..(sources - 1) : c = Conn(src(i), 0, timestamper(i), 0)
        \/ \E i \in 0..(sources - 1) : c = Conn(timestamper(i), 0, selective(i), 0)
        \/ \E i \in 0..(sources - 1) : c = Conn(selective(i), 0, busy(i), 0)
        \/ \E i \in sources..(nodes - 1) : c = Conn(selective(i), 0, busy(i), 0)
        \/ \E i \in sources..(nodes - 1) : c = Conn(union(i - sources), 0, selective(i), 0)
        \/ \E i \in 0..((nodes - 1) - 1) : c = Conn(busy(i), 0, union(i \div n), i % n)
    BY <1>4
  <2>2. CASE \E i \in sources..(nodes - 1) : c = Conn(union(i - sources), 0, selective(i), 0)
    <3>1. PICK i \in sources..(nodes - 1) : c = Conn(union(i - sources), 0, selective(i), 0)
      BY <2>2
    <3> DEFINE q == i - sources
    <3>2. q \in 0..(splits - 1) /\ q + sources = i
      BY <1>11
    <3> HIDE DEF q
    <3>3. c = Conn(union(q), 0, selective(q + sources), 0)
      BY <3>1, <3>2 DEF q
    <3> QED BY <3>2, <3>3
  <2>3. CASE \E i \in 0..(sources - 1) : c = Conn(selective(i), 0, busy(i), 0)
    BY <1>11, <2>3
  <2>4. CASE \E i \in sources..(nodes - 1) : c = Conn(selective(i), 0, busy(i), 0)
    BY <1>11, <2>4
  <2> QED BY <2>1, <2>2, <2>3, <2>4
<1> QED BY <1>1, <1>5, <1>6, <1>7, <1>8, <1>9, <1>10, <1>12 DEF ReverseShape, src, union, d

\* A reversed tree of any depth and width is laid out in levels: the levels are its rows.
LEMMA ReverseLaidOut ==
  ASSUME NEW depth \in Nat \ {0}, NEW n \in Nat, n > 1
  PROVE  \E level, rank : LaidOut(ReverseTree(depth, n), level, rank)
<1> DEFINE nodes == Nodes(depth, n)
           splits == Nodes(depth - 1, n)
           sources == Power(n, depth - 1)
           d == ReverseTree(depth, n)
           src(i) == Node("TupleGenerator", i)
           union(i) == Node("Union", i)
           Linked(u, i, v, j) == Conn(u, i, v, j) \in ToSet(d.conns)
<1>0. /\ nodes \in Nat \ {0} /\ splits \in Nat /\ sources \in Nat \ {0}
      /\ nodes = n * splits + 1 /\ sources = nodes - splits
  BY SizesOfTree
<1>1. PICK height : ReverseRows(height, depth, n)
  BY ReverseRowsExist
<1>2. /\ \A i \in 0..(nodes - 1) : height[i] \in 0..(depth - 1)
      /\ \A i \in 0..(sources - 1) : height[i] = 0
      /\ height[nodes - 1] = depth - 1
      /\ \A i \in 0..((nodes - 1) - 1) :
           /\ (i \div n) \in 0..(splits - 1) /\ i % n \in 0..(n - 1)
           /\ i < (i \div n) + sources
           /\ height[(i \div n) + sources] = height[i] + 1
  BY <1>1 DEF ReverseRows
<1>3. ReverseShape(d, depth, n, nodes, splits, sources)
  BY ReverseParts
<1>4. \A i \in Nat : /\ src(i) \in Classes \X Nat /\ src(i)[1] = "TupleGenerator" /\ src(i)[2] = i
                     /\ union(i) \in Classes \X Nat /\ union(i)[1] = "Union" /\ union(i)[2] = i
  BY Classified
<1> HIDE DEF nodes, splits, sources, d
<1>5. /\ Sound(d) /\ d.n = n /\ d.depth = depth /\ Len(d.ops) = 2 + nodes + nodes + nodes + sources
      /\ sink(0) \in ToSet(d.ops)
      /\ \A o \in ToSet(d.ops) :
           \/ o = collector(0) \/ o = sink(0)
           \/ \E i \in 0..(sources - 1) : o = src(i) \/ o = timestamper(i)
           \/ \E i \in 0..(nodes - 1) : o = selective(i) \/ o = busy(i)
           \/ \E q \in 0..(splits - 1) : o = union(q)
  BY <1>3 DEF ReverseShape
<1>6. /\ Linked(busy(nodes - 1), 0, collector(0), 0) /\ Linked(collector(0), 0, sink(0), 0)
      /\ \A i \in 0..(sources - 1) : Linked(src(i), 0, timestamper(i), 0) /\ Linked(timestamper(i), 0, selective(i), 0)
      /\ \A i \in 0..(nodes - 1) : Linked(selective(i), 0, busy(i), 0)
      /\ \A q \in 0..(splits - 1) : Linked(union(q), 0, selective(q + sources), 0)
      /\ \A i \in 0..((nodes - 1) - 1) : Linked(busy(i), 0, union(i \div n), i % n)
  BY <1>3 DEF ReverseShape
<1>7. \A c \in ToSet(d.conns) :
        \/ c = Conn(busy(nodes - 1), 0, collector(0), 0) \/ c = Conn(collector(0), 0, sink(0), 0)
        \/ \E i \in 0..(sources - 1) : c = Conn(src(i), 0, timestamper(i), 0)
        \/ \E i \in 0..(sources - 1) : c = Conn(timestamper(i), 0, selective(i), 0)
        \/ \E i \in 0..(nodes - 1) : c = Conn(selective(i), 0, busy(i), 0)
        \/ \E q \in 0..(splits - 1) : c = Conn(union(q), 0, selective(q + sources), 0)
        \/ \E i \in 0..((nodes - 1) - 1) : c = Conn(busy(i), 0, union(i \div n), i % n)
  BY <1>3 DEF ReverseShape
<1> HIDE DEF src, union
<1>8. \A q \in 0..(splits - 1), j \in 0..(n - 1) :
        \E i \in 0..((nodes - 1) - 1) : i \div n = q /\ i % n = j
  <2> TAKE q \in 0..(splits - 1), j \in 0..(n - 1)
  <2> DEFINE i == n * q + j
  <2>1. i \div n = q /\ i % n = j
    BY Division
  <2>2. i \in 0..((nodes - 1) - 1)
    <3>1. q <= splits - 1 /\ splits - 1 \in Nat /\ q \in Nat
      BY <1>0
    <3>2. n * q <= n * (splits - 1) /\ n * q \in Nat
      BY <3>1
    <3>3. n * (splits - 1) = n * splits - n /\ n * splits \in Nat
      BY <1>0
    <3>4. nodes - 1 = n * splits
      BY <1>0
    <3> QED BY <3>2, <3>3, <3>4
  <2> HIDE DEF i
  <2> QED BY <2>1, <2>2
<1>9. /\ nodes \in Nat /\ splits \in Nat /\ sources \in Nat /\ nodes = sources + splits /\ sources > 0
      /\ nodes > 0
  BY <1>0
<1> DEFINE top == 2 + nodes + nodes + nodes
           level == [o \in Classes \X Nat |->
                       IF o[1] = "Busy" THEN height[o[2]] + 1
                       ELSE IF o[1] = "Selective" THEN height[o[2]]
                       ELSE IF o[1] = "Union" THEN height[o[2] + sources]
                       ELSE IF o[1] \in {"ResultCollector", "FileSink"} THEN depth ELSE 0]
           rank == [o \in Classes \X Nat |->
                      IF o[1] = "Timestamper" THEN 1
                      ELSE IF o[1] = "Selective" THEN 3 + o[2] + o[2] + o[2]
                      ELSE IF o[1] = "Busy" THEN 4 + o[2] + o[2] + o[2]
                      ELSE IF o[1] = "Union" THEN 2 + (o[2] + sources) + (o[2] + sources) + (o[2] + sources)
                      ELSE IF o[1] = "ResultCollector" THEN top
                      ELSE IF o[1] = "FileSink" THEN top + 1 ELSE 0]
           succ == [p \in (Classes \X Nat) \X Nat |->
                      IF p[1][1] = "TupleGenerator" THEN <<timestamper(p[1][2]), 0>>
                      ELSE IF p[1][1] = "Timestamper" THEN <<selective(p[1][2]), 0>>
                      ELSE IF p[1][1] = "Selective" THEN <<busy(p[1][2]), 0>>
                      ELSE IF p[1][1] = "Union" THEN <<selective(p[1][2] + sources), 0>>
                      ELSE IF p[1][1] = "ResultCollector" THEN <<sink(0), 0>>
                      ELSE IF p[1][2] = nodes - 1 THEN <<collector(0), 0>>
                      ELSE <<union(p[1][2] \div n), p[1][2] % n>>]
<1>10. /\ \A i \in Nat : level[src(i)] = 0 /\ level[timestamper(i)] = 0
       /\ \A i \in Nat : level[selective(i)] = height[i] /\ level[busy(i)] = height[i] + 1
       /\ \A i \in Nat : level[union(i)] = height[i + sources]
       /\ level[collector(0)] = depth /\ level[sink(0)] = depth
  <2>1. \A i \in Nat : level[src(i)] = 0
    BY <1>4
  <2>2. \A i \in Nat : level[timestamper(i)] = 0
    BY Classified
  <2>3. \A i \in Nat : level[selective(i)] = height[i]
    BY Classified
  <2>4. \A i \in Nat : level[busy(i)] = height[i] + 1
    BY Classified
  <2>5. \A i \in Nat : level[union(i)] = height[i + sources]
    BY <1>4
  <2>6. level[collector(0)] = depth /\ level[sink(0)] = depth
    BY Classified
  <2> QED BY <2>1, <2>2, <2>3, <2>4, <2>5, <2>6
<1>11. top \in Nat /\ top + 1 <= Len(d.ops) /\ Len(d.ops) \in Nat /\ top = 2 + nodes + nodes + nodes
  BY <1>5, <1>9
<1> HIDE DEF top
<1>12. /\ \A i \in Nat : rank[src(i)] = 0 /\ rank[timestamper(i)] = 1
       /\ \A i \in Nat : rank[selective(i)] = 3 + i + i + i /\ rank[busy(i)] = 4 + i + i + i
       /\ \A i \in Nat : rank[union(i)] = 2 + (i + sources) + (i + sources) + (i + sources)
       /\ rank[collector(0)] = top /\ rank[sink(0)] = top + 1
  <2>1. \A i \in Nat : rank[src(i)] = 0
    BY <1>4
  <2>2. \A i \in Nat : rank[timestamper(i)] = 1
    BY Classified
  <2>3. \A i \in Nat : rank[selective(i)] = 3 + i + i + i
    BY Classified
  <2>4. \A i \in Nat : rank[busy(i)] = 4 + i + i + i
    BY Classified
  <2>5. \A i \in Nat : rank[union(i)] = 2 + (i + sources) + (i + sources) + (i + sources)
    BY <1>4
  <2>6. rank[collector(0)] = top
    BY Classified
  <2>7. rank[sink(0)] = top + 1
    BY Classified
  <2> QED BY <2>1, <2>2, <2>3, <2>4, <2>5, <2>6, <2>7
<1>13. /\ \A i \in Nat : /\ succ[<<src(i), 0>>] = <<timestamper(i), 0>>
                         /\ succ[<<timestamper(i), 0>>] = <<selective(i), 0>>
                         /\ succ[<<selective(i), 0>>] = <<busy(i), 0>>
                         /\ succ[<<union(i), 0>>] = <<selective(i + sources), 0>>
       /\ succ[<<collector(0), 0>>] = <<sink(0), 0>>
       /\ succ[<<busy(nodes - 1), 0>>] = <<collector(0), 0>>
       /\ \A i \in Nat : i # nodes - 1 => succ[<<busy(i), 0>>] = <<union(i \div n), i % n>>
  <2>1. \A o \in Classes \X Nat, i \in Nat :
          <<o, i>> \in (Classes \X Nat) \X Nat /\ <<o, i>>[1] = o /\ <<o, i>>[2] = i
    OBVIOUS
  <2>2. \A i \in Nat : succ[<<src(i), 0>>] = <<timestamper(i), 0>>
    BY <1>4, <2>1
  <2>3. \A i \in Nat : succ[<<timestamper(i), 0>>] = <<selective(i), 0>>
    BY <2>1, Classified
  <2>4. \A i \in Nat : succ[<<selective(i), 0>>] = <<busy(i), 0>>
    BY <2>1, Classified
  <2>5. \A i \in Nat : succ[<<union(i), 0>>] = <<selective(i + sources), 0>>
    BY <1>4, <2>1
  <2>6. succ[<<collector(0), 0>>] = <<sink(0), 0>>
    BY <2>1, Classified
  <2>7. succ[<<busy(nodes - 1), 0>>] = <<collector(0), 0>>
    <3>1. nodes - 1 \in Nat
      BY <1>9
    <3> QED BY <2>1, <3>1, Classified
  <2>8. \A i \in Nat : i # nodes - 1 => succ[<<busy(i), 0>>] = <<union(i \div n), i % n>>
    BY <2>1, Classified
  <2> QED BY <2>2, <2>3, <2>4, <2>5, <2>6, <2>7, <2>8
<1>14. /\ \A i \in Nat : Ins(src(i)[1], n) = 0 /\ Outs(src(i)[1], n) = 1
       /\ \A i \in Nat : \A u \in {timestamper(i), selective(i), busy(i), collector(i)} :
                           Ins(u[1], n) = 1 /\ Outs(u[1], n) = 1
       /\ \A i \in Nat : Ins(union(i)[1], n) = n /\ Outs(union(i)[1], n) = 1
       /\ Ins(sink(0)[1], n) = 1 /\ Outs(sink(0)[1], n) = 0
  BY <1>4, Classified DEF Ins, Outs
<1>15. /\ \A i \in Nat : \A u \in {src(i), timestamper(i), selective(i), union(i), collector(i)} :
                           u[1] # "Busy" /\ u[1] # "FileSink"
       /\ \A i \in Nat : busy(i)[1] = "Busy"
       /\ sink(0)[1] = "FileSink"
  BY <1>4, Classified
<1> HIDE DEF level, rank, succ
<1>16. /\ \A i \in 0..(sources - 1) : From(d, src(i), 0) /\ Into(d, timestamper(i), 0) /\ From(d, timestamper(i), 0)
       /\ \A i \in 0..(nodes - 1) : Into(d, selective(i), 0) /\ From(d, selective(i), 0) /\ Into(d, busy(i), 0)
                                    /\ From(d, busy(i), 0)
       /\ \A q \in 0..(splits - 1) : From(d, union(q), 0) /\ \A j \in 0..(n - 1) : Into(d, union(q), j)
       /\ Into(d, collector(0), 0) /\ From(d, collector(0), 0) /\ Into(d, sink(0), 0)
  <2>1. \A i \in 0..(sources - 1) : From(d, src(i), 0) /\ Into(d, timestamper(i), 0) /\ From(d, timestamper(i), 0)
    BY <1>6, Connected
  <2>2. \A i \in 0..(nodes - 1) : From(d, selective(i), 0) /\ Into(d, busy(i), 0)
    BY <1>6, Connected
  <2>3. ASSUME NEW i \in 0..(nodes - 1) PROVE Into(d, selective(i), 0)
    <3>1. CASE i < sources
      <4>1. i \in 0..(sources - 1)
        BY <1>9, <3>1
      <4>2. Linked(timestamper(i), 0, selective(i), 0)
        BY <1>6, <4>1
      <4> QED BY <4>2, Connected
    <3>2. CASE ~(i < sources)
      <4> DEFINE q == i - sources
      <4>1. q \in 0..(splits - 1) /\ q + sources = i
        BY <1>9, <3>2
      <4> HIDE DEF q
      <4>2. Linked(union(q), 0, selective(q + sources), 0)
        BY <1>6, <4>1
      <4>3. Linked(union(q), 0, selective(i), 0)
        BY <4>1, <4>2
      <4> QED BY <4>3, Connected
    <3> QED BY <3>1, <3>2
  <2>4. ASSUME NEW i \in 0..(nodes - 1) PROVE From(d, busy(i), 0)
    <3>1. CASE i = nodes - 1
      <4>1. Linked(busy(i), 0, collector(0), 0)
        BY <1>6, <3>1
      <4> QED BY <4>1, Connected
    <3>2. CASE i # nodes - 1
      <4>1. i \in 0..((nodes - 1) - 1)
        BY <1>9, <3>2
      <4>2. Linked(busy(i), 0, union(i \div n), i % n)
        BY <1>6, <4>1
      <4> QED BY <4>2, Connected
    <3> QED BY <3>1, <3>2
  <2>5. \A q \in 0..(splits - 1) : From(d, union(q), 0)
    BY <1>6, Connected
  <2>6. ASSUME NEW q \in 0..(splits - 1), NEW j \in 0..(n - 1) PROVE Into(d, union(q), j)
    <3>1. PICK i \in 0..((nodes - 1) - 1) : i \div n = q /\ i % n = j
      BY <1>8
    <3>2. Linked(busy(i), 0, union(i \div n), i % n)
      BY <1>6
    <3>3. Linked(busy(i), 0, union(q), j)
      BY <3>1, <3>2
    <3> QED BY <3>3, Connected
  <2>7. Into(d, collector(0), 0) /\ From(d, collector(0), 0) /\ Into(d, sink(0), 0)
    BY <1>6, Connected
  <2> QED BY <2>1, <2>2, <2>3, <2>4, <2>5, <2>6, <2>7
<1> HIDE DEF Linked
<1>17. ASSUME NEW o \in ToSet(d.ops) PROVE Served(d, o) /\ Placed(d, level, rank, o)
  <2>0. 0 \in Nat /\ depth \in Nat
    OBVIOUS
  <2>1. CASE \E i \in 0..(sources - 1) : o = src(i)
    <3>0. PICK i \in 0..(sources - 1) : o = src(i)
      BY <2>1
    <3>1. Served(d, o)
      BY <1>5, <1>14, <1>16, <3>0 DEF Served
    <3>2. level[o] = 0 /\ rank[o] = 0 /\ o[1] # "Busy" /\ o[1] # "FileSink"
      <4>1. i \in Nat
        OBVIOUS
      <4>2. level[o] = 0 /\ rank[o] = 0
        BY <1>10, <1>12, <3>0, <4>1
      <4>3. o[1] # "Busy" /\ o[1] # "FileSink"
        BY <1>15, <3>0, <4>1
      <4> QED BY <4>2, <4>3
    <3>3. 0 \in 0..Len(d.ops)
      BY <1>11
    <3> QED BY <3>1, <3>2, <3>3 DEF Placed
  <2>2. CASE \E i \in 0..(sources - 1) : o = timestamper(i)
    <3>0. PICK i \in 0..(sources - 1) : o = timestamper(i)
      BY <2>2
    <3>1. Served(d, o)
      BY <1>5, <1>14, <1>16, <3>0 DEF Served
    <3>2. level[o] = 0 /\ rank[o] = 1 /\ o[1] # "Busy" /\ o[1] # "FileSink"
      <4>1. i \in Nat
        OBVIOUS
      <4>2. level[o] = 0 /\ rank[o] = 1
        BY <1>10, <1>12, <3>0, <4>1
      <4>3. o[1] # "Busy" /\ o[1] # "FileSink"
        BY <1>15, <3>0, <4>1
      <4> QED BY <4>2, <4>3
    <3>3. 1 \in 0..Len(d.ops)
      BY <1>11
    <3> QED BY <3>1, <3>2, <3>3 DEF Placed
  <2>3. CASE \E i \in 0..(nodes - 1) : o = selective(i) \/ o = busy(i)
    <3>0. PICK i \in 0..(nodes - 1) : o = selective(i) \/ o = busy(i)
      BY <2>3
    <3>1. Served(d, o)
      BY <1>5, <1>14, <1>16, <3>0 DEF Served
    <3>2. level[o] \in Nat
      <4>1. height[i] \in Nat /\ i \in Nat
        BY <1>2
      <4> QED BY <1>10, <3>0, <4>1
    <3>3. rank[o] \in 0..Len(d.ops)
      <4>1. i \in Nat /\ 3 + i + i + i \in 0..Len(d.ops) /\ 4 + i + i + i \in 0..Len(d.ops)
        BY <1>9, <1>11
      <4>2. rank[selective(i)] = 3 + i + i + i /\ rank[busy(i)] = 4 + i + i + i
        BY <1>12, <4>1
      <4>3. CASE o = selective(i)
        BY <4>1, <4>2, <4>3
      <4>4. CASE o = busy(i)
        BY <4>1, <4>2, <4>4
      <4> QED BY <3>0, <4>3, <4>4
    <3>4. Ins(o[1], n) # 0 /\ o[1] # "FileSink"
      BY <1>14, <1>15, <3>0
    <3> QED BY <1>5, <3>1, <3>2, <3>3, <3>4 DEF Placed
  <2>4. CASE \E q \in 0..(splits - 1) : o = union(q)
    <3>0. PICK q \in 0..(splits - 1) : o = union(q)
      BY <2>4
    <3>5. q \in Nat /\ q + sources \in 0..(nodes - 1) /\ q + sources \in Nat
      BY <1>9
    <3>1. Served(d, o)
      BY <1>5, <1>14, <1>16, <3>0, <3>5 DEF Served
    <3>2. level[o] \in Nat
      <4>1. height[q + sources] \in Nat
        BY <1>2, <3>5
      <4> QED BY <1>10, <3>0, <3>5, <4>1
    <3>3. rank[o] \in 0..Len(d.ops)
      <4>1. 2 + (q + sources) + (q + sources) + (q + sources) \in 0..Len(d.ops)
        BY <1>9, <1>11, <3>5
      <4> QED BY <1>12, <3>0, <3>5, <4>1
    <3>4. Ins(o[1], n) # 0 /\ o[1] # "FileSink"
      BY <1>14, <1>15, <3>0, <3>5
    <3> QED BY <1>5, <3>1, <3>2, <3>3, <3>4 DEF Placed
  <2>5. CASE o = collector(0) \/ o = sink(0)
    <3>1. Served(d, o)
      BY <1>5, <1>14, <1>16, <2>5 DEF Served
    <3>2. level[o] = depth
      BY <1>10, <2>5
    <3>3. rank[o] \in 0..Len(d.ops)
      <4>1. top \in 0..Len(d.ops) /\ top + 1 \in 0..Len(d.ops)
        BY <1>11
      <4>2. CASE o = collector(0)
        BY <1>12, <4>1, <4>2
      <4>3. CASE o = sink(0)
        BY <1>12, <4>1, <4>3
      <4> QED BY <2>5, <4>2, <4>3
    <3>4. Ins(o[1], n) # 0
      BY <1>14, <2>0, <2>5
    <3> QED BY <1>5, <2>0, <3>1, <3>2, <3>3, <3>4 DEF Placed
  <2> QED BY <1>5, <2>1, <2>2, <2>3, <2>4, <2>5
<1>18. ASSUME NEW c \in ToSet(d.conns) PROVE Climbs(c, level, rank, succ)
  <2>0. 0 \in Nat /\ depth \in Int /\ top \in Int
    BY <1>11
  <2>1. CASE \E i \in 0..(sources - 1) : c = Conn(src(i), 0, timestamper(i), 0)
    <3>1. PICK i \in 0..(sources - 1) : c = Conn(src(i), 0, timestamper(i), 0)
      BY <2>1
    <3>3. rank[src(i)] < rank[timestamper(i)]
      <4>1. rank[src(i)] = 0 /\ rank[timestamper(i)] = 1
        BY <1>12
      <4> QED BY <4>1
    <3>4. level[timestamper(i)] = level[src(i)] /\ level[src(i)] \in Int
      BY <1>10
    <3>5. timestamper(i)[1] # "Busy" /\ succ[<<src(i), 0>>] = <<timestamper(i), 0>>
      <4>1. i \in Nat
        OBVIOUS
      <4>2. timestamper(i)[1] # "Busy"
        BY <1>15, <4>1
      <4> QED BY <1>13, <4>1, <4>2
    <3> QED BY <3>1, <3>3, <3>4, <3>5, Climbing
  <2>2. CASE \E i \in 0..(sources - 1) : c = Conn(timestamper(i), 0, selective(i), 0)
    <3>1. PICK i \in 0..(sources - 1) : c = Conn(timestamper(i), 0, selective(i), 0)
      BY <2>2
    <3>3. rank[timestamper(i)] < rank[selective(i)]
      <4>1. rank[timestamper(i)] = 1 /\ rank[selective(i)] = 3 + i + i + i /\ i \in Nat
        BY <1>12
      <4> QED BY <4>1
    <3>4. level[selective(i)] = level[timestamper(i)] /\ level[timestamper(i)] \in Int
      <4>1. height[i] = 0 /\ i \in Nat
        BY <1>2
      <4> QED BY <1>10, <4>1
    <3>5. selective(i)[1] # "Busy" /\ succ[<<timestamper(i), 0>>] = <<selective(i), 0>>
      <4>1. i \in Nat
        OBVIOUS
      <4>2. selective(i)[1] # "Busy"
        BY <1>15, <4>1
      <4> QED BY <1>13, <4>1, <4>2
    <3> QED BY <3>1, <3>3, <3>4, <3>5, Climbing
  <2>3. CASE \E i \in 0..(nodes - 1) : c = Conn(selective(i), 0, busy(i), 0)
    <3>1. PICK i \in 0..(nodes - 1) : c = Conn(selective(i), 0, busy(i), 0)
      BY <2>3
    <3>2. i \in Nat /\ height[i] \in Int
      BY <1>2
    <3>3. rank[selective(i)] < rank[busy(i)]
      <4>1. rank[selective(i)] = 3 + i + i + i /\ rank[busy(i)] = 4 + i + i + i
        BY <1>12, <3>2
      <4> QED BY <3>2, <4>1
    <3>4. level[busy(i)] = level[selective(i)] + 1 /\ level[selective(i)] \in Int
      BY <1>10, <3>2
    <3>5. busy(i)[1] = "Busy" /\ succ[<<selective(i), 0>>] = <<busy(i), 0>>
      BY <1>13, <1>15, <3>2
    <3> QED BY <3>1, <3>3, <3>4, <3>5, Climbing
  <2>4. CASE \E q \in 0..(splits - 1) : c = Conn(union(q), 0, selective(q + sources), 0)
    <3>1. PICK q \in 0..(splits - 1) : c = Conn(union(q), 0, selective(q + sources), 0)
      BY <2>4
    <3> DEFINE m == q + sources
    <3>2. q \in Nat /\ m \in Nat /\ m \in 0..(nodes - 1)
      BY <1>9
    <3>6. /\ rank[union(q)] = 2 + m + m + m
          /\ level[union(q)] = height[m] /\ succ[<<union(q), 0>>] = <<selective(m), 0>>
      BY <1>10, <1>12, <1>13, <3>2
    <3>7. c = Conn(union(q), 0, selective(m), 0)
      BY <3>1
    <3> HIDE DEF m
    <3>3. rank[union(q)] < rank[selective(m)]
      <4>1. rank[selective(m)] = 3 + m + m + m
        BY <1>12, <3>2
      <4> QED BY <3>2, <3>6, <4>1
    <3>4. level[selective(m)] = level[union(q)] /\ level[union(q)] \in Int
      <4>1. height[m] \in Int
        BY <1>2, <3>2
      <4> QED BY <1>10, <3>2, <3>6, <4>1
    <3>5. selective(m)[1] # "Busy"
      BY <1>15, <3>2
    <3> QED BY <3>3, <3>4, <3>5, <3>6, <3>7, Climbing
  <2>5. CASE \E i \in 0..((nodes - 1) - 1) : c = Conn(busy(i), 0, union(i \div n), i % n)
    <3>1. PICK i \in 0..((nodes - 1) - 1) : c = Conn(busy(i), 0, union(i \div n), i % n)
      BY <2>5
    <3> DEFINE q == i \div n
               r == i % n
    <3>2. i \in Nat /\ i \in 0..(nodes - 1) /\ i # nodes - 1
      BY <1>9
    <3>6. q \in 0..(splits - 1) /\ i < q + sources /\ height[q + sources] = height[i] + 1
      BY <1>2
    <3>7. succ[<<busy(i), 0>>] = <<union(q), r>>
      BY <1>13, <3>2
    <3>8. c = Conn(busy(i), 0, union(q), r)
      BY <3>1
    <3> HIDE DEF q, r
    <3>9. q \in Nat /\ q + sources \in Nat
      BY <1>9, <3>6
    <3>3. rank[busy(i)] < rank[union(q)]
      <4> DEFINE m == q + sources
      <4>1. rank[union(q)] = 2 + m + m + m
        BY <1>12, <3>9
      <4>2. i < m /\ m \in Nat
        BY <3>6, <3>9
      <4> HIDE DEF m
      <4>3. rank[busy(i)] = 4 + i + i + i
        BY <1>12, <3>2
      <4> QED BY <3>2, <4>1, <4>2, <4>3
    <3>4. level[union(q)] = level[busy(i)] /\ level[busy(i)] \in Int
      <4>1. height[i] \in Int
        BY <1>2, <3>2
      <4>2. level[busy(i)] = height[i] + 1 /\ level[union(q)] = height[q + sources]
        BY <1>10, <3>2, <3>9
      <4> QED BY <3>6, <4>1, <4>2
    <3>5. union(q)[1] # "Busy"
      BY <1>15, <3>9
    <3> QED BY <3>3, <3>4, <3>5, <3>7, <3>8, Climbing
  <2>6. CASE c = Conn(busy(nodes - 1), 0, collector(0), 0)
    <3> DEFINE k == nodes - 1
    <3>1. k \in Nat /\ nodes = k + 1
      BY <1>9
    <3>2. c = Conn(busy(k), 0, collector(0), 0) /\ height[k] = depth - 1 /\ succ[<<busy(k), 0>>] = <<collector(0), 0>>
      BY <1>2, <1>13, <2>6
    <3> HIDE DEF k
    <3>3. rank[busy(k)] < rank[collector(0)]
      <4>1. rank[busy(k)] = 4 + k + k + k /\ rank[collector(0)] = top
        BY <1>12, <3>1
      <4>2. 4 + k + k + k < top
        BY <1>11, <3>1
      <4> QED BY <4>1, <4>2
    <3>4. level[collector(0)] = level[busy(k)] /\ level[busy(k)] \in Int
      <4>1. level[busy(k)] = (depth - 1) + 1
        BY <1>10, <3>1, <3>2
      <4>2. level[collector(0)] = depth
        BY <1>10
      <4> QED BY <4>1, <4>2
    <3>5. collector(0)[1] # "Busy"
      BY <1>15, <2>0
    <3> QED BY <3>2, <3>3, <3>4, <3>5, Climbing
  <2>7. CASE c = Conn(collector(0), 0, sink(0), 0)
    <3>3. rank[collector(0)] < rank[sink(0)]
      <4>1. rank[collector(0)] = top /\ rank[sink(0)] = top + 1
        BY <1>12
      <4>2. top < top + 1
        BY <2>0
      <4> QED BY <4>1, <4>2
    <3>4. level[sink(0)] = level[collector(0)] /\ level[collector(0)] \in Int
      BY <1>10, <2>0
    <3>5. sink(0)[1] # "Busy" /\ succ[<<collector(0), 0>>] = <<sink(0), 0>>
      <4>1. sink(0)[1] = "FileSink"
        BY <1>15
      <4> QED BY <1>13, <4>1
    <3> QED BY <2>7, <3>3, <3>4, <3>5, Climbing
  <2> QED BY <1>7, <2>1, <2>2, <2>3, <2>4, <2>5, <2>6, <2>7
<1>19. \E o \in ToSet(d.ops) : o[1] = "FileSink"
  BY <1>5, <1>15
<1>20. LaidOut(d, level, rank)
  BY <1>5, <1>17, <1>18, <1>19, Levels
<1> QED BY <1>20 DEF d

\* The flows of a reversed tree of any depth and width are as documented.
LEMMA ReverseOrderly ==
  ASSUME NEW depth \in Nat \ {0}, NEW n \in Nat, n > 1
  PROVE  Orderly(ReverseTree(depth, n))
<1> DEFINE nodes == Nodes(depth, n)
           splits == Nodes(depth - 1, n)
           sources == Power(n, depth - 1)
           d == ReverseTree(depth, n)
           src(i) == Node("TupleGenerator", i)
           union(i) == Node("Union", i)
<1>0. nodes \in Nat \ {0} /\ splits \in Nat /\ sources \in Nat \ {0}
  BY SizesOfTree
<1>1. ReverseShape(d, depth, n, nodes, splits, sources)
  BY ReverseParts
<1>2. \A i \in Nat : /\ src(i) \in Classes \X Nat /\ src(i)[1] = "TupleGenerator"
                     /\ union(i) \in Classes \X Nat /\ union(i)[1] = "Union"
  BY Classified
<1>3. \E level, rank : LaidOut(d, level, rank)
  BY ReverseLaidOut
<1> HIDE DEF nodes, splits, sources, d
<1>4. /\ Sound(d) /\ WithoutFanIn(d) /\ d.n = n /\ d \notin {UnionSink, BarrierSink}
      /\ d.formats = Columns(sink(0), NameAndGrade)
      /\ \A o \in ToSet(d.ops) :
           \/ o = collector(0) \/ o = sink(0)
           \/ \E i \in 0..(sources - 1) : o = src(i) \/ o = timestamper(i)
           \/ \E i \in 0..(nodes - 1) : o = selective(i) \/ o = busy(i)
           \/ \E q \in 0..(splits - 1) : o = union(q)
  BY <1>1 DEF ReverseShape
<1>5. \A c \in ToSet(d.conns) :
        \/ c = Conn(busy(nodes - 1), 0, collector(0), 0) \/ c = Conn(collector(0), 0, sink(0), 0)
        \/ \E i \in 0..(sources - 1) : c = Conn(src(i), 0, timestamper(i), 0)
        \/ \E i \in 0..(sources - 1) : c = Conn(timestamper(i), 0, selective(i), 0)
        \/ \E i \in 0..(nodes - 1) : c = Conn(selective(i), 0, busy(i), 0)
        \/ \E q \in 0..(splits - 1) : c = Conn(union(q), 0, selective(q + sources), 0)
        \/ \E i \in 0..((nodes - 1) - 1) : c = Conn(busy(i), 0, union(i \div n), i % n)
  BY <1>1 DEF ReverseShape
<1> HIDE DEF src, union
<1>6. ASSUME NEW o \in ToSet(d.ops)
      PROVE  /\ o \in Classes \X Nat /\ o[1] \notin {"Barrier", "Split", "Merge", "Filter"}
             /\ Format(d, o) = PlainFormat(o[1])
  <2>1. CASE o = sink(0)
    <3>1. Format(d, o) = NameAndGrade
      BY <1>4, <2>1 DEF Format, Columns
    <3>2. o \in Classes \X Nat /\ o[1] = "FileSink"
      BY <2>1, Classified
    <3> QED BY <3>1, <3>2 DEF PlainFormat
  <2>2. CASE o # sink(0)
    <3>1. Format(d, o) = <<>>
      BY <1>4, <2>2 DEF Format, Columns
    <3>2. /\ o \in Classes \X Nat
          /\ o[1] \in {"TupleGenerator", "Timestamper", "Selective", "Busy", "Union", "ResultCollector"}
      <4>1. CASE o = collector(0)
        BY <4>1, Classified
      <4>2. CASE \E i \in 0..(sources - 1) : o = src(i) \/ o = timestamper(i)
        <5>1. PICK i \in 0..(sources - 1) : o = src(i) \/ o = timestamper(i)
          BY <4>2
        <5>2. CASE o = src(i)
          BY <1>2, <5>2
        <5>3. CASE o = timestamper(i)
          BY <5>3, Classified
        <5> QED BY <5>1, <5>2, <5>3
      <4>3. CASE \E i \in 0..(nodes - 1) : o = selective(i) \/ o = busy(i)
        BY <4>3, Classified
      <4>4. CASE \E q \in 0..(splits - 1) : o = union(q)
        BY <1>2, <4>4
      <4> QED BY <1>4, <2>2, <4>1, <4>2, <4>3, <4>4
    <3> QED BY <3>1, <3>2 DEF PlainFormat
  <2> QED BY <2>1, <2>2
<1>7. ASSUME NEW c \in ToSet(d.conns)
      PROVE  c.from[1] \in {"FileSource", "TupleGenerator"} <=> c.to[1] = "Timestamper"
  <2>1. CASE \E i \in 0..(sources - 1) : c = Conn(src(i), 0, timestamper(i), 0)
    <3>1. PICK i \in 0..(sources - 1) : c = Conn(src(i), 0, timestamper(i), 0)
      BY <2>1
    <3>2. c.from = src(i) /\ c.to = timestamper(i)
      BY <3>1, Ends
    <3>3. src(i)[1] = "TupleGenerator"
      BY <1>2
    <3>4. timestamper(i)[1] = "Timestamper"
      BY Classified
    <3> QED BY <3>2, <3>3, <3>4
  <2>2. CASE \E i \in 0..(sources - 1) : c = Conn(timestamper(i), 0, selective(i), 0)
    BY <2>2, Classified, Ends
  <2>3. CASE \E i \in 0..(nodes - 1) : c = Conn(selective(i), 0, busy(i), 0)
    BY <2>3, Classified, Ends
  <2>4. CASE \E q \in 0..(splits - 1) : c = Conn(union(q), 0, selective(q + sources), 0)
    <3>1. PICK q \in 0..(splits - 1) : c = Conn(union(q), 0, selective(q + sources), 0)
      BY <2>4
    <3>2. c.from = union(q) /\ c.to = selective(q + sources)
      BY <3>1, Ends
    <3>3. union(q)[1] = "Union"
      BY <1>2
    <3>4. selective(q + sources)[1] = "Selective"
      <4>1. q + sources \in Nat
        BY <1>0
      <4> QED BY <4>1, Classified
    <3> QED BY <3>2, <3>3, <3>4
  <2>5. CASE \E i \in 0..((nodes - 1) - 1) : c = Conn(busy(i), 0, union(i \div n), i % n)
    <3>1. PICK i \in 0..((nodes - 1) - 1) : c = Conn(busy(i), 0, union(i \div n), i % n)
      BY <2>5
    <3> DEFINE q == i \div n
               r == i % n
    <3>2. q \in Nat /\ i \in Nat
      OBVIOUS
    <3>3. c = Conn(busy(i), 0, union(q), r)
      BY <3>1
    <3> HIDE DEF q, r
    <3>4. c.from = busy(i) /\ c.to = union(q)
      BY <3>3, Ends
    <3>5. union(q)[1] = "Union"
      BY <1>2, <3>2
    <3>6. busy(i)[1] = "Busy"
      BY <3>2, Classified
    <3> QED BY <3>4, <3>5, <3>6
  <2>6. CASE c = Conn(busy(nodes - 1), 0, collector(0), 0)
    <3>1. nodes - 1 \in Nat
      BY <1>0
    <3> QED BY <2>6, <3>1, Classified, Ends
  <2>7. CASE c = Conn(collector(0), 0, sink(0), 0)
    BY <2>7, Classified, Ends
  <2> QED BY <1>5, <2>1, <2>2, <2>3, <2>4, <2>5, <2>6, <2>7
<1>8. Supplied(d, ByClass(RoleNames({})))
  <2>1. d.n # 0
    BY <1>4
  <2> QED BY <1>4, <1>6, <1>7, <2>1, PlainSupplied
<1>9. Fed(d)
  BY <1>3, <1>4, FedOnce
<1>10. Orderly(d)
  BY <1>3, <1>8, <1>9 DEF Orderly
<1> QED BY <1>10 DEF d

-----------------------------------------------------------------------------
(***************************************************************************)
(* Every topology.                                                        *)
(***************************************************************************)

\* The flows of Topologies are as documented, whatever their depth and width.
LEMMA EveryFlowOrderly == \A d \in AllFlows : Orderly(d)
<1>1. ASSUME NEW depth \in Nat \ {0}, NEW n \in Nat \ {0, 1}
      PROVE  Orderly(Tree(depth, n)) /\ Orderly(ReverseTree(depth, n))
  <2>1. n \in Nat /\ n > 1
    OBVIOUS
  <2> QED BY <2>1, TreeOrderly, ReverseOrderly
<1> QED
  BY <1>1, FilterSinkOrderly, UnionSinkOrderly, BarrierSinkOrderly, ChainOrderly, ParallelOrderly DEF AllFlows

\* In every flow of Topologies, of any depth and width, once it is finished, every input
\* port is fed by one output port (by two, the middle one of the join of four files) and
\* every output port read by one input port, every operator is reached from a source, and
\* every path from a source to a sink passes through as many busy operators as the
\* constructor's depth says.
THEOREM FlowsAsDocumented ==
  ASSUME Designs \subseteq AllFlows
  PROVE  Spec => []BuiltAsDocumented
<1>1. DesignsAreSound
  BY EveryFlowSound DEF DesignsAreSound
<1>2. Spec => []BuildInv
  BY <1>1, Building
<1>3. BuildInv => BuiltAsDocumented
  <2> SUFFICES ASSUME BuildInv PROVE BuiltAsDocumented
    OBVIOUS
  <2>1. Orderly(design)
    BY EveryFlowOrderly DEF BuildInv
  <2>2. PICK level, rank : LaidOut(design, level, rank)
    BY <2>1 DEF Orderly
  <2> QED BY <1>1, <2>1, <2>2, Documented DEF Orderly
<1> QED BY <1>2, <1>3, PTL

\* In those flows no operator is given a tuple without an attribute that it reads, or
\* with one of another type: what each operator sets and removes reaches, or is gone
\* before, every operator behind it.
THEOREM ReadersFindAttributes ==
  ASSUME Designs \subseteq AllFlows
  PROVE  Spec => []TuplesSuitReaders
<1>1. DesignsAreSound
  BY EveryFlowSound DEF DesignsAreSound
<1>2. Spec => []BuildInv
  BY <1>1, Building
<1>3. BuildInv => TuplesSuitReaders
  <2> SUFFICES ASSUME BuildInv PROVE TuplesSuitReaders
    OBVIOUS
  <2>1. Orderly(design)
    BY EveryFlowOrderly DEF BuildInv
  <2>2. PICK G : Supplied(design, G)
    BY <2>1 DEF Orderly
  <2> QED BY <1>1, <2>2, Suited
<1> QED BY <1>2, <1>3, PTL
=============================================================================
