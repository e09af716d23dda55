------------------------ MODULE ConfigurationProofs ------------------------
(***************************************************************************)
(* Proofs about Configuration, for any names, keys, values and texts.      *)
(*                                                                         *)
(* The groups of a configuration are a sequence with depths; Trees says    *)
(* which sequences are the trees that the nested groups of the code can    *)
(* be, with every group pointing to the configuration it is in.  Each way  *)
(* to build or to change a tree (a group or an item added, removed or      *)
(* replaced, a copy, a move, the parser) is shown once to give a tree;     *)
(* an operation is then one or two of them.  The parser and the loops that *)
(* remove from the back are folds, whose invariants FoldFacts carries from *)
(* one step to all of them.                                                *)
(***************************************************************************)
EXTENDS Configuration, SequenceTheorems, TLAPS

\* The configuration that groups of a place are in.
Owner(p) == IF p = Standalone THEN None ELSE p

\* No group is more than one deeper than the one before it, nor a second root.
Chain(gs) == \A i \in 2 .. Len(gs) : gs[i].depth \in 1 .. gs[i - 1].depth + 1

Chains(c) == {gs \in Seq(AnyGroup({c})) : Chain(gs)}

\* The groups of a configuration or of a standalone group; <<>> is no group.
Trees(c) == {gs \in Chains(c) : gs # <<>> => gs[1].depth = 0}

-----------------------------------------------------------------------------
\* Lemmas about indices and sequences.

NoStep(c, left, x) == left
NoHold(c, left, k) == TRUE
Count == INSTANCE FoldFacts WITH Op <- NoStep, Holds <- NoHold

\* A set of indices that is not empty has a largest one.
LEMMA LargestExists ==
    ASSUME NEW n \in Nat, NEW T \in SUBSET (0 .. n), T # {}
    PROVE  \E m \in T : \A k \in T : k <= m
<1> DEFINE Found(j) == \E m \in T : m <= j /\ \A k \in T : k <= j => k <= m
           S == {j \in 0 .. n : (\A k \in T : k > j) \/ Found(j)}
<1>1. \A k \in T : k \in Int /\ 0 <= k /\ k <= n
  OBVIOUS
<1>2. 0 \in S
  <2>1. CASE 0 \in T
    BY <1>1, <2>1
  <2>2. CASE 0 \notin T
    BY <1>1, <2>2
  <2> QED BY <2>1, <2>2
<1>3. \A j \in 1 .. n : j - 1 \in S => j \in S
  <2> TAKE j \in 1 .. n
  <2> HAVE j - 1 \in S
  <2>1. CASE j \in T
    BY <1>1, <2>1
  <2>2. CASE j \notin T
    <3>1. \A k \in T : k <= j <=> k <= j - 1
      BY <1>1, <2>2
    <3>2. \A k \in T : k > j <=> k > j - 1
      BY <1>1, <2>2
    <3> QED BY <3>1, <3>2, <1>1
  <2> QED BY <2>1, <2>2
<1> HIDE DEF S
<1>4. \A j \in 0 .. n : j \in S
  BY <1>2, <1>3, Count!FromZero
<1>5. n \in S
  BY <1>4
<1>6. Found(n)
  <2>1. PICK x \in T : TRUE
    OBVIOUS
  <2>2. ~(x > n)
    BY <1>1
  <2> HIDE DEF Found
  <2> QED BY <1>5, <2>2 DEF S
<1>7. PICK m \in T : \A k \in T : k <= n => k <= m
  BY <1>6
<1> QED BY <1>1, <1>7

\* A function on 1 .. n is a sequence of that length.
LEMMA FunctionIsSeq ==
    ASSUME NEW S, NEW n \in Nat, NEW f, f = [k \in 1 .. n |-> f[k]], \A k \in 1 .. n : f[k] \in S
    PROVE  f \in Seq(S) /\ Len(f) = n
  OBVIOUS

\* What FlattenSeq() does to sequences of what is in S.
LEMMA Flattened ==
    ASSUME NEW S, NEW s \in Seq(Seq(S))
    PROVE  FlattenSeq(s) \in Seq(S)
<1>1. CASE Len(s) = 0
  <2>1. s = <<>>
    BY <1>1, EmptySeq
  <2> QED BY <1>1, <2>1 DEF FlattenSeq
<1>2. CASE Len(s) # 0
  <2> DEFINE n == Len(s)
             F(f, k) == [i \in 1 .. k |-> IF i = 1 THEN s[i] ELSE f[i - 1] \o s[i]]
             Q(k) == \E f : f = F(f, k)
             f == CHOOSE f : f = F(f, n)
  <2>1. n \in Nat /\ n >= 1 /\ \A i \in 1 .. n : s[i] \in Seq(S)
    BY <1>2, LenProperties, ElementOfSeq
  <2>2. Q(1)
    <3>1. F(<<s[1]>>, 1) = <<s[1]>>
      OBVIOUS
    <3> HIDE DEF F
    <3> QED BY <3>1
  <2>3. ASSUME NEW k \in 2 .. n, Q(k - 1) PROVE Q(k)
    <3>1. PICK h : h = F(h, k - 1)
      BY <2>3
    <3> DEFINE g == [i \in 1 .. k |-> IF i = k THEN h[k - 1] \o s[k] ELSE h[i]]
    <3>2. \A i \in 1 .. k - 1 : h[i] = IF i = 1 THEN s[i] ELSE h[i - 1] \o s[i]
      BY <3>1
    <3>3. \A i \in 1 .. k : g[i] = IF i = 1 THEN s[i] ELSE g[i - 1] \o s[i]
      BY <3>2
    <3>4. g = [i \in 1 .. k |-> g[i]]
      OBVIOUS
    <3> HIDE DEF g
    <3>5. g = F(g, k)
      BY <3>3, <3>4
    <3> HIDE DEF F
    <3> QED BY <3>5
  <2>4. Q(n)
    <3> DEFINE K == {k \in 0 .. n : k = 0 \/ Q(k)}
    <3>1. 0 \in K
      OBVIOUS
    <3>2. \A k \in 1 .. n : k - 1 \in K => k \in K
      <4> HIDE DEF Q
      <4> QED BY <2>2, <2>3
    <3> HIDE DEF K
    <3> HIDE DEF n
    <3>3. \A k \in 0 .. n : k \in K
      BY <2>1, <3>1, <3>2, Count!FromZero
    <3> HIDE DEF Q
    <3>4. n \in K
      BY <2>1, <3>3
    <3> QED BY <2>1, <3>4 DEF K
  <2>5. f = F(f, n)
    <3> HIDE DEF F
    <3> QED BY <2>4
  <2>6. FlattenSeq(s) = f[n]
    BY <1>2 DEF FlattenSeq
  <2> HIDE DEF f
  <2> DEFINE R == {k \in 0 .. n : k = 0 \/ f[k] \in Seq(S)}
  <2>7. 0 \in R
    OBVIOUS
  <2>8. \A k \in 1 .. n : k - 1 \in R => k \in R
    <3> TAKE k \in 1 .. n
    <3> HAVE k - 1 \in R
    <3>1. CASE k = 1
      <4>1. f[1] = s[1] /\ s[1] \in Seq(S)
        BY <2>1, <2>5
      <4>2. k \in 0 .. n
        BY <2>1
      <4>3. f[k] \in Seq(S)
        BY <3>1, <4>1
      <4> QED BY <4>2, <4>3
    <3>2. CASE k # 1
      <4>1. f[k] = f[k - 1] \o s[k]
        BY <2>5, <3>2
      <4>2. f[k - 1] \in Seq(S) /\ s[k] \in Seq(S)
        BY <2>1, <3>2
      <4>3. f[k - 1] \o s[k] \in Seq(S)
        BY <4>2, ConcatProperties
      <4>4. k \in 0 .. n
        BY <2>1
      <4>5. f[k] \in Seq(S)
        BY <4>1, <4>3
      <4> QED BY <4>4, <4>5
    <3> QED BY <3>1, <3>2
  <2> HIDE DEF R
  <2> HIDE DEF n
  <2>9. \A k \in 0 .. n : k \in R
    BY <2>1, <2>7, <2>8, Count!FromZero
  <2>10. n \in R
    BY <2>1, <2>9
  <2> QED BY <2>1, <2>6, <2>10 DEF R
<1> QED BY <1>1, <1>2

\* What is known of a sequence of groups.
LEMMA ChainFacts ==
    ASSUME NEW c, NEW gs \in Chains(c)
    PROVE  /\ gs \in Seq(AnyGroup({c})) /\ Len(gs) \in Nat /\ DOMAIN gs = 1 .. Len(gs)
           /\ \A i \in 1 .. Len(gs) : gs[i] \in AnyGroup({c}) /\ gs[i].depth \in Nat
           /\ \A i \in 2 .. Len(gs) : gs[i].depth \in 1 .. gs[i - 1].depth + 1
<1>1. gs \in Seq(AnyGroup({c}))
  BY DEF Chains
<1>2. Len(gs) \in Nat /\ DOMAIN gs = 1 .. Len(gs)
  BY <1>1, LenProperties
<1>3. \A i \in 1 .. Len(gs) : gs[i] \in AnyGroup({c})
  BY <1>1, ElementOfSeq
<1> QED BY <1>1, <1>2, <1>3 DEF Chains, Chain, AnyGroup

\* A tree is <<>> or has a root.
LEMMA TreeFacts ==
    ASSUME NEW c, NEW gs \in Trees(c)
    PROVE  /\ gs \in Chains(c)
           /\ gs # <<>> <=> Len(gs) >= 1
           /\ Len(gs) >= 1 => gs[1].depth = 0
<1>1. gs \in Chains(c) /\ gs \in Seq(AnyGroup({c})) /\ (gs # <<>> => gs[1].depth = 0)
  BY DEF Trees, Chains
<1>2. Len(gs) \in Nat /\ (gs # <<>> <=> Len(gs) >= 1)
  BY <1>1, LenProperties, EmptySeq
<1> QED BY <1>1, <1>2

\* Some elements in a row.
LEMMA PartOfSeq ==
    ASSUME NEW S, NEW s \in Seq(S), NEW a \in Int, NEW b \in Int, a >= 1, b <= Len(s)
    PROVE  /\ SubSeq(s, a, b) \in Seq(S)
           /\ Len(SubSeq(s, a, b)) = IF a <= b THEN b - a + 1 ELSE 0
           /\ \A k \in 1 .. b - a + 1 : SubSeq(s, a, b)[k] = s[a + k - 1]
<1>1. \A i \in a .. b : s[i] \in S
  BY LenProperties, ElementOfSeq
<1> QED BY <1>1, SubSeqProperties

\* Some groups in a row are a chain.
LEMMA PartOfChain ==
    ASSUME NEW c, NEW gs \in Chains(c), NEW a \in Nat, NEW b \in Nat, a >= 1, b <= Len(gs)
    PROVE  /\ SubSeq(gs, a, b) \in Chains(c)
           /\ Len(SubSeq(gs, a, b)) = IF a <= b THEN b - a + 1 ELSE 0
           /\ \A k \in 1 .. b - a + 1 : SubSeq(gs, a, b)[k] = gs[a + k - 1]
<1> DEFINE part == SubSeq(gs, a, b)
<1>1. gs \in Seq(AnyGroup({c})) /\ a \in Int /\ b \in Int
  BY ChainFacts
<1>2. /\ part \in Seq(AnyGroup({c}))
      /\ Len(part) = IF a <= b THEN b - a + 1 ELSE 0
      /\ \A k \in 1 .. b - a + 1 : part[k] = gs[a + k - 1]
  BY <1>1, PartOfSeq
<1> HIDE DEF part
<1>3. ASSUME NEW i \in 2 .. Len(part) PROVE part[i].depth \in 1 .. part[i - 1].depth + 1
  <2>1. i \in Int /\ 2 <= i /\ i <= b - a + 1
    BY <1>2
  <2>2. part[i] = gs[a + i - 1] /\ part[i - 1] = gs[a + i - 2]
    <3>1. i \in 1 .. b - a + 1 /\ i - 1 \in 1 .. b - a + 1 /\ a + (i - 1) - 1 = a + i - 2
      BY <2>1
    <3> QED BY <1>2, <3>1
  <2>3. a + i - 1 \in 2 .. Len(gs) /\ (a + i - 1) - 1 = a + i - 2
    BY <2>1, ChainFacts
  <2>4. gs[a + i - 1].depth \in 1 .. gs[a + i - 2].depth + 1
    BY <2>3, ChainFacts
  <2> QED BY <2>2, <2>4
<1>4. part \in Chains(c)
  BY <1>2, <1>3 DEF Chains, Chain
<1> QED BY <1>2, <1>4 DEF part

\* The first of y may follow the last of x.
Follows(x, y) == Len(x) >= 1 /\ Len(y) >= 1 => y[1].depth \in 1 .. x[Len(x)].depth + 1

\* z is x and then y, which may follow it.
Joins(c, x, y, z) == x \in Chains(c) /\ y \in Chains(c) /\ Follows(x, y) /\ z = x \o y

\* One chain after another.
LEMMA JoinedChains ==
    ASSUME NEW c, NEW x, NEW y, NEW z, Joins(c, x, y, z)
    PROVE  /\ z \in Chains(c)
           /\ Len(x) \in Nat /\ Len(y) \in Nat /\ Len(z) = Len(x) + Len(y)
           /\ \A k \in 1 .. Len(x) : z[k] = x[k]
           /\ \A k \in 1 .. Len(y) : z[Len(x) + k] = y[k]
<1>0. /\ x \in Seq(AnyGroup({c})) /\ y \in Seq(AnyGroup({c})) /\ Len(x) \in Nat /\ Len(y) \in Nat
      /\ x \in Chains(c) /\ y \in Chains(c)
  BY ChainFacts DEF Joins
<1>1. /\ z \in Seq(AnyGroup({c}))
      /\ Len(z) = Len(x) + Len(y)
      /\ \A k \in 1 .. Len(x) + Len(y) : z[k] = IF k <= Len(x) THEN x[k] ELSE y[k - Len(x)]
  BY <1>0, ConcatProperties DEF Joins
<1>2. \A k \in 1 .. Len(x) : z[k] = x[k]
  BY <1>0, <1>1
<1>3. ASSUME NEW k \in 1 .. Len(y) PROVE z[Len(x) + k] = y[k]
  <2>1. Len(x) + k \in 1 .. Len(x) + Len(y) /\ ~(Len(x) + k <= Len(x)) /\ (Len(x) + k) - Len(x) = k
    BY <1>0
  <2> QED BY <1>1, <2>1
<1>4. ASSUME NEW i \in 2 .. Len(z) PROVE z[i].depth \in 1 .. z[i - 1].depth + 1
  <2>1. CASE i <= Len(x)
    <3>1. i \in 2 .. Len(x) /\ z[i] = x[i] /\ z[i - 1] = x[i - 1]
      BY <1>0, <1>2, <2>1
    <3> QED BY <1>0, <3>1, ChainFacts
  <2>2. CASE i = Len(x) + 1
    <3>1. i - 1 = Len(x) /\ Len(x) \in 1 .. Len(x) /\ 1 \in 1 .. Len(y) /\ Len(x) >= 1 /\ Len(y) >= 1
      BY <1>0, <1>1, <2>2
    <3>2. z[i] = y[1]
      BY <1>3, <2>2, <3>1
    <3>3. z[i - 1] = x[Len(x)]
      BY <1>2, <3>1
    <3> QED BY <3>1, <3>2, <3>3 DEF Follows, Joins
  <2>3. CASE i > Len(x) + 1
    <3> DEFINE j == i - Len(x)
    <3>1. j \in 2 .. Len(y) /\ j \in 1 .. Len(y) /\ j - 1 \in 1 .. Len(y) /\ Len(x) + j = i
      BY <1>0, <1>1, <2>3
    <3>2. Len(x) + (j - 1) = i - 1
      BY <1>0, <1>1
    <3> HIDE DEF j
    <3>3. z[i] = y[j] /\ z[i - 1] = y[j - 1]
      BY <1>3, <3>1, <3>2
    <3> QED BY <1>0, <3>1, <3>3, ChainFacts
  <2> QED BY <1>0, <1>1, <2>1, <2>2, <2>3
<1>5. z \in Chains(c)
  BY <1>1, <1>4 DEF Chains, Chain
<1> QED BY <1>0, <1>1, <1>2, <1>3, <1>5

\* The subgroups of a group end within the groups; what is next is not deeper.
LEMMA EndOfGroup ==
    ASSUME NEW gs, Len(gs) \in Nat, \A k \in 1 .. Len(gs) : gs[k].depth \in Nat, NEW i \in 1 .. Len(gs)
    PROVE  /\ EndOf(gs, i) \in i .. Len(gs)
           /\ \A k \in i + 1 .. EndOf(gs, i) : gs[k].depth > gs[i].depth
           /\ EndOf(gs, i) < Len(gs) => gs[EndOf(gs, i) + 1].depth <= gs[i].depth
<1> DEFINE n == Len(gs)
           T == {j \in i .. n : IsWithin(gs, i, j)}
<1> HIDE DEF n
<1>0. n \in Nat /\ i \in 1 .. n
  BY DEF n
<1>1. IsWithin(gs, i, i)
  BY <1>0 DEF IsWithin
<1>2. \E m \in T : \A k \in T : k <= m
  <2>1. i \in T /\ T \subseteq 0 .. n
    BY <1>0, <1>1
  <2> HIDE DEF T
  <2> QED BY <1>0, <2>1, LargestExists
<1>3. PICK m \in T : \A k \in T : k <= m
  BY <1>2
<1>4. m \in i .. n /\ IsWithin(gs, i, m)
  OBVIOUS
<1>5. m = n \/ ~IsWithin(gs, i, m + 1)
  <2> SUFFICES ASSUME m # n, IsWithin(gs, i, m + 1) PROVE FALSE
    OBVIOUS
  <2>1. m + 1 \in T
    BY <1>0, <1>4
  <2> QED BY <1>0, <1>3, <1>4, <2>1
<1> DEFINE e == EndOf(gs, i)
<1>6. e \in i .. n /\ IsWithin(gs, i, e) /\ (e = n \/ ~IsWithin(gs, i, e + 1))
  BY <1>4, <1>5 DEF EndOf, n
<1> HIDE DEF e
<1>7. ASSUME e < n PROVE gs[e + 1].depth <= gs[i].depth
  <2>1. e + 1 \in 1 .. n /\ e + 1 >= i /\ e \in Int
    BY <1>0, <1>6, <1>7
  <2>2. PICK k \in i + 1 .. e + 1 : ~(gs[k].depth > gs[i].depth)
    BY <1>0, <1>6, <1>7, <2>1 DEF IsWithin
  <2>3. k = e + 1
    <3>1. k \in i + 1 .. e => gs[k].depth > gs[i].depth
      BY <1>6 DEF IsWithin
    <3> QED BY <1>0, <2>1, <2>2, <3>1
  <2>4. gs[e + 1].depth \in Nat /\ gs[i].depth \in Nat
    BY <1>0, <2>1 DEF n
  <2> QED BY <2>2, <2>3, <2>4
<1>8. \A k \in i + 1 .. e : gs[k].depth > gs[i].depth
  BY <1>6 DEF IsWithin
<1> QED BY <1>6, <1>7, <1>8 DEF e, n

\* Every group deeper than the root is in one of each smaller depth.
LEMMA EnclosingGroup ==
    ASSUME NEW c, NEW gs \in Trees(c), NEW i \in 1 .. Len(gs), NEW d \in 0 .. gs[i].depth
    PROVE  Enclosing(gs, i, d) \in 1 .. i
<1> DEFINE T == {j \in 1 .. i : gs[j].depth <= d}
<1>0. /\ Len(gs) \in Nat /\ \A k \in 1 .. Len(gs) : gs[k].depth \in Nat
      /\ \A k \in 2 .. Len(gs) : gs[k].depth \in 1 .. gs[k - 1].depth + 1
      /\ gs[1].depth = 0
  <2>1. gs \in Chains(c)
    BY TreeFacts
  <2>2. Len(gs) \in Nat
    BY <2>1, ChainFacts
  <2>3. gs[1].depth = 0
    BY <2>2, TreeFacts
  <2> QED BY <2>1, <2>3, ChainFacts
<1>1. 1 \in T /\ T \subseteq 0 .. i
  BY <1>0
<1>2. \E m \in T : \A k \in T : k <= m
  <2> HIDE DEF T
  <2>1. i \in Nat
    BY <1>0
  <2> QED BY <1>1, <2>1, LargestExists
<1>3. PICK m \in T : \A k \in T : k <= m
  BY <1>2
<1>4. m \in 1 .. i /\ gs[m].depth <= d /\ gs[m].depth \in Nat /\ d \in Nat /\ i \in Nat
  BY <1>0
<1>5. \A k \in m + 1 .. i : gs[k].depth > d
  <2> TAKE k \in m + 1 .. i
  <2>1. k \in 1 .. i /\ ~(k <= m) /\ gs[k].depth \in Nat
    BY <1>0, <1>4
  <2>2. k \notin T
    BY <1>3, <2>1
  <2> QED BY <1>4, <2>1, <2>2
<1>6. gs[m].depth = d
  <2>1. CASE m = i
    BY <1>0, <1>4, <2>1
  <2>2. CASE m # i
    <3>1. m + 1 \in m + 1 .. i /\ m + 1 \in 2 .. Len(gs) /\ (m + 1) - 1 = m
      BY <1>0, <1>4, <2>2
    <3>2. gs[m + 1].depth > d
      BY <1>5, <3>1
    <3>3. gs[m + 1].depth \in 1 .. gs[m].depth + 1
      BY <1>0, <3>1
    <3> QED BY <1>4, <3>2, <3>3
  <2> QED BY <2>1, <2>2
<1> QED BY <1>4, <1>5, <1>6 DEF Enclosing

\* The path of a group has a name for each group that it is in, and its own.
LEMMA PathOfGroup ==
    ASSUME NEW c, NEW gs \in Trees(c), NEW i \in 1 .. Len(gs)
    PROVE  Path(gs, i) \in Seq(AnyName) /\ Len(Path(gs, i)) = gs[i].depth /\ gs[i].depth \in Nat
<1> DEFINE n == gs[i].depth
           f == [d \in 1 .. n |-> gs[Enclosing(gs, i, d)].name]
<1>1. n \in Nat /\ Len(gs) \in Nat
  BY TreeFacts, ChainFacts
<1>2. \A d \in 1 .. n : gs[Enclosing(gs, i, d)].name \in AnyName
  <2> TAKE d \in 1 .. n
  <2>1. d \in 0 .. gs[i].depth
    BY <1>1
  <2>2. Enclosing(gs, i, d) \in 1 .. i
    BY <2>1, EnclosingGroup
  <2>3. Enclosing(gs, i, d) \in 1 .. Len(gs)
    BY <1>1, <2>2
  <2>4. gs[Enclosing(gs, i, d)] \in AnyGroup({c})
    BY <2>3, TreeFacts, ChainFacts
  <2> QED BY <2>4 DEF AnyGroup
<1>3. f = [d \in 1 .. n |-> f[d]] /\ \A d \in 1 .. n : f[d] \in AnyName
  BY <1>2
<1>4. Path(gs, i) = f
  BY DEF Path
<1> HIDE DEF f, n
<1>5. f \in Seq(AnyName) /\ Len(f) = n
  BY <1>1, <1>3, FunctionIsSeq
<1> QED BY <1>1, <1>4, <1>5 DEF n

\* A tree that is still one, with the same name of its root.
Keeps(c, gs, new) == new \in Trees(c) /\ new # <<>> /\ new[1].name = gs[1].name

\* A sequence of groups whose depths are those of a tree is one.
LEMMA SameShape ==
    ASSUME NEW c, NEW d, NEW gs \in Trees(c), NEW new \in Seq(AnyGroup({d})), Len(new) = Len(gs),
           \A k \in 1 .. Len(gs) : new[k].depth = gs[k].depth
    PROVE  new \in Trees(d) /\ (gs # <<>> <=> new # <<>>)
<1>0. gs \in Chains(c) /\ Len(gs) \in Nat /\ (gs # <<>> <=> Len(gs) >= 1) /\ (Len(gs) >= 1 => gs[1].depth = 0)
  BY TreeFacts, ChainFacts
<1>1. new # <<>> <=> Len(new) >= 1
  BY LenProperties, EmptySeq
<1>2. ASSUME NEW k \in 2 .. Len(new) PROVE new[k].depth \in 1 .. new[k - 1].depth + 1
  <2>1. k \in 1 .. Len(gs) /\ k - 1 \in 1 .. Len(gs) /\ k \in 2 .. Len(gs)
    BY <1>0
  <2>2. gs[k].depth \in 1 .. gs[k - 1].depth + 1
    BY <1>0, <2>1, ChainFacts
  <2>3. new[k].depth = gs[k].depth /\ new[k - 1].depth = gs[k - 1].depth
    BY <2>1
  <2> QED BY <2>2, <2>3
<1>3. Len(gs) >= 1 => new[1].depth = 0
  BY <1>0
<1> QED BY <1>0, <1>1, <1>2, <1>3 DEF Trees, Chains, Chain

\* A group with other items (addValue(), setValue(), removeValue()).
LEMMA WithItems ==
    ASSUME NEW c, NEW gs \in Trees(c), NEW i \in 1 .. Len(gs), NEW items \in Seq(AnyItem)
    PROVE  /\ Keeps(c, gs, [gs EXCEPT ![i].items = items])
           /\ Len([gs EXCEPT ![i].items = items]) = Len(gs)
           /\ [gs EXCEPT ![i].items = items][i].items = items
<1> DEFINE g == [gs[i] EXCEPT !.items = items]
           new == [gs EXCEPT ![i] = g]
<1>0. gs \in Seq(AnyGroup({c})) /\ Len(gs) \in Nat /\ \A k \in 1 .. Len(gs) : gs[k] \in AnyGroup({c})
  BY TreeFacts, ChainFacts
<1>1. g \in AnyGroup({c}) /\ g.depth = gs[i].depth /\ g.name = gs[i].name /\ g.items = items
  BY <1>0 DEF AnyGroup
<1> HIDE DEF g
<1>2. new \in Seq(AnyGroup({c})) /\ Len(new) = Len(gs) /\ \A k \in 1 .. Len(gs) : new[k] = IF k = i THEN g ELSE gs[k]
  BY <1>0, <1>1, ExceptSeq
<1> HIDE DEF new
<1>3. \A k \in 1 .. Len(gs) : new[k].depth = gs[k].depth /\ new[k].name = gs[k].name
  BY <1>1, <1>2
<1>4. new \in Trees(c) /\ new # <<>>
  <2>1. gs # <<>>
    BY <1>0, TreeFacts
  <2> QED BY <1>2, <1>3, <2>1, SameShape
<1>5. new[1].name = gs[1].name /\ new[i].items = items
  BY <1>0, <1>1, <1>2, <1>3
<1> QED BY <1>2, <1>4, <1>5 DEF Keeps, g, new

\* Groups put elsewhere are a chain that points to where they are.
LEMMA MovedGroups ==
    ASSUME NEW c, NEW gs \in Trees(c), gs # <<>>, NEW depth \in Nat, NEW name \in AnyName, NEW d
    PROVE  /\ Moved(gs, depth, name, d) \in Chains(d)
           /\ Len(Moved(gs, depth, name, d)) = Len(gs)
           /\ Moved(gs, depth, name, d)[1].depth = depth
           /\ Moved(gs, depth, name, d)[1].name = name
           /\ \A k \in 1 .. Len(gs) : Moved(gs, depth, name, d)[k].depth = gs[k].depth + depth
<1> DEFINE new == Moved(gs, depth, name, d)
           n == Len(gs)
<1>0. /\ n \in Nat /\ n >= 1 /\ DOMAIN gs = 1 .. n /\ gs[1].depth = 0
      /\ \A k \in 1 .. n : gs[k] \in AnyGroup({c})
      /\ \A k \in 2 .. n : gs[k].depth \in 1 .. gs[k - 1].depth + 1
  BY TreeFacts, ChainFacts
<1>1. \A k \in 1 .. n : new[k] = [depth |-> gs[k].depth + depth, name |-> IF k = 1 THEN name ELSE gs[k].name,
                                  items |-> gs[k].items, configuration |-> d]
  BY <1>0 DEF Moved
<1>2. new = [k \in 1 .. n |-> new[k]]
  BY <1>0 DEF Moved
<1> HIDE DEF new, n
<1>3. \A k \in 1 .. n : new[k] \in AnyGroup({d}) /\ new[k].depth = gs[k].depth + depth /\ (k = 1 => new[k].name = name)
  <2> TAKE k \in 1 .. n
  <2> DEFINE own == IF k = 1 THEN name ELSE gs[k].name
             deeper == gs[k].depth + depth
  <2>1. gs[k].depth \in Nat /\ gs[k].name \in AnyName /\ gs[k].items \in Seq(AnyItem)
    BY <1>0 DEF AnyGroup
  <2>2. own \in AnyName /\ deeper \in Nat
    BY <2>1
  <2>3. new[k] = [depth |-> deeper, name |-> own, items |-> gs[k].items, configuration |-> d]
    BY <1>1
  <2> HIDE DEF own, deeper
  <2>4. new[k] \in AnyGroup({d}) /\ new[k].depth = deeper /\ new[k].name = own
    BY <2>1, <2>2, <2>3 DEF AnyGroup
  <2> QED BY <2>4 DEF own, deeper
<1>4. new \in Seq(AnyGroup({d})) /\ Len(new) = n
  BY <1>0, <1>2, <1>3, FunctionIsSeq
<1>5. ASSUME NEW k \in 2 .. n PROVE new[k].depth \in 1 .. new[k - 1].depth + 1
  <2>1. k \in 1 .. n /\ k - 1 \in 1 .. n
    BY <1>0
  <2>2. gs[k].depth \in 1 .. gs[k - 1].depth + 1 /\ gs[k - 1].depth \in Nat
    BY <1>0, <2>1 DEF AnyGroup
  <2>3. new[k].depth = gs[k].depth + depth /\ new[k - 1].depth = gs[k - 1].depth + depth
    BY <1>3, <2>1
  <2> QED BY <2>2, <2>3
<1>6. new \in Chains(d)
  BY <1>4, <1>5 DEF Chains, Chain
<1>7. new[1].depth = depth /\ new[1].name = name
  <2>1. 1 \in 1 .. n
    BY <1>0
  <2>2. new[1].name = name /\ new[1].depth = gs[1].depth + depth
    BY <1>3, <2>1
  <2> QED BY <1>0, <2>2
<1> QED BY <1>3, <1>4, <1>6, <1>7 DEF new, n

\* The groups without one of them and its subgroups (removeGroup()).
LEMMA RemovedGroups ==
    ASSUME NEW c, NEW gs \in Trees(c), NEW j \in 2 .. Len(gs)
    PROVE  Keeps(c, gs, Removed(gs, j)) /\ Len(Removed(gs, j)) >= j - 1
<1> DEFINE e == EndOf(gs, j)
           n == Len(gs)
           x == SubSeq(gs, 1, j - 1)
           y == SubSeq(gs, e + 1, n)
<1>0. /\ gs \in Chains(c) /\ n \in Nat /\ gs[1].depth = 0 /\ \A k \in 1 .. n : gs[k].depth \in Nat
      /\ \A k \in 2 .. n : gs[k].depth \in 1 .. gs[k - 1].depth + 1
  <2>1. gs \in Chains(c)
    BY TreeFacts
  <2>2. n \in Nat
    BY <2>1, ChainFacts
  <2>3. gs[1].depth = 0
    BY <2>2, TreeFacts
  <2> QED BY <2>1, <2>3, ChainFacts
<1>1. e \in j .. n /\ (e < n => gs[e + 1].depth <= gs[j].depth)
  <2>1. j \in 1 .. n
    BY <1>0
  <2> QED BY <1>0, <2>1, EndOfGroup
<1>2. Removed(gs, j) = x \o y
  BY DEF Removed
<1> HIDE DEF e
<1>3. x \in Chains(c) /\ Len(x) = j - 1 /\ \A k \in 1 .. j - 1 : x[k] = gs[k]
  <2>1. j - 1 \in Nat /\ 1 \in Nat /\ j - 1 <= n
    BY <1>0
  <2>2. x \in Chains(c) /\ (Len(x) = IF 1 <= j - 1 THEN (j - 1) - 1 + 1 ELSE 0)
        /\ \A k \in 1 .. (j - 1) - 1 + 1 : x[k] = gs[1 + k - 1]
    BY <1>0, <2>1, PartOfChain
  <2> HIDE DEF x
  <2> QED BY <1>0, <2>2
<1>4. /\ y \in Chains(c)
      /\ Len(y) = IF e + 1 <= n THEN n - e ELSE 0
      /\ e + 1 <= n => y[1] = gs[e + 1]
  <2>1. e + 1 \in Nat /\ e + 1 >= 1 /\ n <= Len(gs)
    BY <1>0, <1>1
  <2>2. y \in Chains(c) /\ (Len(y) = IF e + 1 <= n THEN n - (e + 1) + 1 ELSE 0)
        /\ \A k \in 1 .. n - (e + 1) + 1 : y[k] = gs[(e + 1) + k - 1]
    BY <1>0, <2>1, PartOfChain
  <2> HIDE DEF y
  <2>3. e + 1 <= n => y[1] = gs[(e + 1) + 1 - 1]
    BY <1>0, <1>1, <2>2
  <2>4. (e + 1) + 1 - 1 = e + 1
    BY <1>1
  <2> QED BY <1>0, <1>1, <2>2, <2>3, <2>4
<1> HIDE DEF x, y, n
<1>5. Follows(x, y)
  <2> SUFFICES ASSUME Len(y) >= 1 PROVE y[1].depth \in 1 .. x[Len(x)].depth + 1
    BY DEF Follows
  <2>1. e < n /\ y[1] = gs[e + 1] /\ e + 1 \in 2 .. n
    BY <1>0, <1>1, <1>4
  <2>2. gs[e + 1].depth >= 1 /\ gs[e + 1].depth <= gs[j].depth /\ gs[e + 1].depth \in Int
    <3>1. gs[e + 1].depth \in 1 .. gs[(e + 1) - 1].depth + 1
      BY <1>0, <2>1
    <3> QED BY <1>1, <2>1, <3>1
  <2>3. j \in 2 .. n
    BY DEF n
  <2>4. gs[j].depth \in 1 .. gs[j - 1].depth + 1 /\ gs[j - 1].depth \in Nat
    BY <1>0, <2>3
  <2>5. x[Len(x)] = gs[j - 1]
    BY <1>0, <1>3
  <2> QED BY SMTT(30), <2>1, <2>2, <2>4, <2>5
<1> DEFINE z == x \o y
<1>6. Joins(c, x, y, z)
  BY <1>3, <1>4, <1>5 DEF Joins
<1> HIDE DEF z
<1>7. z[1] = gs[1] /\ Len(z) >= j - 1 /\ z \in Chains(c) /\ Len(z) \in Nat
  BY <1>0, <1>3, <1>6, JoinedChains
<1>8. z # <<>>
  <2>1. z \in Seq(AnyGroup({c}))
    BY <1>7 DEF Chains
  <2>2. Len(z) >= 1
    BY <1>7
  <2> QED BY <2>1, <2>2, EmptySeq
<1> QED BY <1>0, <1>2, <1>7, <1>8 DEF z, Keeps, Trees

\* mid can be put between the first a groups and those after b.
CanSplice(c, gs, a, mid, b) ==
    /\ gs \in Trees(c) /\ mid \in Chains(c) /\ Len(mid) >= 1
    /\ a \in 0 .. Len(gs) /\ b \in 1 .. Len(gs)
    /\ a = 0 => mid[1].depth = 0 /\ mid[1].name = gs[1].name
    /\ a >= 1 => mid[1].depth \in 1 .. gs[a].depth + 1
    /\ b < Len(gs) => gs[b + 1].depth <= mid[Len(mid)].depth + 1

\* Groups between others.
LEMMA SplicedGroups ==
    ASSUME NEW c, NEW gs, NEW a, NEW mid, NEW b, CanSplice(c, gs, a, mid, b)
    PROVE  Keeps(c, gs, SubSeq(gs, 1, a) \o mid \o SubSeq(gs, b + 1, Len(gs)))
<1> DEFINE n == Len(gs)
           x == SubSeq(gs, 1, a)
           y == SubSeq(gs, b + 1, n)
           u == x \o mid
           z == u \o y
<1>0. /\ gs \in Chains(c) /\ n \in Nat /\ n >= 1 /\ gs[1].depth = 0
      /\ \A k \in 2 .. n : gs[k].depth \in 1 .. gs[k - 1].depth + 1
      /\ mid \in Chains(c) /\ Len(mid) \in Nat /\ Len(mid) >= 1 /\ a \in 0 .. n /\ b \in 1 .. n
  <2>1. gs \in Trees(c) /\ mid \in Chains(c) /\ Len(mid) >= 1 /\ a \in 0 .. n /\ b \in 1 .. n
    BY DEF CanSplice
  <2>2. gs \in Chains(c)
    BY <2>1, TreeFacts
  <2>3. n \in Nat /\ Len(mid) \in Nat
    BY <2>1, <2>2, ChainFacts
  <2>4. n >= 1 /\ gs[1].depth = 0
    BY <2>1, <2>3, TreeFacts
  <2> QED BY <2>1, <2>2, <2>3, <2>4, ChainFacts
<1>1. x \in Chains(c) /\ Len(x) = a /\ \A k \in 1 .. a : x[k] = gs[k]
  <2>1. a \in Nat /\ 1 \in Nat /\ a <= n
    BY <1>0
  <2>2. x \in Chains(c) /\ (Len(x) = IF 1 <= a THEN a - 1 + 1 ELSE 0)
        /\ \A k \in 1 .. a - 1 + 1 : x[k] = gs[1 + k - 1]
    BY <1>0, <2>1, PartOfChain
  <2> HIDE DEF x
  <2> QED BY <1>0, <2>2
<1>2. /\ y \in Chains(c)
      /\ Len(y) = IF b + 1 <= n THEN n - b ELSE 0
      /\ b + 1 <= n => y[1] = gs[b + 1]
  <2>1. b + 1 \in Nat /\ b + 1 >= 1 /\ n <= Len(gs)
    BY <1>0
  <2>2. y \in Chains(c) /\ (Len(y) = IF b + 1 <= n THEN n - (b + 1) + 1 ELSE 0)
        /\ \A k \in 1 .. n - (b + 1) + 1 : y[k] = gs[(b + 1) + k - 1]
    BY <1>0, <2>1, PartOfChain
  <2> HIDE DEF y
  <2>3. b + 1 <= n => y[1] = gs[(b + 1) + 1 - 1]
    BY <1>0, <2>2
  <2>4. (b + 1) + 1 - 1 = b + 1
    BY <1>0
  <2> QED BY <1>0, <2>2, <2>3, <2>4
<1> HIDE DEF x, y, n
<1>3. Follows(x, mid)
  <2> SUFFICES ASSUME Len(x) >= 1 PROVE mid[1].depth \in 1 .. x[Len(x)].depth + 1
    BY DEF Follows
  <2>1. a >= 1 /\ x[Len(x)] = gs[a]
    BY <1>0, <1>1
  <2> QED BY <2>1 DEF CanSplice
<1>4. /\ u \in Chains(c) /\ Len(u) = a + Len(mid)
      /\ \A k \in 1 .. a : u[k] = x[k]
      /\ \A k \in 1 .. Len(mid) : u[a + k] = mid[k]
  <2>1. Joins(c, x, mid, u)
    BY <1>0, <1>1, <1>3 DEF Joins
  <2> HIDE DEF u
  <2> QED BY <1>1, <2>1, JoinedChains
<1> HIDE DEF u
<1>5. Follows(u, y)
  <2> SUFFICES ASSUME Len(y) >= 1 PROVE y[1].depth \in 1 .. u[Len(u)].depth + 1
    BY DEF Follows
  <2>1. b < n /\ y[1] = gs[b + 1] /\ b + 1 \in 2 .. n
    BY <1>0, <1>2
  <2>2. gs[b + 1].depth >= 1 /\ gs[b + 1].depth \in Int
    <3>1. gs[b + 1].depth \in 1 .. gs[(b + 1) - 1].depth + 1
      BY <1>0, <2>1
    <3>2. gs[(b + 1) - 1].depth \in Nat
      <4>1. (b + 1) - 1 \in 1 .. n
        BY <1>0
      <4> QED BY <1>0, <4>1, ChainFacts DEF n
    <3> QED BY <3>1, <3>2
  <2>3. gs[b + 1].depth <= mid[Len(mid)].depth + 1 /\ mid[Len(mid)].depth \in Nat
    <3>1. Len(mid) \in 1 .. Len(mid)
      BY <1>0
    <3> QED BY <1>0, <2>1, <3>1, ChainFacts DEF CanSplice, n
  <2>4. u[Len(u)] = mid[Len(mid)]
    BY <1>0, <1>4
  <2> QED BY <2>1, <2>2, <2>3, <2>4
<1>6. /\ z \in Chains(c) /\ Len(z) = Len(u) + Len(y) /\ Len(y) \in Nat
      /\ \A k \in 1 .. Len(u) : z[k] = u[k]
  <2>1. Joins(c, u, y, z)
    BY <1>2, <1>4, <1>5 DEF Joins
  <2> HIDE DEF z
  <2> QED BY <2>1, JoinedChains
<1> HIDE DEF z
<1>7. z[1].depth = 0 /\ z[1].name = gs[1].name
  <2>0. 1 \in 1 .. Len(u) /\ a \in Int
    BY <1>0, <1>4
  <2>1. CASE a = 0
    <3>1. u[0 + 1] = mid[1]
      BY <1>0, <1>4, <2>1
    <3>2. z[1] = mid[1]
      BY <1>6, <2>0, <3>1
    <3> QED BY <2>1, <3>2 DEF CanSplice
  <2>2. CASE a >= 1
    <3>1. 1 \in 1 .. a
      BY <1>0, <2>2
    <3>2. z[1] = gs[1]
      BY <1>1, <1>4, <1>6, <2>0, <3>1
    <3> QED BY <1>0, <3>2
  <2> QED BY <1>0, <2>1, <2>2
<1>8. z # <<>>
  <2>1. z \in Seq(AnyGroup({c}))
    BY <1>6 DEF Chains
  <2>2. Len(z) >= 1
    BY <1>0, <1>4, <1>6
  <2> QED BY <2>1, <2>2, EmptySeq
<1> QED BY <1>6, <1>7, <1>8 DEF z, u, x, y, n, Keeps, Trees

\* A new subgroup of a group (addGroup()).
LEMMA InsertedGroups ==
    ASSUME NEW c, NEW p, groups[p] \in Trees(c), NEW i \in 1 .. Len(groups[p]),
           NEW d, NEW new \in Trees(d), new # <<>>
    PROVE  Keeps(c, groups[p], Inserted(p, i, new))
<1> DEFINE gs == groups[p]
           e == EndOf(gs, i)
           n == Len(gs)
           depth == gs[i].depth + 1
           mid == Moved(new, depth, new[1].name, gs[i].configuration)
<1>0. gs \in Chains(c) /\ n \in Nat /\ i \in 1 .. n
  BY TreeFacts, ChainFacts
<1>1. \A k \in 1 .. n : gs[k].depth \in Nat /\ gs[k] \in AnyGroup({c})
  BY <1>0, ChainFacts
<1>2. e \in i .. n /\ (e < n => gs[e + 1].depth <= gs[i].depth) /\ \A k \in i + 1 .. e : gs[k].depth > gs[i].depth
  BY <1>0, <1>1, EndOfGroup
<1> HIDE DEF e
<1>3. gs[e].depth >= gs[i].depth /\ gs[e].depth \in Nat /\ gs[i].depth \in Nat /\ depth \in Nat
  <2>1. gs[e].depth \in Nat /\ gs[i].depth \in Nat
    BY <1>0, <1>1, <1>2
  <2>2. CASE e = i
    BY <2>1, <2>2
  <2>3. CASE e # i
    <3>1. e \in i + 1 .. e
      BY <1>0, <1>2, <2>3
    <3> QED BY <1>2, <2>1, <3>1
  <2> QED BY <2>2, <2>3
<1>4. gs[i].configuration = c
  BY <1>0, <1>1 DEF AnyGroup
<1>5. new[1].name \in AnyName /\ Len(new) \in Nat /\ Len(new) >= 1 /\ \A k \in 1 .. Len(new) : new[k].depth \in Nat
  <2>1. Len(new) \in Nat /\ Len(new) >= 1 /\ \A k \in 1 .. Len(new) : new[k].depth \in Nat /\ new[k] \in AnyGroup({d})
    BY TreeFacts, ChainFacts
  <2> QED BY <2>1 DEF AnyGroup
<1>6. /\ mid \in Chains(c) /\ Len(mid) = Len(new)
      /\ mid[1].depth = depth
      /\ \A k \in 1 .. Len(new) : mid[k].depth = new[k].depth + depth
  <2> HIDE DEF gs, depth
  <2>1. depth \in Nat
    BY <1>3
  <2> QED BY <1>4, <1>5, <2>1, MovedGroups
<1>7. mid[Len(mid)].depth >= depth /\ mid[Len(mid)].depth \in Nat
  <2>1. Len(new) \in 1 .. Len(new)
    BY <1>5
  <2>2. mid[Len(mid)].depth = new[Len(new)].depth + depth
    BY <1>6, <2>1
  <2>3. new[Len(new)].depth \in Nat
    BY <1>5, <2>1
  <2> HIDE DEF mid
  <2> QED BY SMTT(30), <1>3, <2>2, <2>3
<1>8. Inserted(p, i, new) = SubSeq(gs, 1, e) \o mid \o SubSeq(gs, e + 1, n)
  BY DEF Inserted, e
<1> HIDE DEF mid
<1>9. CanSplice(c, gs, e, mid, e)
  <2>1. gs \in Trees(c) /\ e \in 0 .. n /\ e \in 1 .. n /\ e # 0
    BY <1>0, <1>2
  <2>2. mid[1].depth \in 1 .. gs[e].depth + 1
    BY <1>3, <1>6
  <2>3. e < n => gs[e + 1].depth <= mid[Len(mid)].depth + 1
    <3>1. e < n => gs[e + 1].depth \in Nat
      BY <1>0, <1>1, <1>2
    <3> HIDE DEF gs, n
    <3> QED BY SMTT(30), <1>2, <1>3, <1>7, <3>1 DEF depth
  <2> QED BY <1>5, <1>6, <2>1, <2>2, <2>3 DEF CanSplice
<1> QED BY <1>8, <1>9, SplicedGroups

\* Another group in the place of a group (clear(), the assignment operators).
LEMMA ReplacedGroups ==
    ASSUME NEW c, NEW p, groups[p] \in Trees(c), NEW i \in 1 .. Len(groups[p]),
           NEW d, NEW new \in Trees(d), new # <<>>
    PROVE  Keeps(c, groups[p], Replaced(p, i, new))
<1> DEFINE gs == groups[p]
           e == EndOf(gs, i)
           n == Len(gs)
           depth == gs[i].depth
           mid == Moved(new, depth, gs[i].name, gs[i].configuration)
<1>0. gs \in Chains(c) /\ n \in Nat /\ i \in 1 .. n
  BY TreeFacts, ChainFacts
<1>1. \A k \in 1 .. n : gs[k].depth \in Nat /\ gs[k] \in AnyGroup({c})
  BY <1>0, ChainFacts
<1>2. e \in i .. n /\ (e < n => gs[e + 1].depth <= depth)
  BY <1>0, <1>1, EndOfGroup
<1> HIDE DEF e
<1>4. gs[i].configuration = c /\ gs[i].name \in AnyName /\ depth \in Nat
  BY <1>0, <1>1 DEF AnyGroup
<1>5. Len(new) \in Nat /\ Len(new) >= 1 /\ \A k \in 1 .. Len(new) : new[k].depth \in Nat
  BY TreeFacts, ChainFacts
<1>6. /\ mid \in Chains(c) /\ Len(mid) = Len(new)
      /\ mid[1].depth = depth /\ mid[1].name = gs[i].name
      /\ \A k \in 1 .. Len(new) : mid[k].depth = new[k].depth + depth
  <2> HIDE DEF gs, depth
  <2> QED BY <1>4, <1>5, MovedGroups
<1>7. mid[Len(mid)].depth >= depth /\ mid[Len(mid)].depth \in Nat
  <2>1. Len(new) \in 1 .. Len(new)
    BY <1>5
  <2>2. mid[Len(mid)].depth = new[Len(new)].depth + depth
    BY <1>6, <2>1
  <2>3. new[Len(new)].depth \in Nat
    BY <1>5, <2>1
  <2> HIDE DEF mid, depth
  <2> QED BY <1>4, <2>2, <2>3
<1>8. Replaced(p, i, new) = SubSeq(gs, 1, i - 1) \o mid \o SubSeq(gs, e + 1, n)
  BY DEF Replaced, e
<1> HIDE DEF mid
<1>9. CanSplice(c, gs, i - 1, mid, e)
  <2>1. gs \in Trees(c) /\ i - 1 \in 0 .. n /\ e \in 1 .. n
    BY <1>0, <1>2
  <2>2. i - 1 = 0 => mid[1].depth = 0 /\ mid[1].name = gs[1].name
    <3>1. gs[1].depth = 0
      BY <1>0, TreeFacts
    <3> QED BY <1>0, <1>6, <3>1
  <2>3. i - 1 >= 1 => mid[1].depth \in 1 .. gs[i - 1].depth + 1
    <3>1. i - 1 >= 1 => i \in 2 .. n
      BY <1>0
    <3> QED BY <1>0, <1>6, <3>1, ChainFacts
  <2>4. e < n => gs[e + 1].depth <= mid[Len(mid)].depth + 1
    <3>1. e < n => gs[e + 1].depth \in Nat
      BY <1>0, <1>1, <1>2
    <3> HIDE DEF gs, n, depth
    <3> QED BY <1>2, <1>4, <1>7, <3>1
  <2> QED BY <1>5, <1>6, <2>1, <2>2, <2>3, <2>4 DEF CanSplice
<1> QED BY <1>8, <1>9, SplicedGroups

\* A group without items and subgroups.
LEMMA SingleGroup ==
    ASSUME NEW c, NEW name \in AnyName
    PROVE  LET gs == <<Group(0, name, <<>>, c)>>
           IN  gs \in Trees(c) /\ gs # <<>> /\ Len(gs) = 1 /\ gs[1].name = name /\ DOMAIN gs = {1}
<1> DEFINE g == Group(0, name, <<>>, c)
<1>1. g \in AnyGroup({c}) /\ g.depth = 0 /\ g.name = name
  BY EmptySeq DEF Group, AnyGroup
<1> HIDE DEF g
<1>2. <<g>> \in Seq(AnyGroup({c})) /\ Len(<<g>>) = 1 /\ <<g>>[1] = g /\ DOMAIN <<g>> = {1} /\ <<g>> # <<>>
  BY <1>1
<1>3. <<g>> \in Trees(c)
  BY <1>1, <1>2 DEF Trees, Chains, Chain
<1> QED BY <1>1, <1>2, <1>3 DEF g

\* The groups of a new or cleared configuration.
LEMMA EmptyTree ==
    ASSUME NEW c
    PROVE  /\ EmptyGroups(c) \in Trees(c) /\ EmptyGroups(c) # <<>> /\ Len(EmptyGroups(c)) = 1
           /\ EmptyGroups(c)[1].name = NoName
  BY SingleGroup DEF EmptyGroups, AnyName

\* The root of a tree can have any name.
LEMMA NamedTree ==
    ASSUME NEW c, NEW gs \in Trees(c), gs # <<>>, NEW name \in AnyName
    PROVE  [gs EXCEPT ![1].name = name] \in Trees(c) /\ [gs EXCEPT ![1].name = name] # <<>>
<1> DEFINE g == [gs[1] EXCEPT !.name = name]
           new == [gs EXCEPT ![1] = g]
<1>0. gs \in Seq(AnyGroup({c})) /\ Len(gs) \in Nat /\ 1 \in 1 .. Len(gs) /\ gs[1] \in AnyGroup({c})
  BY TreeFacts, ChainFacts
<1>1. g \in AnyGroup({c}) /\ g.depth = gs[1].depth
  BY <1>0 DEF AnyGroup
<1> HIDE DEF g
<1>2. new \in Seq(AnyGroup({c})) /\ Len(new) = Len(gs) /\ \A k \in 1 .. Len(gs) : new[k] = IF k = 1 THEN g ELSE gs[k]
  BY <1>0, <1>1, ExceptSeq
<1> HIDE DEF new
<1>3. \A k \in 1 .. Len(gs) : new[k].depth = gs[k].depth
  BY <1>1, <1>2
<1>4. new \in Trees(c) /\ new # <<>>
  BY <1>2, <1>3, SameShape
<1> QED BY <1>4 DEF new, g

\* A copy of a group is a tree of its own that points nowhere.
LEMMA CopiedGroups ==
    ASSUME NEW c, NEW gs \in Trees(c), NEW i \in 1 .. Len(gs)
    PROVE  Copied(gs, i) \in Trees(None) /\ Copied(gs, i) # <<>>
<1> DEFINE e == EndOf(gs, i)
           from == Subtree(gs, i)
           new == Copied(gs, i)
           n == e - i + 1
<1>0. gs \in Chains(c) /\ Len(gs) \in Nat /\ \A k \in 1 .. Len(gs) : gs[k].depth \in Nat
  BY TreeFacts, ChainFacts
<1>1. e \in i .. Len(gs) /\ \A k \in i + 1 .. e : gs[k].depth > gs[i].depth
  BY <1>0, EndOfGroup
<1>2. from = SubSeq(gs, i, e)
  BY DEF Subtree
<1> HIDE DEF e
<1>3. from \in Chains(c) /\ Len(from) = n /\ \A k \in 1 .. n : from[k] = gs[i + k - 1]
  <2>1. i \in Nat /\ e \in Nat /\ i >= 1 /\ e <= Len(gs) /\ i <= e
    BY <1>0, <1>1
  <2>2. /\ SubSeq(gs, i, e) \in Chains(c)
        /\ Len(SubSeq(gs, i, e)) = IF i <= e THEN e - i + 1 ELSE 0
        /\ \A k \in 1 .. e - i + 1 : SubSeq(gs, i, e)[k] = gs[i + k - 1]
    BY <1>0, <2>1, PartOfChain
  <2> HIDE DEF from
  <2> QED BY <1>2, <2>1, <2>2
<1>4. n \in Nat /\ n >= 1
  BY <1>0, <1>1
<1>5. \A k \in 1 .. n : from[k] \in AnyGroup({c}) /\ from[k].depth \in Nat
  <2> HIDE DEF from, n
  <2> QED BY <1>3, ChainFacts
<1>6. from[1] = gs[i] /\ \A k \in 2 .. n : from[k].depth > gs[i].depth
  <2>1. from[1] = gs[i + 1 - 1] /\ i + 1 - 1 = i
    BY <1>3, <1>4
  <2>2. ASSUME NEW k \in 2 .. n PROVE from[k].depth > gs[i].depth
    <3>1. k \in 1 .. n /\ i + k - 1 \in i + 1 .. e
      BY <1>0, <1>1
    <3> QED BY <1>1, <1>3, <3>1
  <2> HIDE DEF from
  <2> QED BY <2>1, <2>2
<1>7. DOMAIN from = 1 .. n
  <2> HIDE DEF from, n
  <2> QED BY <1>3, ChainFacts
<1>8. new = [k \in 1 .. n |-> new[k]]
      /\ \A k \in 1 .. n : new[k] = Group(from[k].depth - gs[i].depth,
                                        IF k = 1 THEN NoName ELSE from[k].name, from[k].items, None)
  <2> HIDE DEF n
  <2> QED BY <1>7 DEF Copied
<1> HIDE DEF from, n, new
<1>9. gs[i].depth \in Nat
  BY <1>0
<1>10. ASSUME NEW k \in 1 .. n
       PROVE  new[k] \in AnyGroup({None}) /\ new[k].depth = from[k].depth - gs[i].depth /\ from[k].depth >= gs[i].depth
  <2> DEFINE own == IF k = 1 THEN NoName ELSE from[k].name
             depth == from[k].depth - gs[i].depth
  <2>1. from[k].depth \in Nat /\ from[k].name \in AnyName /\ from[k].items \in Seq(AnyItem)
    BY <1>5 DEF AnyGroup
  <2>2. own \in AnyName
    BY <2>1 DEF AnyName
  <2>3. from[k].depth >= gs[i].depth
    <3>1. CASE k = 1
      BY <1>6, <1>9, <3>1
    <3>2. CASE k # 1
      <4>1. k \in 2 .. n
        BY <1>4, <3>2
      <4> QED BY <1>6, <1>9, <2>1, <4>1
    <3> QED BY <3>1, <3>2
  <2>4. depth \in Nat
    BY <1>9, <2>1, <2>3
  <2>5. new[k] = Group(depth, own, from[k].items, None)
    BY <1>8
  <2> HIDE DEF own, depth
  <2>6. new[k] \in AnyGroup({None}) /\ new[k].depth = depth
    BY <2>1, <2>2, <2>4, <2>5 DEF AnyGroup, Group
  <2> QED BY <2>3, <2>6 DEF depth
<1>11. new \in Seq(AnyGroup({None})) /\ Len(new) = n
  BY <1>4, <1>8, <1>10, FunctionIsSeq
<1>12. new # <<>>
  BY <1>4, <1>11, EmptySeq
<1>13. new[1].depth = 0
  <2>1. 1 \in 1 .. n
    BY <1>4
  <2> QED BY <1>6, <1>9, <1>10, <2>1
<1>14. ASSUME NEW k \in 2 .. n PROVE new[k].depth \in 1 .. new[k - 1].depth + 1
  <2>1. k \in 1 .. n /\ k - 1 \in 1 .. n /\ k \in 2 .. Len(from)
    BY <1>3, <1>4
  <2>2. from[k].depth \in 1 .. from[k - 1].depth + 1
    BY <1>3, <2>1, ChainFacts
  <2>3. from[k].depth > gs[i].depth
    BY <1>6
  <2>4. new[k].depth = from[k].depth - gs[i].depth /\ new[k - 1].depth = from[k - 1].depth - gs[i].depth
    BY <1>10, <2>1
  <2>5. from[k].depth \in Nat /\ from[k - 1].depth \in Nat
    BY <1>5, <2>1
  <2> QED BY <1>9, <2>2, <2>3, <2>4, <2>5
<1> QED BY <1>11, <1>12, <1>13, <1>14 DEF new, Trees, Chains, Chain

-----------------------------------------------------------------------------
\* Removing items and groups from the last to the first.

\* One item less.
LEMMA ItemRemoved ==
    ASSUME NEW items \in Seq(AnyItem), NEW k \in 1 .. Len(items)
    PROVE  RemoveAt(items, k) \in Seq(AnyItem) /\ Len(RemoveAt(items, k)) = Len(items) - 1
<1> DEFINE x == SubSeq(items, 1, k - 1)
           y == SubSeq(items, k + 1, Len(items))
<1>0. Len(items) \in Nat
  BY LenProperties
<1>1. x \in Seq(AnyItem) /\ Len(x) = k - 1
  <2>1. k - 1 \in Int /\ 1 \in Int /\ k - 1 <= Len(items)
    BY <1>0
  <2>2. x \in Seq(AnyItem) /\ (Len(x) = IF 1 <= k - 1 THEN (k - 1) - 1 + 1 ELSE 0)
    BY <2>1, PartOfSeq
  <2> HIDE DEF x
  <2> QED BY <1>0, <2>2
<1>2. y \in Seq(AnyItem) /\ Len(y) = Len(items) - k
  <2>1. k + 1 \in Int /\ Len(items) \in Int /\ k + 1 >= 1
    BY <1>0
  <2>2. y \in Seq(AnyItem) /\ (Len(y) = IF k + 1 <= Len(items) THEN Len(items) - (k + 1) + 1 ELSE 0)
    BY <2>1, PartOfSeq
  <2> HIDE DEF y
  <2> QED BY <1>0, <2>2
<1> HIDE DEF x, y
<1> DEFINE z == x \o y
<1>3. z \in Seq(AnyItem) /\ Len(z) = Len(x) + Len(y)
  BY <1>1, <1>2, ConcatProperties
<1>4. Len(z) = Len(items) - 1
  <2> HIDE DEF z
  <2> QED BY <1>0, <1>1, <1>2, <1>3
<1>5. RemoveAt(items, k) = z
  BY DEF RemoveAt, x, y
<1> HIDE DEF z
<1> QED BY <1>3, <1>4, <1>5

\* Steps of WithoutKey() and WithoutGroups(), and what they keep.
DropItem(c, left, k) == IF left[k].key = c.key THEN RemoveAt(left, k) ELSE left

ItemsLeft(c, left, k) == left \in Seq(AnyItem) /\ Len(left) >= c.size - k

Items == INSTANCE FoldFacts WITH Op <- DropItem, Holds <- ItemsLeft

\* removeAllValues() leaves items.
LEMMA WithoutKeyItems ==
    ASSUME NEW items \in Seq(AnyItem), NEW key
    PROVE  WithoutKey(items, key) \in Seq(AnyItem)
<1> DEFINE n == Len(items)
           c == [key |-> key, size |-> n]
           s == Backwards(n)
<1>0. n \in Nat
  BY LenProperties
<1>2. DOMAIN s = 1 .. n /\ \A k \in 1 .. n : s[k] = n + 1 - k
  BY DEF Backwards
<1>3. c.key = key /\ c.size = n
  OBVIOUS
<1> HIDE DEF c
<1>1. WithoutKey(items, key) = Items!Fold(c, items, s)
  <2>1. WithoutKey(items, c.key) = Items!Fold(c, items, s)
    BY DEF WithoutKey, DropItem, FoldLeft, MapThenFoldSet, Max,
           Items!Fold, Items!FoldLeft, Items!MapThenFoldSet, Items!Max
  <2> QED BY <1>3, <2>1
<1> HIDE DEF s, n
<1>4. ItemsLeft(c, items, 0)
  BY <1>0, <1>3 DEF ItemsLeft, n
<1>5. \A k \in 1 .. n : \A acc : ItemsLeft(c, acc, k - 1) => ItemsLeft(c, DropItem(c, acc, s[k]), k)
  <2> TAKE k \in 1 .. n
  <2> TAKE acc
  <2> HAVE ItemsLeft(c, acc, k - 1)
  <2>1. acc \in Seq(AnyItem) /\ Len(acc) >= n - (k - 1) /\ Len(acc) \in Nat
    BY <1>3, LenProperties DEF ItemsLeft
  <2>2. s[k] \in 1 .. Len(acc) /\ Len(acc) - 1 >= n - k
    BY <1>0, <1>2, <2>1
  <2>3. CASE acc[s[k]].key = c.key
    <3>1. DropItem(c, acc, s[k]) = RemoveAt(acc, s[k])
      BY <2>3 DEF DropItem
    <3>2. RemoveAt(acc, s[k]) \in Seq(AnyItem) /\ Len(RemoveAt(acc, s[k])) = Len(acc) - 1
      BY <2>1, <2>2, ItemRemoved
    <3> QED BY <1>3, <2>2, <3>1, <3>2 DEF ItemsLeft
  <2>4. CASE acc[s[k]].key # c.key
    <3>1. DropItem(c, acc, s[k]) = acc /\ Len(acc) >= n - k
      BY <1>0, <2>1, <2>4 DEF DropItem
    <3> QED BY <1>3, <2>1, <3>1 DEF ItemsLeft
  <2> QED BY <2>3, <2>4
<1>6. ItemsLeft(c, Items!Fold(c, items, s), n)
  BY <1>0, <1>2, <1>4, <1>5, Items!FoldInvariant
<1> QED BY <1>1, <1>6 DEF ItemsLeft

DropGroup(c, left, j) == IF j \in c.namesakes THEN Removed(left, j) ELSE left

GroupsLeft(c, left, k) == Keeps(c.owner, c.groups, left) /\ Len(left) >= c.size - k

GroupsOf == INSTANCE FoldFacts WITH Op <- DropGroup, Holds <- GroupsLeft

\* removeAllGroups() keeps the tree: none of the namesakes is the root.
LEMMA WithoutGroupsKeeps ==
    ASSUME NEW o, NEW gs \in Trees(o), gs # <<>>, NEW namesakes \in SUBSET (2 .. Len(gs))
    PROVE  Keeps(o, gs, WithoutGroups(gs, namesakes))
<1> DEFINE n == Len(gs)
           c == [namesakes |-> namesakes, owner |-> o, groups |-> gs, size |-> n]
           s == Backwards(n)
<1>0. n \in Nat
  BY TreeFacts, ChainFacts
<1>2. DOMAIN s = 1 .. n /\ \A k \in 1 .. n : s[k] = n + 1 - k
  BY DEF Backwards
<1>3. c.namesakes = namesakes /\ c.size = n /\ c.owner = o /\ c.groups = gs
  OBVIOUS
<1> HIDE DEF c
<1>1. WithoutGroups(gs, namesakes) = GroupsOf!Fold(c, gs, s)
  <2>1. WithoutGroups(gs, c.namesakes) = GroupsOf!Fold(c, gs, s)
    BY DEF WithoutGroups, DropGroup, FoldLeft, MapThenFoldSet, Max,
           GroupsOf!Fold, GroupsOf!FoldLeft, GroupsOf!MapThenFoldSet, GroupsOf!Max
  <2> QED BY <1>3, <2>1
<1> HIDE DEF s, n
<1>4. GroupsLeft(c, gs, 0)
  BY <1>0, <1>3 DEF GroupsLeft, Keeps, n
<1>5. \A k \in 1 .. n : \A acc : GroupsLeft(c, acc, k - 1) => GroupsLeft(c, DropGroup(c, acc, s[k]), k)
  <2> TAKE k \in 1 .. n
  <2> TAKE acc
  <2> HAVE GroupsLeft(c, acc, k - 1)
  <2>0. acc \in Trees(o) /\ acc # <<>> /\ acc[1].name = gs[1].name /\ Len(acc) >= n - (k - 1)
    BY <1>3 DEF GroupsLeft, Keeps
  <2>1. Len(acc) \in Nat
    BY <2>0, TreeFacts, ChainFacts
  <2>2. s[k] \in 1 .. Len(acc) /\ s[k] - 1 = n - k
    BY <1>0, <1>2, <2>0, <2>1
  <2>3. CASE s[k] \in namesakes
    <3>1. DropGroup(c, acc, s[k]) = Removed(acc, s[k])
      BY <1>3, <2>3 DEF DropGroup
    <3>2. s[k] \in 2 .. Len(acc)
      BY <2>1, <2>2, <2>3
    <3>3. Keeps(o, acc, Removed(acc, s[k])) /\ Len(Removed(acc, s[k])) >= s[k] - 1
      BY <2>0, <3>2, RemovedGroups
    <3>4. Keeps(o, gs, Removed(acc, s[k]))
      BY <2>0, <3>3 DEF Keeps
    <3> QED BY <1>3, <2>2, <3>1, <3>3, <3>4 DEF GroupsLeft
  <2>4. CASE s[k] \notin namesakes
    <3>1. DropGroup(c, acc, s[k]) = acc /\ Len(acc) >= n - k
      BY <1>0, <1>3, <2>0, <2>1, <2>4 DEF DropGroup
    <3> QED BY <1>3, <2>0, <3>1 DEF GroupsLeft, Keeps
  <2> QED BY <2>3, <2>4
<1>6. GroupsLeft(c, GroupsOf!Fold(c, gs, s), n)
  BY <1>0, <1>2, <1>4, <1>5, GroupsOf!FoldInvariant
<1> QED BY <1>1, <1>3, <1>6 DEF GroupsLeft

\* The groups of a configuration, once read.
Rooted(c, gs) == gs \in Trees(c) /\ gs # <<>> /\ gs[1].name = NoName

\* Groups with this item as the last one.
Ending(gs, items, key, value) == [gs EXCEPT ![Len(gs)].items = Append(items, Item(key, value))]

\* What a value may be until its last line is read.
PartValue == Seq(Texts)

\* The parser between two lines: only the last item may have no line yet, and
\* only if the next line is one of it.
Reading(c, p) ==
    /\ DOMAIN p = {"groups", "flags", "multiLine", "error"}
    /\ p.multiLine \in BOOLEAN
    /\ ~p.multiLine => Rooted(c, p.groups)
    /\ p.multiLine => \E gs : \E items \in Seq(AnyItem), key \in AnyKey, value \in PartValue :
                            Rooted(c, gs) /\ p.groups = Ending(gs, items, key, value)

\* The last of a sequence replaced.
LEMMA LastReplaced ==
    ASSUME NEW S, NEW s \in Seq(S), NEW x, NEW y
    PROVE  /\ [Append(s, x) EXCEPT ![Len(s) + 1] = y] = Append(s, y)
           /\ Append(s, x)[Len(s) + 1] = x
           /\ Len(Append(s, x)) = Len(s) + 1
<1>1. Len(s) \in Nat /\ s \in Seq(S \cup {x, y})
  BY LenProperties, SeqMonotonic
<1> DEFINE a == Append(s, x)
           b == Append(s, y)
<1>2. /\ a \in Seq(S \cup {x, y}) /\ Len(a) = Len(s) + 1 /\ a[Len(s) + 1] = x
      /\ \A i \in 1 .. Len(s) : a[i] = s[i]
  BY <1>1, AppendProperties
<1>3. /\ b \in Seq(S \cup {x, y}) /\ Len(b) = Len(s) + 1 /\ b[Len(s) + 1] = y
      /\ \A i \in 1 .. Len(s) : b[i] = s[i]
  BY <1>1, AppendProperties
<1> HIDE DEF a, b
<1> DEFINE e == [a EXCEPT ![Len(s) + 1] = y]
<1>4. e \in Seq(S \cup {x, y}) /\ Len(e) = Len(a) /\ \A j \in 1 .. Len(a) : e[j] = IF j = Len(s) + 1 THEN y ELSE a[j]
  <2>1. Len(s) + 1 \in 1 .. Len(a)
    BY <1>1, <1>2
  <2> QED BY <1>2, <2>1, ExceptSeq
<1> HIDE DEF e
<1>5. \A j \in 1 .. Len(e) : e[j] = b[j]
  BY <1>1, <1>2, <1>3, <1>4
<1>6. e = b
  BY <1>2, <1>3, <1>4, <1>5, SeqEqual
<1> QED BY <1>2, <1>6 DEF a, b, e

\* The value of the last item, and the groups with another one.
LastValue(G) == G[Len(G)].items[Len(G[Len(G)].items)].value

WithLastValue(G, w) == [G EXCEPT ![Len(G)].items[Len(G[Len(G)].items)].value = w]

\* The last value is the one that more lines are read of.
LEMMA EndingValue ==
    ASSUME NEW c, NEW gs, Rooted(c, gs), NEW items \in Seq(AnyItem), NEW key, NEW value, NEW G,
           G = Ending(gs, items, key, value)
    PROVE  LastValue(G) = value /\ \A w : WithLastValue(G, w) = Ending(gs, items, key, w)
<1> DEFINE top == Len(gs)
           last == Len(items) + 1
           A(w) == Append(items, Item(key, w))
<1>1. top \in Nat /\ top \in 1 .. top /\ gs \in Seq(AnyGroup({c})) /\ DOMAIN gs = 1 .. top
      /\ gs[top] \in AnyGroup({c})
  BY TreeFacts, ChainFacts DEF Rooted
<1>2. \A w : A(value)[last] = Item(key, value) /\ Len(A(value)) = last /\ [A(value) EXCEPT ![last] = Item(key, w)] = A(w)
  BY LastReplaced
<1> HIDE DEF top, last, A
<1>3. G = [gs EXCEPT ![top] = [gs[top] EXCEPT !.items = A(value)]]
  BY DEF Ending, A, top
<1>4. DOMAIN gs[top] = {"depth", "name", "items", "configuration"}
  BY <1>1 DEF AnyGroup
<1>5. DOMAIN G = 1 .. top /\ G[top] = [gs[top] EXCEPT !.items = A(value)] /\ Len(G) = top
  BY <1>1, <1>3
<1>6. G[top].items = A(value)
  BY <1>4, <1>5
<1>7. Len(G[top].items) = last
  BY <1>2, <1>6
<1>8. \A w : [G EXCEPT ![top].items[last].value = w] = [gs EXCEPT ![top] = [gs[top] EXCEPT !.items = A(w)]]
  <2> TAKE w
  <2>1. [Item(key, value) EXCEPT !.value = w] = Item(key, w)
    BY DEF Item
  <2>2. [A(value) EXCEPT ![last].value = w] = A(w)
    BY <1>2, <2>1
  <2>3. [G[top] EXCEPT !.items[last].value = w] = [gs[top] EXCEPT !.items = A(w)]
    BY <1>4, <1>5, <1>6, <2>2
  <2> QED BY <1>1, <1>3, <1>5, <2>3
<1>9. \A w : Ending(gs, items, key, w) = [gs EXCEPT ![top] = [gs[top] EXCEPT !.items = A(w)]]
  BY DEF Ending, A, top
<1>10. G[top].items[last].value = value
  BY <1>2, <1>6 DEF Item
<1>11. \A w : [G EXCEPT ![top].items[last].value = w] = Ending(gs, items, key, w)
  BY <1>8, <1>9, Zenon
<1>12. Len(G) = top
  BY <1>5
<1>13. LastValue(G) = G[top].items[last].value /\ \A w : WithLastValue(G, w) = [G EXCEPT ![top].items[last].value = w]
  BY <1>7, <1>12 DEF LastValue, WithLastValue
<1> QED BY <1>10, <1>11, <1>13, Zenon

\* With an item added to the last group, a tree is one as before.
LEMMA EndingRooted ==
    ASSUME NEW c, NEW gs, Rooted(c, gs), NEW items \in Seq(AnyItem), NEW key \in AnyKey, NEW value \in AnyValue
    PROVE  Rooted(c, Ending(gs, items, key, value))
<1> DEFINE more == Append(items, Item(key, value))
<1>1. more \in Seq(AnyItem)
  <2>1. Item(key, value) \in AnyItem
    BY DEF Item, AnyItem
  <2> QED BY <2>1, AppendProperties
<1>2. gs \in Trees(c) /\ Len(gs) \in 1 .. Len(gs)
  BY TreeFacts, ChainFacts DEF Rooted
<1> HIDE DEF more
<1>3. Keeps(c, gs, [gs EXCEPT ![Len(gs)].items = more])
  BY <1>1, <1>2, WithItems
<1> QED BY <1>3 DEF Keeps, Rooted, Ending, more

\* The items of the last group.
LEMMA LastItems ==
    ASSUME NEW c, NEW gs, Rooted(c, gs)
    PROVE  gs[Len(gs)].items \in Seq(AnyItem)
<1>1. gs[Len(gs)] \in AnyGroup({c})
  BY TreeFacts, ChainFacts DEF Rooted
<1> QED BY <1>1 DEF AnyGroup

\* A line of a value of several lines.
LEMMA ContinuationRead ==
    ASSUME NEW c, NEW p, Reading(c, p), p.multiLine, NEW line \in AnyLine
    PROVE  Reading(c, ReadContinuation(p, line))
<1> DEFINE G == p.groups
           text == IF line.kind = "other" THEN line.text ELSE "word"
<1>0. PICK gs : \E items \in Seq(AnyItem), key \in AnyKey, value \in PartValue :
          Rooted(c, gs) /\ G = Ending(gs, items, key, value)
  BY DEF Reading
<1>1. PICK items \in Seq(AnyItem), key \in AnyKey, value \in PartValue :
          Rooted(c, gs) /\ G = Ending(gs, items, key, value)
  BY <1>0
<1>2. LastValue(G) = value /\ \A w : WithLastValue(G, w) = Ending(gs, items, key, w)
  <2> HIDE DEF G
  <2> QED BY <1>1, EndingValue
<1>3. text \in Texts
  BY DEF AnyLine, Texts
<1> HIDE DEF text
<1>4. DOMAIN p = {"groups", "flags", "multiLine", "error"}
  BY DEF Reading
<1>5. CASE text = Fence
  <2> DEFINE w == IF value = <<>> THEN <<Empty>> ELSE value
             q == ReadContinuation(p, line)
  <2>1. w \in AnyValue
    <3>1. Empty \in Texts
      BY DEF Texts
    <3> QED BY <3>1 DEF AnyValue, PartValue
  <2>2. DOMAIN q = DOMAIN p /\ q.multiLine = FALSE
        /\ q.groups = WithLastValue(G, IF LastValue(G) = <<>> THEN <<Empty>> ELSE LastValue(G))
    BY <1>4, <1>5 DEF ReadContinuation, text, LastValue, WithLastValue
  <2> HIDE DEF q, G
  <2>3. q.groups = WithLastValue(G, w)
    BY <1>2, <2>2
  <2> HIDE DEF w
  <2>4. Rooted(c, q.groups)
    <3>1. q.groups = Ending(gs, items, key, w)
      BY <1>2, <2>3
    <3> QED BY <1>1, <2>1, <3>1, EndingRooted
  <2>5. Reading(c, q)
    BY <1>4, <2>2, <2>4 DEF Reading
  <2> QED BY <2>5 DEF q
<1>6. CASE text # Fence
  <2> DEFINE w == Append(value, text)
             q == ReadContinuation(p, line)
  <2>1. w \in PartValue
    BY <1>3, AppendProperties DEF PartValue
  <2>2. DOMAIN q = DOMAIN p /\ q.multiLine = p.multiLine
        /\ q.groups = WithLastValue(G, Append(LastValue(G), text))
    BY <1>4, <1>6 DEF ReadContinuation, text, LastValue, WithLastValue
  <2> HIDE DEF q, G
  <2>3. q.groups = WithLastValue(G, w)
    BY <1>2, <2>2
  <2> HIDE DEF w
  <2>4. q.groups = Ending(gs, items, key, w)
    BY <1>2, <2>3
  <2>5. q.multiLine /\ q.multiLine \in BOOLEAN
    BY <2>2 DEF Reading
  <2>6. Reading(c, q)
    BY <1>1, <1>4, <2>1, <2>2, <2>4, <2>5 DEF Reading
  <2> QED BY <2>6 DEF q
<1> QED BY <1>5, <1>6

\* An item of one line, or the first line of one of several.
LEMMA ItemAdded ==
    ASSUME NEW c, NEW p, Reading(c, p), ~p.multiLine, NEW key \in AnyKey, NEW value
    PROVE  LET q == AddItem(p, Item(key, value))
           IN  /\ value \in AnyValue => Reading(c, q)
               /\ value = <<>> => Reading(c, [q EXCEPT !.multiLine = TRUE])
<1> DEFINE gs == p.groups
           items == gs[Len(gs)].items
           q == AddItem(p, Item(key, value))
           r == [q EXCEPT !.multiLine = TRUE]
<1>1. Rooted(c, gs) /\ DOMAIN p = {"groups", "flags", "multiLine", "error"} /\ p.multiLine \in BOOLEAN
  BY DEF Reading
<1>2. items \in Seq(AnyItem)
  BY <1>1, LastItems
<1>3. DOMAIN q = DOMAIN p /\ q.groups = [gs EXCEPT ![Len(gs)].items = Append(items, Item(key, value))]
      /\ q.multiLine = p.multiLine
  BY <1>1 DEF AddItem
<1> HIDE DEF q
<1>4. q.groups = Ending(gs, items, key, value)
  BY <1>3 DEF Ending
<1>5. DOMAIN r = DOMAIN p /\ r.groups = q.groups /\ r.multiLine = TRUE
  BY <1>1, <1>3
<1> HIDE DEF gs, items, r
<1>6. ASSUME value \in AnyValue PROVE Reading(c, q)
  <2>1. Rooted(c, q.groups)
    BY <1>1, <1>2, <1>4, <1>6, EndingRooted
  <2> QED BY <1>1, <1>3, <2>1 DEF Reading
<1>7. ASSUME value = <<>> PROVE Reading(c, r)
  <2>1. value \in PartValue
    BY <1>7, EmptySeq DEF PartValue
  <2>2. r.groups = Ending(gs, items, key, value)
    BY <1>4, <1>5
  <2> QED BY <1>1, <1>2, <1>5, <2>1, <2>2 DEF Reading
<1> QED BY <1>6, <1>7 DEF q, r

\* A failed parser has the groups that it had.
LEMMA FailedRead ==
    ASSUME NEW c, NEW p, Reading(c, p)
    PROVE  Reading(c, Failed(p))
<1> DEFINE q == [p EXCEPT !.error = TRUE]
<1>1. DOMAIN p = {"groups", "flags", "multiLine", "error"}
  BY DEF Reading
<1>2. DOMAIN q = DOMAIN p /\ q.groups = p.groups /\ q.multiLine = p.multiLine
  BY <1>1
<1>3. Failed(p) = q
  BY DEF Failed
<1> HIDE DEF q
<1> QED BY <1>1, <1>2, <1>3 DEF Reading

\* The text of a pair is taken without its quotes.
LEMMA PairRead ==
    ASSUME NEW c, NEW p, Reading(c, p), ~p.multiLine, NEW key \in AnyKey, NEW text \in Texts
    PROVE  Reading(c, ReadPair(p, key, Trimmed(text)))
<1> DEFINE t == Trimmed(text)
<1>1. t \in Texts /\ Unquoted(t) \in Texts
  BY DEF Texts, Trimmed, Unquoted
<1> HIDE DEF t
<1>2. CASE t = Fence
  <2>1. ReadPair(p, key, t) = [AddItem(p, Item(key, <<>>)) EXCEPT !.multiLine = TRUE]
    BY <1>2 DEF ReadPair, MissesQuote, Fence
  <2> QED BY <2>1, ItemAdded DEF t
<1>3. CASE t # Fence /\ MissesQuote(t)
  <2>1. ReadPair(p, key, t) = Failed(p)
    BY <1>3 DEF ReadPair
  <2> QED BY <2>1, FailedRead DEF t
<1>4. CASE t # Fence /\ ~MissesQuote(t)
  <2>1. ReadPair(p, key, t) = AddItem(p, Item(key, <<Unquoted(t)>>))
    BY <1>4 DEF ReadPair
  <2>2. <<Unquoted(t)>> \in AnyValue
    BY <1>1 DEF AnyValue
  <2> DEFINE value == <<Unquoted(t)>>
  <2> HIDE DEF value
  <2>3. value \in AnyValue
    BY <2>2 DEF value
  <2>4. Reading(c, AddItem(p, Item(key, value)))
    BY <2>3, ItemAdded
  <2> QED BY <2>1, <2>4 DEF t, value
<1> QED BY <1>2, <1>3, <1>4, Zenon

\* An empty line or a comment.
LEMMA OtherRead ==
    ASSUME NEW c, NEW p, Reading(c, p), ~p.multiLine, NEW text \in Texts, NEW isLast
    PROVE  Reading(c, ReadOther(p, Trimmed(text), isLast))
<1> DEFINE t == Trimmed(text)
<1>1. t \in Texts
  BY DEF Texts, Trimmed
<1> HIDE DEF t
<1> DEFINE ignored == "SkipComments" \in p.flags \/ (t = Empty /\ isLast)
<1>2. CASE t \notin {Empty, Comment}
  <2>1. ReadOther(p, t, isLast) = Failed(p)
    BY <1>2 DEF ReadOther
  <2> QED BY <2>1, FailedRead DEF t
<1>3. CASE t \in {Empty, Comment} /\ ignored
  <2>1. ReadOther(p, t, isLast) = p
    BY <1>3 DEF ReadOther
  <2> QED BY <2>1 DEF t
<1>4. CASE t \in {Empty, Comment} /\ ~ignored
  <2>1. ReadOther(p, t, isLast) = AddItem(p, Item(NoKey, <<t>>))
    BY <1>4 DEF ReadOther
  <2>2. <<t>> \in AnyValue /\ NoKey \in AnyKey
    BY <1>1 DEF AnyValue, AnyKey
  <2> DEFINE value == <<t>>
  <2> HIDE DEF value
  <2>3. value \in AnyValue
    BY <2>2 DEF value
  <2>4. Reading(c, AddItem(p, Item(NoKey, value)))
    BY <2>2, <2>3, ItemAdded
  <2> QED BY <2>1, <2>4 DEF t, value
<1> QED BY <1>2, <1>3, <1>4, Zenon

\* A header continues a part of the last path that it does not repeat fully.
LEMMA CommonPart ==
    ASSUME NEW S, NEW open, Len(open) \in Nat, NEW path \in Seq(S), path # <<>>
    PROVE  Common(open, path) \in 0 .. Len(open) /\ Common(open, path) < Len(path)
<1> DEFINE n == Len(open)
           IsCommon(m) == m <= n /\ m < Len(path) /\ SubSeq(open, 1, m) = SubSeq(path, 1, m)
           T == {m \in 0 .. n : IsCommon(m)}
<1>1. Len(path) \in Nat /\ Len(path) >= 1
  BY EmptySeq
<1>2. 0 \in T
  <2>1. SubSeq(open, 1, 0) = <<>> /\ SubSeq(path, 1, 0) = <<>>
    BY SubSeqEmpty
  <2> QED BY <1>1, <2>1
<1>3. \E m \in T : \A k \in T : k <= m
  <2> HIDE DEF IsCommon
  <2>1. T \in SUBSET (0 .. n) /\ T # {}
    BY <1>2
  <2> HIDE DEF T
  <2> QED BY <2>1, LargestExists
<1> HIDE DEF IsCommon
<1>4. PICK m \in T : \A k \in T : k <= m
  BY <1>3
<1>5. IsCommon(m) /\ m \in 0 .. n /\ \A k \in m + 1 .. n : ~IsCommon(k)
  <2>1. IsCommon(m) /\ m \in 0 .. n
    OBVIOUS
  <2>2. ASSUME NEW k \in m + 1 .. n PROVE ~IsCommon(k)
    <3>1. k \in 0 .. n /\ ~(k <= m)
      BY <2>1
    <3> QED BY <1>4, <3>1
  <2> QED BY <2>1, <2>2
<1>6. Common(open, path) \in 0 .. n /\ IsCommon(Common(open, path))
  BY <1>5 DEF Common, IsCommon
<1> QED BY <1>6 DEF IsCommon

\* A header opens the groups of its path that the last group is not in.
LEMMA HeaderRead ==
    ASSUME NEW c, NEW p, Reading(c, p), ~p.multiLine, NEW path \in Seq(AnyName), path # <<>>
    PROVE  Reading(c, ReadHeader(p, path))
<1> DEFINE gs == p.groups
           top == Len(gs)
           d == gs[top].depth
           common == Common(Path(gs, top), path)
           m == Len(path) - common
           new == [k \in 1 .. m |-> Group(common + k, path[common + k], <<>>, gs[top].configuration)]
           bad == path = <<NoName>> \/ \E k \in common + 1 .. Len(path) - 1 : path[k] = NoName
           q == [p EXCEPT !.groups = gs \o new]
<1>0. Rooted(c, gs) /\ DOMAIN p = {"groups", "flags", "multiLine", "error"} /\ p.multiLine \in BOOLEAN
  BY DEF Reading
<1>1. ReadHeader(p, path) = IF bad THEN Failed(p) ELSE q
  BY DEF ReadHeader
<1>2. DOMAIN q = DOMAIN p /\ q.groups = gs \o new /\ q.multiLine = p.multiLine
  BY <1>0
<1> HIDE DEF gs, bad, q
<1>3. gs \in Trees(c) /\ gs \in Chains(c) /\ top \in Nat /\ top \in 1 .. top /\ gs[top] \in AnyGroup({c})
  BY <1>0, TreeFacts, ChainFacts DEF Rooted
<1>4. gs[top].configuration = c
  BY <1>3 DEF AnyGroup
<1> HIDE DEF top
<1>5. Len(Path(gs, top)) = d /\ d \in Nat
  BY <1>3, PathOfGroup DEF top
<1>6. common \in 0 .. d /\ common < Len(path) /\ Len(path) \in Nat
  <2>1. common \in 0 .. Len(Path(gs, top)) /\ common < Len(path)
    BY <1>5, CommonPart
  <2> HIDE DEF common, d
  <2> QED BY <1>5, <2>1, LenProperties
<1> HIDE DEF common, d
<1>7. m \in Nat /\ m >= 1
  BY <1>5, <1>6
<1>17. new = [k \in 1 .. m |-> new[k]]
  OBVIOUS
<1>8. \A k \in 1 .. m : new[k] \in AnyGroup({c}) /\ new[k].depth = common + k
  <2> TAKE k \in 1 .. m
  <2> DEFINE depth == common + k
             name == path[common + k]
  <2>1. depth \in Nat /\ common + k \in 1 .. Len(path)
    BY <1>5, <1>6
  <2>2. name \in AnyName
    BY <2>1, ElementOfSeq
  <2>3. new[k] = Group(depth, name, <<>>, c)
    BY <1>4
  <2> HIDE DEF depth, name
  <2>4. new[k] \in AnyGroup({c}) /\ new[k].depth = depth
    BY <2>1, <2>2, <2>3, EmptySeq DEF AnyGroup, Group
  <2> QED BY <2>4 DEF depth
<1> HIDE DEF new, m
<1>9. new \in Seq(AnyGroup({c})) /\ Len(new) = m
  BY <1>7, <1>8, <1>17, FunctionIsSeq
<1>10. ASSUME NEW k \in 2 .. m PROVE new[k].depth \in 1 .. new[k - 1].depth + 1
  <2>1. k \in 1 .. m /\ k - 1 \in 1 .. m
    BY <1>7
  <2>2. new[k].depth = common + k /\ new[k - 1].depth = common + (k - 1)
    BY <1>8, <2>1
  <2> QED BY <1>5, <1>6, <1>7, <2>2
<1>11. new \in Chains(c)
  BY <1>9, <1>10 DEF Chains, Chain
<1>12. Follows(gs, new)
  <2>1. 1 \in 1 .. m
    BY <1>7
  <2>2. new[1].depth = common + 1
    BY <1>8, <2>1
  <2>3. common + 1 \in 1 .. d + 1
    BY <1>5, <1>6
  <2> QED BY <2>2, <2>3 DEF Follows, d, top
<1> DEFINE z == gs \o new
<1>13. Joins(c, gs, new, z)
  BY <1>3, <1>11, <1>12 DEF Joins
<1> HIDE DEF z
<1>14. z \in Chains(c) /\ Len(z) = top + m /\ z[1] = gs[1]
  <2>1. 1 \in 1 .. Len(gs)
    BY <1>3 DEF top
  <2> QED BY <1>9, <1>13, <2>1, JoinedChains DEF top
<1>15. Rooted(c, z)
  <2>1. z # <<>>
    <3>1. z \in Seq(AnyGroup({c})) /\ Len(z) >= 1
      BY <1>3, <1>7, <1>14 DEF Chains
    <3> QED BY <3>1, EmptySeq
  <2>2. gs[1].depth = 0
    BY <1>0 DEF Rooted, Trees
  <2> QED BY <1>0, <1>14, <2>1, <2>2 DEF Rooted, Trees
<1>16. Reading(c, q)
  <2>1. q.groups = z
    BY <1>2 DEF z
  <2> QED BY <1>0, <1>2, <1>15, <2>1 DEF Reading
<1> QED BY <1>1, <1>16, FailedRead

\* Any line.
LEMMA LineRead ==
    ASSUME NEW c, NEW p, Reading(c, p), NEW line \in AnyLine, NEW isLast
    PROVE  Reading(c, ReadLine(p, line, isLast))
<1> DEFINE q == IF line.crlf THEN [p EXCEPT !.flags = @ \cup {"WindowsEol"}] ELSE p
<1>1. Reading(c, q)
  <2> DEFINE r == [p EXCEPT !.flags = @ \cup {"WindowsEol"}]
  <2>1. DOMAIN p = {"groups", "flags", "multiLine", "error"}
    BY DEF Reading
  <2>2. DOMAIN r = DOMAIN p /\ r.groups = p.groups /\ r.multiLine = p.multiLine
    BY <2>1
  <2>3. q = p \/ q = r
    OBVIOUS
  <2> HIDE DEF r, q
  <2>4. Reading(c, r)
    BY <2>1, <2>2 DEF Reading
  <2> QED BY <2>3, <2>4
<1>2. q.multiLine = p.multiLine /\ p.multiLine \in BOOLEAN
  BY DEF Reading
<1>3. ReadLine(p, line, isLast) =
        CASE p.error -> p
          [] ~p.error /\ p.multiLine -> ReadContinuation(q, line)
          [] OTHER -> CASE line.kind = "header" -> ReadHeader(q, line.path)
                        [] line.kind = "pair" -> ReadPair(q, line.key, Trimmed(line.text))
                        [] OTHER -> ReadOther(q, Trimmed(line.text), isLast)
  BY DEF ReadLine
<1> HIDE DEF q
<1>4. /\ line.key \in AnyKey /\ line.text \in Texts
      /\ line.kind = "header" => line.path \in Seq(AnyName) /\ line.path # <<>>
  BY DEF AnyLine
<1>5. p.multiLine => Reading(c, ReadContinuation(q, line))
  BY <1>1, <1>2, ContinuationRead
<1>6. ~p.multiLine /\ line.kind = "header" => Reading(c, ReadHeader(q, line.path))
  BY <1>1, <1>2, <1>4, HeaderRead
<1>7. ~p.multiLine => Reading(c, ReadPair(q, line.key, Trimmed(line.text)))
  BY <1>1, <1>2, <1>4, PairRead
<1>8. ~p.multiLine => Reading(c, ReadOther(q, Trimmed(line.text), isLast))
  BY <1>1, <1>2, <1>4, OtherRead
<1>9. CASE p.error
  BY <1>3, <1>9
<1>10. CASE ~p.error /\ p.multiLine
  BY <1>3, <1>5, <1>10
<1>11. CASE ~p.error /\ ~p.multiLine
  BY <1>3, <1>6, <1>7, <1>8, <1>11
<1> QED BY <1>2, <1>9, <1>10, <1>11

\* The steps of Parse().
ReadAt(c, p, n) == ReadLine(p, c.lines[n], n = Len(c.lines))

ReadTo(c, p, k) == Reading(c.owner, p)

Lines == INSTANCE FoldFacts WITH Op <- ReadAt, Holds <- ReadTo

\* Whatever the text is, what is read is a tree of the configuration.
LEMMA ParsedGroups ==
    ASSUME NEW o, NEW fl, NEW text \in AnyText
    PROVE  Rooted(o, Parse(text, fl, o).groups)
<1> DEFINE c == [lines |-> text.lines, owner |-> o]
           start == Parser(fl \cup (IF text.bom THEN {"HasBom"} ELSE {}), o)
           n == Len(text.lines)
           s == [i \in DOMAIN text.lines |-> i]
           end == Lines!Fold(c, start, s)
<1>0. text.lines \in Seq(AnyLine)
  BY DEF AnyText
<1>1. n \in Nat /\ DOMAIN text.lines = 1 .. n /\ \A k \in 1 .. n : text.lines[k] \in AnyLine
  BY <1>0, LenProperties, ElementOfSeq
<1>2. Parse(text, fl, o) = IF end.error \/ end.multiLine
                           THEN [end EXCEPT !.error = TRUE, !.groups = start.groups]
                           ELSE end
  BY DEF Parse, ReadAt, FoldLeftDomain, FoldLeft, MapThenFoldSet, Max,
         Lines!Fold, Lines!FoldLeft, Lines!MapThenFoldSet, Lines!Max
<1>3. c.lines = text.lines /\ c.owner = o
  OBVIOUS
<1>4. DOMAIN s = 1 .. n /\ \A k \in 1 .. n : s[k] = k
  BY <1>1
<1>5. Rooted(o, start.groups) /\ Reading(o, start)
  <2>1. start.groups = EmptyGroups(o) /\ DOMAIN start = {"groups", "flags", "multiLine", "error"} /\ ~start.multiLine
        /\ start.multiLine \in BOOLEAN
    BY DEF Parser, EmptyGroups
  <2> HIDE DEF start
  <2> QED BY <2>1, EmptyTree DEF Rooted, Reading
<1> HIDE DEF c, start, s, n
<1>6. ReadTo(c, start, 0)
  BY <1>3, <1>5 DEF ReadTo
<1>7. \A k \in 1 .. n : \A acc : ReadTo(c, acc, k - 1) => ReadTo(c, ReadAt(c, acc, s[k]), k)
  BY <1>1, <1>3, <1>4, LineRead DEF ReadTo, ReadAt
<1>8. ReadTo(c, end, n)
  BY <1>1, <1>4, <1>6, <1>7, Lines!FoldInvariant
<1> HIDE DEF end
<1>9. Reading(o, end)
  BY <1>3, <1>8 DEF ReadTo
<1>10. CASE end.error \/ end.multiLine
  <2> DEFINE r == [end EXCEPT !.error = TRUE, !.groups = start.groups]
  <2>1. r.groups = start.groups
    BY <1>9 DEF Reading
  <2>2. Parse(text, fl, o) = r
    BY <1>2, <1>10
  <2> HIDE DEF r
  <2> QED BY <1>5, <2>1, <2>2
<1>11. CASE ~(end.error \/ end.multiLine)
  <2>1. Parse(text, fl, o) = end
    BY <1>2, <1>11
  <2> QED BY <1>9, <1>11, <2>1 DEF Reading
<1> QED BY <1>10, <1>11

\* A line of each kind.
LEMMA LinesTyped ==
    ASSUME NEW key \in AnyKey, NEW text \in Texts
    PROVE  /\ Other(text) \in AnyLine
           /\ Pair(key, text) \in AnyLine
           /\ \A path \in Seq(AnyName) : path # <<>> => Header(path) \in AnyLine
<1>1. <<>> \in Seq(AnyName) /\ NoKey \in AnyKey /\ Empty \in Texts
  BY EmptySeq DEF AnyKey, Texts
<1>2. Other(text) \in AnyLine
  BY <1>1 DEF Other, Line, AnyLine
<1>3. Pair(key, text) \in AnyLine
  BY <1>1 DEF Pair, Line, AnyLine
<1>4. ASSUME NEW path \in Seq(AnyName), path # <<>> PROVE Header(path) \in AnyLine
  BY <1>1, <1>4 DEF Header, Line, AnyLine
<1> QED BY <1>2, <1>3, <1>4

\* The lines of an item.
LEMMA ItemLinesTyped ==
    ASSUME NEW item \in AnyItem
    PROVE  ItemLines(item) \in Seq(AnyLine)
<1> DEFINE n == Len(item.value)
           all == [k \in DOMAIN item.value |-> Other(item.value[k])]
<1>0. item.key \in AnyKey /\ item.value \in Seq(Texts) /\ item.value # <<>>
  BY DEF AnyItem, AnyValue
<1>1. n \in Nat /\ n >= 1 /\ DOMAIN item.value = 1 .. n /\ \A k \in 1 .. n : item.value[k] \in Texts
  BY <1>0, EmptySeq, LenProperties, ElementOfSeq
<1>2. NoKey \in AnyKey /\ Fence \in Texts
  BY DEF AnyKey, Texts
<1>3. ItemLines(item) =
        CASE item.key = NoKey -> all
          [] item.key # NoKey /\ n > 1 -> <<Pair(item.key, Fence)>> \o all \o <<Other(Fence)>>
          [] OTHER -> <<Pair(item.key, Quoted(item.value[1]))>>
  BY DEF ItemLines
<1> HIDE DEF n
<1>4. all = [k \in 1 .. n |-> all[k]] /\ \A k \in 1 .. n : all[k] \in AnyLine
  <2>1. \A k \in 1 .. n : Other(item.value[k]) \in AnyLine
    BY <1>1, <1>2, LinesTyped
  <2> QED BY <1>1, <2>1
<1> HIDE DEF all
<1>5. all \in Seq(AnyLine)
  BY <1>1, <1>4, FunctionIsSeq
<1> DEFINE first == <<Pair(item.key, Fence)>>
           last == <<Other(Fence)>>
           single == <<Pair(item.key, Quoted(item.value[1]))>>
<1>6. first \in Seq(AnyLine) /\ last \in Seq(AnyLine)
  <2>1. Pair(item.key, Fence) \in AnyLine /\ Other(Fence) \in AnyLine
    BY <1>0, <1>2, LinesTyped
  <2> QED BY <2>1
<1>7. single \in Seq(AnyLine)
  <2>1. item.value[1] \in Texts
    BY <1>1
  <2>2. Quoted(item.value[1]) \in Texts
    BY <2>1 DEF Quoted, Texts
  <2>3. Pair(item.key, Quoted(item.value[1])) \in AnyLine
    BY <1>0, <2>2, LinesTyped
  <2> QED BY <2>3
<1> HIDE DEF first, last, single
<1>8. (first \o all) \o last \in Seq(AnyLine)
  BY <1>5, <1>6, ConcatProperties
<1>9. ItemLines(item) \in {all, (first \o all) \o last, single}
  BY <1>3 DEF first, last, single
<1> QED BY <1>5, <1>7, <1>8, <1>9

\* The header and the lines of the items of a group.
LEMMA GroupLinesTyped ==
    ASSUME NEW c, NEW gs \in Trees(c), NEW i \in 1 .. Len(gs)
    PROVE  GroupLines(gs, i) \in Seq(AnyLine)
<1> DEFINE items == gs[i].items
           x == IF i = 1 \/ IsHeaderOmitted(gs, i) THEN <<>> ELSE <<Header(Path(gs, i))>>
           s == [k \in DOMAIN items |-> ItemLines(items[k])]
           y == FlattenSeq(s)
<1>0. gs \in Chains(c) /\ Len(gs) \in Nat /\ gs[i] \in AnyGroup({c})
  BY TreeFacts, ChainFacts
<1>1. items \in Seq(AnyItem)
  BY <1>0 DEF AnyGroup
<1>2. GroupLines(gs, i) = x \o y
  BY DEF GroupLines
<1>3. x \in Seq(AnyLine)
  <2>1. CASE i = 1 \/ IsHeaderOmitted(gs, i)
    BY <2>1, EmptySeq
  <2>2. CASE ~(i = 1 \/ IsHeaderOmitted(gs, i))
    <3>1. gs[i].depth >= 1
      <4>1. i \in 2 .. Len(gs)
        BY <1>0, <2>2
      <4>2. gs[i].depth \in 1 .. gs[i - 1].depth + 1
        BY <1>0, <4>1, ChainFacts
      <4> QED BY <4>2
    <3>2. Path(gs, i) \in Seq(AnyName) /\ Path(gs, i) # <<>>
      <4>1. Path(gs, i) \in Seq(AnyName) /\ Len(Path(gs, i)) = gs[i].depth /\ gs[i].depth \in Nat
        BY PathOfGroup
      <4> QED BY <3>1, <4>1, EmptySeq
    <3>3. Empty \in Texts /\ NoKey \in AnyKey
      BY DEF Texts, AnyKey
    <3>4. Header(Path(gs, i)) \in AnyLine
      BY <3>2, <3>3, LinesTyped
    <3>5. x = <<Header(Path(gs, i))>>
      BY <2>2
    <3> HIDE DEF x
    <3> QED BY <3>4, <3>5
  <2> QED BY <2>1, <2>2
<1>4. y \in Seq(AnyLine)
  <2> HIDE DEF items
  <2> DEFINE n == Len(items)
  <2>1. n \in Nat /\ DOMAIN items = 1 .. n /\ \A k \in 1 .. n : items[k] \in AnyItem
    BY <1>1, LenProperties, ElementOfSeq
  <2> HIDE DEF n
  <2>2. s = [k \in 1 .. n |-> s[k]] /\ \A k \in 1 .. n : s[k] \in Seq(AnyLine)
    BY <2>1, ItemLinesTyped
  <2> HIDE DEF s
  <2>3. s \in Seq(Seq(AnyLine))
    BY <2>1, <2>2, FunctionIsSeq
  <2> QED BY <2>3, Flattened
<1> HIDE DEF x, y
<1>5. x \o y \in Seq(AnyLine)
  BY <1>3, <1>4, ConcatProperties
<1> QED BY <1>2, <1>5

\* What save() writes is a text.
LEMMA SavedText ==
    ASSUME NEW c, NEW gs \in Trees(c), NEW fl
    PROVE  Saved(gs, fl) \in AnyText
<1> DEFINE s == [i \in DOMAIN gs |-> GroupLines(gs, i)]
           lines == FlattenSeq(s)
           windows == {"ForceWindowsEol", "WindowsEol"} \cap fl # {} /\ "ForceUnixEol" \notin fl
           out == [k \in DOMAIN lines |-> [lines[k] EXCEPT !.crlf = windows]]
           bom == {"PreserveBom", "HasBom"} \subseteq fl
<1>1. Len(gs) \in Nat /\ DOMAIN gs = 1 .. Len(gs)
  BY TreeFacts, ChainFacts
<1>2. s = [i \in 1 .. Len(gs) |-> s[i]] /\ \A i \in 1 .. Len(gs) : s[i] \in Seq(AnyLine)
  BY <1>1, GroupLinesTyped
<1>3. Saved(gs, fl) = [bom |-> bom, lines |-> out]
  BY DEF Saved
<1>4. windows \in BOOLEAN /\ bom \in BOOLEAN
  OBVIOUS
<1> HIDE DEF s, windows, bom
<1>5. s \in Seq(Seq(AnyLine))
  BY <1>1, <1>2, FunctionIsSeq
<1>6. lines \in Seq(AnyLine)
  BY <1>5, Flattened
<1> HIDE DEF lines
<1> DEFINE n == Len(lines)
<1>7. n \in Nat /\ DOMAIN lines = 1 .. n /\ \A k \in 1 .. n : lines[k] \in AnyLine
  BY <1>6, LenProperties, ElementOfSeq
<1> HIDE DEF n
<1>8. \A line \in AnyLine, b \in BOOLEAN : [line EXCEPT !.crlf = b] \in AnyLine
  BY DEF AnyLine
<1>9. out = [k \in 1 .. n |-> out[k]] /\ \A k \in 1 .. n : out[k] \in AnyLine
  BY <1>4, <1>7, <1>8
<1> HIDE DEF out
<1>10. out \in Seq(AnyLine)
  BY <1>7, <1>9, FunctionIsSeq
<1>11. \A b \in BOOLEAN, l \in Seq(AnyLine) : [bom |-> b, lines |-> l] \in AnyText
  BY DEF AnyText
<1> QED BY <1>3, <1>4, <1>10, <1>11, Zenon

-----------------------------------------------------------------------------
\* The invariant.

\* Every place has a tree that points to it, with a root that has no name if it
\* is a configuration.
TreesSound(gs) ==
    /\ gs = [p \in Places |-> gs[p]]
    /\ \A p \in Places : gs[p] \in Trees(Owner(p))
    /\ \A c \in Configurations : gs[c] # <<>> => gs[c][1].name = NoName

OthersTyped ==
    /\ DOMAIN flags = Configurations
    /\ named \in [Configurations -> BOOLEAN]
    /\ file \in AnyText \cup {NoFile}
    /\ writable \in BOOLEAN
    /\ DOMAIN synced = Configurations
    /\ calls \in Nat

\* What differs from the contents last read or written is marked.
IsMarked(c) == Without(groups[c]) = synced[c] \/ "Changed" \in flags[c]

ChangesMarked == ~UnmarkedCount => \A c \in Constructed : IsMarked(c)

Sound == TreesSound(groups) /\ OthersTyped /\ ChangesMarked

\* No configuration is destroyed.
Stay == \A c \in Constructed : groups'[c] # <<>>

-----------------------------------------------------------------------------
\* What actions have in common.

\* Another tree at a place.
LEMMA PlacedTree ==
    ASSUME NEW gs, TreesSound(gs), NEW p \in Places, NEW tree \in Trees(Owner(p)),
           p \in Configurations /\ tree # <<>> => tree[1].name = NoName
    PROVE  TreesSound([gs EXCEPT ![p] = tree])
<1> DEFINE new == [gs EXCEPT ![p] = tree]
<1>1. DOMAIN gs = Places
  BY DEF TreesSound
<1>2. new = [q \in Places |-> new[q]] /\ \A q \in Places : new[q] = IF q = p THEN tree ELSE gs[q]
  BY <1>1
<1> HIDE DEF new
<1>3. \A q \in Places : new[q] \in Trees(Owner(q))
  BY <1>2 DEF TreesSound
<1>4. \A c \in Configurations : new[c] # <<>> => new[c][1].name = NoName
  BY <1>2 DEF TreesSound, Places
<1> QED BY <1>2, <1>3, <1>4 DEF TreesSound, new

\* A configuration comes with what is read or nothing.
LEMMA BeginSound ==
    ASSUME Sound, NEW c \in Configurations, NEW gs, Rooted(c, gs), NEW fl, NEW isNamed \in BOOLEAN,
           Begin(c, gs, fl, isNamed), calls' \in Nat
    PROVE  Sound' /\ (c \notin Constructed => Stay)
<1>1. Owner(c) = c /\ c \in Places
  BY ConfigurationAssumption DEF Owner, Places
<1>2. TreesSound(groups')
  BY <1>1, PlacedTree DEF Sound, Begin, Rooted
<1>3. OthersTyped'
  BY DEF Sound, OthersTyped, Begin
<1>4. \A d \in Configurations : /\ d # c => groups'[d] = groups[d] /\ flags'[d] = flags[d] /\ synced'[d] = synced[d]
                                /\ d = c => groups'[d] = gs /\ synced'[d] = Without(gs)
  BY DEF Sound, OthersTyped, TreesSound, Begin, Places
<1>5. ChangesMarked'
  BY <1>4 DEF Sound, ChangesMarked, Constructed, IsMarked
<1>6. c \notin Constructed => Stay
  BY <1>4 DEF Stay, Constructed
<1> QED BY <1>2, <1>3, <1>5, <1>6 DEF Sound

\* Every group points to the configuration of its place, if there is one.
LEMMA PlacedGroup ==
    ASSUME Sound, NEW p \in Places, NEW i \in DOMAIN groups[p]
    PROVE  /\ groups[p] \in Trees(Owner(p)) /\ groups[p] # <<>> /\ i \in 1 .. Len(groups[p])
           /\ groups[p][i].configuration = Owner(p)
           /\ p \in Configurations => groups[p][1].name = NoName
<1>1. groups[p] \in Trees(Owner(p))
  BY DEF Sound, TreesSound
<1>2. i \in 1 .. Len(groups[p]) /\ Len(groups[p]) \in Nat /\ groups[p][i] \in AnyGroup({Owner(p)})
  BY <1>1, TreeFacts, ChainFacts
<1>3. groups[p] # <<>>
  BY <1>1, <1>2, TreeFacts
<1> QED BY <1>1, <1>2, <1>3 DEF AnyGroup, Sound, TreesSound

\* A configuration edited is marked.
LEMMA EditSound ==
    ASSUME Sound, NEW p \in Places, NEW i \in DOMAIN groups[p], NEW gs, Keeps(Owner(p), groups[p], gs),
           Edit(p, i, gs)
    PROVE  Sound' /\ Stay
<1>0. groups[p][i].configuration = Owner(p) /\ (p \in Configurations => groups[p][1].name = NoName)
  BY PlacedGroup
<1>1. TreesSound(groups')
  BY <1>0, PlacedTree DEF Sound, Edit, Becomes, Keeps
<1>2. flags' = IF Owner(p) = None THEN flags ELSE [flags EXCEPT ![Owner(p)] = @ \cup {"Changed"}]
  BY <1>0 DEF Edit, Marked
<1>3. OthersTyped'
  BY <1>2 DEF Sound, OthersTyped, Edit, Becomes, Call
<1>4. \A c \in Configurations : groups'[c] = IF c = p THEN gs ELSE groups[c]
  BY DEF Sound, TreesSound, Edit, Becomes, Places
<1>5. \A c \in Configurations : /\ c = p => "Changed" \in flags'[c]
                                /\ c # p => flags'[c] = flags[c]
  <2>1. p \in Configurations => Owner(p) = p /\ p # None
    BY ConfigurationAssumption DEF Owner
  <2>2. p \notin Configurations => Owner(p) = None
    BY DEF Owner, Places
  <2> QED BY <1>2, <2>1, <2>2 DEF Sound, OthersTyped
<1>6. synced' = synced
  BY DEF Edit, Becomes
<1>7. ChangesMarked'
  BY <1>4, <1>5, <1>6 DEF Sound, ChangesMarked, Constructed, IsMarked
<1>8. Stay
  BY <1>4 DEF Stay, Constructed, Keeps
<1> QED BY <1>1, <1>3, <1>7, <1>8 DEF Sound

\* A call that marks nothing.
LEMMA ChangesSound ==
    ASSUME Sound, NEW gs, TreesSound(gs), \A c \in Configurations : gs[c] # <<>> <=> groups[c] # <<>>,
           Changes(gs)
    PROVE  Sound' /\ Stay
<1>1. OthersTyped'
  BY DEF Sound, OthersTyped, Changes, Call
<1>2. ChangesMarked'
  <2> SUFFICES ASSUME ~UnmarkedCount, NEW c \in Configurations, groups'[c] # <<>>
               PROVE  Without(groups'[c]) = synced'[c] \/ "Changed" \in flags'[c]
    BY DEF ChangesMarked, Constructed, IsMarked
  <2>1. groups' = gs /\ flags' = flags
    BY DEF Changes
  <2>2. synced'[c] = IF gs[c] = groups[c] THEN synced[c] ELSE Without(gs[c])
    BY DEF Changes
  <2>3. CASE gs[c] = groups[c]
    <3>1. c \in Constructed
      BY <2>1, <2>3 DEF Constructed
    <3> QED BY <2>1, <2>2, <2>3, <3>1 DEF Sound, ChangesMarked, IsMarked
  <2>4. CASE gs[c] # groups[c]
    BY <2>1, <2>2, <2>4
  <2> QED BY <2>3, <2>4
<1>3. Stay
  BY DEF Stay, Constructed, Changes
<1>4. TreesSound(groups')
  BY DEF Changes
<1> QED BY <1>1, <1>2, <1>3, <1>4 DEF Sound

-----------------------------------------------------------------------------
\* Construction and destruction, reading and writing.

\* Where nothing is constructed yet, what is read comes.
LEMMA ConstructSound ==
    ASSUME Sound, NEW c \in Configurations, NEW fl, ConstructEmpty(c, fl) \/ Open(c, fl) \/ OpenStream(c, fl)
    PROVE  Sound' /\ Stay
<1> DEFINE parsed == Parse(file, fl, c)
<1>1. Rooted(c, EmptyGroups(c))
  BY EmptyTree DEF Rooted
<1>2. file # NoFile => Rooted(c, parsed.groups)
  BY ParsedGroups DEF Sound, OthersTyped
<1>3. c \notin Constructed /\ calls' \in Nat
  <2>1. c \notin Constructed /\ Call
    BY Zenon DEF ConstructEmpty, Open, OpenStream
  <2> QED BY <2>1 DEF Call, Sound, OthersTyped
<1> HIDE DEF parsed
<1>4. \E gs, f : \E isNamed \in BOOLEAN : Rooted(c, gs) /\ Begin(c, gs, f, isNamed)
  <2>1. CASE ConstructEmpty(c, fl)
    <3>1. Begin(c, EmptyGroups(c), fl, FALSE)
      BY <2>1 DEF ConstructEmpty
    <3> QED BY <1>1, <3>1
  <2> DEFINE isNamed == "ReadOnly" \notin fl
  <2>2. isNamed \in BOOLEAN
    OBVIOUS
  <2>3. CASE Open(c, fl)
    <3>1. CASE file = NoFile
      <4>1. Begin(c, EmptyGroups(c), fl \cup {"IsValid"}, isNamed)
        BY <2>3, <3>1 DEF Open
      <4> HIDE DEF isNamed
      <4> QED BY <1>1, <2>2, <4>1
    <3>2. CASE file # NoFile /\ "Truncate" \in fl
      <4>1. Begin(c, EmptyGroups(c), fl \cup {"IsValid", "Changed"}, isNamed)
        BY <2>3, <3>2 DEF Open
      <4> HIDE DEF isNamed
      <4> QED BY <1>1, <2>2, <4>1
    <3>3. CASE file # NoFile /\ "Truncate" \notin fl /\ parsed.error
      <4>1. Begin(c, parsed.groups, parsed.flags, FALSE)
        BY <2>3, <3>3 DEF Open, parsed
      <4> QED BY <1>2, <3>3, <4>1
    <3>4. CASE file # NoFile /\ "Truncate" \notin fl /\ ~parsed.error
      <4>1. Begin(c, parsed.groups, parsed.flags \cup {"IsValid"}, isNamed)
        BY <2>3, <3>4 DEF Open, parsed
      <4> HIDE DEF isNamed
      <4> QED BY <1>2, <2>2, <3>4, <4>1
    <3> QED BY <3>1, <3>2, <3>3, <3>4
  <2>4. CASE OpenStream(c, fl)
    <3>0. file # NoFile
      BY <2>4 DEF OpenStream
    <3>1. CASE "Truncate" \in fl
      <4>1. Begin(c, EmptyGroups(c), fl \cup {"IsValid", "Changed"}, FALSE)
        BY <2>4, <3>1 DEF OpenStream
      <4> QED BY <1>1, <4>1
    <3>2. CASE "Truncate" \notin fl /\ parsed.error
      <4>1. Begin(c, parsed.groups, parsed.flags, FALSE)
        BY <2>4, <3>2 DEF OpenStream, parsed
      <4> QED BY <1>2, <3>0, <4>1
    <3>3. CASE "Truncate" \notin fl /\ ~parsed.error
      <4>1. Begin(c, parsed.groups, parsed.flags \cup {"IsValid"}, FALSE)
        BY <2>4, <3>3 DEF OpenStream, parsed
      <4> QED BY <1>2, <3>0, <4>1
    <3> QED BY <3>1, <3>2, <3>3
  <2> QED BY <2>1, <2>3, <2>4
<1>5. PICK gs, f : \E isNamed \in BOOLEAN : Rooted(c, gs) /\ Begin(c, gs, f, isNamed)
  BY <1>4
<1>6. PICK isNamed \in BOOLEAN : Rooted(c, gs) /\ Begin(c, gs, f, isNamed)
  BY <1>5
<1> QED BY <1>3, <1>6, BeginSound

\* What is written is what was read then.
LEMMA WriteSound ==
    ASSUME Sound, NEW c \in Constructed, Write(c)
    PROVE  /\ file' \in AnyText \cup {NoFile}
           /\ DOMAIN synced' = Configurations
           /\ \A d \in Configurations : d # c => synced'[d] = synced[d]
           /\ synced'[c] = synced[c] \/ synced'[c] = Without(groups[c])
<1>1. c \in Configurations /\ groups[c] \in Trees(Owner(c))
  BY DEF Constructed, Sound, TreesSound, Places
<1>2. Saved(groups[c], flags[c]) \in AnyText
  BY <1>1, SavedText
<1>3. CASE writable
  BY <1>1, <1>2, <1>3 DEF Write, Sound, OthersTyped
<1>4. CASE ~writable
  BY <1>4 DEF Write, Sound, OthersTyped
<1> QED BY <1>3, <1>4

\* save() keeps the invariant.
LEMMA SaveSound ==
    ASSUME Sound, NEW c \in Configurations, Save(c)
    PROVE  Sound' /\ Stay
<1>1. c \in Constructed /\ Write(c) /\ groups' = groups /\ flags' = flags /\ named' = named
      /\ writable' = writable /\ calls' = calls
  BY DEF Save
<1>2. OthersTyped'
  BY <1>1, WriteSound DEF Sound, OthersTyped
<1>3. ChangesMarked'
  <2>1. \A d \in Configurations : synced'[d] = synced[d] \/ synced'[d] = Without(groups[d])
    BY <1>1, WriteSound
  <2> QED BY <1>1, <2>1 DEF Sound, ChangesMarked, Constructed, IsMarked
<1>4. Stay
  BY <1>1 DEF Stay, Constructed
<1> QED BY <1>1, <1>2, <1>3, <1>4 DEF Sound

\* The other configurations stay.
LEMMA DestroySound ==
    ASSUME Sound, NEW c \in Configurations, Destroy(c)
    PROVE  Sound' /\ \A d \in Constructed : d # c => groups'[d] # <<>>
<1>1. c \in Constructed /\ groups' = [groups EXCEPT ![c] = <<>>] /\ flags' = flags /\ named' = named
      /\ writable' = writable /\ calls' = calls
  BY DEF Destroy
<1>2. c \in Places /\ <<>> \in Trees(Owner(c))
  BY EmptySeq DEF Places, Trees, Chains, Chain
<1>3. TreesSound(groups')
  BY <1>1, <1>2, PlacedTree DEF Sound
<1>4. /\ file' \in AnyText \cup {NoFile}
      /\ DOMAIN synced' = Configurations
      /\ \A d \in Configurations : d # c => synced'[d] = synced[d]
  <2>1. Write(c) \/ UNCHANGED <<file, synced>>
    BY DEF Destroy
  <2> QED BY <1>1, <2>1, WriteSound DEF Sound, OthersTyped
<1>5. OthersTyped'
  BY <1>1, <1>4 DEF Sound, OthersTyped
<1>6. \A d \in Configurations : groups'[d] = IF d = c THEN <<>> ELSE groups[d]
  BY <1>1 DEF Sound, TreesSound, Places
<1>7. ChangesMarked'
  BY <1>1, <1>4, <1>6 DEF Sound, ChangesMarked, Constructed, IsMarked
<1> QED BY <1>3, <1>5, <1>6, <1>7 DEF Sound, Constructed

\* What changes no groups.
LEMMA NoGroupsSound ==
    ASSUME Sound,
           \/ \E c \in Configurations : SetFilename(c)
           \/ \E text \in Rewrites : WriteElsewhere(text)
           \/ \E allowed \in BOOLEAN : AllowWriting(allowed)
           \/ UNCHANGED vars
    PROVE  Sound' /\ Stay
<1>1. groups' = groups /\ flags' = flags /\ synced' = synced
  BY DEF SetFilename, WriteElsewhere, AllowWriting, vars
<1>2. OthersTyped'
  <2>1. ASSUME NEW c \in Configurations, SetFilename(c) PROVE OthersTyped'
    BY <2>1 DEF SetFilename, Call, Sound, OthersTyped
  <2>2. ASSUME NEW text \in Rewrites, WriteElsewhere(text) PROVE OthersTyped'
    BY <2>2, ConfigurationAssumption DEF WriteElsewhere, Call, Sound, OthersTyped
  <2>3. ASSUME NEW allowed \in BOOLEAN, AllowWriting(allowed) PROVE OthersTyped'
    BY <2>3 DEF AllowWriting, Call, Sound, OthersTyped
  <2>4. CASE UNCHANGED vars
    BY <2>4 DEF vars, Sound, OthersTyped
  <2> QED BY <2>1, <2>2, <2>3, <2>4
<1>3. ChangesMarked'
  BY <1>1 DEF Sound, ChangesMarked, Constructed, IsMarked
<1>4. Stay
  BY <1>1 DEF Stay, Constructed
<1> QED BY <1>1, <1>2, <1>3, <1>4 DEF Sound

-----------------------------------------------------------------------------
\* Editing a group.

\* Any change of the items of a group.
LEMMA ItemsSound ==
    ASSUME Sound, NEW p \in Places, NEW i \in DOMAIN groups[p], NEW items \in Seq(AnyItem),
           Edit(p, i, [groups[p] EXCEPT ![i].items = items])
    PROVE  Sound' /\ Stay
<1>1. Keeps(Owner(p), groups[p], [groups[p] EXCEPT ![i].items = items])
  BY PlacedGroup, WithItems
<1> QED BY <1>1, EditSound

\* The items of a group.
LEMMA PlacedItems ==
    ASSUME Sound, NEW p \in Places, NEW i \in DOMAIN groups[p]
    PROVE  groups[p][i].items \in Seq(AnyItem)
<1>1. groups[p][i] \in AnyGroup({Owner(p)})
  BY PlacedGroup, TreeFacts, ChainFacts
<1> QED BY <1>1 DEF AnyGroup

\* addValue() keeps the invariant and destroys no configuration.
LEMMA AddValueSound ==
    ASSUME Sound, NEW p \in Places, NEW i \in DOMAIN groups[p], NEW key \in Keys, NEW value \in Values,
           AddValue(p, i, key, value)
    PROVE  Sound' /\ Stay
<1> DEFINE items == Append(groups[p][i].items, Item(key, value))
<1>1. Item(key, value) \in AnyItem
  BY ConfigurationAssumption DEF Item, AnyItem, AnyKey
<1>2. items \in Seq(AnyItem)
  BY <1>1, PlacedItems, AppendProperties
<1>3. Edit(p, i, [groups[p] EXCEPT ![i].items = items])
  BY DEF AddValue
<1> HIDE DEF items
<1> QED BY <1>2, <1>3, ItemsSound

\* So does setValue().
LEMMA SetValueSound ==
    ASSUME Sound, NEW p \in Places, NEW i \in DOMAIN groups[p], NEW key \in Keys, NEW value \in Values,
           NEW index \in 0 .. MaxItems, SetValue(p, i, key, value, index)
    PROVE  Sound' /\ Stay
<1>1. CASE AddValue(p, i, key, value)
  BY <1>1, AddValueSound
<1>2. ASSUME NEW k \in Matching(p, i, key), Edit(p, i, [groups[p] EXCEPT ![i].items[k].value = value])
      PROVE  Sound' /\ Stay
  <2> DEFINE old == groups[p][i].items
             item == [old[k] EXCEPT !.value = value]
             items == [old EXCEPT ![k] = item]
  <2>1. old \in Seq(AnyItem) /\ k \in DOMAIN old
    BY PlacedItems DEF Matching
  <2>2. Edit(p, i, [groups[p] EXCEPT ![i].items = items])
    BY <1>2
  <2> HIDE DEF old
  <2>3. k \in 1 .. Len(old) /\ old[k] \in AnyItem
    BY <2>1, LenProperties, ElementOfSeq
  <2>4. item \in AnyItem
    BY <2>3, ConfigurationAssumption DEF AnyItem
  <2> HIDE DEF item
  <2>5. items \in Seq(AnyItem)
    BY <2>1, <2>3, <2>4, ExceptSeq
  <2> HIDE DEF items
  <2> QED BY <2>2, <2>5, ItemsSound
<1> QED BY <1>1, <1>2 DEF SetValue

\* So does removeValue().
LEMMA RemoveValueSound ==
    ASSUME Sound, NEW p \in Places, NEW i \in DOMAIN groups[p], NEW key \in Keys, NEW index,
           RemoveValue(p, i, key, index) \/ RemoveAllValues(p, i, key)
    PROVE  Sound' /\ Stay
<1> DEFINE old == groups[p][i].items
<1>0. old \in Seq(AnyItem)
  BY PlacedItems
<1>1. ASSUME NEW k \in Matching(p, i, key), Edit(p, i, [groups[p] EXCEPT ![i].items = RemoveAt(@, k)])
      PROVE  Sound' /\ Stay
  <2> DEFINE items == RemoveAt(old, k)
  <2>1. k \in 1 .. Len(old)
    BY <1>0, LenProperties DEF Matching
  <2>2. items \in Seq(AnyItem)
    BY <1>0, <2>1, ItemRemoved
  <2>3. Edit(p, i, [groups[p] EXCEPT ![i].items = items])
    BY <1>1
  <2> HIDE DEF items
  <2> QED BY <2>2, <2>3, ItemsSound
<1>2. CASE RemoveAllValues(p, i, key)
  <2> DEFINE items == WithoutKey(old, key)
  <2>1. items \in Seq(AnyItem)
    BY <1>0, WithoutKeyItems
  <2>2. Edit(p, i, [groups[p] EXCEPT ![i].items = items])
    BY <1>2 DEF RemoveAllValues
  <2> HIDE DEF items
  <2> QED BY <2>1, <2>2, ItemsSound
<1> QED BY <1>1, <1>2 DEF RemoveValue

\* So does addGroup().
LEMMA AddGroupSound ==
    ASSUME Sound, NEW p \in Places, NEW i \in DOMAIN groups[p], NEW name \in Names, AddGroup(p, i, name)
    PROVE  Sound' /\ Stay
<1> DEFINE new == <<Group(0, name, <<>>, None)>>
<1>1. new \in Trees(None) /\ new # <<>>
  <2>1. name \in AnyName
    BY DEF AnyName
  <2> QED BY <2>1, SingleGroup
<1>2. Edit(p, i, Inserted(p, i, new))
  BY DEF AddGroup
<1> HIDE DEF new
<1>3. Keeps(Owner(p), groups[p], Inserted(p, i, new))
  BY <1>1, PlacedGroup, InsertedGroups
<1> QED BY <1>2, <1>3, EditSound

\* So does removeGroup().
LEMMA RemoveGroupSound ==
    ASSUME Sound, NEW p \in Places, NEW i \in DOMAIN groups[p], NEW name, NEW j,
           RemoveGroup(p, i, j) \/ RemoveAllGroups(p, i, name)
    PROVE  Sound' /\ Stay
<1>0. Subgroups(groups[p], i) \subseteq 2 .. Len(groups[p])
  <2>1. i \in 1 .. Len(groups[p])
    BY PlacedGroup
  <2> QED BY <2>1 DEF Subgroups
<1>1. CASE RemoveGroup(p, i, j)
  <2>1. Keeps(Owner(p), groups[p], Removed(groups[p], j))
    BY <1>0, <1>1, PlacedGroup, RemovedGroups DEF RemoveGroup
  <2> QED BY <1>1, <2>1, EditSound DEF RemoveGroup
<1>2. CASE RemoveAllGroups(p, i, name)
  <2> DEFINE namesakes == {k \in Subgroups(groups[p], i) : groups[p][k].name = name}
  <2>1. namesakes \in SUBSET (2 .. Len(groups[p]))
    BY <1>0
  <2>2. Edit(p, i, WithoutGroups(groups[p], namesakes))
    BY <1>2 DEF RemoveAllGroups
  <2> HIDE DEF namesakes
  <2>3. Keeps(Owner(p), groups[p], WithoutGroups(groups[p], namesakes))
    BY <2>1, PlacedGroup, WithoutGroupsKeeps
  <2> QED BY <2>2, <2>3, EditSound
<1> QED BY <1>1, <1>2

\* So does any edit of a group.
LEMMA EditGroupSound ==
    ASSUME Sound, NEW p \in Places, NEW i \in DOMAIN groups[p], EditGroup(p, i)
    PROVE  Sound' /\ Stay
  BY AddValueSound, SetValueSound, RemoveValueSound, AddGroupSound, RemoveGroupSound DEF EditGroup

-----------------------------------------------------------------------------
\* Calls that mark nothing.

\* A place that is not a configuration.
LEMMA StandalonePlace == Standalone \in Places /\ Standalone \notin Configurations /\ Owner(Standalone) = None
  BY ConfigurationAssumption DEF Places, Owner

\* The groups of one configuration and the standalone group changed.
Both(c, gs, tree) == [groups EXCEPT ![c] = gs, ![Standalone] = tree]

\* The invariant of the trees is kept by both at once.
LEMMA BothPlaced ==
    ASSUME Sound, NEW c \in Configurations, NEW gs, Keeps(c, groups[c], gs), groups[c] # <<>>,
           NEW tree \in Trees(None)
    PROVE  /\ TreesSound(Both(c, gs, tree))
           /\ \A d \in Configurations : Both(c, gs, tree)[d] = IF d = c THEN gs ELSE groups[d]
<1> DEFINE one == [groups EXCEPT ![c] = gs]
           new == [one EXCEPT ![Standalone] = tree]
<1>1. c \in Places /\ Owner(c) = c /\ groups[c][1].name = NoName
  BY ConfigurationAssumption DEF Places, Owner, Sound, TreesSound
<1>2. TreesSound(one)
  BY <1>1, PlacedTree DEF Sound, Keeps
<1>3. \A d \in Configurations : new[d] = IF d = c THEN gs ELSE groups[d]
  BY <1>1, StandalonePlace DEF Sound, TreesSound, Places
<1> HIDE DEF one
<1>4. TreesSound(new)
  BY <1>2, StandalonePlace, PlacedTree
<1> QED BY <1>3, <1>4 DEF one, Both

\* Another standalone group, or none.
LEMMA StandalonePlaced ==
    ASSUME Sound, NEW tree \in Trees(None)
    PROVE  LET new == [groups EXCEPT ![Standalone] = tree]
           IN  TreesSound(new) /\ \A d \in Configurations : new[d] = groups[d]
<1>1. TreesSound([groups EXCEPT ![Standalone] = tree])
  BY StandalonePlace, PlacedTree DEF Sound
<1> QED BY <1>1, StandalonePlace DEF Sound, TreesSound, Places

\* clear() keeps the invariant and destroys no configuration.
LEMMA ClearSound ==
    ASSUME Sound, NEW p \in Places, NEW i \in DOMAIN groups[p], Clear(p, i)
    PROVE  Sound' /\ Stay
<1> DEFINE new == Replaced(p, i, EmptyGroups(None))
           gs == [groups EXCEPT ![p] = new]
<1>1. Keeps(Owner(p), groups[p], new)
  BY PlacedGroup, EmptyTree, ReplacedGroups
<1>2. Changes(gs)
  BY DEF Clear
<1> HIDE DEF new
<1>3. TreesSound(gs)
  BY <1>1, PlacedGroup, PlacedTree DEF Keeps, Sound
<1>4. \A c \in Configurations : gs[c] # <<>> <=> groups[c] # <<>>
  BY <1>1, PlacedGroup DEF Keeps, Sound, TreesSound, Places
<1> HIDE DEF gs
<1> QED BY <1>2, <1>3, <1>4, ChangesSound

\* So does the construction of a standalone group.
LEMMA ConstructStandaloneSound ==
    ASSUME Sound, ConstructStandalone
    PROVE  Sound' /\ Stay
<1> DEFINE gs == [groups EXCEPT ![Standalone] = EmptyGroups(None)]
<1>1. Changes(gs)
  BY DEF ConstructStandalone
<1>2. TreesSound(gs) /\ \A c \in Configurations : gs[c] = groups[c]
  BY EmptyTree, StandalonePlaced
<1> HIDE DEF gs
<1> QED BY <1>1, <1>2, ChangesSound

\* So does any use of a standalone group.
LEMMA UseStandaloneSound ==
    ASSUME Sound, NEW c \in Configurations, NEW i \in DOMAIN groups[c], UseStandalone(c, i)
    PROVE  Sound' /\ Stay
<1>0. /\ c \in Places /\ Owner(c) = c /\ groups[c] \in Trees(c) /\ groups[c] # <<>> /\ i \in 1 .. Len(groups[c])
      /\ groups[c][i].configuration = c /\ c # None
  <2>1. c \in Places /\ Owner(c) = c /\ c # None
    BY ConfigurationAssumption DEF Places, Owner
  <2> QED BY <2>1, PlacedGroup
<1>1. Copied(groups[c], i) \in Trees(None) /\ EmptyGroups(None) \in Trees(None) /\ EmptyGroups(None) # <<>>
      /\ groups[Standalone] \in Trees(None)
  BY <1>0, CopiedGroups, EmptyTree, StandalonePlace DEF Sound, TreesSound
<1>2. CASE CopyToStandalone(c, i)
  <2> DEFINE gs == [groups EXCEPT ![Standalone] = Copied(groups[c], i)]
  <2>1. Changes(gs)
    BY <1>2 DEF CopyToStandalone
  <2>2. TreesSound(gs) /\ \A d \in Configurations : gs[d] = groups[d]
    BY <1>1, StandalonePlaced
  <2> HIDE DEF gs
  <2> QED BY <2>1, <2>2, ChangesSound
<1>3. CASE MoveToStandalone(c, i)
  <2> DEFINE new == Replaced(c, i, EmptyGroups(None))
             copy == Copied(groups[c], i)
             gs == Both(c, new, copy)
  <2>1. Keeps(c, groups[c], new)
    BY <1>0, <1>1, ReplacedGroups
  <2>2. Changes([groups EXCEPT ![Standalone] = copy, ![c] = new])
    BY <1>3 DEF MoveToStandalone
  <2> HIDE DEF new, copy
  <2>3. [groups EXCEPT ![Standalone] = copy, ![c] = new] = gs
    BY StandalonePlace DEF Both
  <2>4. TreesSound(gs) /\ \A d \in Configurations : gs[d] = IF d = c THEN new ELSE groups[d]
    BY <1>0, <1>1, <2>1, BothPlaced DEF copy
  <2> HIDE DEF gs
  <2>5. \A d \in Configurations : gs[d] # <<>> <=> groups[d] # <<>>
    BY <1>0, <2>1, <2>4 DEF Keeps
  <2> QED BY <2>2, <2>3, <2>4, <2>5, ChangesSound
<1>4. ASSUME NEW keeps \in BOOLEAN, AssignStandalone(c, i, keeps) PROVE Sound' /\ Stay
  <2> DEFINE new == Replaced(c, i, groups[Standalone])
             left == IF keeps THEN groups[Standalone] ELSE EmptyGroups(None)
             gs == Both(c, new, left)
  <2>1. Keeps(c, groups[c], new)
    BY <1>0, <1>1, <1>4, ReplacedGroups DEF AssignStandalone
  <2>2. [groups EXCEPT ![c] = new][Standalone] = groups[Standalone]
    BY StandalonePlace DEF Sound, TreesSound
  <2>3. Changes(gs)
    BY <1>4, <2>2 DEF AssignStandalone, Both
  <2> HIDE DEF new
  <2>4. left \in Trees(None)
    BY <1>1
  <2> HIDE DEF left
  <2>5. TreesSound(gs) /\ \A d \in Configurations : gs[d] = IF d = c THEN new ELSE groups[d]
    BY <1>0, <2>1, <2>4, BothPlaced
  <2> HIDE DEF gs
  <2>6. \A d \in Configurations : gs[d] # <<>> <=> groups[d] # <<>>
    BY <1>0, <2>1, <2>5 DEF Keeps
  <2> QED BY <2>3, <2>5, <2>6, ChangesSound
<1>5. ASSUME NEW name \in Names, AddStandalone(c, i, name) PROVE Sound' /\ Stay
  <2> DEFINE named2 == [groups[Standalone] EXCEPT ![1].name = name]
             new == Inserted(c, i, named2)
  <2>1. named2 \in Trees(None) /\ named2 # <<>>
    <3>1. name \in AnyName
      BY DEF AnyName
    <3> QED BY <1>1, <1>5, <3>1, NamedTree DEF AddStandalone
  <2>2. /\ groups' = Both(c, new, <<>>)
        /\ flags' = [flags EXCEPT ![c] = @ \cup {"Changed"}]
        /\ named' = named /\ file' = file /\ writable' = writable /\ synced' = synced /\ Call
    BY <1>0, <1>5 DEF AddStandalone, Marked, Both
  <2> HIDE DEF named2
  <2>3. Keeps(c, groups[c], new)
    BY <1>0, <2>1, InsertedGroups
  <2> HIDE DEF new
  <2>4. <<>> \in Trees(None)
    BY EmptySeq DEF Trees, Chains, Chain
  <2>5. TreesSound(groups') /\ \A d \in Configurations : groups'[d] = IF d = c THEN new ELSE groups[d]
    BY <1>0, <2>2, <2>3, <2>4, BothPlaced
  <2>6. OthersTyped'
    BY <2>2 DEF Sound, OthersTyped, Call
  <2>7. \A d \in Configurations : /\ d = c => "Changed" \in flags'[d]
                                  /\ d # c => flags'[d] = flags[d]
    BY <2>2 DEF Sound, OthersTyped
  <2>8. ChangesMarked'
    BY <2>2, <2>5, <2>7 DEF Sound, ChangesMarked, Constructed, IsMarked
  <2>9. Stay
    BY <2>3, <2>5 DEF Stay, Constructed, Keeps
  <2> QED BY <2>5, <2>6, <2>8, <2>9 DEF Sound
<1> QED BY <1>2, <1>3, <1>4, <1>5 DEF UseStandalone

\* The contents of a configuration are the same elsewhere.
LEMMA MovedContents ==
    ASSUME NEW c, NEW gs \in Trees(c), gs # <<>>, gs[1].name = NoName, NEW d
    PROVE  Without(Moved(gs, 0, NoName, d)) = Without(gs)
<1> DEFINE new == Moved(gs, 0, NoName, d)
           n == Len(gs)
<1>0. n \in Nat /\ DOMAIN gs = 1 .. n /\ \A k \in 1 .. n : gs[k] \in AnyGroup({c})
  BY TreeFacts, ChainFacts
<1>1. DOMAIN new = 1 .. n
  BY <1>0 DEF Moved
<1>2. ASSUME NEW k \in 1 .. n
      PROVE  [new[k] EXCEPT !.configuration = None] = [gs[k] EXCEPT !.configuration = None]
  <2> DEFINE own == IF k = 1 THEN NoName ELSE gs[k].name
  <2>1. gs[k].depth \in Nat /\ gs[k] = [depth |-> gs[k].depth, name |-> gs[k].name, items |-> gs[k].items,
                                         configuration |-> gs[k].configuration]
    BY <1>0 DEF AnyGroup
  <2>2. new[k] = [depth |-> gs[k].depth + 0, name |-> own, items |-> gs[k].items, configuration |-> d]
    BY <1>0 DEF Moved
  <2>3. own = gs[k].name /\ gs[k].depth + 0 = gs[k].depth
    BY <2>1
  <2> HIDE DEF own, new
  <2>4. new[k] = [depth |-> gs[k].depth, name |-> gs[k].name, items |-> gs[k].items, configuration |-> d]
    BY <2>2, <2>3
  <2> QED BY <2>1, <2>4
<1> HIDE DEF new, n
<1> QED BY <1>0, <1>1, <1>2 DEF Without, new

\* So does the move of a configuration.
LEMMA MoveConfigurationSound ==
    ASSUME Sound, NEW c \in Configurations, NEW d \in Configurations, MoveConfiguration(c, d)
    PROVE  Sound' /\ Stay
<1> DEFINE moved == Moved(groups[c], 0, NoName, d)
           one == [groups EXCEPT ![d] = moved]
<1>0. /\ c \in Constructed /\ d # c /\ Call
      /\ groups' = [one EXCEPT ![c] = EmptyGroups(c)]
      /\ flags' = [flags EXCEPT ![d] = flags[c]]
      /\ named' = [named EXCEPT ![d] = named[c], ![c] = FALSE]
      /\ synced' = [synced EXCEPT ![d] = synced[c], ![c] = Without(EmptyGroups(c))]
      /\ UNCHANGED <<file, writable>>
  BY DEF MoveConfiguration
<1>1. /\ c \in Places /\ d \in Places /\ Owner(c) = c /\ Owner(d) = d
      /\ groups[c] \in Trees(c) /\ groups[c] # <<>> /\ groups[c][1].name = NoName
  BY <1>0, ConfigurationAssumption DEF Places, Owner, Constructed, Sound, TreesSound
<1>2. moved \in Trees(d) /\ moved # <<>> /\ moved[1].name = NoName
  <2>1. NoName \in AnyName /\ 0 \in Nat
    BY DEF AnyName
  <2>2. moved \in Chains(d) /\ Len(moved) = Len(groups[c]) /\ moved[1].depth = 0 /\ moved[1].name = NoName
    <3> DEFINE from == groups[c]
               depth == 0
               new == Moved(from, depth, NoName, d)
    <3>1. from \in Trees(c) /\ from # <<>> /\ depth \in Nat
      BY <1>1
    <3> HIDE DEF from, depth
    <3>2. new \in Chains(d) /\ Len(new) = Len(from) /\ new[1].depth = depth /\ new[1].name = NoName
      BY <2>1, <3>1, MovedGroups
    <3> HIDE DEF new
    <3>3. new = moved
      BY DEF new, from, depth
    <3> HIDE DEF moved
    <3> QED BY <3>2, <3>3 DEF depth, from
  <2>3. Len(groups[c]) >= 1
    BY <1>1, TreeFacts
  <2> HIDE DEF moved
  <2>4. moved # <<>>
    BY <2>2, <2>3, EmptySeq DEF Chains
  <2> QED BY <2>2, <2>4 DEF Trees
<1>3. Without(moved) = Without(groups[c])
  BY <1>1, MovedContents
<1> HIDE DEF moved
<1>4. TreesSound(one)
  BY <1>1, <1>2, PlacedTree DEF Sound
<1>5. \A e \in Configurations : groups'[e] = IF e = c THEN EmptyGroups(c) ELSE IF e = d THEN moved ELSE groups[e]
  BY <1>0 DEF Sound, TreesSound, Places
<1> HIDE DEF one
<1>6. TreesSound(groups')
  BY <1>0, <1>1, <1>4, EmptyTree, PlacedTree
<1>7. OthersTyped'
  BY <1>0 DEF Sound, OthersTyped, Call
<1>8. \A e \in Configurations :
          /\ e = c => synced'[e] = Without(EmptyGroups(c))
          /\ e = d => synced'[e] = synced[c] /\ flags'[e] = flags[c]
          /\ e # c /\ e # d => synced'[e] = synced[e] /\ flags'[e] = flags[e]
  BY <1>0 DEF Sound, OthersTyped
<1>9. ChangesMarked'
  <2> SUFFICES ASSUME ~UnmarkedCount, NEW e \in Configurations, groups'[e] # <<>>
               PROVE  Without(groups'[e]) = synced'[e] \/ "Changed" \in flags'[e]
    BY DEF ChangesMarked, Constructed, IsMarked
  <2>1. CASE e = c
    BY <1>5, <1>8, <2>1
  <2>2. CASE e = d
    BY <1>0, <1>3, <1>5, <1>8, <2>2 DEF Sound, ChangesMarked, IsMarked
  <2>3. CASE e # c /\ e # d
    BY <1>5, <1>8, <2>3 DEF Sound, ChangesMarked, IsMarked, Constructed
  <2> QED BY <2>1, <2>2, <2>3
<1>10. Stay
  BY <1>2, <1>5, EmptyTree DEF Stay, Constructed
<1> QED BY <1>6, <1>7, <1>9, <1>10 DEF Sound

-----------------------------------------------------------------------------

\* The invariant holds in the initial states.
LEMMA SoundInit == Init => Sound
<1> SUFFICES ASSUME Init PROVE Sound
  OBVIOUS
<1>1. TreesSound(groups)
  <2>1. \A p \in Places : <<>> \in Trees(Owner(p))
    BY EmptySeq DEF Trees, Chains, Chain
  <2> QED BY <2>1 DEF Init, TreesSound, Places
<1>2. OthersTyped
  BY ConfigurationAssumption DEF Init, OthersTyped
<1>3. ChangesMarked
  BY DEF Init, ChangesMarked, Constructed, Places
<1> QED BY <1>1, <1>2, <1>3 DEF Sound

\* A step keeps all of it, and only Destroy() ends a configuration.
LEMMA SoundStep ==
    ASSUME Sound, [Next]_vars
    PROVE  Sound' /\ (Stay \/ \E c \in Configurations : Destroy(c) /\ \A d \in Constructed : d # c => groups'[d] # <<>>)
<1>1. CASE UNCHANGED vars
  BY <1>1, NoGroupsSound
<1>2. ASSUME NEW c \in Configurations, NEW fl \in FlagSets, ConstructEmpty(c, fl) \/ Open(c, fl) \/ OpenStream(c, fl)
      PROVE  Sound' /\ Stay
  BY <1>2, ConstructSound
<1>3. ASSUME NEW c \in Configurations, SetFilename(c) \/ Save(c)
      PROVE  Sound' /\ Stay
  BY <1>3, NoGroupsSound, SaveSound
<1>4. ASSUME NEW c \in Configurations, Destroy(c)
      PROVE  Sound' /\ \A d \in Constructed : d # c => groups'[d] # <<>>
  BY <1>4, DestroySound
<1>5. CASE (\E text \in Rewrites : WriteElsewhere(text)) \/ (\E allowed \in BOOLEAN : AllowWriting(allowed))
  BY <1>5, NoGroupsSound
<1>6. ASSUME NEW p \in Places, NEW i \in DOMAIN groups[p], EditGroup(p, i) \/ Clear(p, i)
      PROVE  Sound' /\ Stay
  BY <1>6, EditGroupSound, ClearSound
<1>7. ASSUME NEW c \in Configurations, NEW i \in DOMAIN groups[c], UseStandalone(c, i)
      PROVE  Sound' /\ Stay
  BY <1>7, UseStandaloneSound
<1>8. CASE ConstructStandalone
  BY <1>8, ConstructStandaloneSound
<1>9. ASSUME NEW c \in Configurations, NEW d \in Configurations, MoveConfiguration(c, d)
      PROVE  Sound' /\ Stay
  BY <1>9, MoveConfigurationSound
<1> QED BY <1>1, <1>2, <1>3, <1>4, <1>5, <1>6, <1>7, <1>8, <1>9, Zenon DEF Next

\* The invariant always holds.
LEMMA AlwaysSound == Spec => []Sound
<1>1. Sound /\ [Next]_vars => Sound'
  BY SoundStep
<1> QED BY <1>1, SoundInit, PTL DEF Spec

(***************************************************************************)
(* Whatever is read, edited, copied and moved, the variables are of their  *)
(* types; what is in the file is a text.                                   *)
(***************************************************************************)
THEOREM TypeCorrect == Spec => []TypeOK
<1>1. Sound => TypeOK
  <2> SUFFICES ASSUME Sound PROVE TypeOK
    OBVIOUS
  <2>1. \A p \in Places : groups[p] \in Seq(AnyGroup(Configurations \cup {None}))
    <3> TAKE p \in Places
    <3>1. groups[p] \in Seq(AnyGroup({Owner(p)}))
      BY DEF Sound, TreesSound, Trees, Chains
    <3>2. AnyGroup({Owner(p)}) \subseteq AnyGroup(Configurations \cup {None})
      BY DEF AnyGroup, Owner, Places
    <3> QED BY <3>1, <3>2, SeqMonotonic
  <2>2. groups \in [Places -> Seq(AnyGroup(Configurations \cup {None}))]
    BY <2>1 DEF Sound, TreesSound
  <2> QED BY <2>2 DEF Sound, OthersTyped, TypeOK
<1> QED BY <1>1, AlwaysSound, PTL

(***************************************************************************)
(* Every group of a configuration points to it, and a group outside of any *)
(* to none, after any sequence of calls.                                   *)
(***************************************************************************)
THEOREM PointersAlwaysExact == Spec => []PointersExact
<1>1. Sound => PointersExact
  BY PlacedGroup DEF PointersExact, Owner
<1> QED BY <1>1, AlwaysSound, PTL

(***************************************************************************)
(* A configuration that knows its file leaves its contents in it when it   *)
(* is destroyed, if calls that mark nothing are not counted: every other   *)
(* call that changes the contents has marked it.                           *)
(***************************************************************************)
THEOREM ChangesAlwaysSaved ==
    ASSUME ~UnmarkedCount
    PROVE  Spec => ChangesSaved
<1>1. ASSUME Sound, [Next]_vars PROVE [\A c \in Constructed : groups'[c] = <<>> => IsSaved(c)]_vars
  <2> SUFFICES ASSUME NEW c \in Constructed, groups'[c] = <<>> PROVE IsSaved(c)
    OBVIOUS
  <2>1. Destroy(c)
    BY <1>1, SoundStep DEF Stay
  <2>2. CASE "Changed" \in flags[c] /\ named[c]
    BY <2>1, <2>2 DEF Destroy, Write, IsSaved
  <2>3. CASE ~named[c]
    BY <2>3 DEF IsSaved
  <2>4. CASE "Changed" \notin flags[c]
    BY <1>1, <2>4 DEF Sound, ChangesMarked, IsMarked, IsSaved
  <2> QED BY <2>2, <2>3, <2>4
<1> QED BY <1>1, AlwaysSound, PTL DEF Spec, ChangesSaved
=============================================================================
