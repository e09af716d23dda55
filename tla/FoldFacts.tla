----------------------------- MODULE FoldFacts -----------------------------
(***************************************************************************)
(* What a fold from the left does, when each of its steps keeps something: *)
(* FoldLeft() is defined by a recursion over sets of indices, for any      *)
(* operator.  Op(c, acc, x) is a step with the accumulator and the next    *)
(* element; Holds(c, acc, k) is what should hold after k steps; c is       *)
(* whatever both depend on, so that one instance serves every fold of the  *)
(* kind.                                                                   *)
(***************************************************************************)
EXTENDS Sequences, Folds, WellFoundedInduction, TLAPS

CONSTANTS
    Op(_, _, _),        \* a step: what c, the accumulator and an element give
    Holds(_, _, _)      \* of c, the accumulator and the number of steps done

-----------------------------------------------------------------------------
\* Max and FoldLeft are those of FiniteSetsExt and SequencesExt, all of which
\* would otherwise be in every instance.

Max(S) == CHOOSE x \in S : \A y \in S : x >= y

FoldLeft(op(_, _), base, seq) ==
    MapThenFoldSet(LAMBDA x, y : op(y, x), base, LAMBDA i : seq[i], LAMBDA S : Max(S), DOMAIN seq)

\* Induction up to n, for a set: the prover takes no operator as a fact's parameter.
LEMMA FromZero ==
    ASSUME NEW n \in Nat, NEW S, 0 \in S, \A i \in 1 .. n : i - 1 \in S => i \in S
    PROVE  \A i \in 0 .. n : i \in S
<1> DEFINE T == {i \in 0 .. n : i \notin S}
           R == OpToRel(<, Nat)
<1> SUFFICES ASSUME T # {} PROVE FALSE
  OBVIOUS
<1>1. IsWellFoundedOn(R, Nat)
  BY NatLessThanWellFounded
<1>2. \A i, j \in Nat : i < j => <<i, j>> \in R
  BY DEF OpToRel
<1>3. T \subseteq Nat
  OBVIOUS
<1> HIDE DEF R
<1>4. PICK i \in T : \A j \in T : ~(<<j, i>> \in R)
  BY <1>1, <1>3, WFMin
<1>5. i \in 1 .. n /\ i - 1 \in 0 .. n /\ i - 1 < i
  BY <1>4
<1>6. i - 1 \in S
  <2>1. i \in Nat /\ i - 1 \in Nat
    BY <1>5
  <2>2. <<i - 1, i>> \in R
    BY <1>2, <1>5, <2>1
  <2>3. i - 1 \notin T
    BY <1>4, <2>2
  <2> QED BY <1>5, <2>3
<1> QED BY <1>4, <1>5, <1>6

\* The largest index of those up to n.
LEMMA MaxOf ==
    ASSUME NEW n \in Nat, NEW T \in SUBSET (1 .. n), n \in T
    PROVE  Max(T) = n
<1>1. \A x \in T : (\A y \in T : x >= y) <=> x = n
  OBVIOUS
<1> QED BY <1>1 DEF Max

\* What the fold looks up for a set of indices.
Folded(c, f, T, base, s) == IF T = {} THEN base ELSE Op(c, f[T \ {Max(T)}], s[Max(T)])

\* A function that looks up what it is itself.
Folding(c, f, n, base, s) ==
    /\ f = [T \in SUBSET (1 .. n) |-> f[T]]
    /\ \A T \in SUBSET (1 .. n) : f[T] = Folded(c, f, T, base, s)

\* The recursion of FoldLeft() over the indices up to n has a solution.
LEMMA FoldExists ==
    ASSUME NEW c, NEW n \in Nat, NEW base, NEW s
    PROVE  \E f : Folding(c, f, n, base, s)
<1> DEFINE P(k) == \E f : Folding(c, f, k, base, s)
<1>1. P(0)
  <2> DEFINE f == [T \in SUBSET (1 .. 0) |-> base]
  <2>1. SUBSET (1 .. 0) = {{}}
    OBVIOUS
  <2>2. \A T \in SUBSET (1 .. 0) : Folded(c, f, T, base, s) = base
    BY <2>1 DEF Folded
  <2>3. f = [T \in SUBSET (1 .. 0) |-> f[T]] /\ \A T \in SUBSET (1 .. 0) : f[T] = base
    OBVIOUS
  <2> HIDE DEF f
  <2> QED BY <2>2, <2>3 DEF Folding
<1>2. ASSUME NEW k \in 1 .. n, P(k - 1) PROVE P(k)
  <2>1. PICK f : \A T \in SUBSET (1 .. k - 1) : f[T] = Folded(c, f, T, base, s)
    BY <1>2 DEF Folding
  <2> DEFINE g == [T \in SUBSET (1 .. k) |-> IF k \in T THEN Op(c, f[T \ {k}], s[k]) ELSE f[T]]
  <2>2. \A T \in SUBSET (1 .. k) : k \notin T <=> T \in SUBSET (1 .. k - 1)
    OBVIOUS
  <2>3. \A T \in SUBSET (1 .. k - 1) : g[T] = f[T]
    BY <2>2
  <2>4. ASSUME NEW T \in SUBSET (1 .. k) PROVE g[T] = Folded(c, g, T, base, s)
    <3>1. CASE k \in T
      <4>1. Max(T) = k /\ T # {}
        BY <3>1, MaxOf
      <4>2. T \ {k} \in SUBSET (1 .. k - 1)
        OBVIOUS
      <4>3. g[T \ {k}] = f[T \ {k}] /\ g[T] = Op(c, f[T \ {k}], s[k])
        BY <2>3, <3>1, <4>2
      <4> QED BY <4>1, <4>3 DEF Folded
    <3>2. CASE k \notin T
      <4>1. T \in SUBSET (1 .. k - 1) /\ T \ {Max(T)} \in SUBSET (1 .. k - 1)
        BY <2>2, <3>2
      <4>2. g[T] = f[T] /\ g[T \ {Max(T)}] = f[T \ {Max(T)}]
        BY <2>3, <4>1
      <4>3. f[T] = Folded(c, f, T, base, s)
        BY <2>1, <4>1
      <4> QED BY <4>2, <4>3 DEF Folded
    <3> QED BY <3>1, <3>2
  <2> HIDE DEF g
  <2>5. g = [T \in SUBSET (1 .. k) |-> g[T]]
    BY DEF g
  <2> QED BY <2>4, <2>5 DEF Folding
<1> HIDE DEF P
<1> DEFINE S == {k \in 0 .. n : P(k)}
<1>3. 0 \in S
  BY <1>1
<1>4. \A k \in 1 .. n : k - 1 \in S => k \in S
  BY <1>2
<1> HIDE DEF S
<1>5. \A k \in 0 .. n : k \in S
  BY <1>3, <1>4, FromZero
<1>6. P(n)
  BY <1>5 DEF S
<1> QED BY <1>6 DEF P

-----------------------------------------------------------------------------

\* The fold that FoldFacts is about.
Fold(c, base, s) == FoldLeft(LAMBDA acc, x : Op(c, acc, x), base, s)

\* g has what there is after each step.
Steps(c, g, n, base, s) == g[0] = base /\ \A k \in 1 .. n : g[k] = Op(c, g[k - 1], s[k])

\* A fold goes through the sequence from the front.
LEMMA FoldSolved ==
    ASSUME NEW c, NEW n \in Nat, NEW s, DOMAIN s = 1 .. n, NEW base
    PROVE  \E g : Steps(c, g, n, base, s) /\ Fold(c, base, s) = g[n]
<1>0. PICK g : Folding(c, g, n, base, s)
  BY FoldExists
<1> DEFINE F(f) == [T \in SUBSET (1 .. n) |-> IF T = {} THEN base ELSE Op(c, f[T \ {Max(T)}], s[Max(T)])]
           f == CHOOSE f : f = F(f)
<1>1. f = F(f)
  <2>2. \A T \in SUBSET (1 .. n) : g[T] = IF T = {} THEN base ELSE Op(c, g[T \ {Max(T)}], s[Max(T)])
    BY <1>0 DEF Folding, Folded
  <2>3. g = F(g)
    BY <1>0, <2>2 DEF Folding
  <2> HIDE DEF F
  <2> QED BY <2>3
<1>2. Fold(c, base, s) = f[1 .. n]
  BY DEF Fold, FoldLeft, MapThenFoldSet
<1> HIDE DEF f
<1>3. f[1 .. 0] = base
  BY <1>1
<1>4. \A k \in 1 .. n : f[1 .. k] = Op(c, f[1 .. k - 1], s[k])
  <2> TAKE k \in 1 .. n
  <2>1. 1 .. k \in SUBSET (1 .. n) /\ 1 .. k # {} /\ (1 .. k) \ {k} = 1 .. k - 1
    OBVIOUS
  <2>2. Max(1 .. k) = k
    BY MaxOf
  <2> QED BY <1>1, <2>1, <2>2
<1>10. PICK h : h = [k \in 0 .. n |-> f[1 .. k]]
  OBVIOUS
<1>5. h[0] = base /\ h[n] = f[1 .. n]
  BY <1>3, <1>10
<1>6. \A k \in 1 .. n : h[k] = Op(c, h[k - 1], s[k])
  <2> TAKE k \in 1 .. n
  <2>1. h[k] = f[1 .. k] /\ h[k - 1] = f[1 .. k - 1]
    BY <1>10
  <2> QED BY <1>4, <2>1
<1>7. Fold(c, base, s) = h[n]
  BY <1>2, <1>5
<1>8. Steps(c, h, n, base, s)
  BY <1>5, <1>6 DEF Steps
<1> QED BY <1>7, <1>8

\* One more element is one more step.
LEMMA FoldNext ==
    ASSUME NEW c, NEW n \in Nat, NEW s, DOMAIN s = 1 .. n, NEW base,
           NEW t, DOMAIN t = 1 .. n + 1, \A k \in 1 .. n : t[k] = s[k]
    PROVE  Fold(c, base, t) = Op(c, Fold(c, base, s), t[n + 1])
<1>1. PICK g : Steps(c, g, n, base, s) /\ Fold(c, base, s) = g[n]
  BY FoldSolved
<1>2. n + 1 \in Nat
  OBVIOUS
<1>3. PICK h : Steps(c, h, n + 1, base, t) /\ Fold(c, base, t) = h[n + 1]
  BY <1>2, FoldSolved
<1> DEFINE S == {k \in 0 .. n : h[k] = g[k]}
<1>4. 0 \in S
  BY <1>1, <1>3 DEF Steps
<1>5. \A k \in 1 .. n : k - 1 \in S => k \in S
  <2> TAKE k \in 1 .. n
  <2>1. k \in 1 .. n + 1 /\ t[k] = s[k]
    OBVIOUS
  <2>2. h[k] = Op(c, h[k - 1], s[k]) /\ g[k] = Op(c, g[k - 1], s[k])
    BY <1>1, <1>3, <2>1 DEF Steps
  <2> QED BY <2>2
<1> HIDE DEF S
<1>6. n \in S
  BY <1>4, <1>5, FromZero
<1>7. h[n] = g[n]
  BY <1>6 DEF S
<1>8. n + 1 \in 1 .. n + 1 /\ (n + 1) - 1 = n
  OBVIOUS
<1>9. h[n + 1] = Op(c, h[n], t[n + 1])
  BY <1>3, <1>8 DEF Steps
<1> QED BY <1>1, <1>3, <1>7, <1>9

(***************************************************************************)
(* What holds of the base and is kept by every step holds of the fold of a *)
(* sequence, after as many steps as it has elements.  The loops of the     *)
(* growable array are such folds (arrayDestruct(), arrayCopyConstruct(),   *)
(* arrayShiftForward(), arrayShiftBackward()).                             *)
(***************************************************************************)
THEOREM FoldInvariant ==
    ASSUME NEW c, NEW n \in Nat, NEW s, DOMAIN s = 1 .. n, NEW base,
           Holds(c, base, 0),
           \A k \in 1 .. n : \A acc : Holds(c, acc, k - 1) => Holds(c, Op(c, acc, s[k]), k)
    PROVE  Holds(c, Fold(c, base, s), n)
<1>1. PICK g : Steps(c, g, n, base, s) /\ Fold(c, base, s) = g[n]
  BY FoldSolved
<1> DEFINE S == {k \in 0 .. n : Holds(c, g[k], k)}
<1>2. 0 \in S
  BY <1>1 DEF Steps
<1>3. \A k \in 1 .. n : k - 1 \in S => k \in S
  BY <1>1 DEF Steps
<1> HIDE DEF S
<1>4. n \in S
  BY <1>2, <1>3, FromZero
<1> QED BY <1>1, <1>4 DEF S
=============================================================================
