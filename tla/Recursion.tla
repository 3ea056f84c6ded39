------------------------------- MODULE Recursion -------------------------------
(* Induction and recursion on the natural numbers, for sets and functions: *)
(* no operator is a parameter, so that the lemmas can be cited anywhere.   *)
EXTENDS Integers, WellFoundedInduction, FiniteSetTheorems, TLAPS

\* A set of natural numbers has a least one.
LEMMA LeastElement ==
  ASSUME NEW T, T \subseteq Nat, T # {}
  PROVE  \E x \in T : \A y \in T : x <= y
<1> DEFINE R == {ss \in Nat \X Nat : ss[1] < ss[2]}
<1>1. IsWellFoundedOn(R, Nat)
  BY NatLessThanWellFounded DEF OpToRel
<1>2. \A x, y \in Nat : <<y, x>> \in R <=> y < x
  OBVIOUS
<1> HIDE DEF R
<1>3. PICK x \in T : \A y \in T : ~(<<y, x>> \in R)
  BY <1>1, WFMin
<1>4. ASSUME NEW y \in T PROVE x <= y
  <2>1. x \in Nat /\ y \in Nat /\ ~(y < x)
    BY <1>2, <1>3
  <2>2. QED
    BY <2>1
<1>5. QED
  BY <1>4

\* A set of numbers up to n has a greatest one.
LEMMA GreatestElement ==
  ASSUME NEW n \in Nat, NEW T, T \subseteq 0..n, T # {}
  PROVE  \E x \in T : \A y \in T : y <= x
<1> DEFINE R == {n - x : x \in T}
<1>1. R \subseteq Nat /\ R # {}
  <2>1. ASSUME NEW x \in T PROVE n - x \in Nat
    <3>1. x \in 0..n
      OBVIOUS
    <3>2. QED
      BY <3>1
  <2>2. QED
    BY <2>1
<1>2. PICK r \in R : \A y \in R : r <= y
  <2> HIDE DEF R
  <2>1. QED
    BY <1>1, LeastElement
<1>3. PICK x \in T : r = n - x
  BY <1>2
<1>4. ASSUME NEW y \in T PROVE y <= x
  <2>1. r <= n - y
    BY <1>2
  <2>2. x \in 0..n /\ y \in 0..n
    OBVIOUS
  <2>3. QED
    BY <1>3, <2>1, <2>2
<1>5. QED
  BY <1>4

\* Induction up to n.
LEMMA InductionUpTo ==
  ASSUME NEW n \in Nat, NEW T, 0 \in T, \A i \in 1..n : i - 1 \in T => i \in T
  PROVE  0..n \subseteq T
<1> DEFINE Not == {i \in 0..n : i \notin T}
<1>1. SUFFICES ASSUME Not # {} PROVE FALSE
  OBVIOUS
<1>2. PICK i \in Not : \A j \in Not : i <= j
  <2>1. Not \subseteq Nat
    OBVIOUS
  <2> HIDE DEF Not
  <2>2. QED
    BY <1>1, <2>1, LeastElement
<1>3. i \in 1..n /\ i - 1 \in 0..n
  BY <1>2
<1>4. i - 1 \in T
  BY <1>2, <1>3
<1>5. QED
  BY <1>2, <1>3, <1>4

\* The members of S are each the next of another one.
Circle(S, next) == S # {} /\ {next[x] : x \in S} = S

\* Whoever goes from member to member of a finite set ends on a circle.
LEMMA EndsOnACircle ==
  ASSUME NEW B, IsFiniteSet(B), B # {}, NEW next, \A x \in B : next[x] \in B
  PROVE  \E S \in SUBSET B : Circle(S, next)
<1> DEFINE Closed == {S \in SUBSET B : S # {} /\ \A x \in S : next[x] \in S}
           Sizes == {Cardinality(S) : S \in Closed}
<1>1. \A S \in Closed : IsFiniteSet(S) /\ Cardinality(S) \in Nat
  BY FS_Subset, FS_CardinalityType
<1>2. PICK n \in Sizes : \A m \in Sizes : n <= m
  <2>1. Sizes \subseteq Nat /\ Sizes # {}
    BY <1>1
  <2> HIDE DEF Sizes
  <2>2. QED
    BY <2>1, LeastElement
<1>3. PICK S \in Closed : n = Cardinality(S)
  BY <1>2
<1> DEFINE I == {next[x] : x \in S}
<1>4. I \in Closed /\ I \subseteq S
  OBVIOUS
<1>5. Cardinality(S) <= Cardinality(I)
  BY <1>2, <1>3, <1>4
<1> HIDE DEF Closed, Sizes
<1>6. Cardinality(I) <= Cardinality(S) /\ (Cardinality(I) = Cardinality(S) => I = S)
  BY <1>1, <1>3, <1>4, FS_Subset
<1>7. Cardinality(I) \in Nat /\ Cardinality(S) \in Nat
  BY <1>1, <1>3, <1>4
<1>8. I = S
  BY <1>5, <1>6, <1>7
<1>9. QED
  BY <1>3, <1>8 DEF Closed, Circle

\* b, then step by step the value for i from i and the value before.
Iterates(S, b, n, step) ==
  \E f \in [0..n -> S] : f[0] = b /\ \A i \in 1..n : f[i] = step[<<i, f[i-1]>>]

\* A function that is given by its first value and by each value from the one before.
LEMMA RecursiveFunction ==
  ASSUME NEW S, NEW b \in S, NEW n \in Nat, NEW step \in [(1..n) \X S -> S]
  PROVE  Iterates(S, b, n, step)
<1> DEFINE Fits(f, k) == f[0] = b /\ \A i \in 1..k : f[i] = step[<<i, f[i-1]>>]
           T == {k \in 0..n : \E f \in [0..k -> S] : Fits(f, k)}
<1>1. 0 \in T
  <2> DEFINE f == [i \in 0..0 |-> b]
  <2>1. f \in [0..0 -> S] /\ Fits(f, 0)
    OBVIOUS
  <2> HIDE DEF f
  <2>2. \E g \in [0..0 -> S] : Fits(g, 0)
    BY <2>1
  <2>3. 0 \in 0..n
    OBVIOUS
  <2> HIDE DEF Fits
  <2>4. QED
    BY <2>2, <2>3
<1>2. ASSUME NEW k \in 1..n, k - 1 \in T PROVE k \in T
  <2>1. PICK f \in [0..k-1 -> S] : Fits(f, k-1)
    BY <1>2
  <2> DEFINE v == step[<<k, f[k-1]>>]
             g == [i \in 0..k |-> IF i < k THEN f[i] ELSE v]
  <2>2. f[k-1] \in S /\ v \in S
    <3>1. k - 1 \in 0..k-1
      OBVIOUS
    <3>2. f[k-1] \in S
      BY <3>1
    <3>3. QED
      BY <3>2
  <2>3. g \in [0..k -> S]
    BY <2>2
  <2>4. /\ g[k] = v /\ g[0] = f[0]
        /\ \A i \in 0..k-1 : g[i] = f[i]
    OBVIOUS
  <2> HIDE DEF g
  <2>5. \A i \in 1..k : g[i] = step[<<i, g[i-1]>>]
    <3> TAKE i \in 1..k
    <3>1. CASE i = k
      BY <2>4, <3>1
    <3>2. CASE i # k
      <4>1. i \in 1..k-1 /\ i \in 0..k-1 /\ i-1 \in 0..k-1
        BY <3>2
      <4>2. f[i] = step[<<i, f[i-1]>>]
        BY <2>1, <4>1
      <4>3. QED
        BY <2>4, <4>1, <4>2
    <3>3. QED
      BY <3>1, <3>2
  <2>6. Fits(g, k)
    BY <2>1, <2>4, <2>5
  <2>7. QED
    BY <2>3, <2>6
<1> HIDE DEF T
<1>3. n \in T
  <2>1. 0..n \subseteq T
    BY <1>1, <1>2, InductionUpTo
  <2>2. QED
    BY <2>1
<1>4. QED
  BY <1>3 DEF T, Iterates
================================================================================
