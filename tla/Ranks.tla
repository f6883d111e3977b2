---------------------------------- MODULE Ranks ---------------------------------
(***************************************************************************)
(* Finite sets of numbers in their order, and a sequence with one more     *)
(* element: what the proofs about sorted lists of routes rest on.          *)
(***************************************************************************)
EXTENDS Naturals, Sequences, FiniteSets, FiniteSetTheorems, TLAPS

\* How many elements of S come before x.
Rank(S, x) == Cardinality({y \in S : y < x})

\* Ranks are below the size of the set.
LEMMA RankBound ==
    ASSUME NEW S \in SUBSET Nat, IsFiniteSet(S), NEW x \in S
    PROVE  Rank(S, x) \in 0..Cardinality(S) - 1 /\ Cardinality(S) \in Nat
<1> DEFINE A == {y \in S : y < x}
<1>1. A \in SUBSET S /\ A # S
  <2>1. ~(x < x)
    OBVIOUS
  <2> QED
    BY <2>1
<1>2. IsFiniteSet(A) /\ Cardinality(A) <= Cardinality(S) /\ Cardinality(A) # Cardinality(S)
  BY <1>1, FS_Subset
<1>3. Cardinality(A) \in Nat /\ Cardinality(S) \in Nat
  BY <1>2, FS_CardinalityType
<1>4. Rank(S, x) = Cardinality(A)
  BY DEF Rank
<1> HIDE DEF A
<1> QED
  BY <1>2, <1>3, <1>4

\* What comes later has a greater rank.
LEMMA RankMonotone ==
    ASSUME NEW S \in SUBSET Nat, IsFiniteSet(S), NEW x \in S, NEW y \in S, x < y
    PROVE  Rank(S, x) < Rank(S, y)
<1> DEFINE A == {z \in S : z < x}
           B == {z \in S : z < y}
<1>1. A \in SUBSET B /\ x \in B /\ x \notin A /\ B \in SUBSET S
  <2>1. x \in Nat /\ y \in Nat /\ \A z \in S : z \in Nat
    OBVIOUS
  <2>2. ~(x < x) /\ \A z \in S : z < x => z < y
    BY <2>1
  <2> QED
    BY <2>2
<1>2. IsFiniteSet(B)
  BY <1>1, FS_Subset
<1>3. IsFiniteSet(A) /\ Cardinality(A) <= Cardinality(B) /\ Cardinality(A) # Cardinality(B)
  BY <1>1, <1>2, FS_Subset
<1>4. Cardinality(A) \in Nat /\ Cardinality(B) \in Nat
  BY <1>2, <1>3, FS_CardinalityType
<1>5. Rank(S, x) = Cardinality(A) /\ Rank(S, y) = Cardinality(B)
  BY DEF Rank
<1> HIDE DEF A, B
<1> QED
  BY <1>3, <1>4, <1>5

\* Every rank below the size of the set is taken: ranks differ, so there are
\* as many of them as elements.
LEMMA RankOnto ==
    ASSUME NEW S \in SUBSET Nat, IsFiniteSet(S), NEW i \in 1..Cardinality(S)
    PROVE  \E x \in S : Rank(S, x) = i - 1
<1> DEFINE n == Cardinality(S)
           T == 0..n - 1
           f == [x \in S |-> Rank(S, x)]
<1>1. n \in Nat
  BY FS_CardinalityType
<1>2. f \in [S -> T]
  BY RankBound
<1>3. ASSUME NEW x \in S, NEW y \in S, f[x] = f[y]
      PROVE  x = y
  <2>1. Rank(S, x) = Rank(S, y) /\ Rank(S, x) \in Nat
    BY <1>3, RankBound
  <2>2. ~(x < y) /\ ~(y < x)
    BY <2>1, RankMonotone
  <2>3. x \in Nat /\ y \in Nat
    OBVIOUS
  <2> QED
    BY <2>2, <2>3
<1>4. f \in Injection(S, T)
  BY <1>2, <1>3 DEF Injection, IsInjective
<1>5. IsFiniteSet(T) /\ Cardinality(T) = n
  <2>1. 0 \in Int /\ n - 1 \in Int /\ (IF 0 > n - 1 THEN 0 ELSE n - 1 - 0 + 1) = n
    BY <1>1
  <2>2. IsFiniteSet(0..n - 1) /\ Cardinality(0..n - 1) = IF 0 > n - 1 THEN 0 ELSE n - 1 - 0 + 1
    <3> HIDE DEF n, T, f
    <3> QED
      BY <2>1, FS_Interval
  <2> QED
    BY <2>1, <2>2
<1>6. f \in Surjection(S, T)
  <2> HIDE DEF T, f
  <2> QED
    BY <1>4, <1>5, FS_Injection
<1>7. i - 1 \in T
  BY <1>1
<1> QED
  BY <1>6, <1>7 DEF Surjection

\* The element of rank 0 is the least.
LEMMA Least ==
    ASSUME NEW S \in SUBSET Nat, IsFiniteSet(S), S # {}
    PROVE  \E x \in S : \A y \in S : x <= y
<1>1. Cardinality(S) \in Nat /\ Cardinality(S) # 0
  BY FS_CardinalityType, FS_EmptySet
<1>2. PICK x \in S : Rank(S, x) = 1 - 1
  <2>1. 1 \in 1..Cardinality(S)
    BY <1>1
  <2> QED
    BY <2>1, RankOnto
<1> DEFINE A == {y \in S : y < x}
<1>3. A = {}
  <2>1. A \in SUBSET S /\ Cardinality(A) = 0
    BY <1>2 DEF Rank
  <2> HIDE DEF A
  <2>2. IsFiniteSet(A)
    BY <2>1, FS_Subset
  <2> QED
    BY <2>1, <2>2, FS_EmptySet
<1> QED
  BY <1>3

\* One more at the end of a sequence.
LEMMA OneMore ==
    ASSUME NEW R, NEW n \in Nat, NEW a \in [1..n -> R], NEW e \in R
    PROVE  /\ a \o <<e>> \in Seq(R) /\ Len(a \o <<e>>) = n + 1 /\ DOMAIN (a \o <<e>>) = 1..n + 1
           /\ \A i \in 1..n : (a \o <<e>>)[i] = a[i]
           /\ (a \o <<e>>)[n + 1] = e
<1>1. a \in Seq(R) /\ Len(a) = n
  OBVIOUS
<1> QED
  BY <1>1
=================================================================================
