----------------------------- MODULE FiniteOrder -----------------------------
(* Least and greatest elements of sets of numbers, for the proofs about the *)
(* components that take one: finite sets have both, sets of naturals a least; *)
(* and the image of a finite set.                                           *)
EXTENDS Integers, FiniteSets, FiniteSetsExt, FiniteSetTheorems, WellFoundedInduction, TLAPS

(* Among finitely many subsets of a set, one is minimal. *)
LEMMA MinimalSubset ==
  ASSUME NEW S, IsFiniteSet(S), NEW Family, \A B \in Family : B \subseteq S, Family # {}
  PROVE  \E B \in Family : \A C \in Family : C \subseteq B => C = B
<1>1. Family \subseteq FiniteSubsetsOf(S)
  BY FS_FiniteSubsetsOfFinite
<1>2. PICK B \in Family : \A C \in Family : ~(<<C, B>> \in StrictSubsetOrdering(S))
  BY <1>1, FS_StrictSubsetOrderingWellFounded, WFMin
<1> QED
  BY <1>2 DEF StrictSubsetOrdering

LEMMA FiniteMin ==
  ASSUME NEW S \in SUBSET Int, S # {}, IsFiniteSet(S)
  PROVE  Min(S) \in S /\ \A y \in S : Min(S) <= y
<1> DEFINE Cut(z) == {y \in S : y <= z}
           Family == {Cut(z) : z \in S}
<1>1. PICK B \in Family : \A C \in Family : C \subseteq B => C = B
  <2>1. Family # {} /\ \A B \in Family : B \subseteq S
    OBVIOUS
  <2> HIDE DEF Family
  <2> QED
    BY <2>1, MinimalSubset
<1>2. PICK x \in S : B = Cut(x)
  OBVIOUS
<1>3. ASSUME NEW z \in S, z < x PROVE FALSE
  <2>1. \A y \in S : y \in Int
    OBVIOUS
  <2>2. (\A y \in S : y <= z => y <= x) /\ x <= x /\ ~(x <= z)
    BY <1>3, <2>1
  <2>3. Cut(z) \subseteq Cut(x) /\ x \in Cut(x) /\ x \notin Cut(z)
    BY <2>2
  <2>4. Cut(z) \in Family
    OBVIOUS
  <2> HIDE DEF Cut, Family
  <2> QED
    BY <1>1, <1>2, <2>3, <2>4
<1>4. \A y \in S : x <= y
  BY <1>3
<1> QED
  BY <1>4 DEF Min

LEMMA FiniteMax ==
  ASSUME NEW S \in SUBSET Int, S # {}, IsFiniteSet(S)
  PROVE  Max(S) \in S /\ \A y \in S : Max(S) >= y
<1> DEFINE Cut(z) == {y \in S : y >= z}
           Family == {Cut(z) : z \in S}
<1>1. PICK B \in Family : \A C \in Family : C \subseteq B => C = B
  <2>1. Family # {} /\ \A B \in Family : B \subseteq S
    OBVIOUS
  <2> HIDE DEF Family
  <2> QED
    BY <2>1, MinimalSubset
<1>2. PICK x \in S : B = Cut(x)
  OBVIOUS
<1>3. ASSUME NEW z \in S, z > x PROVE FALSE
  <2>1. \A y \in S : y \in Int
    OBVIOUS
  <2>2. (\A y \in S : y >= z => y >= x) /\ x >= x /\ ~(x >= z)
    BY <1>3, <2>1
  <2>3. Cut(z) \subseteq Cut(x) /\ x \in Cut(x) /\ x \notin Cut(z)
    BY <2>2
  <2>4. Cut(z) \in Family
    OBVIOUS
  <2> HIDE DEF Cut, Family
  <2> QED
    BY <1>1, <1>2, <2>3, <2>4
<1>4. \A y \in S : x >= y
  BY <1>3
<1> QED
  BY <1>4 DEF Max

LEMMA NatMin ==
  ASSUME NEW S \in SUBSET Nat, S # {}
  PROVE  Min(S) \in S /\ \A y \in S : Min(S) <= y
<1>1. PICK n \in S : TRUE
  OBVIOUS
<1> DEFINE T == S \cap 0..n
<1>2. T \in SUBSET Int /\ T # {} /\ IsFiniteSet(T)
  <2>1. n \in Nat /\ n \in 0..n /\ 0 \in Int /\ n \in Int
    BY <1>1
  <2>2. IsFiniteSet(0..n)
    BY <2>1, FS_Interval
  <2> QED
    BY <1>1, <2>1, <2>2, FS_Subset
<1>3. Min(T) \in T /\ \A y \in T : Min(T) <= y
  BY <1>2, FiniteMin
<1>4. ASSUME NEW y \in S PROVE Min(T) <= y
  <2>1. y \in Nat /\ n \in Nat /\ Min(T) \in Nat /\ Min(T) <= n
    BY <1>1, <1>3
  <2>2. CASE y <= n
    BY <1>3, <2>1, <2>2
  <2>3. CASE ~(y <= n)
    BY <2>1, <2>3
  <2> QED
    BY <2>2, <2>3
<1> QED
  BY <1>3, <1>4 DEF Min

LEMMA FiniteImage ==
  ASSUME NEW S, IsFiniteSet(S), NEW f, DOMAIN f = S, f = [x \in S |-> f[x]]
  PROVE  IsFiniteSet({f[x] : x \in S}) /\ Cardinality({f[x] : x \in S}) <= Cardinality(S)
<1> DEFINE T == {f[x] : x \in S}
<1>1. f \in Surjection(S, T)
  <2>1. f \in [S -> T] /\ \A t \in T : \E x \in S : f[x] = t
    OBVIOUS
  <2> HIDE DEF T
  <2> QED
    BY <2>1 DEF Surjection
<1> HIDE DEF T
<1>2. IsFiniteSet(T) /\ Cardinality(T) <= Cardinality(S)
  BY <1>1, FS_Surjection
<1> QED
  BY <1>2 DEF T

LEMMA LeastOfTwo ==
  ASSUME NEW a \in Int, NEW b \in Int
  PROVE  Min({a, b}) \in {a, b} /\ Min({a, b}) <= a /\ Min({a, b}) <= b
<1>1. IsFiniteSet({a, b})
  <2>1. IsFiniteSet({a}) /\ {a, b} = {a} \cup {b}
    BY FS_Singleton
  <2> QED
    BY <2>1, FS_AddElement
<1> QED
  BY <1>1, FiniteMin
==============================================================================
