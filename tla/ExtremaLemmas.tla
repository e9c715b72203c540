---------------------------- MODULE ExtremaLemmas ----------------------------
(***************************************************************************)
(* Least and greatest elements of sets of natural numbers.  The provers    *)
(* cannot use a rule of induction, which is about every predicate; that a  *)
(* set has a least element says as much, and is about one set.             *)
(***************************************************************************)
EXTENDS Integers, FiniteSetsExt, FiniteSetTheorems, WellFoundedInduction, TLAPS

\* A set of numbers has a least element: the interval from 0 to it is a minimal
\* one among the intervals from 0 to an element.
LEMMA LeastElement ==
  ASSUME NEW S, S \subseteq Nat, S # {}
  PROVE \E m \in S : \A k \in S : m <= k
<1> DEFINE Intervals == {0..m : m \in S}
<1>1. \A m \in Nat : IsFiniteSet(0..m)
  BY FS_Interval
<1>2. Intervals \subseteq FiniteSubsetsOf(Nat)
  BY <1>1 DEF FiniteSubsetsOf
<1>a. Intervals # {} OBVIOUS
<1> HIDE DEF Intervals
<1>3. PICK x \in Intervals :
           \A y \in Intervals : ~ (<<y, x>> \in StrictSubsetOrdering(Nat))
  BY <1>2, <1>a, FS_StrictSubsetOrderingWellFounded, WFMin
<1>4. PICK m \in S : x = 0..m
  BY DEF Intervals
<1>5. ASSUME NEW k \in S, k < m PROVE FALSE
  <2>1. 0..k \in Intervals BY DEF Intervals
  <2>2. 0..k \subseteq 0..m /\ 0..k # 0..m
    BY <1>5
  <2>3. <<0..k, 0..m>> \in StrictSubsetOrdering(Nat)
    BY <2>1, <2>2 DEF StrictSubsetOrdering
  <2> QED BY <2>1, <2>3, <1>3, <1>4
<1> QED BY <1>5

LEMMA MinIsLeast ==
  ASSUME NEW S, S \subseteq Nat, S # {}
  PROVE Min(S) \in S /\ \A k \in S : Min(S) <= k
  BY LeastElement DEF Min

LEMMA GreatestElement ==
  ASSUME NEW n \in Nat, NEW S, S \subseteq 0..n, S # {}
  PROVE \E m \in S : \A k \in S : k <= m
<1> DEFINE T == {n - k : k \in S}
<1>1. \A k \in S : n - k \in Nat OBVIOUS
<1>a. T \subseteq Nat BY <1>1
<1>b. T # {} OBVIOUS
<1>2. \A k \in S : n - k \in T OBVIOUS
<1>3. \A l \in T : \E k \in S : l = n - k OBVIOUS
<1> HIDE DEF T
<1>4. PICK l \in T : \A j \in T : l <= j
  BY <1>a, <1>b, LeastElement
<1>5. PICK m \in S : l = n - m BY <1>3
<1>6. ASSUME NEW k \in S PROVE k <= m
  <2>1. l <= n - k BY <1>2, <1>4
  <2>2. k \in Int /\ m \in Int /\ n - m <= n - k BY <2>1, <1>5
  <2> QED BY <2>2
<1> QED BY <1>6

LEMMA MaxIsGreatest ==
  ASSUME NEW n \in Nat, NEW S, S \subseteq 0..n, S # {}
  PROVE Max(S) \in S /\ \A k \in S : k <= Max(S)
<1>1. PICK m \in S : \A k \in S : k <= m
  BY GreatestElement
<1>2. \A k \in S : m >= k BY <1>1
<1>3. Max(S) \in S /\ \A k \in S : Max(S) >= k BY <1>2 DEF Max
<1> QED BY <1>3

\* The last element of a set below n is the greatest: what to cite to replace Max
\* by a known element.
LEMMA MaxIs ==
  ASSUME NEW n \in Nat, NEW S, S \subseteq 0..n, NEW m \in S, \A k \in S : k <= m
  PROVE Max(S) = m
<1>1. Max(S) \in S /\ \A k \in S : k <= Max(S)
  BY MaxIsGreatest
<1>2. Max(S) <= m /\ m <= Max(S) BY <1>1
<1>3. Max(S) \in 0..n /\ m \in 0..n BY <1>1
<1> QED BY <1>2, <1>3
=============================================================================
