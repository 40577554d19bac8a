---------------------------- MODULE NumberLemmas ----------------------------
(***************************************************************************)
(* The greatest of finitely many numbers, the least of any naturals, and   *)
(* induction with a set for the predicate: the lemmas that the proofs      *)
(* about counters, places and sums have in common.                         *)
(***************************************************************************)
EXTENDS Integers, FiniteSetTheorems, WellFoundedInduction, TLAPS

\* A finite set of numbers that is not empty has a greatest one: of its upper parts,
\* ordered by inclusion, one is minimal.
LEMMA GreatestExists ==
  ASSUME NEW S \in SUBSET Int, S # {}, IsFiniteSet(S)
  PROVE  \E x \in S : \A y \in S : x >= y
<1> DEFINE Upper(x) == {y \in S : y >= x}
           T == {Upper(x) : x \in S}
<1>1. T \subseteq FiniteSubsetsOf(S)
  BY FS_Subset DEF FiniteSubsetsOf
<1>2. T # {}
  OBVIOUS
<1>3. \E u \in T : \A v \in T : ~ (<<v, u>> \in StrictSubsetOrdering(S))
  <2> HIDE DEF T
  <2>1. IsWellFoundedOn(StrictSubsetOrdering(S), FiniteSubsetsOf(S))
    BY FS_StrictSubsetOrderingWellFounded
  <2> QED
    BY <1>1, <1>2, <2>1, WFMin
<1>4. PICK x \in S : \A v \in T : ~ (<<v, Upper(x)>> \in StrictSubsetOrdering(S))
  BY <1>3
<1>5. \A y \in S : x >= y
  <2> SUFFICES ASSUME NEW y \in S, ~ (x >= y) PROVE FALSE
    OBVIOUS
  <2>1. x \in Int /\ y \in Int /\ y > x /\ S \subseteq Int
    OBVIOUS
  <2>2. \A z \in S : z >= y => z >= x
    BY <2>1
  <2>3. Upper(y) \subseteq Upper(x)
    BY <2>2
  <2>4. x \in Upper(x) /\ x \notin Upper(y)
    BY <2>1
  <2>5. Upper(x) \subseteq S /\ Upper(y) \subseteq S /\ Upper(y) # Upper(x)
    BY <2>4
  <2>6. <<Upper(y), Upper(x)>> \in StrictSubsetOrdering(S)
    <3> HIDE DEF Upper
    <3> QED
      BY <2>3, <2>5 DEF StrictSubsetOrdering
  <2> QED
    BY <1>4, <2>6
<1> QED
  BY <1>5

\* A set of naturals that is not empty has a least one: the greatest of the negatives
\* of those up to any member.
LEMMA LeastExists ==
  ASSUME NEW S \in SUBSET Nat, S # {}
  PROVE  \E x \in S : \A y \in S : x <= y
<1>1. PICK k \in S : TRUE
  OBVIOUS
<1> DEFINE Negated == {i \in (0 - k)..0 : (0 - i) \in S}
<1>2. k \in Nat /\ S \subseteq Nat
  OBVIOUS
<1>3. IsFiniteSet(Negated)
  <2>1. IsFiniteSet((0 - k)..0)
    BY <1>2, FS_Interval
  <2> QED
    BY <2>1, FS_Subset
<1>4. Negated \in SUBSET Int /\ (0 - k) \in Negated
  BY <1>2
<1>5. PICK i \in Negated : \A j \in Negated : i >= j
  <2> HIDE DEF Negated
  <2> QED
    BY <1>3, <1>4, GreatestExists
<1>6. ASSUME NEW y \in S PROVE 0 - i <= y
  <2>1. y \in Nat /\ i \in Int /\ i >= 0 - k
    BY <1>2
  <2>2. CASE y > k
    BY <1>2, <2>1, <2>2
  <2>3. CASE y <= k
    <3>1. (0 - y) \in Negated
      BY <1>2, <2>1, <2>3
    <3> QED
      BY <1>5, <2>1, <3>1
  <2> QED
    BY <1>2, <2>1, <2>2, <2>3
<1> QED
  BY <1>6

\* Induction over the naturals: the least one outside a set that is closed under
\* successor can be neither 0 nor a successor.
LEMMA Induction ==
  ASSUME NEW S, 0 \in S, \A n \in Nat : n \in S => n + 1 \in S
  PROVE  Nat \subseteq S
<1> DEFINE Outside == Nat \ S
<1> SUFFICES ASSUME Outside # {} PROVE FALSE
  OBVIOUS
<1>1. PICK x \in Outside : \A y \in Outside : x <= y
  BY LeastExists
<1>2. x \in Nat /\ x # 0 /\ x \notin S
  OBVIOUS
<1>3. x - 1 \in Nat /\ x - 1 < x /\ (x - 1) + 1 = x
  BY <1>2
<1>4. x - 1 \in S
  BY <1>1, <1>3
<1> QED
  BY <1>2, <1>3, <1>4

=============================================================================
