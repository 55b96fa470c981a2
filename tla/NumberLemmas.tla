----------------------------- MODULE NumberLemmas -----------------------------
(***************************************************************************)
(* Sets of numbers: a smallest element, a greatest one, and induction, from *)
(* the theorem of the library that a well-founded order has minimal        *)
(* elements.                                                               *)
(***************************************************************************)
EXTENDS Naturals, FiniteSetsExt, WellFoundedInduction, TLAPS

\* A set of numbers with an element has a smallest.
LEMMA Smallest ==
    ASSUME NEW T \in SUBSET Nat, T # {}
    PROVE  \E n \in T : \A m \in T : n <= m
<1> DEFINE R == OpToRel(<, Nat)
<1>1. IsWellFoundedOn(R, Nat)
    BY NatLessThanWellFounded, Zenon
<1>2. \A m, n \in Nat : m < n => <<m, n>> \in R
    BY DEF OpToRel
<1> HIDE DEF R
<1>3. PICK n \in T : \A m \in T : ~ (<<m, n>> \in R)
    BY <1>1, WFMin
<1>4. ASSUME NEW m \in T PROVE n <= m
    <2>1. m \in Nat /\ n \in Nat
        OBVIOUS
    <2>2. ~(m < n)
        BY <1>2, <1>3, <2>1
    <2> QED BY <2>1, <2>2
<1> QED BY <1>4

\* Induction, of a set.
LEMMA SetInduction ==
    ASSUME NEW S \in SUBSET Nat, 0 \in S, \A n \in Nat : n \in S => n + 1 \in S
    PROVE  S = Nat
<1> SUFFICES ASSUME Nat \ S # {} PROVE FALSE
    OBVIOUS
<1>1. PICK n \in Nat \ S : \A m \in Nat \ S : n <= m
    BY Smallest
<1>2. n # 0 /\ n - 1 \in Nat
    BY <1>1
<1>3. n - 1 \in S
    <2>1. ~(n <= n - 1)
        BY <1>2
    <2> QED BY <1>1, <1>2, <2>1
<1>4. n - 1 + 1 \in S /\ n - 1 + 1 = n
    BY <1>2, <1>3
<1> QED BY <1>4

\* The greatest element of a set of numbers up to n is one of the set: the last
\* question of a name, the last alias and the last record of a name are there.
LEMMA MaxIsThere ==
    ASSUME NEW n \in Nat, NEW S, S \subseteq 0..n, S # {}
    PROVE  Max(S) \in S
<1> DEFINE D == {n - k : k \in S}
<1>1. D \in SUBSET Nat /\ D # {}
    <2>1. \A k \in S : k \in 0..n /\ n - k \in Nat
        OBVIOUS
    <2>2. PICK k \in S : TRUE
        OBVIOUS
    <2>3. n - k \in D
        OBVIOUS
    <2> QED BY <2>1, <2>3
<1> HIDE DEF D
<1>2. PICK d \in D : \A e \in D : d <= e
    BY <1>1, Smallest
<1>3. PICK x \in S : d = n - x
    BY DEF D
<1>4. ASSUME NEW y \in S PROVE x >= y
    <2>1. n - y \in D
        BY DEF D
    <2>2. n - x <= n - y /\ x \in 0..n /\ y \in 0..n
        BY <1>2, <1>3, <2>1
    <2> QED BY <2>2
<1> QED BY <1>4 DEF Max
=============================================================================
