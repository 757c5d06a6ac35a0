----------------------------- MODULE NatLemmas -----------------------------
(***************************************************************************)
(* The least and the greatest element of a set of numbers, for what the    *)
(* models choose by CHOOSE: the first window of a curve, the commands at   *)
(* the front of the LCD thread's channel.                                  *)
(***************************************************************************)
EXTENDS Integers, WellFoundedInduction, TLAPS

(* A nonempty set of natural numbers has a least element.                   *)
LEMMA LeastElement ==
    ASSUME NEW S \in SUBSET Nat, S # {}
    PROVE  \E m \in S : \A y \in S : m <= y
<1>1. PICK m \in S : \A y \in S : ~ (<<y, m>> \in OpToRel(<, Nat))
  BY NatLessThanWellFounded, WFMin
<1>2. \A y \in S : m <= y
  <2> TAKE y \in S
  <2>1. ~ (y < m)
    BY <1>1 DEF OpToRel
  <2> QED
    BY <2>1
<1> QED
  BY <1>2

(* A nonempty set of the numbers up to n has a greatest element.            *)
LEMMA GreatestElement ==
    ASSUME NEW n \in Nat, NEW S \in SUBSET (0..n), S # {}
    PROVE  \E m \in S : \A y \in S : y <= m
<1> DEFINE T == {x \in 0..n : n - x \in S}
<1>1. T \in SUBSET Nat /\ T # {}
  <2>1. PICK y \in S : TRUE
    OBVIOUS
  <2>2. y \in 0..n
    OBVIOUS
  <2>3. n - y \in 0..n /\ n - (n - y) = y
    BY <2>2
  <2>4. n - y \in T
    BY <2>1, <2>3
  <2>5. T \in SUBSET Nat
    OBVIOUS
  <2> QED BY <2>4, <2>5, Zenon
<1>2. PICK m \in T : \A x \in T : m <= x
  BY <1>1, LeastElement
<1>3. m \in 0..n /\ n - m \in S
  OBVIOUS
<1>4. ASSUME NEW y \in S PROVE y <= n - m
  <2>1. y \in 0..n /\ n - (n - y) = y /\ n - y \in 0..n
    OBVIOUS
  <2>2. m <= n - y
    BY <1>2, <2>1
  <2> QED BY <1>3, <2>1, <2>2
<1> QED
  BY <1>3, <1>4
=============================================================================
