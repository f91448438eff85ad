--------------------------- MODULE Numbers_proofs ---------------------------
(***************************************************************************)
(* Induction over the natural numbers, stated with sets: the other proofs  *)
(* use it for what holds along a walk, a sum or a text.                    *)
(***************************************************************************)
EXTENDS Integers, NaturalsInduction, WellFoundedInduction, TLAPS

Below == {p \in Nat \X Nat : p[1] < p[2]}

\* A set of natural numbers that is not empty has a least one.
LEMMA LeastNumber ==
  ASSUME NEW S \in SUBSET Nat, S # {}
  PROVE  \E i \in S : \A j \in S : i <= j
<1>1. OpToRel(<, Nat) = Below
  BY DEF OpToRel, Below
<1>2. IsWellFoundedOn(Below, Nat)
  BY <1>1, NatLessThanWellFounded, Zenon
<1>3. PICK i \in S : \A j \in S : ~(<<j, i>> \in Below)
  BY <1>2, WFMin
<1>4. ASSUME NEW j \in S PROVE i <= j
  <2>1. i \in Nat /\ j \in Nat
    OBVIOUS
  <2>2. j < i => <<j, i>> \in Below
    BY <2>1 DEF Below
  <2> QED
    BY <1>3, <2>1, <2>2
<1> QED
  BY <1>4

\* A set with 0, and with the number after each number up to n, has them all.
LEMMA InductionUpTo ==
  ASSUME NEW n \in Nat, NEW S, 0 \in S, \A k \in 0..(n - 1) : k \in S => k + 1 \in S
  PROVE  0..n \subseteq S
<1> SUFFICES ASSUME NEW m \in 0..n, m \notin S PROVE FALSE
  OBVIOUS
<1> DEFINE Others == {k \in 0..n : k \notin S}
<1>1. PICK i \in Others : \A j \in Others : i <= j
  <2>1. Others \in SUBSET Nat /\ Others # {}
    OBVIOUS
  <2> HIDE DEF Others
  <2> QED
    BY <2>1, LeastNumber
<1>2. i \in 0..n /\ i \notin S /\ i # 0
  OBVIOUS
<1>3. i - 1 \in 0..(n - 1) /\ i - 1 \in 0..n /\ ~(i <= i - 1) /\ (i - 1) + 1 = i
  BY <1>2
<1>4. i - 1 \in S
  BY <1>1, <1>3
<1> QED
  BY <1>2, <1>3, <1>4

\* So with the numbers that have a property.
LEMMA Induction ==
  ASSUME NEW S, 0 \in S, \A k \in Nat : k \in S => k + 1 \in S
  PROVE  Nat \subseteq S
<1> SUFFICES ASSUME NEW m \in Nat PROVE m \in S
  OBVIOUS
<1>1. 0..m \subseteq S
  BY InductionUpTo
<1> QED
  BY <1>1
=============================================================================
