----------------------------- MODULE Induction -----------------------------
(***************************************************************************)
(* Induction over the natural numbers, stated for sets instead of          *)
(* predicates: the library's induction theorems take the predicate as an   *)
(* operator parameter, which no prover can be given an instance of, but a  *)
(* set {n \in Nat : P(n)} is a value like any other.                       *)
(***************************************************************************)
EXTENDS Integers, TLAPS, WellFoundedInduction

(***************************************************************************)
(* A set of numbers that is not empty has a least element.                 *)
(***************************************************************************)
LEMMA LeastElement ==
  ASSUME NEW S \in SUBSET Nat, S # {}
  PROVE  \E m \in S : \A n \in S : ~(n < m)
  <1> DEFINE less == OpToRel(<, Nat)
  <1>1. IsWellFoundedOn(less, Nat)
    BY NatLessThanWellFounded
  <1>2. \E m \in S : \A n \in S : <<n, m>> \notin less
    <2> HIDE DEF less
    <2> QED
      BY <1>1, WFMin
  <1> QED
    BY <1>2 DEF OpToRel

(***************************************************************************)
(* A set that holds 0, and with a number also the next one, holds them all.*)
(***************************************************************************)
THEOREM CountingUp ==
  ASSUME NEW S, 0 \in S, \A n \in Nat : n \in S => n + 1 \in S
  PROVE  \A n \in Nat : n \in S
  <1> SUFFICES ASSUME Nat \ S # {} PROVE FALSE
    OBVIOUS
  <1>1. PICK m \in Nat \ S : \A n \in Nat \ S : ~(n < m)
    BY LeastElement
  <1>2. m # 0 /\ m - 1 \in Nat
    BY <1>1
  <1>3. m - 1 \in S
    BY <1>1, <1>2
  <1> QED
    BY <1>1, <1>2, <1>3

=============================================================================
