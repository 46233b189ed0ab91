---------------------------- MODULE SetInduction ----------------------------
(***************************************************************************)
(* Induction on natural numbers, for a set in place of a predicate.  It is *)
(* what the proofs about recursive functions rest on.                      *)
(***************************************************************************)
EXTENDS Integers, WellFoundedInduction, TLAPS

\* A set with 0 and with the successor of each of its elements has them all.
LEMMA SetInduction ==
  ASSUME NEW T, 0 \in T, \A n \in Nat : n \in T => n + 1 \in T
  PROVE  Nat \subseteq T
<1> DEFINE C == Nat \ T
<1>1. SUFFICES ASSUME C # {} PROVE FALSE
  OBVIOUS
<1>2. PICK x \in C : \A y \in C : ~ (<<y, x>> \in OpToRel(<, Nat))
  BY <1>1, WFMin, NatLessThanWellFounded
<1>3. \A y \in C : ~ (y < x)
  BY <1>2 DEF OpToRel
<1>4. x - 1 \in Nat /\ x - 1 < x /\ (x - 1) + 1 = x
  <2>1. x \in Nat \ {0}
    OBVIOUS
  <2> QED  BY <2>1
<1>5. x - 1 \in T
  BY <1>3, <1>4
<1> QED  BY <1>2, <1>4, <1>5
=============================================================================
