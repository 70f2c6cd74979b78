------------------------------ MODULE MinLemmas ------------------------------
(***************************************************************************)
(* Facts about Min of FiniteSetsExt that the proofs of both batch loops   *)
(* need: relay_batches sorts the batches by nonce and its for loop takes   *)
(* the least nonce left, which the models write as Min of a set.          *)
(***************************************************************************)
EXTENDS FiniteSetsExt, WellFoundedInduction, TLAPS

(***************************************************************************)
(* The least element of a non-empty set of naturals, which the for loop    *)
(* over the sorted batch list takes next, is an element of the set.        *)
(***************************************************************************)
LEMMA MinInSet ==
    ASSUME NEW S \in SUBSET Nat, S # {}
    PROVE  Min(S) \in S
<1>1. \E x \in S : \A y \in S : ~(<<y, x>> \in OpToRel(<, Nat))
  BY WFMin, NatLessThanWellFounded
<1>2. PICK x \in S : \A y \in S : ~(<<y, x>> \in OpToRel(<, Nat))
  BY <1>1
<1>3. \A y \in S : x =< y
  <2> TAKE y \in S
  <2>1. ~(<<y, x>> \in {ss \in Nat \X Nat : ss[1] < ss[2]})
    BY <1>2 DEF OpToRel
  <2>2. QED
    BY <2>1
<1>4. QED
  BY <1>3 DEF Min
=============================================================================
