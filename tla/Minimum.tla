-------------------------------- MODULE Minimum --------------------------------
(* A fact about FiniteSetsExt's Min that the proofs of every component use. *)
EXTENDS Integers, FiniteSetsExt, WellFoundedInduction, TLAPS

(* A non-empty set of naturals has a least member. *)
LEMMA HasLeast ==
  ASSUME NEW S \in SUBSET Nat, S # {}
  PROVE  \E x \in S : \A y \in S : x =< y
<1>. DEFINE R == {ss \in Nat \X Nat : ss[1] < ss[2]}
<1>1. IsWellFoundedOn(R, Nat)
  BY NatLessThanWellFounded, Zenon DEF OpToRel
<1>. HIDE DEF R
<1>2. PICK x \in S : \A y \in S : ~ (<<y, x>> \in R)
  BY <1>1, WFMin, Zenon
<1>3. ASSUME NEW y \in S
      PROVE  x =< y
  <2>1. x \in Nat /\ y \in Nat
    OBVIOUS
  <2>2. ~ (<<y, x>> \in R)
    BY <1>2
  <2>3. <<y, x>>[1] = y /\ <<y, x>>[2] = x
    OBVIOUS
  <2>4. ~ (y < x)
    BY <2>1, <2>2, <2>3, Zenon DEF R
  <2>. QED
    BY <2>1, <2>4
<1>. QED
  BY <1>3

(* Min, by which the models say "the first slot such that", is a member of
   every non-empty set of naturals. *)
LEMMA MinBelongs ==
  ASSUME NEW S \in SUBSET Nat, S # {}
  PROVE  Min(S) \in S
BY HasLeast DEF Min

(* ... and the least of its members. *)
LEMMA MinIsLeast ==
  ASSUME NEW S \in SUBSET Nat, S # {}
  PROVE  \A y \in S : Min(S) =< y
BY HasLeast DEF Min

(* ... and the only one that is. *)
LEMMA MinWhenLeast ==
  ASSUME NEW S \in SUBSET Nat, NEW x \in S, \A y \in S : x =< y
  PROVE  Min(S) = x
<1>1. Min(S) \in S /\ Min(S) =< x
  BY MinBelongs, MinIsLeast
<1>2. x =< Min(S) /\ x \in Nat /\ Min(S) \in Nat
  BY <1>1
<1> QED
  BY <1>1, <1>2
================================================================================
