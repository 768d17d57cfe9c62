------------------------------ MODULE Extrema ------------------------------
EXTENDS Integers, WellFoundedInduction, TLAPS

(***************************************************************************)
(* What .first(), find_highest_run_version and _new_reduction_data_path    *)
(* rest on: a set of naturals has a least element, and a greatest one if   *)
(* it is bounded.                                                          *)
(***************************************************************************)
LEMMA LeastExists ==
  ASSUME NEW S \in SUBSET Nat, S # {}
  PROVE  \E i \in S : \A j \in S : i <= j
<1> DEFINE R == OpToRel(<, Nat)
<1>1. IsWellFoundedOn(R, Nat)
  BY NatLessThanWellFounded
<1> HIDE DEF R
<1>2. \E i \in S : \A j \in S : <<j, i>> \notin R
  BY <1>1, WFMin
<1>3. \A i, j \in Nat : <<j, i>> \notin R => i <= j
  BY DEF R, OpToRel
<1> QED
  BY <1>2, <1>3

LEMMA GreatestExists ==
  ASSUME NEW S \in SUBSET Nat, S # {}, NEW n \in Nat, \A i \in S : i <= n
  PROVE  \E i \in S : \A j \in S : j <= i
<1> DEFINE T == {n - i : i \in S}
<1>1. \A i \in S : i \in Nat /\ n - i \in Nat
  OBVIOUS
<1> HIDE DEF T
<1>2. T \in SUBSET Nat /\ T # {}
  BY <1>1 DEF T
<1>3. PICK k \in T : \A l \in T : k <= l
  BY <1>2, LeastExists
<1>4. PICK i \in S : k = n - i
  BY <1>3 DEF T
<1>5. \A j \in S : n - i <= n - j
  BY <1>3, <1>4 DEF T
<1> QED
  BY <1>1, <1>4, <1>5
============================================================================
