------------------------------- MODULE LatestRow -------------------------------
(* Ids of rows are numbers: some rows always have a latest one (latest_run). *)
EXTENDS Naturals, WellFoundedInduction, TLAPS

LEMMA LatestExists ==
    ASSUME NEW last \in Nat, NEW Ids \in SUBSET (1..last), Ids # {}
    PROVE  \E r \in Ids : \A s \in Ids : s <= r
  <1> DEFINE Distances == {last - r : r \in Ids}
  <1>1. Distances \subseteq Nat /\ Distances # {}
    <2>1. \A r \in Ids : last - r \in Nat
      BY SMT
    <2> QED
      BY <2>1
  <1>2. PICK d \in Distances : \A e \in Distances : <<e, d>> \notin OpToRel(<, Nat)
    BY <1>1, NatLessThanWellFounded, WFMin
  <1>3. PICK r \in Ids : d = last - r
    BY <1>2
  <1>4. ASSUME NEW s \in Ids PROVE s <= r
    <2> DEFINE e == last - s
    <2>1. e \in Distances /\ e \in Nat /\ d \in Nat
      BY <1>1, <1>2
    <2>2. ~(e < d)
      <3> SUFFICES ASSUME e < d PROVE FALSE
        OBVIOUS
      <3>1. <<e, d>> \in OpToRel(<, Nat)
        BY <2>1 DEF OpToRel
      <3> QED
        BY <1>2, <2>1, <3>1
    <2> QED
      BY <1>3, <2>1, <2>2, SMT
  <1> QED
    BY <1>4

=============================================================================
