--------------------------- MODULE ServerDataProofs ---------------------------
(***************************************************************************)
(* Facts about how SQLite numbers rows, for the proofs about the tables    *)
(* whose rows can be deleted.                                              *)
(***************************************************************************)
EXTENDS ServerData, WellFoundedInduction, TLAPS

(* Every non-empty set of naturals has a least element. *)
LEMMA LeastNatural ==
  ASSUME NEW T \in SUBSET Nat, T # {}
  PROVE  \E m \in T : \A k \in T : m <= k
<1> DEFINE R == OpToRel(<, Nat)
<1>1. PICK m \in T : \A k \in T : ~ (<<k, m>> \in R)
  <2> HIDE DEF R
  <2>1. IsWellFoundedOn(R, Nat)
    BY NatLessThanWellFounded DEF R
  <2> QED
    BY <2>1, WFMin
<1>2. ASSUME NEW k \in T, k < m
      PROVE  <<k, m>> \in R
  BY <1>2 DEF OpToRel
<1>3. \A k \in T : ~ (k < m)
  BY <1>1, <1>2
<1> QED
  BY <1>3

(* A table whose IDs are bounded has a next row ID, so NextRowId is one: it *)
(* is above every ID in the table, hence fresh.                             *)
LEMMA NextRowIdIsNext ==
  ASSUME NEW t, NEW N \in Nat, DOMAIN t \subseteq 0..N
  PROVE  /\ NextRowId(t) \in Nat \ {0}
         /\ IsNextRowId(t, NextRowId(t))
         /\ NextRowId(t) \notin DOMAIN t
<1> DEFINE C == {1} \cup {id + 1 : id \in DOMAIN t}
           T == {n \in Nat : n >= 1 /\ \A id \in DOMAIN t : id < n}
<1>1. N + 1 \in T
  OBVIOUS
<1>2. PICK m \in T : \A k \in T : m <= k
  BY <1>1, LeastNatural
<1>3. m = 1 \/ m - 1 \in DOMAIN t
  <2> SUFFICES ASSUME m # 1, m - 1 \notin DOMAIN t
               PROVE  FALSE
    OBVIOUS
  <2>1. m - 1 \in T
    OBVIOUS
  <2> QED
    BY <2>1, <1>2
<1>4. m \in C /\ IsNextRowId(t, m)
  <2>1. IsNextRowId(t, m)
    BY <1>3 DEF IsNextRowId
  <2>2. m \in C
    BY <1>3
  <2> QED
    BY <2>1, <2>2
<1>5. NextRowId(t) \in C /\ IsNextRowId(t, NextRowId(t))
  BY <1>4 DEF NextRowId
<1>6. NextRowId(t) \in Nat \ {0}
  BY <1>5
<1> QED
  BY <1>5, <1>6 DEF IsNextRowId
=============================================================================
