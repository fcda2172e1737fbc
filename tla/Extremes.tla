------------------------------- MODULE Extremes -------------------------------
(***************************************************************************)
(* Lemmas about Min and Max, which several components number their rows    *)
(* and choose their next item with.                                        *)
(***************************************************************************)
EXTENDS Naturals, FiniteSetsExt, WellFoundedInduction, TLAPS

(* A set of naturals has a least element: the one Min picks. *)
LEMMA LeastIs ==
  ASSUME NEW S, S \subseteq Nat, S # {}
  PROVE  Min(S) \in S /\ \A y \in S : Min(S) <= y
  <1> DEFINE less == {p \in Nat \X Nat : p[1] < p[2]}
  <1>0. OpToRel(<, Nat) = less
    BY DEF OpToRel
  <1> HIDE DEF less
  <1>1. PICK x \in S : \A y \in S : <<y, x>> \notin less
    BY <1>0, WFMin, NatLessThanWellFounded
  <1>2. ASSUME NEW y \in S PROVE x <= y
    <2>1. SUFFICES ASSUME y < x PROVE FALSE
      OBVIOUS
    <2>2. <<y, x>> \in Nat \X Nat /\ <<y, x>>[1] = y /\ <<y, x>>[2] = x
      OBVIOUS
    <2> QED
      BY <1>1, <2>1, <2>2 DEF less
  <1> QED
    BY <1>2 DEF Min

(* A bounded one has a greatest: the one Max picks. *)
LEMMA GreatestIs ==
  ASSUME NEW N \in Nat, NEW S, S \subseteq 0..N, S # {}
  PROVE  Max(S) \in S /\ \A y \in S : Max(S) >= y
  <1> DEFINE T == {N - x : x \in S}
  <1>1. T \subseteq Nat /\ T # {}
    <2>1. \A x \in S : N - x \in Nat
      OBVIOUS
    <2> QED
      BY <2>1
  <1>2. PICK t \in T : \A u \in T : t <= u
    BY <1>1, LeastIs
  <1>3. PICK x \in S : t = N - x
    OBVIOUS
  <1>4. ASSUME NEW y \in S PROVE x >= y
    <2>1. N - y \in T
      OBVIOUS
    <2>2. N - x <= N - y
      BY <1>2, <1>3, <2>1
    <2> QED
      BY <2>2
  <1> QED
    BY <1>4 DEF Max
=============================================================================
