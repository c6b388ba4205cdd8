---------------------------- MODULE NatInduction ----------------------------
(***************************************************************************)
(* Induction over the natural numbers, for the recursive functions of the  *)
(* models.                                                                 *)
(***************************************************************************)
EXTENDS Integers, FiniteSets, Functions, FiniteSetTheorems, TLAPS

\* Induction without an operator parameter: a set of numbers that has 0 and every
\* successor has every number (else it would inject into a smaller part of itself).
LEMMA SetInduction ==
    ASSUME NEW S \in SUBSET Nat, 0 \in S, \A n \in S : n + 1 \in S
    PROVE  S = Nat
<1> SUFFICES ASSUME NEW n \in Nat, n \notin S PROVE FALSE
  OBVIOUS
<1> DEFINE B == S \cap (1..n)
           A == B \cup {0}
           up == [k \in A |-> k + 1]
<1>1. IsFiniteSet(B)
  <2>1. IsFiniteSet(1..n)
    BY FS_Interval
  <2>2. B \in SUBSET (1..n)
    OBVIOUS
  <2> HIDE DEF B
  <2> QED BY <2>1, <2>2, FS_Subset
<1>2. Cardinality(A) = Cardinality(B) + 1 /\ Cardinality(B) \in Nat
  <2>1. 0 \notin B
    OBVIOUS
  <2> HIDE DEF B
  <2> QED BY <1>1, <2>1, FS_AddElement, FS_CardinalityType
<1>3. \A k \in A : k \in S /\ k \in 0..n /\ k # n /\ k + 1 \in B
  OBVIOUS
<1>4. up \in Injection(A, B)
  BY <1>3 DEF Injection, IsInjective
<1>5. Cardinality(A) <= Cardinality(B)
  BY <1>1, <1>4, FS_Injection
<1> QED BY <1>2, <1>5
=============================================================================
