----------------------------- MODULE LeastElement -----------------------------
(***************************************************************************)
(* The least-number principle, from which the proofs of this project       *)
(* derive what they need of induction: a property that fails for some      *)
(* number fails for a least one.                                           *)
(***************************************************************************)
EXTENDS Integers, FiniteSetTheorems, TLAPS

\* Every non-empty set of naturals has a least element.  (Intervals are
\* ordered by strict inclusion as their upper ends are by <.)
LEMMA LeastNat ==
    ASSUME NEW T \in SUBSET Nat, T # {}
    PROVE  \E n \in T : \A m \in T : n <= m
<1> DEFINE Initial == {0 .. n : n \in T}
<1>1. Initial \subseteq FiniteSubsetsOf(Nat)
  <2>1. ASSUME NEW n \in T
        PROVE  IsFiniteSet(0 .. n) /\ 0 .. n \subseteq Nat
    BY FS_Interval
  <2> QED BY <2>1 DEF FiniteSubsetsOf
<1>2. PICK n \in T :
         \A m \in T : <<0 .. m, 0 .. n>> \notin StrictSubsetOrdering(Nat)
  <2>1. Initial # {}
    OBVIOUS
  <2>2. PICK X \in Initial :
           \A Y \in Initial : ~ (<<Y, X>> \in StrictSubsetOrdering(Nat))
    BY <1>1, <2>1, FS_StrictSubsetOrderingWellFounded, WFMin
  <2> QED BY <2>2
<1>3. ASSUME NEW m \in T, m < n PROVE FALSE
  <2>1. 0 .. m \subseteq 0 .. n /\ n \in 0 .. n /\ n \notin 0 .. m
    BY <1>3
  <2>2. 0 .. m \in SUBSET Nat /\ 0 .. n \in SUBSET Nat
    OBVIOUS
  <2>3. <<0 .. m, 0 .. n>> \in StrictSubsetOrdering(Nat)
    BY <2>1, <2>2, Zenon DEF StrictSubsetOrdering
  <2> QED BY <2>3, <1>2
<1>4. \A m \in T : n <= m
  BY <1>3
<1> QED BY <1>4
=============================================================================
