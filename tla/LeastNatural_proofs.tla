------------------------- MODULE LeastNatural_proofs -------------------------
(***************************************************************************)
(* The least-number principle, for sets: what ORDER BY ... LIMIT 1 and the *)
(* search for the first of several rest on.                                *)
(***************************************************************************)
EXTENDS Naturals, FiniteSetTheorems, TLAPS

\* A nonempty set of natural numbers has a least element: its members below a
\* bound shrink as the bound falls, and finite sets shrink only so often.
LEMMA LeastNatural ==
  ASSUME NEW D \in SUBSET Nat, D # {}
  PROVE  \E i \in D : \A j \in D : i <= j
<1>. DEFINE Below(m) == {k \in D : k < m}
            T == {Below(m) : m \in D}
            R == StrictSubsetOrdering(Nat)
            S == FiniteSubsetsOf(Nat)
<1>1. IsWellFoundedOn(R, S)
  BY FS_StrictSubsetOrderingWellFounded
<1>2. T \subseteq S
  <2>. SUFFICES ASSUME NEW m \in D
                PROVE  Below(m) \in S
    OBVIOUS
  <2>1. m \in Nat /\ Below(m) \subseteq Nat
    OBVIOUS
  <2>3. \A k \in Below(m) : k <= m
    OBVIOUS
  <2>. HIDE DEF Below
  <2>2. IsFiniteSet(Below(m))
    BY <2>1, <2>3, FS_BoundedSetOfNaturals
  <2>. QED
    BY <2>1, <2>2 DEF FiniteSubsetsOf
<1>3. T # {}
  OBVIOUS
<1>4. PICK x \in T : \A y \in T : ~ (<<y, x>> \in R)
  <2>. HIDE DEF T, R, S
  <2>. QED
    BY <1>1, <1>2, <1>3, WFMin
<1>5. PICK i \in D : x = Below(i)
  BY <1>4
<1>6. ASSUME NEW j \in D, j < i
      PROVE  FALSE
  <2>1. Below(j) \in SUBSET Nat /\ Below(i) \in SUBSET Nat
    OBVIOUS
  <2>2. Below(j) \subseteq Below(i)
    <3>1. ASSUME NEW k \in D, k < j
          PROVE  k < i
      <4>. k \in Nat /\ j \in Nat /\ i \in Nat
        OBVIOUS
      <4>. QED
        BY <1>6, <3>1
    <3>. QED
      BY <3>1
  <2>3. j \in Below(i) /\ j \notin Below(j)
    BY <1>6
  <2>. HIDE DEF Below
  <2>4. <<Below(j), Below(i)>> \in R
    BY <2>1, <2>2, <2>3 DEF StrictSubsetOrdering
  <2>. QED
    BY <1>4, <1>5, <2>4
<1>. QED
  BY <1>6
==============================================================================
