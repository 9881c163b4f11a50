---------------------------- MODULE NaturalLemmas ----------------------------
(* Two facts about natural numbers that the proofs of several components     *)
(* need.  The first one stands for induction: what fails for some number     *)
(* fails for a least one, and holds for the number before it.                *)
EXTENDS Integers, WellFoundedInduction, TLAPS

\* A set of natural numbers has a least element.
LEMMA LeastNatural ==
  ASSUME NEW T \in SUBSET Nat, T # {}
  PROVE  \E n \in T : \A m \in T : n <= m
<1> DEFINE R == OpToRel(<, Nat)
<1>1. IsWellFoundedOn(R, Nat)
  BY NatLessThanWellFounded
<1>2. \A x, y \in Nat : <<y, x>> \in R <=> y < x
  BY DEF OpToRel
<1> HIDE DEF R
<1>3. PICK n \in T : \A m \in T : ~(<<m, n>> \in R)
  BY <1>1, WFMin
<1>4. ASSUME NEW m \in T PROVE n <= m
  <2>1. n \in Nat /\ m \in Nat
    OBVIOUS
  <2>2. ~(m < n)
    BY <2>1, <1>2, <1>3
  <2> QED BY <2>1, <2>2
<1> QED BY <1>4

\* Of k numbers, or zero if there are none, one is the largest: else there is
\* a least k for which none is, and the number before that one has one.
LEMMA LargestOf ==
  ASSUME NEW f, NEW k \in Nat, \A i \in 1..k : f[i] \in Nat
  PROVE  \E h \in {f[i] : i \in 1..k} \cup {0} : \A i \in 1..k : f[i] <= h
<1> DEFINE B(n) == \E h \in {f[i] : i \in 1..n} \cup {0} : \A i \in 1..n : f[i] <= h
           T == {n \in 0..k : ~B(n)}
<1>1. B(0)
  OBVIOUS
<1>2. ASSUME NEW n \in 1..k, B(n - 1) PROVE B(n)
  <2>1. n - 1 \in Nat /\ f[n] \in Nat /\ \A i \in 1..n : i = n \/ i \in 1..(n - 1)
    OBVIOUS
  <2>2. PICK h \in {f[i] : i \in 1..(n - 1)} \cup {0} : \A i \in 1..(n - 1) : f[i] <= h
    BY <1>2
  <2>3. h \in {f[i] : i \in 1..n} \cup {0} /\ f[n] \in {f[i] : i \in 1..n} \cup {0}
    BY <2>1
  <2>4. h \in Nat /\ \A i \in 1..(n - 1) : f[i] \in Nat
    BY <2>1
  <2>5. CASE h <= f[n]
    <3>1. \A i \in 1..n : f[i] <= f[n]
      BY <2>1, <2>2, <2>4, <2>5
    <3> QED BY <2>3, <3>1
  <2>6. CASE ~(h <= f[n])
    <3>1. \A i \in 1..n : f[i] <= h
      BY <2>1, <2>2, <2>4, <2>6
    <3> QED BY <2>3, <3>1
  <2> QED BY <2>5, <2>6
<1> HIDE DEF B
<1>3. ASSUME T # {} PROVE FALSE
  <2>1. T \in SUBSET Nat
    OBVIOUS
  <2>2. PICK n \in T : \A m \in T : n <= m
    BY <1>3, <2>1, LeastNatural
  <2>3. n \in 1..k /\ n - 1 \in 0..k /\ n - 1 \notin T
    BY <1>1, <2>2
  <2> QED BY <1>2, <2>2, <2>3
<1>4. k \in 0..k /\ k \notin T
  BY <1>3
<1>5. B(k)
  BY <1>4
<1> QED BY <1>5 DEF B
=============================================================================
