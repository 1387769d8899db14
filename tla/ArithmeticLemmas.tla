-------------------------- MODULE ArithmeticLemmas --------------------------
(***************************************************************************)
(* Facts about natural numbers that the proofs about PoolBlocks rest on.   *)
(* LeastNatural stands in for induction: a property that fails for some    *)
(* number fails for a least one.                                           *)
(***************************************************************************)
EXTENDS Integers, WellFoundedInduction, TLAPS

\* Every set of naturals that is not empty has a least element.
LEMMA LeastNatural ==
    ASSUME NEW T \in SUBSET Nat, T # {}
    PROVE  \E m \in T : \A n \in T : m <= n
<1> DEFINE R == {ss \in Nat \X Nat : ss[1] < ss[2]}
<1>1. R = OpToRel(<, Nat)
  BY Zenon DEF OpToRel
<1>2. IsWellFoundedOn(R, Nat)
  BY <1>1, NatLessThanWellFounded, Zenon
<1>3. PICK m \in T : \A n \in T : ~(<<n, m>> \in R)
  BY <1>2, WFMin, Zenon
<1>4. ASSUME NEW n \in T PROVE m <= n
  <2>1. <<n, m>> \in Nat \X Nat /\ <<n, m>>[1] = n /\ <<n, m>>[2] = m
    OBVIOUS
  <2>2. SUFFICES ASSUME n < m PROVE <<n, m>> \in R
    BY <1>3
  <2>3. QED
    BY <2>1, <2>2
<1>5. QED
  BY <1>4

\* Division with remainder.
LEMMA DivMod ==
    ASSUME NEW a \in Nat, NEW n \in Nat \ {0}
    PROVE  /\ a \div n \in Nat
           /\ a % n \in 0..(n - 1)
           /\ a = n * (a \div n) + (a % n)
  OBVIOUS

\* It has one result.
LEMMA DivModUnique ==
    ASSUME NEW a \in Nat, NEW n \in Nat \ {0}, NEW q \in Int, NEW r \in 0..(n - 1),
           a = n * q + r
    PROVE  a \div n = q /\ a % n = r
<1> DEFINE q2 == a \div n
           r2 == a % n
<1>1. q2 \in Nat /\ r2 \in 0..(n - 1) /\ a = n * q2 + r2
  BY DivMod
<1>2. q2 = q
  <2> HIDE DEF q2, r2
  <2>1. n * (q - q2) = r2 - r
    BY <1>1
  <2>2. ASSUME q - q2 >= 1 PROVE FALSE
    <3>1. n * (q - q2) >= n
      BY <1>1, <2>2
    <3>2. QED
      BY <1>1, <2>1, <3>1
  <2>3. ASSUME q - q2 <= -1 PROVE FALSE
    <3>1. n * (q - q2) <= -n
      BY <1>1, <2>3
    <3>2. QED
      BY <1>1, <2>1, <3>1
  <2>4. QED
    BY <1>1, <2>2, <2>3
<1>3. r2 = r
  <2> HIDE DEF q2, r2
  <2>1. QED
    BY <1>1, <1>2
<1>4. QED
  BY <1>2, <1>3

\* Multiplication preserves order.
LEMMA TimesMono ==
    ASSUME NEW a \in Int, NEW b \in Int, NEW n \in Nat, a <= b
    PROVE  n * a <= n * b
  OBVIOUS
=============================================================================
