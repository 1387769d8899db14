---------------------------- MODULE GcPoolProofs ----------------------------
(***************************************************************************)
(* Proofs about GcPool, for every set of entities and any number of        *)
(* collections: its invariants, then that it implements Collector.         *)
(***************************************************************************)
EXTENDS GcPoolRefinement, FiniteSetTheorems, SequenceTheorems, TLAPS

-----------------------------------------------------------------------------
(* The invariant is inductive: one lemma per action. *)

\* Initially the pool is empty and no round has begun.
LEMMA InitInvariant == Init => IInv
<1> SUFFICES ASSUME Init PROVE IInv
  OBVIOUS
<1>1. TypeOK
  BY MaxRoundsAssumption DEF Init, TypeOK, Positions
<1>2. Positions = {}
  BY DEF Init, Positions
<1>3. QED
  BY <1>1, <1>2 DEF Init, IInv, NoAlias, IndexIsPosition, AgeInv, RoundInv,
                    TracingInv, SettledInv

\* A new entity takes a free position, which becomes its id.
LEMMA EmplaceInvariant ==
    ASSUME IInv, NEW e \in Entity, Emplace(e)
    PROVE  IInv'
<1> USE DEF Positions
<1>1. TypeOK'
  BY DEF IInv, TypeOK, Emplace
<1>2. \A p \in Positions : slot'[p] = slot[p] /\ slot[p] # e
  BY DEF IInv, TypeOK, Emplace, Live
<1>3. slot'[length] = e /\ Positions' = Positions \cup {length}
  BY DEF IInv, TypeOK, Emplace
<1>4. NoAlias'
  BY <1>2, <1>3 DEF IInv, NoAlias
<1>5. \A p \in Positions : index'[slot[p]] = index[slot[p]] /\ bit'[slot[p]] = bit[slot[p]]
  BY <1>2 DEF IInv, TypeOK, Emplace
<1>6. index'[e] = length /\ bit'[e] = 0
  BY DEF IInv, TypeOK, Emplace
<1>7. phase = "mutator"
  BY DEF Emplace
<1>8. IndexIsPosition'
  <2>1. \A p \in Positions : index[slot[p]] = p
    BY <1>7 DEF IInv, IndexIsPosition
  <2>2. \A p \in Positions' : index'[slot'[p]] = p
    BY <1>2, <1>3, <1>5, <1>6, <2>1
  <2>3. QED
    BY <2>2 DEF IndexIsPosition
<1>9. AgeInv'
  <2>1. \A p \in Positions : Marked(slot[p]) <=> p >= aged
    BY <1>7 DEF IInv, AgeInv
  <2>2. aged \in 0..length /\ length \in Nat /\ parity \in {0, 1}
    BY DEF IInv, TypeOK
  <2>3. parity' = parity /\ aged' = IF parity = 1 THEN aged ELSE length + 1
    BY DEF Emplace
  <2>4. parity = 0 => aged = length
    BY <1>7 DEF IInv, AgeInv
  <2>5. \A p \in Positions : bit'[slot'[p]] # parity' <=> p >= aged
    BY <1>2, <1>5, <2>1, <2>3 DEF Marked
  <2>6. bit'[slot'[length]] # parity' <=> parity = 1
    BY <1>3, <1>6, <2>2, <2>3 DEF Marked
  <2>7. \A p \in Positions' : bit'[slot'[p]] # parity' <=> p >= aged'
    BY <1>3, <2>2, <2>3, <2>4, <2>5, <2>6
  <2>8. parity' = 0 => aged' = length'
    BY <2>2, <2>3 DEF Emplace
  <2>9. QED
    BY <2>7, <2>8 DEF AgeInv, Marked
<1>10. RoundInv' /\ TracingInv' /\ SettledInv'
  BY <1>7 DEF Emplace, RoundInv, TracingInv, SettledInv
<1>11. QED
  BY <1>1, <1>4, <1>8, <1>9, <1>10 DEF IInv

\* A round begins with nothing kept, so the aged entities are the unmarked ones.
LEMMA SweepInvariant ==
    ASSUME IInv, Sweep
    PROVE  IInv'
<1> USE DEF Positions
<1>1. TypeOK'
  BY MaxRoundsAssumption DEF IInv, TypeOK, Sweep
<1>2. RoundInv'
  <2>1. IsFiniteSet(kept') /\ Cardinality(kept') = 0
    BY FS_EmptySet DEF Sweep
  <2>2. \A p \in Positions : bit'[slot'[p]] # parity' <=> p >= aged
    BY DEF IInv, AgeInv, Sweep, Marked
  <2>3. \A p \in Positions : index[slot[p]] = p
    BY DEF IInv, IndexIsPosition, Sweep
  <2>4. QED
    BY <2>1, <2>2, <2>3 DEF IInv, TypeOK, RoundInv, Sweep, Marked
<1>3. NoAlias'
  BY DEF IInv, NoAlias, Sweep
<1>4. TracingInv'
  BY DEF IInv, IndexIsPosition, TracingInv, Sweep
<1>5. IndexIsPosition' /\ AgeInv' /\ SettledInv'
  BY DEF Sweep, IndexIsPosition, AgeInv, SettledInv
<1>6. QED
  BY <1>1, <1>2, <1>3, <1>4, <1>5 DEF IInv

\* At most n things are stored at n positions.
LEMMA CountAtPositions ==
    ASSUME NEW n \in Nat, NEW f, NEW S,
           \A x \in S : \E q \in 0..(n - 1) : f[q] = x
    PROVE  IsFiniteSet(S) /\ Cardinality(S) <= n
<1> DEFINE T == {f[q] : q \in 0..(n - 1)}
           g == [q \in 0..(n - 1) |-> f[q]]
<1>1. IsFiniteSet(0..(n - 1)) /\ Cardinality(0..(n - 1)) = n
  BY FS_Interval
<1>2. g \in Surjection(0..(n - 1), T)
  BY DEF Surjection
<1>3. IsFiniteSet(T) /\ Cardinality(T) <= n
  BY <1>1, <1>2, FS_Surjection
<1>4. S \in SUBSET T
  OBVIOUS
<1>5. IsFiniteSet(S) /\ Cardinality(S) <= Cardinality(T)
  BY <1>3, <1>4, FS_Subset
<1>6. Cardinality(S) \in Nat /\ Cardinality(T) \in Nat
  BY <1>3, <1>5, FS_CardinalityType
<1>7. QED
  BY <1>3, <1>5, <1>6

\* Tracing renumbers an unmarked entity and leaves a marked one alone.
LEMMA TraceInvariant ==
    ASSUME IInv, NEW e \in Entity, Trace(e)
    PROVE  IInv'
<1> USE DEF Positions
<1>1. phase = "tracing" /\ phase' = "tracing"
  BY DEF Trace
<1>2. UNCHANGED <<slot, length, parity, phase, cursor, rounds, aged>>
  BY DEF Trace
<1>3. PICK p \in Positions : slot[p] = e
  BY DEF Trace, Live
<1>4. NoAlias' /\ IndexIsPosition' /\ AgeInv' /\ SettledInv'
  BY <1>1, <1>2 DEF IInv, NoAlias, IndexIsPosition, AgeInv, SettledInv
<1>5. CASE Marked(e)
  <2>1. UNCHANGED <<index, bit, counter, kept>> /\ asked' = asked \cup {e}
    BY <1>5 DEF Trace
  <2>2. TypeOK'
    BY <1>2, <2>1 DEF IInv, TypeOK
  <2>3. RoundInv' /\ TracingInv'
    BY <1>1, <1>2, <2>1 DEF IInv, RoundInv, TracingInv, Marked
  <2>4. QED
    BY <1>4, <2>2, <2>3 DEF IInv
<1>6. CASE ~Marked(e)
  <2>1. /\ index' = [index EXCEPT ![e] = counter]
        /\ bit' = [bit EXCEPT ![e] = 1 - @]
        /\ counter' = counter + 1
        /\ kept' = kept \cup {e}
        /\ asked' = asked \cup {e}
    BY <1>6 DEF Trace
  <2>2. TypeOK'
    BY <1>2, <2>1 DEF IInv, TypeOK
  <2>3. p < aged /\ e \notin kept
    BY <1>1, <1>3, <1>6 DEF IInv, TypeOK, RoundInv
  <2>4. index'[e] = counter /\ bit'[e] = 1 - bit[e]
    BY <2>1 DEF IInv, TypeOK
  <2>5. \A f \in Entity : f # e => index'[f] = index[f] /\ bit'[f] = bit[f]
    BY <2>1 DEF IInv, TypeOK
  <2>6. \A q \in Positions : slot[q] = e => q = p
    BY <1>3 DEF IInv, NoAlias
  <2>7. kept \subseteq Entity /\ counter \in Nat /\ aged \in 0..length /\ length \in Nat
    BY DEF IInv, TypeOK
  <2>8. TracingInv'
    BY <1>1, <1>2, <2>1, <2>5 DEF IInv, TypeOK, TracingInv
  <2>9. RoundInv'
    <3>1. \A q \in Positions : bit'[slot[q]] # parity <=> (slot[q] \in kept' \/ q >= aged)
      <4> TAKE q \in Positions
      <4>1. CASE q = p
        BY <1>3, <1>6, <2>1, <2>4, <4>1 DEF IInv, TypeOK, Marked
      <4>2. CASE q # p
        <5>1. slot[q] # e /\ slot[q] \in Entity
          BY <2>6, <4>2 DEF IInv, TypeOK
        <5>2. bit'[slot[q]] = bit[slot[q]]
          BY <2>5, <5>1
        <5>3. bit[slot[q]] # parity <=> (slot[q] \in kept \/ q >= aged)
          BY <1>1 DEF IInv, RoundInv, Marked
        <5>4. QED
          BY <2>1, <5>1, <5>2, <5>3
      <4>3. QED
        BY <4>1, <4>2
    <3>2. \A q \in Positions : q >= aged => slot[q] \notin kept' /\ index'[slot[q]] = q
      <4> SUFFICES ASSUME NEW q \in Positions, q >= aged
                   PROVE  slot[q] \notin kept' /\ index'[slot[q]] = q
        OBVIOUS
      <4>1. slot[q] # e /\ slot[q] \in Entity
        BY <2>3, <2>6, <2>7 DEF IInv, TypeOK
      <4>2. slot[q] \notin kept /\ index[slot[q]] = q
        BY <1>1 DEF IInv, RoundInv
      <4>3. QED
        BY <2>1, <2>5, <4>1, <4>2
    <3>3. \A f \in kept : index'[f] = index[f] /\ index[f] < counter /\ index[f] \in Nat
      BY <1>1, <2>3, <2>5, <2>7 DEF IInv, TypeOK, RoundInv
    <3>4. \A f \in kept' : index'[f] < counter'
      BY <2>1, <2>4, <2>7, <3>3
    <3>5. \A f, g \in kept' : index'[f] = index'[g] => f = g
      <4>1. \A f, g \in kept : index[f] = index[g] => f = g
        BY <1>1 DEF IInv, RoundInv
      <4>2. QED
        BY <2>1, <2>4, <2>7, <3>3, <4>1
    <3>6. \A f \in kept' : \E q \in 0..(aged - 1) : slot[q] = f
      <4>1. \A f \in kept : \E q \in 0..(aged - 1) : slot[q] = f
        BY <1>1 DEF IInv, RoundInv
      <4>2. p \in 0..(aged - 1)
        BY <2>3, <2>7
      <4>3. QED
        BY <1>3, <2>1, <4>1, <4>2
    <3>7. \A k \in 0..(counter' - 1) : \E f \in kept' : index'[f] = k
      <4>1. \A k \in 0..(counter - 1) : \E f \in kept : index[f] = k
        BY <1>1 DEF IInv, RoundInv
      <4>2. QED
        BY <2>1, <2>4, <2>7, <3>3, <4>1
    <3>8. IsFiniteSet(kept') /\ Cardinality(kept') = counter'
      <4>1. IsFiniteSet(kept) /\ Cardinality(kept) = counter
        BY <1>1 DEF IInv, RoundInv
      <4>2. QED
        BY <2>1, <2>3, <4>1, FS_AddElement
    <3>9. counter' <= aged
      <4>1. aged \in Nat
        BY <2>7
      <4>2. Cardinality(kept') <= aged
        BY <3>6, <4>1, CountAtPositions
      <4>3. QED
        BY <3>8, <4>2
    <3>10. QED
      BY <1>2, <3>1, <3>2, <3>4, <3>5, <3>6, <3>7, <3>8, <3>9 DEF RoundInv, Marked
  <2>10. QED
    BY <1>4, <2>2, <2>8, <2>9 DEF IInv
<1>7. QED
  BY <1>5, <1>6

\* The consolidation begins with nothing behind its cursor.
LEMMA DestroyInvariant ==
    ASSUME IInv, Destroy
    PROVE  IInv'
<1> USE DEF Positions
<1>1. TypeOK'
  BY DEF IInv, TypeOK, Destroy
<1>2. NoAlias' /\ IndexIsPosition' /\ AgeInv' /\ TracingInv'
  BY DEF IInv, NoAlias, IndexIsPosition, AgeInv, TracingInv, Destroy
<1>3. RoundInv'
  BY DEF IInv, RoundInv, Destroy, Marked
<1>4. SettledInv'
  BY DEF SettledInv, Destroy
<1>5. QED
  BY <1>1, <1>2, <1>3, <1>4 DEF IInv

\* What a swap exchanges: a kept entity at the cursor, and whatever is at the
\* position that its id names, both among the aged positions.
LEMMA SwapTarget ==
    ASSUME IInv, phase = "consolidating", NEW p \in Positions, Displaced(p)
    PROVE  /\ slot[p] \in kept
           /\ index[slot[p]] \in 0..(aged - 1)
           /\ index[slot[p]] \in Positions
           /\ index[slot[p]] # p
           /\ p < aged
<1>1. Marked(slot[p]) <=> (slot[p] \in kept \/ p >= aged)
  BY DEF IInv, RoundInv
<1>2. p >= aged => slot[p] \notin kept /\ index[slot[p]] = p
  BY DEF IInv, RoundInv
<1>3. slot[p] \in kept /\ p < aged
  BY <1>1, <1>2 DEF IInv, TypeOK, Positions, Displaced
<1>4. index[slot[p]] < counter /\ counter <= aged
  BY <1>3 DEF IInv, RoundInv
<1>5. QED
  BY <1>3, <1>4 DEF IInv, TypeOK, Positions, Displaced

LEMMA SwapInvariant ==
    ASSUME IInv, Swap
    PROVE  IInv'
<1> DEFINE c == cursor
           q == index[slot[c]]
<1>1. phase = "consolidating" /\ phase' = "consolidating" /\ c \in Positions /\ Displaced(c)
  BY DEF IInv, TypeOK, Positions, Swap
<1>2. UNCHANGED <<length, index, bit, parity, phase, counter, cursor, rounds, aged, asked, kept>>
  BY DEF Swap
<1>3. slot[c] \in kept /\ q \in Positions /\ q \in 0..(aged - 1) /\ c \in 0..(aged - 1) /\ q # c
  BY <1>1, SwapTarget DEF IInv, TypeOK, Positions
<1>4. slot' = [slot EXCEPT ![c] = slot[q], ![q] = slot[c]]
  BY DEF Swap, SwapOnce
<1>5. slot'[c] = slot[q] /\ slot'[q] = slot[c]
  BY <1>3, <1>4 DEF IInv, TypeOK, Positions
<1>6. \A p \in Positions : p # c /\ p # q => slot'[p] = slot[p]
  BY <1>4 DEF IInv, TypeOK, Positions
<1> HIDE DEF c, q
<1>7. TypeOK'
  BY <1>1, <1>2, <1>3, <1>4 DEF IInv, TypeOK, Positions
<1>8. Positions' = Positions
  BY <1>2 DEF Positions
<1>9. NoAlias'
  BY <1>1, <1>3, <1>5, <1>6, <1>8 DEF IInv, NoAlias
<1>10. IndexIsPosition' /\ AgeInv' /\ TracingInv'
  BY <1>1 DEF IndexIsPosition, AgeInv, TracingInv
<1>11. RoundInv'
  <2>1. \A p \in Positions : bit[slot'[p]] # parity <=> (slot'[p] \in kept \/ p >= aged)
    <3>1. \A p \in Positions : bit[slot[p]] # parity <=> (slot[p] \in kept \/ p >= aged)
      BY <1>1 DEF IInv, RoundInv, Marked
    <3>2. ~(c >= aged) /\ ~(q >= aged)
      BY <1>3 DEF IInv, TypeOK
    <3>3. QED
      BY <1>1, <1>3, <1>5, <1>6, <3>1, <3>2
  <2>2. \A p \in Positions : p >= aged => slot'[p] \notin kept /\ index[slot'[p]] = p
    <3>1. \A p \in Positions : p >= aged => slot[p] \notin kept /\ index[slot[p]] = p
      BY <1>1 DEF IInv, RoundInv
    <3>2. \A p \in Positions : p >= aged => p # c /\ p # q
      BY <1>3 DEF IInv, TypeOK, Positions
    <3>3. QED
      BY <1>6, <3>1, <3>2
  <2>3. \A f \in kept : \E p \in 0..(aged - 1) : slot'[p] = f
    <3> SUFFICES ASSUME NEW f \in kept PROVE \E p \in 0..(aged - 1) : slot'[p] = f
      OBVIOUS
    <3>1. PICK p \in 0..(aged - 1) : slot[p] = f
      BY <1>1 DEF IInv, RoundInv
    <3>2. p \in Positions
      BY DEF IInv, TypeOK, Positions
    <3>3. QED
      BY <1>3, <1>5, <1>6, <3>1, <3>2
  <2>4. QED
    BY <1>1, <1>2, <1>8, <2>1, <2>2, <2>3 DEF IInv, RoundInv, Marked
<1>12. SettledInv'
  <2>1. \A p \in 0..(c - 1) : slot[p] \in kept => index[slot[p]] = p
    BY <1>1 DEF IInv, SettledInv, c
  <2>2. \A p \in 0..(c - 1) : p \in Positions /\ p # c
    BY <1>1 DEF IInv, TypeOK, Positions, c
  <2>3. index[slot'[q]] = q
    BY <1>5 DEF q
  <2>4. \A p \in 0..(c - 1) : slot'[p] \in kept => index[slot'[p]] = p
    BY <1>6, <2>1, <2>2, <2>3
  <2>5. QED
    BY <1>2, <2>4 DEF SettledInv, c
<1>13. QED
  BY <1>7, <1>9, <1>10, <1>11, <1>12 DEF IInv

\* An entity that the inner loop leaves at the cursor is at its place, or not kept.
LEMMA AdvanceInvariant ==
    ASSUME IInv, Advance
    PROVE  IInv'
<1>1. phase = "consolidating" /\ phase' = "consolidating" /\ cursor \in Positions
  BY DEF IInv, TypeOK, Positions, Advance
<1>2. UNCHANGED <<slot, length, index, bit, parity, phase, counter, rounds, aged, asked, kept>>
  BY DEF Advance
<1>3. TypeOK'
  BY <1>2 DEF IInv, TypeOK, Positions, Advance
<1>4. NoAlias' /\ IndexIsPosition' /\ AgeInv' /\ TracingInv'
  BY <1>1, <1>2 DEF IInv, NoAlias, IndexIsPosition, AgeInv, TracingInv, Positions
<1>5. RoundInv'
  BY <1>1, <1>2 DEF IInv, RoundInv, Marked, Positions
<1>6. SettledInv'
  <2>1. slot[cursor] \in kept => Marked(slot[cursor])
    BY <1>1 DEF IInv, RoundInv
  <2>2. slot[cursor] \in kept => index[slot[cursor]] = cursor
    BY <2>1 DEF Advance, Displaced
  <2>3. \A p \in 0..(cursor - 1) : slot[p] \in kept => index[slot[p]] = p
    BY <1>1 DEF IInv, SettledInv
  <2>4. QED
    BY <1>2, <2>2, <2>3 DEF IInv, TypeOK, SettledInv, Advance
<1>7. QED
  BY <1>3, <1>4, <1>5, <1>6 DEF IInv

\* When the cursor has passed every position, the kept entities are exactly the
\* ones at the first `counter` positions, in the order of their new ids.
LEMMA Consolidated ==
    ASSUME IInv, phase = "consolidating", cursor = length
    PROVE  /\ \A k \in 0..(counter - 1) : slot[k] \in kept /\ index[slot[k]] = k
           /\ \A e \in kept : index[e] \in 0..(counter - 1) /\ slot[index[e]] = e
<1>1. \A e \in kept : index[e] \in 0..(counter - 1) /\ slot[index[e]] = e
  <2> SUFFICES ASSUME NEW e \in kept
               PROVE  index[e] \in 0..(counter - 1) /\ slot[index[e]] = e
    OBVIOUS
  <2>1. PICK p \in 0..(aged - 1) : slot[p] = e
    BY DEF IInv, RoundInv
  <2>2. p \in 0..(cursor - 1)
    BY DEF IInv, TypeOK
  <2>3. index[e] = p
    BY <2>1, <2>2 DEF IInv, SettledInv
  <2>4. index[e] < counter
    BY DEF IInv, RoundInv
  <2>5. QED
    BY <2>1, <2>3, <2>4 DEF IInv, TypeOK
<1>2. \A k \in 0..(counter - 1) : \E e \in kept : index[e] = k
  BY DEF IInv, RoundInv
<1>3. QED
  BY <1>1, <1>2

LEMMA TruncateInvariant ==
    ASSUME IInv, Truncate
    PROVE  IInv'
<1>1. phase = "consolidating" /\ cursor = length /\ phase' = "mutator"
  BY DEF Truncate
<1>2. \A k \in 0..(counter - 1) : slot[k] \in kept /\ index[slot[k]] = k
  BY <1>1, Consolidated
<1>3. counter \in 0..length /\ length \in Nat
  BY <1>1 DEF IInv, TypeOK, RoundInv
<1>4. Positions' = 0..(counter - 1) /\ Positions' \subseteq Positions
  BY <1>3 DEF Positions, Truncate
<1>5. \A p \in Positions' : slot'[p] = slot[p]
  BY <1>4 DEF Truncate
<1>6. TypeOK'
  BY <1>3, <1>4 DEF IInv, TypeOK, Positions, Truncate
<1>7. NoAlias'
  BY <1>4, <1>5 DEF IInv, NoAlias
<1>8. IndexIsPosition'
  BY <1>2, <1>4, <1>5 DEF IndexIsPosition, Truncate
<1>9. AgeInv'
  <2>1. \A p \in Positions' : bit[slot[p]] # parity
    BY <1>1, <1>2, <1>4 DEF IInv, RoundInv, Marked
  <2>2. \A p \in Positions' : bit[slot[p]] = 1 - parity
    BY <1>4, <2>1 DEF IInv, TypeOK
  <2>3. \A p \in Positions' : ~(p >= counter)
    BY <1>3, <1>4
  <2>4. QED
    BY <1>5, <2>2, <2>3 DEF AgeInv, Marked, Truncate
<1>10. RoundInv' /\ TracingInv' /\ SettledInv'
  BY <1>1 DEF RoundInv, TracingInv, SettledInv
<1>11. QED
  BY <1>6, <1>7, <1>8, <1>9, <1>10 DEF IInv

\* A step that changes nothing keeps the invariant.
LEMMA StutterInvariant ==
    ASSUME IInv, UNCHANGED vars
    PROVE  IInv'
  BY DEF vars, IInv, TypeOK, NoAlias, IndexIsPosition, AgeInv, RoundInv, TracingInv,
         SettledInv, Positions, Marked

LEMMA NextInvariant == IInv /\ [Next]_vars => IInv'
<1> SUFFICES ASSUME IInv, [Next]_vars PROVE IInv'
  OBVIOUS
<1>1. ASSUME NEW e \in Entity, Emplace(e) PROVE IInv'
  BY <1>1, EmplaceInvariant
<1>2. ASSUME NEW e \in Entity, Trace(e) PROVE IInv'
  BY <1>2, TraceInvariant
<1>3. CASE Sweep
  BY <1>3, SweepInvariant
<1>4. CASE Destroy
  BY <1>4, DestroyInvariant
<1>5. CASE Swap
  BY <1>5, SwapInvariant
<1>6. CASE Advance
  BY <1>6, AdvanceInvariant
<1>7. CASE Truncate
  BY <1>7, TruncateInvariant
<1>8. CASE UNCHANGED vars
  BY <1>8, StutterInvariant
<1>9. QED
  BY <1>1, <1>2, <1>3, <1>4, <1>5, <1>6, <1>7, <1>8 DEF Next, Consolidate

-----------------------------------------------------------------------------
(* What follows from it. *)

\* The pool's bookkeeping is consistent in every reachable state: in particular
\* no entity is at two positions, and outside a round its id is its position.
THEOREM Invariance == Spec => []IInv
<1>1. QED
  BY InitInvariant, NextInvariant, PTL DEF Spec

\* Type correctness of the pool.
THEOREM TypeCorrect == Spec => []TypeOK
<1>1. IInv => TypeOK
  BY DEF IInv
<1>2. QED
  BY <1>1, Invariance, PTL

\* The consolidation loop of ~Sweeper stays inside the pool.
THEOREM SwapsStayInBounds == Spec => []SwapInBounds
<1>1. IInv => SwapInBounds
  <2> SUFFICES ASSUME IInv, phase = "consolidating", NEW p \in Positions, Marked(slot[p])
               PROVE  index[slot[p]] \in Positions
    BY DEF SwapInBounds
  <2>1. CASE Displaced(p)
    BY <2>1, SwapTarget
  <2>2. CASE ~Displaced(p)
    BY <2>2 DEF Displaced
  <2>3. QED
    BY <2>1, <2>2
<1>2. QED
  BY <1>1, Invariance, PTL

\* Every collection keeps exactly the entities it renumbered, each at the
\* position its new id names.
THEOREM RenumberedSurvive == Spec => KeptSurvive
<1>1. IInv /\ [Next]_vars => [KeptSurviveStep]_vars
  <2> SUFFICES ASSUME IInv, Next, phase = "consolidating", phase' = "mutator"
               PROVE  /\ {slot'[p] : p \in 0..(length' - 1)} = kept
                      /\ \A e \in kept : slot'[index[e]] = e
    BY DEF KeptSurviveStep
  <2>1. Truncate
    BY DEF Next, Consolidate, Emplace, Trace, Sweep, Destroy, Swap, Advance
  <2>2. /\ \A k \in 0..(counter - 1) : slot[k] \in kept /\ index[slot[k]] = k
        /\ \A e \in kept : index[e] \in 0..(counter - 1) /\ slot[index[e]] = e
    BY <2>1, Consolidated DEF Truncate
  <2>3. length' = counter /\ \A k \in 0..(counter - 1) : slot'[k] = slot[k]
    BY <2>1 DEF Truncate
  <2>4. QED
    BY <2>2, <2>3
<1>2. QED
  BY <1>1, Invariance, PTL DEF Spec, KeptSurvive

\* Every traced entity that is not stale is kept.
AskedInv ==
    phase # "mutator" =>
        /\ asked \subseteq Live
        /\ \A p \in Positions : p < aged /\ slot[p] \in asked => slot[p] \in kept

\* A swap keeps the stored entities together.
LEMMA SwapKeepsLive ==
    ASSUME IInv, Swap
    PROVE  /\ Live' = Live
           /\ \A p \in Positions : p >= aged => slot'[p] = slot[p]
           /\ \A p \in Positions : p < aged => \E r \in Positions : r < aged /\ slot'[p] = slot[r]
<1> DEFINE c == cursor
           q == index[slot[c]]
<1>1. phase = "consolidating" /\ c \in Positions /\ Displaced(c) /\ length' = length
  BY DEF IInv, TypeOK, Positions, Swap
<1>2. q \in Positions /\ q < aged /\ c < aged /\ q # c
  BY <1>1, SwapTarget DEF IInv, TypeOK, Positions
<1>3. slot' = [slot EXCEPT ![c] = slot[q], ![q] = slot[c]]
  BY DEF Swap, SwapOnce
<1>4. slot'[c] = slot[q] /\ slot'[q] = slot[c]
  BY <1>1, <1>2, <1>3 DEF IInv, TypeOK
<1>5. \A p \in Positions : p # c /\ p # q => slot'[p] = slot[p]
  BY <1>3 DEF IInv, TypeOK
<1> HIDE DEF c, q
<1>6. \A p \in Positions : \E r \in Positions : slot'[p] = slot[r]
  BY <1>1, <1>2, <1>4, <1>5
<1>7. \A r \in Positions : \E p \in Positions : slot'[p] = slot[r]
  BY <1>1, <1>2, <1>4, <1>5
<1>8. Positions' = Positions
  BY <1>1 DEF Positions
<1>9. Live' = Live
  BY <1>6, <1>7, <1>8 DEF Live
<1>10. \A p \in Positions : p >= aged => p # c /\ p # q
  BY <1>1, <1>2 DEF IInv, TypeOK, Positions
<1>11. QED
  BY <1>1, <1>2, <1>4, <1>5, <1>9, <1>10

LEMMA AskedInvariant == IInv /\ AskedInv /\ [Next]_vars => AskedInv'
<1> SUFFICES ASSUME IInv, AskedInv, [Next]_vars PROVE AskedInv'
  OBVIOUS
<1>1. ASSUME NEW e \in Entity, Emplace(e) PROVE AskedInv'
  BY <1>1 DEF AskedInv, Emplace
<1>2. ASSUME NEW e \in Entity, Trace(e) PROVE AskedInv'
  <2>1. phase = "tracing" /\ e \in Live /\ asked' = asked \cup {e}
    BY <1>2 DEF Trace
  <2>2. UNCHANGED <<slot, length, aged>>
    BY <1>2 DEF Trace
  <2>3. kept \subseteq kept' /\ (~Marked(e) => e \in kept')
    BY <1>2 DEF Trace
  <2>4. \A p \in Positions : Marked(slot[p]) <=> (slot[p] \in kept \/ p >= aged)
    BY <2>1 DEF IInv, RoundInv
  <2>5. \A p \in Positions : p < aged /\ slot[p] = e => e \in kept'
    BY <2>3, <2>4 DEF IInv, TypeOK, Positions
  <2>6. QED
    BY <2>1, <2>2, <2>3, <2>5 DEF AskedInv, Live, Positions
<1>3. CASE Sweep
  BY <1>3 DEF AskedInv, Sweep
<1>4. CASE Destroy
  BY <1>4 DEF AskedInv, Destroy, Live, Positions
<1>5. CASE Swap
  <2>1. UNCHANGED <<length, aged, asked, kept>> /\ phase = "consolidating"
    BY <1>5 DEF Swap
  <2>2. QED
    BY <1>5, <2>1, SwapKeepsLive DEF AskedInv, Positions
<1>6. CASE Advance
  BY <1>6 DEF AskedInv, Advance, Live, Positions
<1>7. CASE Truncate
  BY <1>7 DEF AskedInv, Truncate
<1>8. CASE UNCHANGED vars
  BY <1>8 DEF AskedInv, vars, Live, Positions
<1>9. QED
  BY <1>1, <1>2, <1>3, <1>4, <1>5, <1>6, <1>7, <1>8 DEF Next, Consolidate

\* Nothing that was traced is lost, except the entities created under an odd
\* parity, and each of those that was traced is lost.
THEOREM StaleLost == Spec => []OnlyStaleLost
<1>1. Init => AskedInv
  BY DEF Init, AskedInv
<1>2. IInv /\ AskedInv => OnlyStaleLost
  <2> SUFFICES ASSUME IInv, AskedInv, phase # "mutator"
               PROVE  asked \ kept = {slot[p] : p \in aged..(length - 1)} \cap asked
    BY DEF OnlyStaleLost
  <2>1. ASSUME NEW e \in asked, e \notin kept
        PROVE  e \in {slot[p] : p \in aged..(length - 1)}
    <3>1. PICK p \in Positions : slot[p] = e
      BY <2>1 DEF AskedInv, Live
    <3>2. p >= aged
      BY <2>1, <3>1 DEF AskedInv, IInv, TypeOK, Positions
    <3>3. QED
      BY <3>1, <3>2 DEF IInv, TypeOK, Positions
  <2>2. \A p \in aged..(length - 1) : slot[p] \notin kept
    BY DEF IInv, TypeOK, Positions, RoundInv
  <2>3. QED
    BY <2>1, <2>2
<1>3. QED
  BY <1>1, <1>2, AskedInvariant, Invariance, PTL DEF Spec

-----------------------------------------------------------------------------
(* The abstract sequences. *)

\* A sequence that extends another by one element is that one with it appended.
LEMMA AppendIsExtension ==
    ASSUME NEW S, NEW n \in Nat, NEW s \in [1..n -> S], NEW t \in [1..(n + 1) -> S],
           \A k \in 1..n : t[k] = s[k]
    PROVE  t = Append(s, t[n + 1])
<1>1. s \in Seq(S) /\ Len(s) = n
  BY LenProperties
<1>2. t \in Seq(S) /\ Len(t) = n + 1 /\ t[n + 1] \in S
  BY LenProperties
<1>3. Append(s, t[n + 1]) \in Seq(S) /\ Len(Append(s, t[n + 1])) = n + 1
  BY <1>1, <1>2, AppendProperties
<1>4. \A k \in 1..(n + 1) : t[k] = Append(s, t[n + 1])[k]
  BY <1>1, <1>2, AppendProperties
<1>5. QED
  BY <1>2, <1>3, <1>4, SeqEqual

\* The kept entities, listed by their new ids.
NumberedOK ==
    /\ Numbered \in [1..counter -> kept]
    /\ \A k \in 1..counter : index[Numbered[k]] = k - 1
    /\ \A e \in kept : index[e] + 1 \in 1..counter /\ Numbered[index[e] + 1] = e
    /\ C!Members(Numbered) = kept

\* While a round runs, the new ids number the kept entities without a gap.
LEMMA NumberedProperties == IInv /\ phase # "mutator" => NumberedOK
<1> SUFFICES ASSUME IInv, phase # "mutator" PROVE NumberedOK
  OBVIOUS
<1>1. \A k \in 1..counter : \E e \in kept : index[e] = k - 1
  BY DEF IInv, TypeOK, RoundInv
<1>2. \A k \in 1..counter : Numbered[k] \in kept /\ index[Numbered[k]] = k - 1
  BY <1>1 DEF Numbered
<1>3. Numbered \in [1..counter -> kept]
  BY <1>2 DEF Numbered
<1>4. \A e \in kept : index[e] \in Nat /\ index[e] + 1 \in 1..counter
  BY DEF IInv, TypeOK, RoundInv
<1>5. \A e \in kept : Numbered[index[e] + 1] = e
  <2> SUFFICES ASSUME NEW e \in kept PROVE Numbered[index[e] + 1] = e
    OBVIOUS
  <2>1. PICK k \in 1..counter : k = index[e] + 1
    BY <1>4
  <2>2. Numbered[k] \in kept /\ index[Numbered[k]] = k - 1
    BY <1>2
  <2>3. index[Numbered[k]] = index[e]
    BY <1>4, <2>1, <2>2
  <2>4. Numbered[k] = e
    BY <2>2, <2>3 DEF IInv, RoundInv
  <2>5. QED
    BY <2>1, <2>4
<1>6. C!Members(Numbered) = kept
  BY <1>2, <1>3, <1>4, <1>5 DEF C!Members
<1>7. QED
  BY <1>2, <1>3, <1>4, <1>5, <1>6 DEF NumberedOK

\* The stored entities, as a set.
LEMMA StoredMembers ==
    ASSUME TypeOK
    PROVE  C!Members(Stored) = Live
<1>1. DOMAIN Stored = 1..length /\ \A k \in 1..length : Stored[k] = slot[k - 1]
  BY DEF Stored
<1>2. \A k \in 1..length : k - 1 \in Positions
  BY DEF TypeOK, Positions
<1>3. \A p \in Positions : \E k \in 1..length : Stored[k] = slot[p]
  <2> SUFFICES ASSUME NEW p \in Positions PROVE \E k \in 1..length : Stored[k] = slot[p]
    OBVIOUS
  <2>1. PICK k \in 1..length : k - 1 = p
    BY DEF TypeOK, Positions
  <2>2. QED
    BY <1>1, <2>1
<1>4. QED
  BY <1>1, <1>2, <1>3 DEF C!Members, Live

-----------------------------------------------------------------------------
(* Each step of the pool is a step of the collector, or invisible. *)

LEMMA EmplaceSimulates ==
    ASSUME IInv, NEW e \in Entity, Emplace(e)
    PROVE  C!Create(e)
<1>1. phase = "mutator" /\ phase' = "mutator" /\ e \notin Live
  BY DEF Emplace
<1>2. e \notin C!Members(Stored)
  BY <1>1, StoredMembers DEF IInv
<1>3. length \in Nat /\ length' = length + 1
  BY DEF IInv, TypeOK, Emplace
<1>4. Stored \in [1..length -> Entity]
  BY <1>3 DEF Stored, IInv, TypeOK, Positions
<1>5. Stored' \in [1..(length + 1) -> Entity]
  BY <1>3 DEF Stored, IInv, TypeOK, Positions, Emplace
<1>6. \A k \in 1..length : Stored'[k] = Stored[k]
  BY <1>3 DEF Stored, Emplace
<1>7. Stored'[length + 1] = e
  BY <1>3 DEF Stored, Emplace
<1>8. Stored' = Append(Stored, e)
  <2> HIDE DEF Stored
  <2>1. QED
    BY <1>3, <1>4, <1>5, <1>6, <1>7, AppendIsExtension
<1>9. QED
  BY <1>1, <1>2, <1>8 DEF C!Create

LEMMA SweepSimulates ==
    ASSUME IInv, Sweep
    PROVE  C!Begin
<1>1. Stored' = Stored /\ phase = "mutator" /\ phase' = "tracing" /\ counter' = 0
  BY DEF Stored, Sweep
<1>2. Numbered' = <<>>
  BY <1>1 DEF Numbered
<1>3. QED
  BY <1>1, <1>2 DEF C!Begin

\* A trace of an unmarked entity chooses it; a trace of a marked one, kept or
\* stale, changes nothing that the collector sees.
LEMMA TraceSimulates ==
    ASSUME IInv, NEW e \in Entity, Trace(e)
    PROVE  C!Choose(e) \/ UNCHANGED C!vars
<1>1. phase = "tracing" /\ phase' = "tracing" /\ e \in Live
  BY DEF Trace
<1>2. Stored' = Stored /\ e \in C!Members(Stored)
  BY <1>1, StoredMembers DEF IInv, Stored, Trace
<1>3. e \in kept => Marked(e)
  BY <1>1 DEF IInv, TypeOK, RoundInv, Live, Positions
<1>4. C!Members(Numbered) = kept
  BY <1>1, NumberedProperties DEF NumberedOK
<1>5. CASE Marked(e)
  <2>1. UNCHANGED <<index, counter, kept>>
    BY <1>5 DEF Trace
  <2>2. Numbered' = Numbered
    BY <2>1 DEF Numbered
  <2>3. QED
    BY <1>1, <1>2, <2>2 DEF C!vars
<1>6. CASE ~Marked(e)
  <2>0. e \notin kept
    BY <1>3, <1>6
  <2>1. /\ index' = [index EXCEPT ![e] = counter]
        /\ counter' = counter + 1
        /\ kept' = kept \cup {e}
    BY <1>6 DEF Trace
  <2>2. counter \in Nat /\ kept \subseteq Entity
    BY DEF IInv, TypeOK
  <2>3. /\ Numbered \in [1..counter -> kept]
        /\ \A k \in 1..counter : index[Numbered[k]] = k - 1
    BY <1>1, NumberedProperties DEF NumberedOK
  <2>4. IInv' /\ (phase # "mutator")'
    BY <1>1, TraceInvariant
  <2>5. /\ Numbered' \in [1..counter' -> kept']
        /\ \A f \in kept' : index'[f] + 1 \in 1..counter' /\ Numbered'[index'[f] + 1] = f
    <3>1. NumberedOK'
      BY <2>4, NumberedProperties, PTL
    <3>2. QED
      BY <3>1 DEF NumberedOK
  <2>6. \A k \in 1..counter : Numbered'[k] = Numbered[k]
    <3> SUFFICES ASSUME NEW k \in 1..counter PROVE Numbered'[k] = Numbered[k]
      OBVIOUS
    <3> DEFINE f == Numbered[k]
    <3>1. f \in kept /\ index[f] = k - 1 /\ f # e
      BY <2>0, <2>3
    <3>2. index'[f] = k - 1 /\ f \in kept'
      BY <2>1, <2>2, <3>1 DEF IInv, TypeOK
    <3>3. k - 1 + 1 = k
      BY <2>2
    <3>4. QED
      BY <2>5, <3>2, <3>3
  <2>7. Numbered'[counter + 1] = e
    <3>1. index'[e] = counter /\ e \in kept'
      BY <2>1 DEF IInv, TypeOK
    <3>2. QED
      BY <2>5, <3>1
  <2>8. Numbered \in [1..counter -> Entity] /\ Numbered' \in [1..(counter + 1) -> Entity]
    <3>1. kept' \subseteq Entity /\ counter' = counter + 1
      BY <2>1, <2>2
    <3>2. QED
      BY <2>2, <2>3, <2>5, <3>1
  <2>9. Numbered' = Append(Numbered, e)
    <3> HIDE DEF Numbered
    <3>1. QED
      BY <2>2, <2>6, <2>7, <2>8, AppendIsExtension
  <2>10. QED
    BY <1>1, <1>2, <1>4, <2>0, <2>9 DEF C!Choose
<1>7. QED
  BY <1>5, <1>6

LEMMA DestroySimulates ==
    ASSUME IInv, Destroy
    PROVE  C!Finish
<1>1. phase = "tracing" /\ phase' = "consolidating" /\ UNCHANGED <<index, counter, kept>>
  BY DEF Destroy
<1>2. Numbered' = Numbered
  BY <1>1 DEF Numbered
<1>3. QED
  BY <1>1, <1>2 DEF C!Finish

\* Swaps and the cursor's advance are invisible.
LEMMA SettlingStutters ==
    ASSUME IInv, Swap \/ Advance
    PROVE  UNCHANGED C!vars
<1>1. phase = "consolidating" /\ phase' = "consolidating" /\ UNCHANGED <<index, counter, kept>>
  BY DEF Swap, Advance
<1>2. Numbered' = Numbered
  BY <1>1 DEF Numbered
<1>3. QED
  BY <1>1, <1>2 DEF C!vars

\* So is the truncation: what is stored at the end is what was numbered.
LEMMA TruncateStutters ==
    ASSUME IInv, Truncate
    PROVE  UNCHANGED C!vars
<1>1. phase = "consolidating" /\ phase' = "mutator" /\ cursor = length
  BY DEF Truncate
<1>2. length' = counter /\ \A k \in 0..(counter - 1) : slot'[k] = slot[k]
  BY DEF Truncate
<1>3. counter \in Nat
  BY DEF IInv, TypeOK
<1>4. /\ Numbered \in [1..counter -> kept]
      /\ \A k \in 1..counter : index[Numbered[k]] = k - 1
  BY <1>1, NumberedProperties DEF NumberedOK
<1>5. \A k \in 1..counter : slot[k - 1] = Numbered[k]
  BY <1>1, <1>4, Consolidated
<1>6. \A k \in 1..counter : slot'[k - 1] = Numbered[k]
  BY <1>2, <1>3, <1>5
<1>7. Stored' = [k \in 1..counter |-> slot'[k - 1]]
  BY <1>2 DEF Stored
<1>8. Numbered = [k \in 1..counter |-> Numbered[k]]
  BY DEF Numbered
<1>9. Stored' = Numbered
  BY <1>6, <1>7, <1>8
<1>10. QED
  BY <1>1, <1>9 DEF C!vars

LEMMA InitSimulates == Init => C!Init
  BY DEF Init, C!Init, Stored

LEMMA StepSimulates == IInv /\ [Next]_vars => [C!Next]_(C!vars)
<1> SUFFICES ASSUME IInv, [Next]_vars PROVE [C!Next]_(C!vars)
  OBVIOUS
<1>1. ASSUME NEW e \in Entity, Emplace(e) PROVE C!Next
  BY <1>1, EmplaceSimulates DEF C!Next
<1>2. ASSUME NEW e \in Entity, Trace(e) PROVE [C!Next]_(C!vars)
  BY <1>2, TraceSimulates DEF C!Next
<1>3. CASE Sweep
  BY <1>3, SweepSimulates DEF C!Next
<1>4. CASE Destroy
  BY <1>4, DestroySimulates DEF C!Next
<1>5. CASE Swap \/ Advance
  BY <1>5, SettlingStutters
<1>6. CASE Truncate
  BY <1>6, TruncateStutters
<1>7. CASE UNCHANGED vars
  BY <1>7 DEF vars, C!vars, Stored, Numbered
<1>8. QED
  BY <1>1, <1>2, <1>3, <1>4, <1>5, <1>6, <1>7 DEF Next, Consolidate

\* However often it is collected, the pool behaves as Collector says: a
\* collection keeps what was chosen and nothing else, at the ids that the order
\* of choice gives, and the swaps that move the entities there are invisible.
THEOREM PoolImplementsCollector == Spec => CollectorSpec
<1>1. QED
  BY Invariance, InitSimulates, StepSimulates, PTL DEF Spec, CollectorSpec, C!Spec

=============================================================================
