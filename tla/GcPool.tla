------------------------------- MODULE GcPool -------------------------------
(***************************************************************************)
(* LinearMovingGarbageCollectedPool (src/src/include/bbe/lmgcp.hpp): the   *)
(* pool in which types, functions and overload sets live.  This module is  *)
(* about identity: which entity sits at which position, which id it        *)
(* answers to, and what one collection does to both.  The blocks behind    *)
(* the positions are the subject of PoolBlocks.                            *)
(*                                                                         *)
(* An entity packs its id and a mark bit into one word (class Entity); the *)
(* pool holds a parity.  A round flips the bit of every entity it traces,  *)
(* renumbers them in trace order, and ends by swapping each one to the     *)
(* position its new id names, truncating the rest and flipping the parity. *)
(***************************************************************************)
EXTENDS Naturals, FiniteSets

CONSTANTS
    Entity,      \* identities; a name may be used again once its entity is dead
    MaxRounds    \* bound: collections per behaviour

ASSUME MaxRoundsAssumption == MaxRounds \in Nat

VARIABLES
    slot,        \* position -> the entity stored there
    length,      \* number of stored entities
    index,       \* Entity::_index without its lowest bit
    bit,         \* the lowest bit of Entity::_index
    parity,      \* the pool's parity: an entity is marked when its bit differs
    phase,       \* "mutator", "tracing" (a Sweeper is alive), "consolidating" (~Sweeper runs)
    counter,     \* Sweeper::counter, the next id to hand out
    cursor,      \* position of the consolidation loop
    rounds,      \* history: collections begun
    aged,        \* history: how many entities the next or running round sees as unmarked
    asked,       \* history: entities on which this round's trace() was called
    kept         \* history: entities to which this round gave a new id

vars == <<slot, length, index, bit, parity, phase, counter, cursor,
          rounds, aged, asked, kept>>

Positions == 0..(length - 1)
Live == {slot[p] : p \in Positions}

\* Sweeper::is_marked
Marked(e) == bit[e] # parity

Init ==
    /\ slot = [p \in {} |-> p]
    /\ length = 0
    /\ index = [e \in Entity |-> 0]
    /\ bit = [e \in Entity |-> 0]
    /\ parity = 0
    /\ phase = "mutator"
    /\ counter = 0
    /\ cursor = 0
    /\ rounds = 0
    /\ aged = 0
    /\ asked = {}
    /\ kept = {}

-----------------------------------------------------------------------------
(* The client between collections. *)

\* emplace: the new entity takes the next position as its id and a clear bit,
\* whatever the pool's parity is.
Emplace(e) ==
    /\ phase = "mutator"
    /\ e \notin Live
    /\ slot' = [p \in 0..length |-> IF p = length THEN e ELSE slot[p]]
    /\ length' = length + 1
    /\ index' = [index EXCEPT ![e] = length]
    /\ bit' = [bit EXCEPT ![e] = 0]
    /\ aged' = IF parity = 1 THEN aged ELSE length + 1
    /\ UNCHANGED <<parity, phase, counter, cursor, rounds, asked, kept>>

\* sweep(): a Sweeper is constructed.
Sweep ==
    /\ phase = "mutator"
    /\ rounds < MaxRounds
    /\ phase' = "tracing"
    /\ counter' = 0
    /\ rounds' = rounds + 1
    /\ asked' = {}
    /\ kept' = {}
    /\ UNCHANGED <<slot, length, index, bit, parity, cursor, aged>>

-----------------------------------------------------------------------------
(* The round. *)

\* Plausible bugs, for the mutant runs.
TraceAlways(e) ==
    /\ phase = "tracing"
    /\ e \in Live
    /\ asked' = asked \cup {e}
    /\ index' = [index EXCEPT ![e] = counter]
    /\ bit' = [bit EXCEPT ![e] = 1 - @]
    /\ counter' = counter + 1
    /\ kept' = kept \cup {e}
    /\ UNCHANGED <<slot, length, parity, phase, cursor, rounds, aged>>

TraceNoBump(e) ==
    /\ phase = "tracing"
    /\ e \in Live
    /\ asked' = asked \cup {e}
    /\ IF Marked(e)
       THEN UNCHANGED <<index, bit, counter, kept>>
       ELSE /\ index' = [index EXCEPT ![e] = counter]
            /\ bit' = [bit EXCEPT ![e] = 1 - @]
            /\ kept' = kept \cup {e}
            /\ UNCHANGED counter
    /\ UNCHANGED <<slot, length, parity, phase, cursor, rounds, aged>>

\* Sweeper::trace, by id or through a pointer: mark(), which flips the bit and
\* renumbers, runs only on an entity that is not marked.
Trace(e) ==
    /\ phase = "tracing"
    /\ e \in Live
    /\ asked' = asked \cup {e}
    /\ IF Marked(e)
       THEN UNCHANGED <<index, bit, counter, kept>>
       ELSE /\ index' = [index EXCEPT ![e] = counter]
            /\ bit' = [bit EXCEPT ![e] = 1 - @]
            /\ counter' = counter + 1
            /\ kept' = kept \cup {e}
    /\ UNCHANGED <<slot, length, parity, phase, cursor, rounds, aged>>

\* ~Sweeper, on the Sweeper that was not moved from: _destroy() begins.
Destroy ==
    /\ phase = "tracing"
    /\ phase' = "consolidating"
    /\ cursor' = 0
    /\ UNCHANGED <<slot, length, index, bit, parity, counter, rounds, aged, asked, kept>>

\* The condition of the inner while loop of _destroy().
Displaced(p) == Marked(slot[p]) /\ p # index[slot[p]]

SwapOnce(p, q) == [slot EXCEPT ![p] = slot[q], ![q] = slot[p]]

\* One iteration of the inner loop: the entity at the cursor changes places
\* with whatever is where its id says it belongs.
Swap ==
    /\ phase = "consolidating"
    /\ cursor < length
    /\ Displaced(cursor)
    /\ slot' = SwapOnce(cursor, index[slot[cursor]])
    /\ UNCHANGED <<length, index, bit, parity, phase, counter, cursor, rounds, aged, asked, kept>>

AdvanceAlways ==
    /\ phase = "consolidating"
    /\ cursor < length
    /\ cursor' = cursor + 1
    /\ UNCHANGED <<slot, length, index, bit, parity, phase, counter, rounds, aged, asked, kept>>

AdvanceStuck ==
    /\ phase = "consolidating"
    /\ cursor < length
    /\ ~Displaced(cursor)
    /\ cursor' = IF slot[cursor] \in kept THEN cursor + 1 ELSE 0
    /\ UNCHANGED <<slot, length, index, bit, parity, phase, counter, rounds, aged, asked, kept>>

\* The inner loop is done with this position.
Advance ==
    /\ phase = "consolidating"
    /\ cursor < length
    /\ ~Displaced(cursor)
    /\ cursor' = cursor + 1
    /\ UNCHANGED <<slot, length, index, bit, parity, phase, counter, rounds, aged, asked, kept>>

TruncateKeepsParity ==
    /\ phase = "consolidating"
    /\ cursor = length
    /\ length' = counter
    /\ slot' = [p \in 0..(counter - 1) |-> slot[p]]
    /\ phase' = "mutator"
    /\ aged' = counter
    /\ cursor' = 0
    /\ UNCHANGED <<index, bit, parity, counter, rounds, asked, kept>>

\* The end of _destroy(): erase_after(counter) and the parity flip.
Truncate ==
    /\ phase = "consolidating"
    /\ cursor = length
    /\ length' = counter
    /\ slot' = [p \in 0..(counter - 1) |-> slot[p]]
    /\ parity' = 1 - parity
    /\ phase' = "mutator"
    /\ aged' = counter
    /\ cursor' = 0
    /\ UNCHANGED <<index, bit, counter, rounds, asked, kept>>

Consolidate == Swap \/ Advance \/ Truncate

Next ==
    \/ \E e \in Entity : Emplace(e) \/ Trace(e)
    \/ Sweep
    \/ Destroy
    \/ Consolidate

Spec == Init /\ [][Next]_vars

\* ~Sweeper is a plain loop on the thread that called it: it keeps running.
FairSpec == Spec /\ WF_vars(Consolidate)

-----------------------------------------------------------------------------
(* Properties. *)

TypeOK ==
    /\ length \in Nat
    /\ slot \in [Positions -> Entity]
    /\ index \in [Entity -> Nat]
    /\ bit \in [Entity -> {0, 1}]
    /\ parity \in {0, 1}
    /\ phase \in {"mutator", "tracing", "consolidating"}
    /\ counter \in Nat
    /\ cursor \in 0..length
    /\ rounds \in 0..MaxRounds
    /\ aged \in 0..length
    /\ asked \subseteq Entity
    /\ kept \subseteq asked

\* No entity is ever stored at two positions: the swaps of a collection lose
\* nobody and duplicate nobody.
NoAlias == \A p, q \in Positions : slot[p] = slot[q] => p = q

\* Between collections an entity's id is the position it is found at, which is
\* what operator[], serialization and the client's references by id rely on.
IndexIsPosition ==
    phase = "mutator" => \A p \in Positions : index[slot[p]] = p

\* The consolidation loop never indexes the pool outside its entities: every id
\* it follows is the position of a stored entity.
SwapInBounds ==
    phase = "consolidating" =>
        \A p \in Positions : Marked(slot[p]) => index[slot[p]] \in Positions

\* The end of a collection keeps precisely the entities that were given a new
\* id, each at the position its new id names, so every reference that trace()
\* rewrote is right once the Sweeper is gone.
KeptSurviveStep ==
    phase = "consolidating" /\ phase' = "mutator" =>
        /\ {slot'[p] : p \in 0..(length' - 1)} = kept
        /\ \A e \in kept : slot'[index[e]] = e

KeptSurvive == [][KeptSurviveStep]_vars

\* What a collection loses although it was traced: precisely the entities that
\* were created while the pool's parity was odd.  emplace() gives them a clear
\* bit, which that parity reads as "marked", so trace() gives them no new id.
OnlyStaleLost ==
    phase # "mutator" =>
        asked \ kept = {slot[p] : p \in aged..(length - 1)} \cap asked

\* A collection that has begun to consolidate gets to its end: the swaps of the
\* inner loop are finite.
ConsolidationEnds == phase = "consolidating" ~> phase = "mutator"

\* What the test of the collector asserts (src/src/auto-test.cpp:207-208, "u32
\* 1 post-nop-collect"): a collection in which everything is traced removes
\* nothing.
NopCollectKeepsAllStep ==
    phase = "consolidating" /\ phase' = "mutator" /\ Live \subseteq asked =>
        length' = length

NopCollectKeepsAll == [][NopCollectKeepsAllStep]_vars

-----------------------------------------------------------------------------
(* The inductive invariant. *)

\* Before a round, the first `aged` positions hold the entities that the pool's
\* parity reads as unmarked.
AgeInv ==
    phase = "mutator" =>
        /\ \A p \in Positions : Marked(slot[p]) <=> p >= aged
        /\ parity = 0 => aged = length

\* During a round the kept entities are numbered without gap or repetition and
\* are among the aged; the ones past `aged` look marked and stay where they are.
RoundInv ==
    phase # "mutator" =>
        /\ \A p \in Positions : Marked(slot[p]) <=> (slot[p] \in kept \/ p >= aged)
        /\ \A p \in Positions : p >= aged => slot[p] \notin kept /\ index[slot[p]] = p
        /\ \A e \in kept : index[e] < counter
        /\ \A e, f \in kept : index[e] = index[f] => e = f
        /\ \A e \in kept : \E p \in 0..(aged - 1) : slot[p] = e
        /\ \A k \in 0..(counter - 1) : \E e \in kept : index[e] = k
        /\ counter <= aged
        /\ IsFiniteSet(kept)
        /\ Cardinality(kept) = counter

\* Until the entities move, the ones without a new id keep their old one.
TracingInv ==
    phase = "tracing" =>
        \A p \in Positions : slot[p] \notin kept => index[slot[p]] = p

\* Behind the cursor every kept entity is where its id says.
SettledInv ==
    phase = "consolidating" =>
        \A p \in 0..(cursor - 1) : slot[p] \in kept => index[slot[p]] = p

IInv ==
    /\ TypeOK
    /\ NoAlias
    /\ IndexIsPosition
    /\ AgeInv
    /\ RoundInv
    /\ TracingInv
    /\ SettledInv

=============================================================================
