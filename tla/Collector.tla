----------------------------- MODULE Collector ------------------------------
(***************************************************************************)
(* What a moving, compacting collector promises its client: the store is a *)
(* sequence of entities, an entity's id is its place in it, and a          *)
(* collection replaces the store by the entities that were traced, in the  *)
(* order in which they were first traced.  GcPoolRefinement shows that     *)
(* LinearMovingGarbageCollectedPool keeps this promise.                    *)
(***************************************************************************)
EXTENDS Sequences

CONSTANT Entity

VARIABLES
    store,       \* the stored entities; the one with id k is store[k + 1]
    collecting,  \* a Sweeper is alive
    chosen       \* the entities traced so far in this round

vars == <<store, collecting, chosen>>

Members(s) == {s[i] : i \in DOMAIN s}

Init ==
    /\ store = <<>>
    /\ collecting = FALSE
    /\ chosen = <<>>

Create(e) ==
    /\ ~collecting
    /\ e \notin Members(store)
    /\ store' = Append(store, e)
    /\ UNCHANGED <<collecting, chosen>>

Begin ==
    /\ ~collecting
    /\ collecting' = TRUE
    /\ UNCHANGED <<store, chosen>>

Choose(e) ==
    /\ collecting
    /\ e \in Members(store)
    /\ chosen' = IF e \in Members(chosen) THEN chosen ELSE Append(chosen, e)
    /\ UNCHANGED <<store, collecting>>

Finish ==
    /\ collecting
    /\ collecting' = FALSE
    /\ store' = chosen
    /\ chosen' = <<>>

Next ==
    \/ \E e \in Entity : Create(e) \/ Choose(e)
    \/ Begin
    \/ Finish

Spec == Init /\ [][Next]_vars

=============================================================================
