-------------------------- MODULE GcPoolRefinement --------------------------
(***************************************************************************)
(* The pool of lmgcp.hpp as an implementation of Collector.                *)
(***************************************************************************)
EXTENDS GcPool, Sequences

\* The entities in the order of their positions.
Stored == [k \in 1..length |-> slot[k - 1]]

\* The entities with a new id, in the order of their new ids.
Numbered == [k \in 1..counter |-> CHOOSE e \in kept : index[e] = k - 1]

\* The outcome of a round is settled when the consolidation begins: from there
\* to the end of the round the entities only travel to where they belong.
C == INSTANCE Collector WITH
        store <- IF phase = "consolidating" THEN Numbered ELSE Stored,
        collecting <- phase = "tracing",
        chosen <- IF phase = "tracing" THEN Numbered ELSE <<>>

\* The pool is a Collector, however often it is collected: each swap of
\* ~Sweeper and the truncation are invisible.  What Collector leaves open is
\* whether an entity that the client traces is chosen: OnlyStaleLost says when
\* the pool does not choose it.
CollectorSpec == C!Spec

=============================================================================
