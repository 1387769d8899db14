----------------------------- MODULE MCAstNodes -----------------------------
(* AstNodesRefinement on a small storage. *)
EXTENDS AstNodesRefinement, TLC

\* Which of the free blocks an array gets, which variable is which, and which
\* label is which, makes no difference to the safety properties.
Symmetry == Permutations(Var) \cup Permutations(Block) \cup Permutations(Label)

\* The history of the last call tells no two states apart.
View == <<mem, calls, throwing, fault>>

=============================================================================
