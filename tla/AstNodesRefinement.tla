------------------------- MODULE AstNodesRefinement -------------------------
(***************************************************************************)
(* The nodes of ast.hpp as an implementation of TreeEdits.                 *)
(***************************************************************************)
EXTENDS AstNodes

TreeOf(v) ==
    LET walk == Walk(v) IN
    [path \in {x.path : x \in walk} |->
        At(mem, (CHOOSE x \in walk : x.path = path).cell).label]

T == INSTANCE TreeEdits WITH tree <- [v \in Var \cap DOMAIN mem |-> TreeOf(v)]

\* Whatever is moved, inserted, erased, copied or loaded, and whatever fails
\* meanwhile, each variable holds a tree of its own and a call changes the
\* trees as it says: no edit shows in another tree, and a call that fails
\* shows in none.
TreeEditsSpec == T!Spec

=============================================================================
