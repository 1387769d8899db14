------------------------------ MODULE TreeEdits -----------------------------
(***************************************************************************)
(* What ASTNode promises its client: each variable holds a tree of its     *)
(* own, a value, and an edit does to the trees it names what it says, and  *)
(* nothing to any other.  AstNodes, with its arrays of children,           *)
(* implements it.                                                          *)
(*                                                                         *)
(* A tree maps its paths to labels.  The label "invalid" is that of a node *)
(* that was only given storage and must be initialized before it is used.  *)
(***************************************************************************)
EXTENDS Naturals, Sequences, SequencesExt

VARIABLES
    tree,  \* variable that is in use -> its tree
    call   \* the edit that the client asks for

-----------------------------------------------------------------------------
(* Trees as values. *)

Below(t, p) == {r \in DOMAIN t : IsPrefix(p, r)}

Sub(t, p) == [r \in {SubSeq(q, Len(p) + 1, Len(q)) : q \in Below(t, p)} |-> t[p \o r]]

\* Without the children of p.
Cut(t, p) == [r \in (DOMAIN t \ Below(t, p)) \cup {p} |-> t[r]]

\* With s in the place of what was at p.
Graft(t, p, s) ==
    [r \in (DOMAIN t \ Below(t, p)) \cup {p \o q : q \in DOMAIN s} |->
        IF IsPrefix(p, r) THEN s[SubSeq(r, Len(p) + 1, Len(r))] ELSE t[r]]

Children(t) == [i \in {Head(r) : r \in DOMAIN t \ {<<>>}} |-> Sub(t, <<i>>)]

\* A label over a list of subtrees.
Listing(l, subtrees) ==
    LET paths == UNION {{<<i>> \o r : r \in DOMAIN subtrees[i]} : i \in DOMAIN subtrees}
    IN [r \in paths \cup {<<>>} |-> IF r = <<>> THEN l ELSE subtrees[Head(r)][Tail(r)]]

\* The tree with the list of children at p replaced.
Relist(t, p, subtrees) == Graft(t, p, Listing(t[p], subtrees))

-----------------------------------------------------------------------------
(* Edits.  An argument is a new tree, or a node that is moved from, which  *)
(* keeps its label and loses its children, or a node that is copied.       *)

Argument(a) == IF a.how = "new" THEN a.tree ELSE Sub(tree[a.var], a.path)

AfterArgument(a) == IF a.how = "move" THEN [tree EXCEPT ![a.var] = Cut(@, a.path)] ELSE tree

\* A variable is created, or the node that `to` names is initialized or
\* assigned to; when its own place was moved away with the argument, there is
\* nothing left to change.
Place(to, a) ==
    LET t == AfterArgument(a) IN
    tree' = IF to.var \notin DOMAIN t
            THEN [v \in DOMAIN t \cup {to.var} |-> IF v = to.var THEN Argument(a) ELSE t[v]]
            ELSE IF to.path \in DOMAIN t[to.var]
                 THEN [t EXCEPT ![to.var] = Graft(@, to.path, Argument(a))]
                 ELSE t

\* The argument becomes the i-th child.
InsertChild(to, i, a) ==
    LET t == AfterArgument(a) IN
    IF to.path \in DOMAIN t[to.var]
    THEN LET list == Children(Sub(t[to.var], to.path)) IN
         /\ i <= Len(list) + 1
         /\ tree' = [t EXCEPT ![to.var] = Relist(@, to.path, InsertAt(list, i, Argument(a)))]
    ELSE tree' = t

EraseChild(to, i) ==
    tree' = [tree EXCEPT ![to.var] = Relist(@, to.path, RemoveAt(Children(Sub(@, to.path)), i))]

Drop(to) == tree' = [v \in DOMAIN tree \ {to.var} |-> tree[v]]

Do(c) ==
    \/ c.op = "place" /\ Place(c.to, c.arg)
    \/ c.op = "insert" /\ InsertChild(c.to, c.i, c.arg)
    \/ c.op = "erase" /\ EraseChild(c.to, c.i)
    \/ c.op = "drop" /\ Drop(c.to)

Init == tree = [v \in {} |-> v]

\* Trees change by what the client asks for, or not at all.
Spec == Init /\ [][Do(call')]_tree

=============================================================================
