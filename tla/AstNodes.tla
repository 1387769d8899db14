------------------------------ MODULE AstNodes ------------------------------
(***************************************************************************)
(* Ownership of AST nodes (src/src/include/bbe/ast.hpp).  A node owns an   *)
(* array of children by a bare pointer and a count; constructors,          *)
(* assignment, erase, emplace, insert, transform_initialize and            *)
(* deserialize allocate, move between and destroy such arrays by hand.     *)
(*                                                                         *)
(* Storage is allocated in blocks of cells: a variable of the client is a  *)
(* block of one cell, an array of children a block of as many.  The client *)
(* keeps to the comment at ast.hpp:119: a node without a value is only     *)
(* ever initialized.  An allocation that fails is a step that is not       *)
(* taken, where the code allocates before it changes anything; where it    *)
(* does not, in transform_initialize and deserialize, it is an action.     *)
(***************************************************************************)
EXTENDS Naturals, Sequences, SequencesExt, FiniteSets

CONSTANTS
    Var,      \* variables of the client that hold a node
    Block,    \* bound: arrays of children that may be allocated at a time
    NoBlock,  \* a null pointer
    Label,    \* what a node holds besides its children
    MaxNew,   \* bound: children that a node is created with
    MaxKids,  \* bound: children that a node may have
    MaxNodes  \* bound: nodes there may be when the client calls

ASSUME StorageAssumption ==
    /\ IsFiniteSet(Block)
    /\ Var \cap Block = {}
    /\ NoBlock \notin Var \cup Block

ASSUME BoundsAssumption == MaxNew \in Nat /\ MaxKids \in Nat /\ MaxNew <= MaxKids

VARIABLES
    mem,       \* allocated block -> its cells
    calls,     \* the calls of transform_initialize or deserialize, innermost first
    throwing,  \* an exception leaves these calls
    fault,     \* history: what undefined behaviour has happened
    call       \* history: what the client called last

vars == <<mem, calls, throwing, fault, call>>

Leaf(l) == [label |-> l, n |-> 0, data |-> NoBlock]
Node(l, n, b) == [label |-> l, n |-> n, data |-> b]

\* Storage without an object, an object that uninitialize_t left without a
\* value, and what null_initialize makes (NTYPE).
Raw == Leaf("raw")
Invalid == Leaf("invalid")
Null == Leaf("null")

HasValue(c) == c.label \notin {"raw", "invalid"}

-----------------------------------------------------------------------------
(* Storage. *)

At(m, p) == m[p[1]][p[2]]
Put(m, p, c) == [m EXCEPT ![p[1]] = [@ EXCEPT ![p[2]] = c]]
With(m, b, cells) == [x \in DOMAIN m \cup {b} |-> IF x = b THEN cells ELSE m[x]]
Without(m, S) == [x \in DOMAIN m \ S |-> m[x]]
Filled(n, c) == [i \in 1..n |-> c]

Free == Block \ DOMAIN mem

\* The arrays that the cells of a block own.
Arrays(m, b) == {m[b][i].data : i \in {j \in DOMAIN m[b] : m[b][j].n > 0}}

OwnsWithin(m, S) == \A b \in S \cap DOMAIN m : Arrays(m, b) \subseteq S

\* The arrays that a node owns, directly or through its children.
Under(m, c) ==
    LET closed == {S \in SUBSET Block : c.data \in S /\ OwnsWithin(m, S)}
    IN {b \in Block : c.n > 0 /\ \A S \in closed : b \in S}

\* A node may be destroyed: there are its children, and all have values.
Destructible(m, c) ==
    \A b \in Under(m, c) : b \in DOMAIN m /\ \A i \in DOMAIN m[b] : HasValue(m[b][i])

\* Mutant: the array is freed, its nodes are not destroyed.
DiedShallow(m, c) == IF c.n = 0 THEN m ELSE Without(m, {c.data})

\* ASTChildren::_die of a node that counts children: they are destroyed and
\* their array is freed.
Died(m, c) == Without(m, Under(m, c))

\* The nodes that the client can name, by a path from one of its variables,
\* with the cells in which they are.
Root(v) == [var |-> v, path |-> <<>>, cell |-> <<v, 1>>]

Step(names) ==
    UNION {{[var |-> x.var, path |-> Append(x.path, i), cell |-> <<At(mem, x.cell).data, i>>] :
                i \in 1..At(mem, x.cell).n} : x \in names}

Walk(v) ==
    LET level[k \in 0..Cardinality(Block)] == IF k = 0 THEN {Root(v)} ELSE Step(level[k - 1])
    IN UNION {level[k] : k \in DOMAIN level}

Named == UNION {Walk(v) : v \in Var \cap DOMAIN mem}

Valued == {x \in Named : HasValue(At(mem, x.cell))}

-----------------------------------------------------------------------------
(* The arguments that a node is made from. *)

Expr ==
    [how : {"leaf"}, label : Label] \cup
    [how : {"uninitialize", "null_initialize"}, label : Label, n : 1..MaxNew, block : Free] \cup
    [how : {"move"}, from : Valued]

Value(e) == CASE e.how = "leaf" -> Leaf(e.label)
              [] e.how = "move" -> At(mem, e.from.cell)
              [] OTHER -> Node(e.label, e.n, e.block)

\* Mutant: the count is copied.
NotEmptied(m, p) == m

\* A node that was moved from counts no children any more.
Emptied(m, p) == Put(m, p, Leaf(At(m, p).label))

\* The storage once the argument is evaluated and has been moved from.
After(e) == CASE e.how = "leaf" -> mem
              [] e.how = "move" -> Emptied(mem, e.from.cell)
              [] e.how = "uninitialize" -> With(mem, e.block, Filled(e.n, Invalid))
              [] e.how = "null_initialize" -> With(mem, e.block, Filled(e.n, Null))

\* What the client calls, as it sees it: nodes by their names, new ones as the
\* trees they are.
NameOf(x) == [var |-> x.var, path |-> x.path]

Flat(l, n, c) == [r \in {<<>>} \cup {<<i>> : i \in 1..n} |-> IF r = <<>> THEN l ELSE c.label]

NewTree(t) == [how |-> "new", tree |-> t]
From(how, x) == [how |-> how, var |-> x.var, path |-> x.path]

Told(e) == CASE e.how = "leaf" -> NewTree(Flat(e.label, 0, Raw))
             [] e.how = "move" -> From("move", e.from)
             [] e.how = "uninitialize" -> NewTree(Flat(e.label, e.n, Invalid))
             [] e.how = "null_initialize" -> NewTree(Flat(e.label, e.n, Null))

Calls(op, x, i, arg) == call' = [op |-> op, to |-> NameOf(x), i |-> i, arg |-> arg]

NoArg == [how |-> "none"]

-----------------------------------------------------------------------------
(* Variables, initialization and assignment. *)

Init ==
    /\ mem = [b \in {} |-> b]
    /\ calls = <<>>
    /\ throwing = FALSE
    /\ fault = "none"
    /\ call = [op |-> "none"]

Construct(v, e) ==
    /\ v \notin DOMAIN mem
    /\ mem' = With(After(e), v, <<Value(e)>>)
    /\ Calls("place", Root(v), 0, Told(e))
    /\ UNCHANGED <<calls, throwing, fault>>

ConstructUninitialized(v) ==
    /\ v \notin DOMAIN mem
    /\ mem' = With(mem, v, <<Invalid>>)
    /\ Calls("place", Root(v), 0, NewTree(Flat("invalid", 0, Raw)))
    /\ UNCHANGED <<calls, throwing, fault>>

\* ~ASTNode at the end of a variable's life.
Destroy(v) ==
    /\ v \in DOMAIN mem
    /\ HasValue(mem[v][1])
    /\ Destructible(mem, mem[v][1])
    /\ mem' = Without(Died(mem, mem[v][1]), {v})
    /\ Calls("drop", Root(v), 0, NoArg)
    /\ UNCHANGED <<calls, throwing, fault>>

\* initialize: nothing is destroyed, the fields are just set.
Initialize(x, e) ==
    /\ At(mem, x.cell) = Invalid
    /\ e.how # "null_initialize"
    /\ mem' = Put(After(e), x.cell, Value(e))
    /\ Calls("place", x, 0, Told(e))
    /\ UNCHANGED <<calls, throwing, fault>>

\* operator=, from q to p: q's count is taken first, p's children die, and only
\* then q's fields are read.
AssignReadsFreed(p, q) == q[1] \notin DOMAIN Died(Emptied(mem, q), At(Emptied(mem, q), p))

Assign(x, y) ==
    LET m == Emptied(mem, y.cell) IN
    /\ Destructible(m, At(m, x.cell))
    /\ IF AssignReadsFreed(x.cell, y.cell)
       THEN fault' = "freed" /\ UNCHANGED mem
       ELSE /\ mem' = Put(Died(m, At(m, x.cell)), x.cell, At(mem, y.cell))
            /\ UNCHANGED fault
    /\ Calls("place", x, 0, From("move", y))
    /\ UNCHANGED <<calls, throwing>>

\* setp64 asserts that there are children, and overwrites the pointer to them.
SetData(x) ==
    /\ At(mem, x.cell).n > 0
    /\ fault' = "data"
    /\ Calls("data", x, 0, NoArg)
    /\ UNCHANGED <<mem, calls, throwing>>

-----------------------------------------------------------------------------
(* Editing a list of children: a new array takes the old one's place. *)

Siblings(m, c) == IF c.n = 0 THEN <<>> ELSE m[c.data]

\* insert, and emplace when `at` is the number of children.  The new node is
\* constructed first; when it is moved from the very node whose list it goes
\* into, that node counts no children any more while its array is filled.
Insert(x, at, e, b) ==
    LET old == Siblings(After(e), At(mem, x.cell))
        n == Len(old) + 1
        grown == InsertAt(old, at + 1, Value(e))
    IN
    /\ n <= MaxKids
    /\ \A i \in DOMAIN old : HasValue(old[i])
    /\ IF e.how = "move" /\ e.from.cell = x.cell /\ n > 1
       THEN fault' = "itself" /\ UNCHANGED mem
       ELSE /\ mem' = Put(With(Without(After(e), {At(mem, x.cell).data}), b, grown),
                          x.cell, Node(At(mem, x.cell).label, n, b))
            /\ UNCHANGED fault
    /\ Calls("insert", x, at + 1, Told(e))
    /\ UNCHANGED <<calls, throwing>>

\* Mutant: off by one, the child before the erased one is left out.
ShrunkBefore(old, i) == RemoveAt(old, IF i = 1 THEN 1 ELSE i - 1)

\* What is moved to the smaller array.
Shrunk(old, i) == RemoveAt(old, i)

\* erase of the i-th child: the others are moved to a smaller array, and the
\* child dies with the old one.
Erase(x, i, b) ==
    LET c == At(mem, x.cell)
        old == Siblings(mem, c)
        n == c.n - 1
        m == Without(Died(mem, old[i]), {c.data})
    IN
    /\ \A k \in DOMAIN old : HasValue(old[k])
    /\ Destructible(mem, old[i])
    /\ mem' = IF n = 0 THEN Put(m, x.cell, Leaf(c.label))
              ELSE Put(With(m, b, Shrunk(old, i)), x.cell, Node(c.label, n, b))
    /\ Calls("erase", x, i, NoArg)
    /\ UNCHANGED <<calls, throwing, fault>>

-----------------------------------------------------------------------------
(* transform_initialize with a function that copies its node in the same   *)
(* way, and deserialize from what serialize wrote of a node: both build a  *)
(* tree from the top, child by child.                                      *)

Top == Head(calls)

\* The call for the node that is built has returned.
Returned(rest) == IF rest = <<>> THEN <<>> ELSE <<[Head(rest) EXCEPT !.done = @ + 1]>> \o Tail(rest)

Cells(kind, n) == Filled(n, IF kind = "copy" THEN Invalid ELSE Raw)

\* A node at `to` is built from the one at `from`.
Enter(kind, to, from, m, rest) ==
    LET c == At(m, from) IN
    IF c.n = 0
    THEN /\ mem' = Put(m, to, c)
         /\ calls' = Returned(rest)
    ELSE \E b \in Free :
         /\ mem' = With(m, b, Cells(kind, c.n))
         /\ calls' = <<[kind |-> kind, to |-> to, from |-> from, block |-> b, done |-> 0]>> \o rest

\* transform_initialize and deserialize on a node without a value.
BeginCopy(to, from) ==
    /\ At(mem, to.cell) = Invalid
    /\ Enter("copy", to.cell, from.cell, mem, <<>>)
    /\ Calls("place", to, 0, From("copy", from))
    /\ UNCHANGED <<throwing, fault>>

BeginDeserialize(to, from) ==
    /\ At(mem, to.cell) = Invalid
    /\ Enter("load", to.cell, from.cell, mem, <<>>)
    /\ Calls("place", to, 0, From("copy", from))
    /\ UNCHANGED <<throwing, fault>>

\* The next child.
Descend ==
    /\ ~throwing
    /\ Top.done < At(mem, Top.from).n
    /\ Enter(Top.kind, <<Top.block, Top.done + 1>>, <<At(mem, Top.from).data, Top.done + 1>>,
             mem, calls)
    /\ UNCHANGED <<throwing, fault, call>>

\* All children are there: transform_initialize stores the array in the node.
Finish ==
    LET c == At(mem, Top.from) IN
    /\ ~throwing
    /\ Top.done = c.n
    /\ mem' = Put(mem, Top.to, Node(c.label, c.n, Top.block))
    /\ calls' = Returned(Tail(calls))
    /\ UNCHANGED <<throwing, fault, call>>

\* The next child is not built: its array cannot be allocated, or the function
\* passed to transform_initialize throws.
Throw ==
    /\ ~throwing
    /\ Top.kind = "copy"
    /\ Top.done < At(mem, Top.from).n
    /\ throwing' = TRUE
    /\ UNCHANGED <<mem, calls, fault, call>>

\* Mutant: the child that was not built is destroyed too.
BuiltAndNext(k) == {mem[k.block][i] : i \in 1..(k.done + 1)}

Built(k) == {mem[k.block][i] : i \in 1..k.done}

\* Mutants: the handler leaves the array to the client; the exception does not
\* stop at the client.
UnwindLeaks ==
    /\ throwing
    /\ calls' = Tail(calls)
    /\ throwing' = (Tail(calls) # <<>>)
    /\ UNCHANGED <<mem, fault, call>>

UnwindNeverEnds ==
    /\ throwing
    /\ calls' = Tail(calls)
    /\ UNCHANGED <<mem, throwing, fault, call>>

\* The handler in transform_initialize: the children that were built are
\* destroyed, the array is freed, and the exception goes on.  The node and its
\* unfinished child are left without a value.
Unwind ==
    /\ throwing
    /\ IF \A c \in Built(Top) : HasValue(c) /\ Destructible(mem, c)
       THEN /\ mem' = Without(mem, (UNION {Under(mem, c) : c \in Built(Top)}) \cup {Top.block})
            /\ UNCHANGED fault
       ELSE fault' = "unwound" /\ UNCHANGED mem
    /\ calls' = Tail(calls)
    /\ throwing' = (Tail(calls) # <<>>)
    /\ UNCHANGED call

\* While a child is loaded, its array cannot be allocated: its constructor has
\* delegated to another that is complete, so its destructor runs, and destroys
\* as many children as were read, in an array that does not exist.
LoadThrow ==
    /\ Top.kind = "load"
    /\ Top.done < At(mem, Top.from).n
    /\ mem[At(mem, Top.from).data][Top.done + 1].n > 0
    /\ fault' = "loaded"
    /\ UNCHANGED <<mem, calls, throwing, call>>

-----------------------------------------------------------------------------

Places == UNION {{<<b, i>> : i \in DOMAIN mem[b]} : b \in DOMAIN mem}

Edit ==
    LET named == Named
        valued == {x \in named : HasValue(At(mem, x.cell))}
        sources == {x \in valued : Destructible(mem, At(mem, x.cell))}
    IN
    \/ \E e \in Expr :
        \/ \E v \in Var : Construct(v, e)
        \/ \E x \in named : Initialize(x, e)
        \/ \E x \in valued, b \in Free : \E at \in 0..At(mem, x.cell).n :
            b # Value(e).data /\ Insert(x, at, e, b)
    \/ \E v \in Var : ConstructUninitialized(v) \/ Destroy(v)
    \/ \E x, y \in valued : Assign(x, y)
    \/ \E x \in valued : SetData(x)
    \/ \E x \in valued, b \in Free : \E i \in 1..At(mem, x.cell).n : Erase(x, i, b)
    \/ \E to \in named, from \in sources : BeginCopy(to, from) \/ BeginDeserialize(to, from)

Build == Descend \/ Finish \/ Throw \/ Unwind \/ LoadThrow

Next ==
    \/ calls = <<>> /\ fault = "none" /\ Edit /\ Cardinality(Places') <= MaxNodes
    \/ calls # <<>> /\ fault = "none" /\ Build

Spec == Init /\ [][Next]_vars

-----------------------------------------------------------------------------
(* Properties. *)

Labels == Label \cup {"raw", "invalid", "null"}

\* A cell counts no children, or has an array for them.
Cell ==
    [label : Labels, n : {0}, data : {NoBlock}] \cup
    [label : Labels, n : 1..MaxKids, data : Block]

Address == (Var \cup Block) \X (Nat \ {0})

Frame ==
    [kind : {"copy", "load"}, to : Address, from : Address, block : Block, done : Nat]

Memory(m) ==
    /\ DOMAIN m \subseteq Var \cup Block
    /\ m \in [DOMAIN m -> Seq(Cell)]
    /\ \A v \in Var \cap DOMAIN m : Len(m[v]) = 1

TypeOK ==
    /\ Memory(mem)
    /\ calls \in Seq(Frame)
    /\ throwing \in BOOLEAN
    /\ throwing => calls # <<>>
    /\ fault \in {"none", "freed", "itself", "data", "unwound", "loaded"}

Owners(b) == {p \in Places : At(mem, p).n > 0 /\ At(mem, p).data = b}

Builders(b) == {k \in DOMAIN calls : calls[k].block = b}

\* Every array that is allocated has one owner, a node or the call that builds
\* it, which knows its size; a node that counts children has an array.  So no
\* array is freed twice, however nodes are moved between lists.
OwnedOnce ==
    /\ \A b \in Block \cap DOMAIN mem : Cardinality(Owners(b)) + Cardinality(Builders(b)) = 1
    /\ \A p \in Places : At(mem, p).n > 0 =>
        /\ At(mem, p).data \in DOMAIN mem
        /\ Len(mem[At(mem, p).data]) = At(mem, p).n

Reached ==
    (UNION {Under(mem, mem[v][1]) : v \in Var \cap DOMAIN mem}) \cup
    (UNION {{calls[k].block} \cup
            (UNION {Under(mem, mem[calls[k].block][i]) : i \in DOMAIN mem[calls[k].block]}) :
                k \in DOMAIN calls})

\* Nothing is leaked, except by a client that moves a node to a place below
\* itself: the arrays that nobody reaches hang on one that contains itself.
NothingLost ==
    \A b \in (Block \cap DOMAIN mem) \ Reached :
        \E p \in Places : {b, p[1]} \subseteq Under(mem, At(mem, p))

\* Destroying what transform_initialize had built never meets a node without a
\* value or an array that is gone.
UnwindingIsSound == fault # "unwound"

\* Assigning reads freed storage exactly when a node is assigned one of the
\* nodes below it, as in `n = std::move(n.children()[0])`.
AssignFaultsBelow ==
    calls = <<>> => \A x, y \in Valued :
        AssignReadsFreed(x.cell, y.cell) <=>
            /\ x.var = y.var
            /\ Len(x.path) < Len(y.path)
            /\ SubSeq(y.path, 1, Len(x.path)) = x.path

-----------------------------------------------------------------------------
(* The inductive invariant. *)

\* A node that counts children has an array of as many; no two nodes have the
\* same one; the arrays that no node has are the loose ones.
Owned(m, loose) ==
    /\ loose \subseteq Block \cap DOMAIN m
    /\ \A b \in DOMAIN m : \A i \in DOMAIN m[b] : m[b][i].n > 0 =>
        /\ m[b][i].data \in DOMAIN m \ loose
        /\ Len(m[m[b][i].data]) = m[b][i].n
    /\ \A b, c \in DOMAIN m : \A i \in DOMAIN m[b], j \in DOMAIN m[c] :
        m[b][i].n > 0 /\ m[c][j].n > 0 /\ m[b][i].data = m[c][j].data => b = c /\ i = j
    /\ \A d \in (Block \cap DOMAIN m) \ loose : \E b \in DOMAIN m : d \in Arrays(m, b)

\* The arrays that calls are building.
Begun(ks) == {ks[k].block : k \in DOMAIN ks}

\* A call has put as many children into its array as it has counted, and the
\* rest is still without a value; the next of them is what the call above it
\* builds.
FrameInv(m, ks, k) ==
    LET cells == m[ks[k].block] IN
    /\ Len(cells) = At(m, ks[k].from).n
    /\ ks[k].done <= Len(cells)
    /\ \A i \in DOMAIN cells : IF i <= ks[k].done THEN HasValue(cells[i]) ELSE cells[i].n = 0
    /\ k > 1 => ks[k].done < Len(cells)
    /\ \A j \in DOMAIN ks : ks[j].block = ks[k].block => j = k
    /\ IF k < Len(ks)
       THEN ks[k].to = <<ks[k + 1].block, ks[k + 1].done + 1>>
       ELSE /\ ks[k].to[1] \in DOMAIN m
            /\ ks[k].to[2] \in DOMAIN m[ks[k].to[1]]
            /\ At(m, ks[k].to) = Invalid

\* What is copied and what is made of it are apart: the arrays below the node
\* that is copied, all of whose nodes have values, and the new ones, which only
\* they themselves own.
Apart(m, ks, source, made) ==
    /\ source \cap made = {}
    /\ OwnsWithin(m, source)
    /\ \A b \in source : \A i \in DOMAIN m[b] : HasValue(m[b][i])
    /\ \A b \in DOMAIN m : IF b \in made THEN Arrays(m, b) \subseteq made
                                         ELSE Arrays(m, b) \cap made = {}
    /\ Begun(ks) \subseteq made
    /\ \A b \in made \ Begun(ks) : \A i \in DOMAIN m[b] : HasValue(m[b][i])
    /\ \A k \in DOMAIN ks :
        /\ ks[k].from[1] \in DOMAIN m \ made
        /\ ks[k].from[2] \in DOMAIN m[ks[k].from[1]]
        /\ HasValue(At(m, ks[k].from))
        /\ At(m, ks[k].from).n > 0
        /\ At(m, ks[k].from).data \in source
        /\ k = Len(ks) => ks[k].to[1] \notin made

Building(m, ks) ==
    /\ Owned(m, Begun(ks))
    /\ \A k \in DOMAIN ks : FrameInv(m, ks, k)
    /\ ks # <<>> => \E source, made \in SUBSET (Block \cap DOMAIN m) : Apart(m, ks, source, made)

IInv == TypeOK /\ Building(mem, calls) /\ UnwindingIsSound

=============================================================================
