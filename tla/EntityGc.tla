------------------------------ MODULE EntityGc ------------------------------
(***************************************************************************)
(* One collection of a ProjectEntitiesPool: the reference graph between    *)
(* types, functions and overload sets, traced by EntitySweeper             *)
(* (src/src/include/bbe/gc.hpp) while the client's own references are      *)
(* handed to it one by one, and the table of compound types that           *)
(* TypeDatabase::finalize_gc repairs.                                      *)
(*                                                                         *)
(* Each of the three pools is used at the level of Collector: a sequence   *)
(* of entities, and the sequence of those traced so far.  A reference, be  *)
(* it a pointer or an id, is a place in such a sequence.  The recursion of *)
(* the tracing functions is an explicit stack, because what a reference    *)
(* holds changes while it runs.                                            *)
(***************************************************************************)
EXTENDS Naturals, Sequences, FiniteSets

CONSTANTS
    Sizes,         \* bound: the sizes a project may have: how many types (the
                   \* built-in one included), functions and overload sets, and
                   \* how many references are added to an entity later
    MaxRoots       \* bound: references the client has traced

ASSUME BoundsAssumption ==
    /\ Sizes \subseteq [type : Nat \ {0}, function : Nat, overload : Nat, added : Nat]
    /\ IsFiniteSet(Sizes) /\ Sizes # {}
    /\ MaxRoots \in Nat

VARIABLES
    store,       \* pool -> the entities in it, by position
    chosen,      \* pool -> the entities this round gave a new position
    kind,        \* type -> the tag of TypeInfo::data
    refs,        \* entity -> the references it holds: of a signature the parameter,
                 \* then those that are visited, in this order
    compounds,   \* TypeDatabase::compounds, as positions of types
    phase,       \* "mutator", "tracing" or "collected"
    stack,       \* what the tracing functions still have to do, the next first
    client,      \* the references the client had traced, as they are now
    seen,        \* history: overload sets traced in this round
    retraced     \* history: an overload set was traced a second time

vars == <<store, chosen, kind, refs, compounds, phase, stack, client, seen, retraced>>

Pools == {"type", "function", "overload"}

\* T_INTRINSIC_END built-in types open the pool of types; one stands for them.
Builtin == <<"type", 1>>

Members(s) == {s[i] : i \in DOMAIN s}

PlaceIn(s, e) == CHOOSE i \in DOMAIN s : s[i] = e

Deref(r) == store[r.pool][r.at]

\* A reference to the entity at a place of a pool; `of` is a history of what it
\* was made to denote.
RefTo(role, pool, at) == [role |-> role, pool |-> pool, at |-> at, of |-> store[pool][at]]

Init ==
    /\ store = [p \in Pools |-> IF p = "type" THEN <<Builtin>> ELSE <<>>]
    /\ chosen = [p \in Pools |-> <<>>]
    /\ kind = <<"dtype">>
    /\ refs = [e \in {Builtin} |-> <<>>]
    /\ compounds = {}
    /\ phase = "mutator"
    /\ stack = <<>>
    /\ client = {}
    /\ seen = {}
    /\ retraced = FALSE

-----------------------------------------------------------------------------
(* The client builds a project. *)

\* References added to an entity; a function is created with the two of its
\* signature, and a type is never changed.
Added(e, rs) == CASE e[1] = "type" -> 0
                  [] e[1] = "function" -> Len(rs) - 2
                  [] e[1] = "overload" -> Len(rs)

\* The project is of one of the allowed sizes.
Fits(held, holds) ==
    \E size \in Sizes :
        /\ \A p \in Pools : Len(held[p]) <= size[p]
        /\ \A e \in DOMAIN holds : Added(e, holds[e]) <= size.added

\* EntityPool::emplace
Add(pool, rs) ==
    LET e == <<pool, Len(store[pool]) + 1>> IN
    /\ store' = [store EXCEPT ![pool] = Append(@, e)]
    /\ refs' = [x \in DOMAIN refs \cup {e} |-> IF x = e THEN rs ELSE refs[x]]
    /\ Fits(store', refs')

\* eq_tr and hash_tr: two compound types are one when they have the same tag
\* and refer to the same places.
Shape(rs) == [i \in DOMAIN rs |-> <<rs[i].role, rs[i].at>>]

Interned(k, rs) ==
    {p \in compounds : LET t == store.type[p] IN kind[t[2]] = k /\ Shape(refs[t]) = Shape(rs)}

\* pack_of, function_of and pointer_to: the compound type is looked up first
\* and created only when it is not there.
Intern(k, rs) ==
    /\ phase = "mutator"
    /\ Interned(k, rs) = {}
    /\ Add("type", rs)
    /\ kind' = Append(kind, k)
    /\ compounds' = compounds \cup {Len(store.type) + 1}
    /\ UNCHANGED <<chosen, phase, stack, client, seen, retraced>>

Types == DOMAIN store.type

PackOf(t, u) == Intern("pack", <<RefTo("element", "type", t), RefTo("element", "type", u)>>)

PointerTo(t) == Intern("pointer", <<RefTo("pointed", "type", t)>>)

FunctionOf(ret, param) ==
    Intern("function", <<RefTo("param", "type", param), RefTo("ret", "type", ret)>>)

\* A function with its signature; its body is still empty.
NewFunction(ret, param) ==
    /\ phase = "mutator"
    /\ Add("function", <<RefTo("param", "type", param), RefTo("ret", "type", ret)>>)
    /\ UNCHANGED <<chosen, kind, compounds, phase, stack, client, seen, retraced>>

Extend(e, rs) ==
    /\ refs' = [refs EXCEPT ![e] = @ \o rs]
    /\ Fits(store, refs')

\* A node whose type is known; an FNSYM or OVERCALL node names a function or an
\* overload set besides.
AddNode(f, t, named) ==
    /\ phase = "mutator"
    /\ Extend(store.function[f], <<RefTo("type of node", "type", t)>> \o named)
    /\ UNCHANGED <<store, chosen, kind, compounds, phase, stack, client, seen, retraced>>

NewOverloadSet ==
    /\ phase = "mutator"
    /\ Add("overload", <<>>)
    /\ UNCHANGED <<chosen, kind, compounds, phase, stack, client, seen, retraced>>

\* OverloadSet::add
AddOverload(o, f) ==
    /\ phase = "mutator"
    /\ Extend(store.overload[o], <<RefTo("overload", "function", f)>>)
    /\ UNCHANGED <<store, chosen, kind, compounds, phase, stack, client, seen, retraced>>

Build ==
    \/ \E t, u \in Types : PackOf(t, u) \/ FunctionOf(t, u) \/ NewFunction(t, u)
    \/ \E t \in Types : PointerTo(t)
    \/ \E f \in DOMAIN store.function, t \in Types :
        \/ AddNode(f, t, <<>>)
        \/ \E g \in DOMAIN store.function : AddNode(f, t, <<RefTo("fnsym", "function", g)>>)
        \/ \E o \in DOMAIN store.overload : AddNode(f, t, <<RefTo("overcall", "overload", o)>>)
    \/ NewOverloadSet
    \/ \E o \in DOMAIN store.overload, f \in DOMAIN store.function : AddOverload(o, f)

-----------------------------------------------------------------------------
(* The collection. *)

\* What there is to do: to have reference k of an entity traced, or to point it
\* to where what it was found to refer to will be.
Task(op, holder, k, found) == [op |-> op, holder |-> holder, k |-> k, found |-> found]

\* begin_gc constructs the three sweepers; before it returns,
\* TypeDatabase::sweep traces the built-in types.
BeginGc ==
    /\ phase = "mutator"
    /\ phase' = "tracing"
    /\ stack' = <<Task("builtin", Builtin, 0, Builtin)>>
    /\ UNCHANGED <<store, chosen, kind, refs, compounds, client, seen, retraced>>

\* The references that _trace_sig, _trace_pack, _trace_type, _trace_astnode and
\* _trace_over visit: of a signature, the return type only.
IsVisited(r) == r.role # "param"

Visits(e) ==
    LET skipped == IF refs[e] # <<>> /\ ~IsVisited(refs[e][1]) THEN 1 ELSE 0
    IN [i \in 1..(Len(refs[e]) - skipped) |-> Task("visit", e, i + skipped, e)]

\* _trace_pack goes over the elements by value: each is traced, and what
\* trace_type updates is a copy of it.
ByValue(r) == r.role = "element"

\* Plausible bugs, for the mutant runs.
AlwaysSkipped(e) == TRUE

MarkAgain(e) ==
    chosen' = IF e[1] = "overload" THEN chosen
              ELSE [chosen EXCEPT ![e[1]] = Append(@, e)]

\* _trace_type and _trace_func return at once on a marked entity; _trace_over
\* asks nothing and marks nothing.
Skipped(e) == e[1] # "overload" /\ e \in Members(chosen[e[1]])

Mark(e) ==
    chosen' = IF e[1] = "overload" \/ e \in Members(chosen[e[1]]) THEN chosen
              ELSE [chosen EXCEPT ![e[1]] = Append(@, e)]

OldPlace(e, marked) == PlaceIn(store[e[1]], e)

\* new_location: the position that the entity's id names.
NewPlace(e, marked) ==
    IF e \in Members(marked[e[1]]) THEN PlaceIn(marked[e[1]], e) ELSE PlaceIn(store[e[1]], e)

Enter(e, rest) ==
    /\ Mark(e)
    /\ stack' = (IF Skipped(e) THEN <<>> ELSE Visits(e)) \o rest
    /\ seen' = IF e[1] = "overload" THEN seen \cup {e} ELSE seen
    /\ retraced' = (retraced \/ e \in seen)

TraceBuiltin ==
    /\ stack # <<>>
    /\ Head(stack).op = "builtin"
    /\ Enter(Builtin, Tail(stack))
    /\ UNCHANGED <<store, kind, refs, compounds, phase, client>>

\* The client has one of its references traced: trace_type, trace_function,
\* trace_overload_set.
TraceRoot(pool, at) ==
    LET e == store[pool][at] IN
    /\ phase = "tracing"
    /\ stack = <<>>
    /\ Cardinality(client) < MaxRoots
    /\ Enter(e, <<>>)
    /\ client' = client \cup {[pool |-> pool, at |-> NewPlace(e, chosen'), of |-> e]}
    /\ UNCHANGED <<store, kind, refs, compounds, phase>>

\* One of the tracing functions is entered for a reference.
Visit ==
    LET top == Head(stack)
        e == Deref(refs[top.holder][top.k])
    IN
    /\ stack # <<>>
    /\ top.op = "visit"
    /\ Enter(e, <<Task("store", top.holder, top.k, e)>> \o Tail(stack))
    /\ UNCHANGED <<store, kind, refs, compounds, phase, client>>

\* The reference that a task is about, pointed to where the entity will be; a
\* reference that was passed as a copy stays what it was.
Updated(task) ==
    IF ByValue(refs[task.holder][task.k]) THEN refs
    ELSE [refs EXCEPT ![task.holder][task.k].at = NewPlace(task.found, chosen)]

\* Plausible bugs, for the mutant runs.
StoreDropped ==
    LET top == Head(stack) IN
    /\ stack # <<>>
    /\ top.op = "store"
    /\ stack' = Tail(stack)
    /\ UNCHANGED <<store, chosen, kind, refs, compounds, phase, client, seen, retraced>>

StoreMarkedOnly ==
    LET top == Head(stack) IN
    /\ stack # <<>>
    /\ top.op = "store"
    /\ top.found \in Members(chosen[top.found[1]])
    /\ refs' = Updated(top)
    /\ stack' = Tail(stack)
    /\ UNCHANGED <<store, chosen, kind, compounds, phase, client, seen, retraced>>

\* It returns, and updates the reference it was entered with.
Store ==
    LET top == Head(stack) IN
    /\ stack # <<>>
    /\ top.op = "store"
    /\ refs' = Updated(top)
    /\ stack' = Tail(stack)
    /\ UNCHANGED <<store, chosen, kind, compounds, phase, client, seen, retraced>>

TraceStep == TraceBuiltin \/ Visit \/ Store

FinalizeForgets == {p \in compounds : store.type[p] \in Members(chosen.type)}

\* finalize_gc: the compound types that are not marked leave the table, the
\* others are found at their new places.
Finalized == {PlaceIn(chosen.type, store.type[p]) :
                p \in {q \in compounds : store.type[q] \in Members(chosen.type)}}

\* end_gc: finalize_gc, then the sweepers are destroyed and each pool becomes
\* what was traced of it.
EndGc ==
    /\ phase = "tracing"
    /\ stack = <<>>
    /\ phase' = "collected"
    /\ compounds' = Finalized
    /\ store' = chosen
    /\ chosen' = [p \in Pools |-> <<>>]
    /\ UNCHANGED <<kind, refs, stack, client, seen, retraced>>

Next ==
    \/ Build
    \/ BeginGc
    \/ \E pool \in Pools : \E at \in DOMAIN store[pool] : TraceRoot(pool, at)
    \/ TraceStep
    \/ EndGc

Spec == Init /\ [][Next]_vars

\* The tracing functions are plain recursion on the client's thread.
FairSpec == Spec /\ WF_vars(TraceStep)

-----------------------------------------------------------------------------
(* Properties. *)

Live == UNION {Members(store[p]) : p \in Pools}

TypeOK ==
    /\ Fits(store, refs)
    /\ \A p \in Pools : Members(chosen[p]) \subseteq Members(store[p])
    /\ Live \subseteq DOMAIN refs
    /\ compounds \subseteq Types
    /\ phase \in {"mutator", "tracing", "collected"}
    /\ \A i \in DOMAIN stack : stack[i].op # "builtin" =>
        /\ stack[i].op \in {"visit", "store"}
        /\ stack[i].k \in DOMAIN refs[stack[i].holder]

Resolves(r) == r.at \in DOMAIN store[r.pool] /\ Deref(r) = r.of

\* After a collection the return type of a surviving signature, the pointee of a
\* surviving pointer, and the types and functions that the nodes of a surviving
\* function name are the same as before, and so is what the client had traced.
\* The rest may be stale: parameters of signatures, which nothing visits,
\* elements of packs, which are updated in a copy, and overload sets.
ReferencesFollow ==
    phase = "collected" =>
        /\ \A e \in Live : \A i \in DOMAIN refs[e] :
            refs[e][i].role \notin {"param", "element", "overcall"} => Resolves(refs[e][i])
        /\ \A r \in client : r.pool # "overload" => Resolves(r)

\* The table of compound types lists the compound types that exist, at their
\* places, before and after a collection: pack_of, function_of and pointer_to
\* never return a type that was removed, and every type that exists is in the
\* table they search.
CompoundsExact ==
    phase # "tracing" => compounds = {p \in Types : kind[store.type[p][2]] # "dtype"}

\* What pack_of or pointer_to is given when a type is asked for again: the types
\* it is made of, where they are now.
Sought(t) == [i \in DOMAIN refs[t] |-> [refs[t][i] EXCEPT !.at = PlaceIn(store.type, refs[t][i].of)]]

\* Types that are compared by address are not confused: no two packs and no two
\* pointers of the table hold the same addresses, and whoever asks for the
\* pointer to a type gets the one there is.  A pack is found again only when
\* none of its elements moved: where one did, pack_of makes a second pack of the
\* same elements, which is another type to everything that compares addresses.
Canonical ==
    phase # "tracing" =>
        \A p \in compounds :
            LET t == store.type[p] IN
            /\ kind[t[2]] # "function" =>
                \A q \in Interned(kind[t[2]], refs[t]) : q = p
            /\ kind[t[2]] = "pointer" => Interned("pointer", Sought(t)) = {p}
            /\ kind[t[2]] = "pack" =>
                (p \in Interned("pack", Sought(t)) <=> \A i \in DOMAIN refs[t] : Resolves(refs[t][i]))

\* The entities that a set of entities reaches through references of which Use
\* is true.
Closed(T, Use(_)) == \A e \in T : \A i \in DOMAIN refs[e] : Use(refs[e][i]) => refs[e][i].of \in T

Reach(S, Use(_)) ==
    {e \in DOMAIN refs : \A T \in SUBSET DOMAIN refs : S \subseteq T /\ Closed(T, Use) => e \in T}

AnyReference(r) == TRUE

Roots == {Builtin} \cup {r.of : r \in client}

\* What survives is what the client's traced references reach through the
\* references that are visited, and no overload set: nothing else is kept and
\* nothing of it is lost, as long as no overload set was traced twice.
SurvivorsExact ==
    phase = "collected" /\ ~retraced =>
        Live = {e \in Reach(Roots, IsVisited) : e[1] # "overload"}

\* Tracing comes to an end whatever cycles functions and overload sets form.
TracingEnds == stack # <<>> ~> stack = <<>>

-----------------------------------------------------------------------------
(* The inductive invariant. *)

Entities == Pools \X Nat

Roles == {"param", "ret", "element", "pointed", "type of node", "fnsym", "overcall", "overload"}

Reference == [role : Roles, pool : Pools, at : Nat, of : Entities]

Tasks == [op : {"builtin", "visit", "store"}, holder : Entities, k : Nat, found : Entities]

\* The entities traced so far: types and functions are marked, overload sets
\* only remembered by the history.
Traced(e) == IF e[1] = "overload" THEN e \in seen ELSE e \in Members(chosen[e[1]])

\* Until the collection ends entities are where they were created.
StoreInv ==
    /\ store \in [Pools -> Seq(Entities)]
    /\ chosen \in [Pools -> Seq(Entities)]
    /\ refs \in [DOMAIN refs -> Seq(Reference)]
    /\ DOMAIN refs \subseteq Entities
    /\ phase # "collected" =>
        /\ \A p \in Pools : \A i \in DOMAIN store[p] : store[p][i] = <<p, i>>
        /\ DOMAIN refs = Live /\ Builtin \in Live

\* Types and functions get their new positions one by one.
ChosenInv ==
    /\ chosen.overload = <<>>
    /\ \A p \in Pools : Members(chosen[p]) \subseteq Members(store[p])
    /\ \A p \in Pools : \A i, j \in DOMAIN chosen[p] : chosen[p][i] = chosen[p][j] => i = j

\* What roles references have, and where they are.
RefsInv ==
    \A e \in DOMAIN refs : \A i \in DOMAIN refs[e] :
        LET r == refs[e][i] IN
        /\ r.of \in DOMAIN refs /\ r.of[1] = r.pool
        /\ r.role = "overcall" <=> r.pool = "overload"
        /\ r.role = "param" => i = 1
        /\ phase # "collected" => r.at \in DOMAIN store[r.pool]

\* What packs and pointers are made of.
PartRole(k) == IF k = "pack" THEN "element" ELSE "pointed"

\* Kinds of types, and what the table of compound types lists.
TypesInv ==
    phase # "collected" =>
        /\ Len(kind) = Len(store.type)
        /\ kind \in Seq({"dtype", "pack", "pointer", "function"})
        /\ compounds = {n \in DOMAIN kind : kind[n] # "dtype"}
        /\ \A n \in DOMAIN kind : kind[n] \in {"pack", "pointer"} =>
            \A i \in DOMAIN refs[<<"type", n>>] :
                refs[<<"type", n>>][i].role = PartRole(kind[n]) /\ refs[<<"type", n>>][i].pool = "type"

\* What a compound type is made of, whatever happens to its references.
Denoted(rs) == [i \in DOMAIN rs |-> <<rs[i].role, rs[i].of>>]

UniqueInv ==
    phase # "collected" =>
        \A m, n \in DOMAIN kind :
            m # n /\ kind[m] = kind[n] /\ kind[m] \in {"pack", "pointer"} =>
                Denoted(refs[<<"type", m>>]) # Denoted(refs[<<"type", n>>])

\* Before a collection.
MutatorInv ==
    phase = "mutator" =>
        /\ chosen = [p \in Pools |-> <<>>]
        /\ stack = <<>> /\ client = {} /\ seen = {} /\ ~retraced
        /\ \A e \in DOMAIN refs : \A i \in DOMAIN refs[e] : Deref(refs[e][i]) = refs[e][i].of

\* The references of an entity are visited once; not so those of an overload
\* set, if one was traced twice.
Reliable(e) == e[1] # "overload" \/ ~retraced

Pending(e, k) == \E i \in DOMAIN stack : stack[i].holder = e /\ stack[i].k = k

\* A reference that was pointed to where its entity will be.
Settled(r) ==
    /\ Traced(r.of)
    /\ r.pool # "overload" => r.at \in DOMAIN chosen[r.pool] /\ chosen[r.pool][r.at] = r.of

\* A reference that was visited.
Handled(r) == IF ByValue(r) THEN Traced(r.of) ELSE Settled(r)

\* One of the things the tracing functions still have to do.
TaskInv(t) ==
    IF t.op = "builtin" THEN t.k = 0 /\ Len(stack) = 1
    ELSE /\ t.op \in {"visit", "store"}
         /\ t.holder \in DOMAIN refs /\ Traced(t.holder)
         /\ t.k \in DOMAIN refs[t.holder] /\ IsVisited(refs[t.holder][t.k])
         /\ t.op = "store" =>
             /\ t.found \in DOMAIN refs /\ Traced(t.found)
             /\ t.found[1] = refs[t.holder][t.k].pool
         /\ Reliable(t.holder) =>
             IF t.op = "visit" THEN Deref(refs[t.holder][t.k]) = refs[t.holder][t.k].of
             ELSE t.found = refs[t.holder][t.k].of

StackInv ==
    /\ stack \in Seq(Tasks)
    /\ stack # <<>> => phase = "tracing"
    /\ \A i \in DOMAIN stack : TaskInv(stack[i])
    /\ \A i, j \in DOMAIN stack :
        Reliable(stack[i].holder) /\ stack[i].holder = stack[j].holder /\ stack[i].k = stack[j].k
            => i = j

\* During a collection.
TracingInv ==
    phase = "tracing" =>
        /\ seen \subseteq DOMAIN refs
        /\ Traced(Builtin) \/ stack = <<Task("builtin", Builtin, 0, Builtin)>>
        /\ \A e \in DOMAIN refs : \A i \in DOMAIN refs[e] :
            ~Traced(e) \/ ByValue(refs[e][i]) => Deref(refs[e][i]) = refs[e][i].of
        /\ \A e \in DOMAIN refs : Traced(e) /\ Reliable(e) =>
            \A i \in DOMAIN refs[e] :
                IsVisited(refs[e][i]) => Pending(e, i) \/ Handled(refs[e][i])
        /\ \A r \in client : r.of \in DOMAIN refs /\ r.pool = r.of[1] /\ Settled(r)
        /\ ~retraced => \A e \in DOMAIN refs : Traced(e) => e \in Reach(Roots, IsVisited)

IInv ==
    /\ TypeOK
    /\ StoreInv
    /\ ChosenInv
    /\ RefsInv
    /\ TypesInv
    /\ UniqueInv
    /\ MutatorInv
    /\ StackInv
    /\ TracingInv
    /\ ReferencesFollow
    /\ CompoundsExact
    /\ Canonical
    /\ SurvivorsExact

FunctionPool == INSTANCE Collector WITH
    Entity <- {<<"function", n>> : n \in UNION {1..size.function : size \in Sizes}},
    store <- store.function, collecting <- phase = "tracing", chosen <- chosen.function

\* The pool of functions is driven as Collector allows: no function is numbered
\* twice however the calls between functions and overload sets loop, nothing is
\* created or moved while the sweeper is alive, and the pool becomes what was
\* traced of it.
FunctionPoolIsCollector == FunctionPool!Spec

\* The test of the collector ("Wrong type count post-nop-collect",
\* src/src/auto-test.cpp:208) traces a function and expects the types it uses
\* to survive: no type that a traced function refers to is lost.
ReachableSurvives ==
    phase = "collected" /\ (\A r \in client : r.pool = "function") =>
        {e \in Reach(Roots, AnyReference) : e[1] = "type"} \subseteq Live

=============================================================================
