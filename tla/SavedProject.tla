---------------------------- MODULE SavedProject ----------------------------
(***************************************************************************)
(* A project that is edited, saved and loaded again: its table of types,   *)
(* which finds compound types by hash (type-database.hpp, type.cpp), and   *)
(* the inference that compares types by their place in it (ast.cpp).       *)
(*                                                                         *)
(* The hash of a compound type is computed when it is created and is not   *)
(* saved.  A type that was loaded has one that nobody computed: it is in   *)
(* some bucket of the table, and a lookup of an equal type comes across it *)
(* or not.                                                                 *)
(***************************************************************************)
EXTENDS Serial, FiniteSets, FiniteSetsExt

CONSTANTS
    Tables,       \* the types a project may start with, after the built-in ones
    Made,         \* bound: the types that the client makes itself
    Declared,     \* bound: the functions it makes
    Bodies,       \* bound: the trees it gives them, function by function
    MaxTypes,     \* bound: types of a project
    MaxFunctions  \* bound: functions of a project

ASSUME TablesAssumption == \A t \in Tables : Len(Builtin) + Len(t) <= MaxTypes

VARIABLES
    project,  \* ProjectEntitiesPool: its types, functions and overload sets
    errors    \* function -> the errors of its last inference, if its body is still that one

vars == <<project, errors>>

TypeIds == DOMAIN project.types
FuncIds == DOMAIN project.functions

Init ==
    /\ \E table \in Tables :
        project = [types |-> Builtin \o table, functions |-> <<>>, overloads |-> <<>>]
    /\ errors = [f \in {} |-> {}]

-----------------------------------------------------------------------------
(* The table of compound types. *)

\* eq_tr: the same tag and the same references.
Equal(types, tag, refs) == {i \in DOMAIN types : types[i].tag = tag /\ types[i].refs = refs}

\* Mutant: a new type is not entered in the table.
FoundLoaded(types, tag, refs, met) == Equal(types, tag, refs) \cap met

\* What a lookup finds, when it comes across the types in met although their
\* hashes were never computed.
Found(types, tag, refs, met) ==
    {i \in Equal(types, tag, refs) : types[i].hashed \/ i \in met}

\* The constructors of TypeInfo.
Compound(types, tag, refs) ==
    [tag |-> tag, refs |-> refs, hashed |-> TRUE,
     size |-> IF tag = "pack" THEN FoldLeft(LAMBDA n, t : n + types[t].size, 0, refs) ELSE 8,
     align |-> IF tag = "pack" THEN Max({1} \cup {types[t].align : t \in ToSet(refs)}) ELSE 8]

\* pack_of, function_of and pointer_to: the type, and the table that has it.
Interned(types, tag, refs, met) ==
    LET found == Found(types, tag, refs, met) IN
    IF found # {} THEN [id |-> Min(found), types |-> types]
    ELSE [id |-> Len(types) + 1, types |-> Append(types, Compound(types, tag, refs))]

Unhashed == {i \in TypeIds : ~project.types[i].hashed}

-----------------------------------------------------------------------------
(* ASTNode::recalculate_result_type, of the nodes that name types and      *)
(* functions: a node is given the place of its type.                       *)

\* Mutant: arguments without a type are compared, too.
FitsAll(params, args) == params = args

\* Arguments without a type are not compared.
Fits(params, args) == \A i \in DOMAIN params : args[i] # T_ERROR => params[i] = args[i]

\* Mutant: the parameters are counted only.
matchCount(set, args) ==
    LET fit == SelectSeq(set, LAMBDA f : Len(project.functions[f].sig) = Len(args) + 1)
    IN IF fit = <<>> THEN T_ERROR ELSE Head(project.functions[Head(fit)].sig)

\* OverloadSet::match: the return type of the first function that takes args.
match(set, args) ==
    LET fit == SelectSeq(set, LAMBDA f : Tail(project.functions[f].sig) = args)
    IN IF fit = <<>> THEN T_ERROR ELSE Head(project.functions[Head(fit)].sig)

\* What is inferred of a list of nodes, with the table and the errors so far.
Inferred(nodes, types, errs) == [nodes |-> nodes, types |-> types, errs |-> errs]

RECURSIVE Infer(_, _, _, _)

\* Adds a node of a function with signature sig to those in done, its children
\* first.
Infer(done, n, sig, met) ==
    LET below == FoldLeft(LAMBDA acc, k : Infer(acc, k, sig, met),
                          Inferred(<<>>, done.types, done.errs), n.kids)
        of == [i \in DOMAIN n.kids |-> below.nodes[i].ret]
        Is(ret) == Inferred(Append(done.nodes, [n EXCEPT !.kids = below.nodes, !.ret = ret]),
                            below.types, below.errs)
        Bad(ret, error) == [Is(ret) EXCEPT !.errs = @ \cup {error}]
        New(tag, refs) ==
            LET r == Interned(below.types, tag, refs, met) IN [Is(r.id) EXCEPT !.types = r.types]
        callee == below.types[of[1]]
    IN
    CASE n.type = "UINT32" -> Is(1)
      [] n.type = "UINT64" -> Is(2)
      [] n.type = "ARG" -> Is(sig[n.prim + 2])
      [] n.type = "FNSYM" -> New("function", project.functions[n.prim].sig)
      [] n.type = "NTYPE" -> Is(T_ERROR)
      [] n.type = "CALL" ->
            IF of[1] = T_ERROR THEN Is(T_ERROR)
            ELSE IF callee.tag # "function" THEN Bad(T_ERROR, "callee")
            ELSE IF Len(callee.refs) # Len(of) THEN Bad(T_ERROR, "count")
            ELSE IF Fits(Tail(callee.refs), Tail(of)) THEN Is(Head(callee.refs))
            ELSE Bad(Head(callee.refs), "mismatch")
      [] OTHER ->
            IF T_ERROR \in ToSet(of) THEN Is(T_ERROR)
            ELSE CASE n.type = "PACK" -> New("pack", of)
                   [] n.type = "ADDROF" -> New("pointer", of)
                   [] n.type = "OVERCALL" ->
                        LET ret == match(project.overloads[n.prim], of)
                        IN IF ret = T_ERROR THEN Bad(ret, "overload") ELSE Is(ret)

-----------------------------------------------------------------------------
(* What the client does. *)

\* It makes a type, by one of the lookups.
NewType(tag, refs) ==
    /\ ToSet(refs) \subseteq TypeIds
    /\ \E met \in SUBSET (Unhashed \cap Equal(project.types, tag, refs)) :
        project' = [project EXCEPT !.types = Interned(@, tag, refs, met).types]
    /\ UNCHANGED errors

\* A function of the project, without a body yet, one that is imported, or an
\* intrinsic.
NewFunction(f) ==
    /\ Len(project.functions) < MaxFunctions
    /\ ToSet(f.sig) \subseteq TypeIds
    /\ project' = [project EXCEPT !.functions = Append(@, f)]
    /\ UNCHANGED errors

RECURSIVE Nodes(_)
Nodes(n) == {n} \cup UNION {Nodes(k) : k \in ToSet(n.kids)}

\* The function, overload set or argument that a node names is there.
Names(n, sig) ==
    CASE n.type = "FNSYM" -> n.prim \in FuncIds
      [] n.type = "OVERCALL" -> n.prim \in DOMAIN project.overloads
      [] n.type = "ARG" -> n.prim + 2 \in DOMAIN sig
      [] OTHER -> TRUE

Forgotten(known, S) == [f \in DOMAIN known \ S |-> known[f]]

\* Function::set
SetBody(f, body) ==
    /\ project.functions[f].root.type # "EXTERN_OR_INTRIN"
    /\ \A n \in Nodes(body) : Names(n, project.functions[f].sig)
    /\ project' = [project EXCEPT !.functions[f].root = body]
    /\ errors' = Forgotten(errors, {f})

\* Function::recalculate_types
RecalculateTypes(f) ==
    /\ project.functions[f].root.type # "EXTERN_OR_INTRIN"
    /\ \E met \in SUBSET Unhashed :
        LET r == Infer(Inferred(<<>>, project.types, {}), project.functions[f].root,
                       project.functions[f].sig, met)
        IN /\ project' = [project EXCEPT !.types = r.types, !.functions[f].root = Head(r.nodes)]
           /\ errors' = [g \in DOMAIN errors \cup {f} |-> IF g = f THEN r.errs ELSE errors[g]]

NewOverloadSet ==
    /\ project.overloads = <<>>
    /\ project' = [project EXCEPT !.overloads = <<<<>>>>]
    /\ UNCHANGED errors

\* A set is changed: what was inferred of the calls to it is history.
ChangeOverloads(o, set) ==
    /\ project' = [project EXCEPT !.overloads[o] = set]
    /\ errors' = [f \in {} |-> {}]

AddOverload(o, f) ==
    /\ f \notin ToSet(project.overloads[o])
    /\ ChangeOverloads(o, Append(project.overloads[o], f))

\* The last one takes the place of the one that is removed.
RemoveOverload(o, i) ==
    LET set == project.overloads[o] IN
    ChangeOverloads(o, Front([set EXCEPT ![i] = Last(set)]))

\* The project is saved, and another program loads the file.  What the first
\* one does after it has saved is lost, so nothing is left out when it ends
\* there.
SaveAndLoad ==
    /\ project' = ReadProject(Write(project)).read
    /\ errors' = [f \in {} |-> {}]

Next ==
    \/ /\ \/ \E t \in Made : NewType(t.tag, t.refs)
          \/ \E f \in Declared : NewFunction(f)
          \/ \E f \in FuncIds : RecalculateTypes(f) \/ \E body \in Bodies[f] : SetBody(f, body)
          \/ NewOverloadSet
          \/ \E o \in DOMAIN project.overloads :
              \/ \E f \in FuncIds : AddOverload(o, f)
              \/ \E i \in DOMAIN project.overloads[o] : RemoveOverload(o, i)
       /\ Len(project.types') <= MaxTypes
    \/ SaveAndLoad

Spec == Init /\ [][Next]_vars

-----------------------------------------------------------------------------
(* Properties. *)

TypeOK ==
    /\ Len(project.types) <= MaxTypes
    /\ \A i \in DOMAIN Builtin : i \in TypeIds /\ project.types[i] = Builtin[i]
    /\ \A t \in TypeIds : ToSet(project.types[t].refs) \subseteq TypeIds
    /\ \A f \in FuncIds :
        /\ ToSet(project.functions[f].sig) \subseteq TypeIds
        /\ \A n \in Nodes(project.functions[f].root) : n.ret \in TypeIds \cup {T_ERROR, Unset}
    /\ \A o \in DOMAIN project.overloads : ToSet(project.overloads[o]) \subseteq FuncIds
    /\ DOMAIN errors \subseteq FuncIds

\* What a file does not hold: the hashes of compound types, and the types that
\* were inferred.
RECURSIVE Unread(_)
Unread(n) == [n EXCEPT !.ret = Unset, !.kids = [i \in DOMAIN n.kids |-> Unread(n.kids[i])]]

Unsaved ==
    [project EXCEPT
        !.types = [i \in TypeIds |->
            IF i \in DOMAIN Builtin THEN project.types[i] ELSE [project.types[i] EXCEPT !.hashed = FALSE]],
        !.functions = [f \in FuncIds |->
            IF is_intrin(project.functions[f].root) THEN project.functions[f]
            ELSE [project.functions[f] EXCEPT !.root = Unread(@)]]]

\* A project is read back as it was written, and nothing of the file is left
\* over ("Data not fully consumed", auto-test.cpp), also when a collection had
\* left a pointer before what it points to, or the client emplaced a type
\* without contents.
RoundTrip == ReadProject(Write(project)) = Read(Unsaved, <<>>)

\* Of two types that are equal, one was loaded: pack_of, function_of and
\* pointer_to never make a second one of what they made themselves, whatever
\* the loaded types' hashes are.
NewTypesUnique ==
    \A t, u \in TypeIds :
        LET x == project.types[t]
            y == project.types[u]
        IN t # u /\ x.tag = y.tag /\ x.refs = y.refs /\ x.tag # "dtype" => ~x.hashed \/ ~y.hashed

\* Types by their structure.
RECURSIVE Structure(_)
Structure(t) ==
    LET x == project.types[t] IN
    IF x.tag = "dtype" THEN <<"dtype", t>>
    ELSE <<x.tag, [i \in DOMAIN x.refs |-> Structure(x.refs[i])]>>

Structures(refs) == [i \in DOMAIN refs |-> Structure(refs[i])]

Duplicates == \E t, u \in TypeIds : t # u /\ Structure(t) = Structure(u)

ErrorType == <<"error">>

\* What inference found of a node, and of the nodes below it.
TypeOf(n) == IF n.ret \in TypeIds THEN Structure(n.ret) ELSE ErrorType

TypesBelow(n) == [i \in DOMAIN n.kids |-> TypeOf(n.kids[i])]

\* The overloads that take what the node gives them when types are compared by
\* structure: the first, or any when two types are equal.
Overloads(n) ==
    LET fit == SelectSeq(project.overloads[n.prim],
                         LAMBDA f : Structures(Tail(project.functions[f].sig)) = TypesBelow(n))
    IN IF fit = <<>> \/ Duplicates THEN ToSet(fit) ELSE {Head(fit)}

\* The types a node may have by the structure of those below it.
Meanings(n, sig) ==
    LET of == TypesBelow(n) IN
    CASE n.type = "UINT32" -> {Structure(1)}
      [] n.type = "UINT64" -> {Structure(2)}
      [] n.type = "ARG" -> {Structure(sig[n.prim + 2])}
      [] n.type = "FNSYM" -> {<<"function", Structures(project.functions[n.prim].sig)>>}
      [] n.type = "NTYPE" -> {ErrorType}
      [] n.type = "CALL" ->
            {IF of[1][1] # "function" \/ Len(of[1][2]) # Len(of) THEN ErrorType ELSE of[1][2][1]}
      [] OTHER ->
            IF ErrorType \in ToSet(of) THEN {ErrorType}
            ELSE CASE n.type = "PACK" -> {<<"pack", of>>}
                   [] n.type = "ADDROF" -> {<<"pointer", of>>}
                   [] n.type = "OVERCALL" ->
                        IF Overloads(n) = {} THEN {ErrorType}
                        ELSE {Structure(Head(project.functions[f].sig)) : f \in Overloads(n)}

\* The errors of a node when types are compared by structure.
ErrorsOf(n) ==
    LET of == TypesBelow(n) IN
    CASE n.type = "CALL" /\ of[1] # ErrorType ->
            IF of[1][1] # "function" THEN {"callee"}
            ELSE IF Len(of[1][2]) # Len(of) THEN {"count"}
            ELSE IF \A i \in 2..Len(of) : of[i] = ErrorType \/ of[i] = of[1][2][i] THEN {}
            ELSE {"mismatch"}
      [] n.type = "OVERCALL" /\ ErrorType \notin ToSet(of) ->
            IF Overloads(n) = {} THEN {"overload"} ELSE {}
      [] OTHER -> {}

\* After an inference (ast.cpp:64-212) every node has the type that follows from
\* the structure of the types below it, and in particular nothing is left of
\* what loading does not write.  When two types are equal, overload.hpp:60-65
\* compares places: a call of an overload set may have the return type of any
\* overload that fits by structure, or none.
TypesExact ==
    \A f \in DOMAIN errors : \A n \in Nodes(project.functions[f].root) :
        \/ n.ret \in TypeIds \cup {T_ERROR} /\ TypeOf(n) \in Meanings(n, project.functions[f].sig)
        \/ n.ret = T_ERROR /\ n.type = "OVERCALL" /\ Duplicates

\* The errors of an inference are those of a comparison by structure, unless
\* two types are equal.
ErrorsExact ==
    Duplicates \/ \A f \in DOMAIN errors :
        errors[f] = UNION {ErrorsOf(n) : n \in Nodes(project.functions[f].root)}

=============================================================================
