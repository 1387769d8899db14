----------------------------- MODULE Inference -----------------------------
(***************************************************************************)
(* Type inference: ASTNode::recalculate_result_type of ast.cpp and the     *)
(* walk over the tree that calls it.  Its state has                        *)
(*   ret     the result type kept in each node (of the previous inference  *)
(*           until the node is reached)                                    *)
(*   decl    VariableDecls: the node that declares each variable           *)
(*   errors  the nodes with an entry in the ErrorDatabase                  *)
(***************************************************************************)
EXTENDS Tree

\* Mutant: only the number of arguments is compared.
MismatchedCount(of) == Len(of) - 1 # Len(ParametersIn(of[1]))

\* A call that does not fit the signature, counting only arguments that have a
\* type.
Mismatch(of) ==
    LET params == ParametersIn(of[1])
    IN \/ Len(of) - 1 # Len(params)
       \/ \E i \in 2 .. Len(of) : of[i] # Error /\ of[i] # params[i - 1]

\* The conditions under which a node is given an entry; of holds the types of
\* its children.
Reports(t, of) ==
    CASE t.type = "COMMA" -> t.data >= Len(of)
      [] t.type = "PACKIND" ->
            /\ of[1] # Error
            /\ ~ (of[1][1] = "pack" /\ t.data + 2 \in DOMAIN of[1])
      [] t.type = "DEREF" -> of[1] # Error /\ of[1][1] # "ptr"
      [] t.type = "CALL" ->
            /\ of[1] # Error
            /\ of[1][1] # "fn" \/ Mismatch(of)
      [] t.type = "FORK" -> Error \notin {of[2], of[3]} /\ of[2] # of[3]
      [] OTHER -> FALSE

\* The type a node is given; known is that of the variable it names.  An
\* argument of the wrong type does not take the type of a call away.
ResultType(t, of, known) ==
    LET If(ok, type) == IF ok THEN type ELSE Error
    IN
    CASE t.type = "UINT32" -> U32
      [] t.type = "BOOL" -> Bool
      [] t.type = "ARG" -> Params[t.data + 1]
      [] t.type = "FNSYM" -> FunctionType(t.data)
      [] t.type = "GETVAR" -> known
      [] t.type = "SETVAR" -> Void
      [] t.type = "HAVEVAR" -> of[2]
      [] t.type = "FORK" -> If(of[2] = of[3], of[2])
      [] t.type = "PACK" -> If(\A i \in DOMAIN of : of[i] # Error, Pack(of))
      [] t.type = "COMMA" -> If(t.data < Len(of), of[t.data + 1])
      [] t.type = "PACKIND" -> If(of[1][1] = "pack" /\ t.data + 2 \in DOMAIN of[1], of[1][t.data + 2])
      [] t.type = "ADDROF" -> If(of[1] # Error, PointerTo(of[1]))
      [] t.type = "DEREF" -> If(of[1][1] = "ptr", of[1][2])
      [] t.type = "CALL" ->
            If(of[1][1] = "fn" /\ Len(of) - 1 = Len(ParametersIn(of[1])), ReturnIn(of[1]))

\* VariableDecls::query, and the type of what the declaration found binds.
Query(x, s) ==
    IF x \in DOMAIN s.decl THEN s.ret[Append(s.decl[x], 1)] ELSE Error

\* A declaration is entered before its children are visited (ast.hpp).
Declare(t, path, s) ==
    IF t.type = "HAVEVAR" THEN [s EXCEPT !.decl = (t.data :> path) @@ @] ELSE s

\* Mutant: an entry that was made by an earlier inference stays.
RecordedKept(errors, path, reports) == IF reports THEN errors \cup {path} ELSE errors

\* Mutant: filed under the node before the children.
RecordedBefore(errors, path, reports) ==
    IF reports THEN errors \cup {Append(path, 0)} ELSE errors \ {path}

\* ErrorDatabase: an entry is cleared when its node is inferred again.
Recorded(errors, path, reports) ==
    IF reports THEN errors \cup {path} ELSE errors \ {path}

RECURSIVE Recalculate(_, _, _)

Recalculate(t, path, s) ==
    LET entered == Declare(t, path, s)
        visited == FoldLeft(LAMBDA r, i : Recalculate(t.children[i], Append(path, i), r),
                            entered, [i \in DOMAIN t.children |-> i])
        of == [i \in DOMAIN t.children |-> visited.ret[Append(path, i)]]
    IN [visited EXCEPT
          !.ret[path] = ResultType(t, of, IF t.type = "GETVAR" THEN Query(t.data, visited) ELSE Error),
          !.errors = Recorded(@, path, Reports(t, of))]

\* Function::recalculate_types.
Inferred(t, ret, errors) ==
    Recalculate(t, <<>>, [ret |-> ret, decl |-> [x \in {} |-> <<>>], errors |-> errors])

\* A tree that was just built: no node has a type.
Untyped(t) == [p \in Paths(t) |-> Error]

-----------------------------------------------------------------------------

\* What inference does not look at: the type of a condition, and of the value
\* assigned to a variable.
Unchecked(t, ret) ==
    {p \in PathsOf(t, "FORK") : ret[Append(p, 1)] # Bool} \cup
    {p \in PathsOf(t, "SETVAR") :
        \E d \in Declarations(t, At(t, p).data) : ret[Append(d, 1)] # ret[Append(p, 1)]}

\* A tree that inference accepts, for reasons that make it meaningful.
Accepted(t, s) ==
    /\ s.errors = {}
    /\ \A p \in Paths(t) : s.ret[p] # Error
    /\ Scoped(t)
    /\ UniquelyDeclared(t)
    /\ Unchecked(t, s.ret) = {}

=============================================================================
