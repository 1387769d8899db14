------------------------------ MODULE Backend ------------------------------
(***************************************************************************)
(* What a client does with a function of a project: give it a body, infer  *)
(* its types, edit it and infer them again, lower it, call it in the       *)
(* interpreter, compile it for x86, call the result.                       *)
(***************************************************************************)
EXTENDS Inference, Lowering, Interp, X86

CONSTANTS
    Bodies,      \* the trees a client may build
    Editable,    \* bound: those of them that are edited, once
    Edits,       \* the data an edit may put into a variable node
    Junk         \* what uninitialized registers and slots may hold

VARIABLES
    body, ret, errors,   \* the tree, and what inference left
    edited,              \* the tree has been edited
    stage,
    graph,
    args, told,          \* a call in the interpreter, and its result
    code,
    done                 \* the result of the same call of the code

vars == <<body, ret, errors, edited, stage, graph, args, told, code, done>>

None == <<>>

Init ==
    /\ body \in Bodies
    /\ ret = Untyped(body)
    /\ errors = {}
    /\ edited = FALSE
    /\ stage = "built"
    /\ graph = None /\ args = None /\ told = None /\ code = None /\ done = None

\* Function::recalculate_types; the tests call it twice.
RecalculateTypes ==
    /\ stage \in {"built", "typed"}
    /\ LET s == Inferred(body, ret, errors)
       IN ret' = s.ret /\ errors' = s.errors
    /\ stage' = "typed"
    /\ UNCHANGED <<body, edited, graph, args, told, code, done>>

\* ASTNode::setp32 on a node that names a variable.
Edited(t, path, x) ==
    LET RECURSIVE Put(_, _)
        Put(n, p) == IF p = <<>> THEN [n EXCEPT !.data = x]
                     ELSE [n EXCEPT !.children[p[1]] = Put(@, Tail(p))]
    IN Put(t, path)

Edit ==
    /\ stage = "typed"
    /\ ~ edited /\ body \in Editable
    /\ \E path \in PathsOf(body, "GETVAR"), x \in Edits :
          /\ At(body, path).data # x
          /\ body' = Edited(body, path, x)
    /\ edited' = TRUE
    /\ stage' = "built"
    /\ UNCHANGED <<ret, errors, graph, args, told, code, done>>

\* A client lowers what inference found no errors in.
LowerBody ==
    /\ stage = "typed"
    /\ errors = {}
    /\ graph' = Lowered(body, ret)
    /\ stage' = "lowered"
    /\ UNCHANGED <<body, ret, errors, edited, args, told, code, done>>

\* No intrinsic is used as a value.
IntrinsicsCalled(t) ==
    \A p \in PathsOf(t, "FNSYM") :
        IsIntrinsic(At(t, p).data) =>
            p # <<>> /\ Last(p) = 1 /\ At(t, Front(p)).type = "CALL"

Interpretable == Accepted(body, [ret |-> ret, errors |-> errors])

\* CompiledFunctionPool::call.  Bodies that are not well typed fail in ways
\* that are not modelled.
Interpret ==
    /\ stage = "lowered"
    /\ graph.status = "ok"
    /\ Interpretable
    /\ args' \in Arguments
    /\ told' = Called(graph, args')
    /\ stage' = "told"
    /\ UNCHANGED <<body, ret, errors, edited, graph, code, done>>

CompileBody ==
    /\ stage = "told"
    /\ code' = Compiled(graph)
    /\ stage' = "compiled"
    /\ UNCHANGED <<body, ret, errors, edited, graph, args, told, done>>

\* A program that takes the address of an intrinsic cannot be linked.
ExecuteCode ==
    /\ stage = "compiled"
    /\ code.status = "ok"
    /\ IntrinsicsCalled(body)
    /\ \E junk \in Junk : done' = Executed(code.code, args, junk, ret[<<>>])
    /\ stage' = "done"
    /\ UNCHANGED <<body, ret, errors, edited, graph, args, told, code>>

Next ==
    \/ RecalculateTypes
    \/ Edit
    \/ LowerBody
    \/ Interpret
    \/ CompileBody
    \/ ExecuteCode

Spec == Init /\ [][Next]_vars

-----------------------------------------------------------------------------

\* Types: the tree keeps one result type for each node, and the stages come in
\* order.
TypeOK ==
    /\ DOMAIN ret = Paths(body)
    /\ errors \subseteq Paths(body)
    /\ edited \in BOOLEAN
    /\ stage \in {"built", "typed", "lowered", "told", "compiled", "done"}
    /\ (graph = None) <=> (stage \in {"built", "typed"})
    /\ (told = None) <=> (stage \in {"built", "typed", "lowered"})
    /\ (code = None) <=> (stage \notin {"compiled", "done"})
    /\ (done = None) <=> (stage # "done")

State == [ret |-> ret, errors |-> errors]

\* Inference is sound (ast.cpp:64-212): a tree it accepts has a meaning for all
\* arguments, and the value has the type that the root was given.
TypesSound ==
    stage = "typed" /\ Accepted(body, State) =>
        \A as \in Arguments : HasType(Meaning(body, as).val, ret[<<>>])

\* A variable occurs in the initializer of its own declaration.
SelfInitialized(t) ==
    \E p \in PathsOf(t, "HAVEVAR"), q \in PathsOf(t, "GETVAR") :
        IsPrefix(Append(p, 1), q) /\ At(t, p).data = At(t, q).data

\* Types and errors are those of the present tree (ast.cpp:64-65): nothing
\* remains of what an earlier inference found before an edit.  (In the
\* initializer of a variable the type of the variable is still the old one.)
InferenceFresh ==
    stage = "typed" /\ ~ SelfInitialized(body) =>
        LET s == Inferred(body, Untyped(body), {})
        IN ret = s.ret /\ errors = s.errors

\* Lowering dereferences no null CodeBranch entry (dfg.cpp:132, 157) and throws
\* nothing when each variable is used in its scope.
LoweringTotal ==
    stage = "lowered" /\ Scoped(body) /\ errors = {} => graph.status = "ok"

\* No node without a value is where a value is wanted.
Statements(t, type) ==
    /\ type[<<>>] # Void
    /\ \A p \in Paths(t) : \A i \in DOMAIN At(t, p).children :
          type[Append(p, i)] = Void =>
              \/ type[p] = Void /\ At(t, p).type \in {"COMMA", "FORK", "HAVEVAR"} 
              \/ At(t, p).type = "COMMA" /\ At(t, p).data + 1 # i

\* The interpreter of the graph computes the value that the tree means
\* (dfg.cpp:21-193, inter/dfg.cpp:10-83), whatever the lowering shared, dropped
\* and reordered, unless the body of a declaration assigns an outer variable,
\* and it throws only for a missing value or an intrinsic that is not called.
ValuesAgree ==
    stage = "told" =>
        /\ Statements(body, ret) /\ IntrinsicsCalled(body) => told.status = "ok"
        /\ told.status = "ok" /\ ~ AssignsOuter(body) => told.val = Meaning(body, args).val

Count(s, x) == Cardinality({i \in DOMAIN s : s[i] = x})

\* The interpreter prints nothing that the tree does not, and nothing more
\* often (inter/dfg.cpp:72-77): what is shared is evaluated once.
PrintsOnce ==
    stage = "told" /\ ~ AssignsOuter(body) =>
        \A x \in ToSet(told.out) :
            Count(told.out, x) <= Count(Meaning(body, args).out, x)

\* A comma is sequential (the comment at dfg.cpp:45): what its children print
\* is printed, in their order.
CommaSequential ==
    stage = "told" /\ told.status = "ok" /\ ~ AssignsOuter(body) =>
        told.out = Meaning(body, args).out

\* The compiled code computes what the interpreter computes (x86.cpp:316-334),
\* unless one of the recorded hazards occurs on the way.
CodeAgrees ==
    stage = "done" /\ ret[<<>>] \in {U32, Bool} /\ done.hazards = {} => done.val = told.val

RECURSIVE Below(_, _, _)

\* The nodes that are computed for node n, not counting the i-th source of f.
Below(n, f, i) ==
    {n} \cup UNION {Below(graph.nodes[n].src[j], f, i) :
                       j \in {j \in DOMAIN graph.nodes[n].src : <<n, j>> # <<f, i>>}}

AllBelow(n) == Below(n, 0, 0)

Forks == {n \in AllBelow(graph.val) : graph.nodes[n].op = "FORK"}

\* A node is wanted in a branch and also without that branch.
SharedWithBranch ==
    \E f \in Forks, i \in 2 .. 3 :
        AllBelow(graph.nodes[f].src[i]) \cap Below(graph.val, f, i) # {}

IsCall(n) == graph.nodes[n].op = "CALL_BUILTIN" /\ graph.nodes[n].data = 0

\* A call is computed for an argument of a call that is not its first.
CallInLaterArgument ==
    \E n \in AllBelow(graph.val) :
        IsCall(n) /\ \E j \in 3 .. Len(graph.nodes[n].src) :
                        \E k \in AllBelow(graph.nodes[n].src[j]) : IsCall(k)

\* A branch of eight bytes, which a FORK stores as four.
WideFork == \E f \in Forks : SizeOf(graph.nodes[f].rtype) = 8


=============================================================================
