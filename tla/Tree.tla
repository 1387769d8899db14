-------------------------------- MODULE Tree --------------------------------
(***************************************************************************)
(* The body of a function as a tree of nodes (ASTNode in ast.hpp), and the *)
(* meaning it has by the conventions of conven.txt: the reference that     *)
(* type inference, lowering, interpreter and code generator are compared   *)
(* with.  A tree is evaluated from left to right; HAVEVAR binds a variable *)
(* for its second child, SETVAR assigns to the binding in scope.           *)
(***************************************************************************)
EXTENDS Integers, Sequences, FiniteSets, SequencesExt, TLC

CONSTANTS
    W,           \* bits of a uint32; the lowest bit plays the lowest byte
    Params       \* the parameter types of the function

ASSUME WAssumption == W \in Nat \ {0, 1}

\* A node; its data is a number, a variable, or the function it names.
Node(type, data, children) == [type |-> type, data |-> data, children |-> children]

Leaf(type, data) == Node(type, data, <<>>)

-----------------------------------------------------------------------------
(* Nodes are named by their paths from the root. *)

RECURSIVE Paths(_)

Paths(t) ==
    {<<>>} \cup UNION {{<<i>> \o p : p \in Paths(t.children[i])} : i \in DOMAIN t.children}

At(t, path) == FoldLeft(LAMBDA n, i : n.children[i], t, path)

PathsOf(t, type) == {p \in Paths(t) : At(t, p).type = type}

-----------------------------------------------------------------------------
(* Types and values are tuples that open with a tag. *)

U32 == <<"u32">>
Bool == <<"bool">>
Void == <<"void">>
Error == <<"error">>
Pack(ts) == <<"pack">> \o ts
PointerTo(t) == <<"ptr", t>>
FunctionOf(ret, params) == <<"fn", ret>> \o params

\* What a function type says of the functions that have it.
ReturnIn(t) == t[2]
ParametersIn(t) == Tail(Tail(t))

Nothing == <<"void">>
Stuck == <<"stuck">>

Number(n) == <<"u32", n % 2^W>>
Truth(b) == <<"bool", IF b THEN 1 ELSE 0>>
FunctionValue(f) == <<"fn", f>>

\* The values of a type of which an argument can be.
ValuesOf(t) ==
    CASE t = U32 -> {Number(n) : n \in 0 .. 2^W - 1}
      [] t = Bool -> {Truth(b) : b \in BOOLEAN}

Arguments == {as \in [DOMAIN Params -> UNION {ValuesOf(Params[i]) : i \in DOMAIN Params}] :
                 \A i \in DOMAIN Params : as[i] \in ValuesOf(Params[i])}

-----------------------------------------------------------------------------
(* Functions: three intrinsics, by their numbers, and two functions of the    *)
(* project with the signature of the first: multiply_adjust of test-main.cpp, *)
(* and one that returns its second argument.                                  *)

MUL == 1
SECOND == 2
ADD == 10
LE == 51
PRINT == 100

IsIntrinsic(f) == f \notin {MUL, SECOND}

ParametersOf(f) == IF f = PRINT THEN <<U32>> ELSE <<U32, U32>>

ReturnOf(f) ==
    CASE f = LE -> Bool
      [] f = PRINT -> Void
      [] OTHER -> U32

\* TypeDatabase::function_of: functions of one signature have one type.
FunctionType(f) == FunctionOf(ReturnOf(f), ParametersOf(f))

RECURSIVE HasType(_, _)

HasType(v, t) ==
    /\ v[1] = t[1]
    /\ CASE t[1] = "pack" -> /\ Len(v) = Len(t)
                             /\ \A i \in 2 .. Len(t) : HasType(v[i], t[i])
         [] t[1] = "ptr" -> HasType(v[2], t[2])
         [] t[1] = "fn" -> FunctionType(v[2]) = t
         [] OTHER -> TRUE

Applied(f, vs) ==
    CASE f = ADD -> Number(vs[1][2] + vs[2][2])
      [] f = LE -> Truth(vs[1][2] <= vs[2][2])
      [] f = PRINT -> Nothing
      [] f = SECOND -> vs[2]
      [] OTHER -> Number(vs[1][2] * vs[2][2] + vs[1][2])

Printed(f, vs) == IF f = PRINT THEN <<vs[1][2]>> ELSE <<>>

-----------------------------------------------------------------------------
(* The meaning of a tree.  A state has the bindings in scope, innermost last, *)
(* what was printed, the value of the node and those of its children.  What   *)
(* has no meaning is stuck.                                                   *)

RECURSIVE Run(_, _, _)

RunEach(ts, args, st) ==
    FoldLeft(LAMBDA s, t : LET r == Run(t, args, s)
                           IN [r EXCEPT !.vals = Append(s.vals, r.val)],
             [st EXCEPT !.vals = <<>>], ts)

\* The innermost binding of a variable, or 0.
Binding(env, x) == SelectLastInSeq(env, LAMBDA b : b[1] = x)

Run(t, args, st) ==
    LET c == t.children
        all == RunEach(c, args, st)
        Yield(s, v) == [s EXCEPT !.val = v]
        Only(ok, v) == Yield(all, IF ok THEN v ELSE Stuck)
    IN
    CASE t.type = "UINT32" -> Yield(st, Number(t.data))
      [] t.type = "BOOL" -> Yield(st, Truth(t.data # 0))
      [] t.type = "ARG" -> Yield(st, args[t.data + 1])
      [] t.type = "FNSYM" -> Yield(st, FunctionValue(t.data))
      [] t.type = "PACK" -> Yield(all, Pack(all.vals))
      [] t.type = "PACKIND" ->
            LET p == all.vals[1]
            IN Only(p[1] = "pack" /\ t.data + 2 \in DOMAIN p, p[t.data + 2])
      [] t.type = "COMMA" -> Only(t.data + 1 \in DOMAIN c, all.vals[t.data + 1])
      [] t.type = "ADDROF" -> Yield(all, PointerTo(all.vals[1]))
      [] t.type = "DEREF" -> Only(all.vals[1][1] = "ptr", all.vals[1][2])
      [] t.type = "CALL" ->
            LET f == all.vals[1][2]
                vs == Tail(all.vals)
                ok == /\ all.vals[1][1] = "fn"
                      /\ Len(vs) = Len(ParametersOf(f))
                      /\ \A i \in DOMAIN vs : HasType(vs[i], ParametersOf(f)[i])
            IN IF ok THEN [Yield(all, Applied(f, vs)) EXCEPT !.out = @ \o Printed(f, vs)]
                     ELSE Yield(all, Stuck)
      [] t.type = "GETVAR" ->
            LET b == Binding(st.env, t.data)
            IN Yield(st, IF b = 0 THEN Stuck ELSE st.env[b][2])
      [] t.type = "SETVAR" ->
            LET b == Binding(all.env, t.data)
            IN IF b = 0 THEN Yield(all, Stuck)
                        ELSE [Yield(all, Nothing) EXCEPT !.env[b][2] = all.val]
      [] t.type = "HAVEVAR" ->
            LET bound == Run(c[1], args, st)
                body == Run(c[2], args,
                            [bound EXCEPT !.env = Append(@, <<t.data, bound.val>>)])
            IN [body EXCEPT !.env = Front(@)]
      [] t.type = "FORK" ->
            LET cond == Run(c[1], args, st)
            IN CASE cond.val = Truth(TRUE) -> Run(c[2], args, cond)
                 [] cond.val = Truth(FALSE) -> Run(c[3], args, cond)
                 [] OTHER -> Yield(cond, Stuck)

\* The value of a body and what it prints.
Meaning(t, args) ==
    Run(t, args, [env |-> <<>>, out |-> <<>>, val |-> Nothing, vals |-> <<>>])

-----------------------------------------------------------------------------
(* Scopes. *)

RECURSIVE ScopedIn(_, _)

\* Each variable is used in the scope of one of its declarations.
ScopedIn(t, known) ==
    /\ t.type \in {"GETVAR", "SETVAR"} => t.data \in known
    /\ \A i \in DOMAIN t.children :
          ScopedIn(t.children[i],
                   IF t.type = "HAVEVAR" /\ i = 2 THEN known \cup {t.data} ELSE known)

Scoped(t) == ScopedIn(t, {})

\* Where a variable is declared.
Declarations(t, x) == {p \in PathsOf(t, "HAVEVAR") : At(t, p).data = x}

UniquelyDeclared(t) == 
    \A p \in PathsOf(t, "HAVEVAR") : Declarations(t, At(t, p).data) = {p}

\* The body of a declaration assigns a variable declared around it.
AssignsOuter(t) ==
    \E p \in PathsOf(t, "HAVEVAR"), q \in PathsOf(t, "SETVAR") :
        /\ IsPrefix(Append(p, 2), q)
        /\ At(t, p).data # At(t, q).data
        /\ ~ \E r \in Declarations(t, At(t, q).data) :
                IsStrictPrefix(p, r) /\ IsPrefix(Append(r, 2), q)

=============================================================================
