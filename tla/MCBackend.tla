----------------------------- MODULE MCBackend -----------------------------
(***************************************************************************)
(* The function of the instance, of a uint32 and a bool, and its bodies:   *)
(* well-typed expressions around one variable x, three levels deep, and    *)
(* all combinations of few leaves, well typed or not.                      *)
(***************************************************************************)
EXTENDS Backend

MCParams == <<U32, Bool>>

X == 0
Y == 1

N(k) == Leaf("UINT32", k)
Arg(i) == Leaf("ARG", i)
Get(x) == Leaf("GETVAR", x)
Fn(f) == Leaf("FNSYM", f)
Set(x, e) == Node("SETVAR", x, <<e>>)
Let(x, e, b) == Node("HAVEVAR", x, <<e, b>>)
If(c, l, r) == Node("FORK", 0, <<c, l, r>>)
Comma(i, l, r) == Node("COMMA", i, <<l, r>>)
PackOf(l, r) == Node("PACK", 0, <<l, r>>)
Index(e, i) == Node("PACKIND", i, <<e>>)
Deref(e) == Node("DEREF", 0, <<e>>)
AddrOf(e) == Node("ADDROF", 0, <<e>>)
Call(f, es) == Node("CALL", 0, <<f>> \o es)
Add(l, r) == Call(Fn(ADD), <<l, r>>)
Mul(l, r) == Call(Fn(MUL), <<l, r>>)
Le(l, r) == Call(Fn(LE), <<l, r>>)
PrintOf(e) == Call(Fn(PRINT), <<e>>)

Conditions == {Arg(1), Le(Get(X), N(1))}

Atoms == {N(1), Arg(0), Get(X)}

Terms == Atoms \cup
    {Mul(Get(X), Arg(0)),
     If(Arg(1), Get(X), N(1)),
     If(Le(Arg(0), N(2)), Mul(Arg(0), Get(X)), Get(X)),
     Comma(1, Set(X, N(2)), Get(X)),
     Comma(1, If(Arg(1), Set(X, Arg(0)), PrintOf(N(3))), Get(X)),
     Comma(1, PrintOf(Get(X)), Arg(0)),
     Let(Y, Comma(0, Get(X), PrintOf(N(2))), Add(Get(Y), Get(Y))),
     Let(Y, N(0), Comma(1, Set(X, N(0)), Get(Y))),
     Index(PackOf(Get(X), Arg(1)), 0),
     Deref(AddrOf(Get(X)))}

Expressions ==
    {Add(l, r) : l \in Terms, r \in Terms} \cup
    {Mul(l, r) : l \in Terms, r \in Terms} \cup
    {If(c, l, r) : c \in Conditions, l \in Terms, r \in Terms} \cup
    {Index(PackOf(l, r), 1) : l \in Terms, r \in Terms}

Values == {Arg(0), Add(Arg(0), N(1))}

Leaves == {N(1), Arg(1), Get(X), Fn(ADD), Fn(MUL)}

\* Whatever the leaves are.
Combinations ==
    {Comma(i, l, r) : i \in 1 .. 2, l \in Leaves, r \in Leaves} \cup
    {Index(PackOf(l, r), i) : i \in 1 .. 2, l \in Leaves, r \in Leaves} \cup
    {If(c, l, r) : c \in Leaves, l \in Leaves, r \in Leaves} \cup
    {Call(f, <<l, r>>) : f \in Leaves, l \in Leaves, r \in Leaves} \cup
    {Comma(1, Set(X, l), r) : l \in Leaves, r \in Leaves} \cup
    {Deref(l) : l \in Leaves} \cup {PrintOf(l) : l \in Leaves} \cup
    {PackOf(Let(X, l, r), Get(X)) : l \in Leaves, r \in Leaves} \cup
    {Call(If(Arg(1), l, r), <<N(1), N(1)>>) : l \in Leaves, r \in Leaves}

\* The variable in its own initializer.
Knots == {Let(X, Comma(0, N(1), Get(X)), r) : r \in Leaves}

\* A function that is chosen: of one signature, or of another.
Chosen ==
    {Call(If(Arg(1), Fn(f), Fn(g)), <<N(1), e>>) :
        f \in {MUL, SECOND, ADD, LE}, g \in {MUL, SECOND, ADD}, e \in Values}

\* A pack with a print in it, wanted twice or in a branch.
Prints ==
    {Let(Y, PackOf(PrintOf(v), v), e) :
        v \in {Arg(0), Add(Arg(0), N(1))},
        e \in {Add(Index(Get(Y), 1), Index(Get(Y), 1)),
               If(Le(Index(Get(Y), 1), N(1)), Index(Get(Y), 1), N(2)),
               If(Arg(1), Index(Get(Y), 1), Add(Arg(0), N(1)))}}

MCEditable == {Let(X, v, e) : v \in Leaves, e \in Combinations}

MCBodies ==
    {Let(X, v, e) : v \in Values, e \in Expressions} \cup MCEditable \cup Combinations \cup
    Knots \cup Prints \cup Chosen

=============================================================================
