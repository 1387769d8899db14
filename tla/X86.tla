-------------------------------- MODULE X86 --------------------------------
(***************************************************************************)
(* The code generator: FunctionCompiler of targets/x86.cpp, and the        *)
(* machine that executes its code.  The compiler's state has               *)
(*   values  the DataValue of each node compiled so far                    *)
(*   sp      the size of the frame; slots are named by their offsets       *)
(*   code    the instructions; a conditional holds the code of its         *)
(*           branches in place of jumps over them                          *)
(*   val     the DataValue returned                                        *)
(*   status  "ok" or "throws" (a logic_error or a failed assertion)        *)
(***************************************************************************)
EXTENDS Tree

Ins(op, reg, slot, arg) == [op |-> op, reg |-> reg, slot |-> slot, arg |-> arg]

\* parts are the elements of a pack, which has no slot.
DataValue(type, slot, parts) == [type |-> type, slot |-> slot, parts |-> parts]

NoValue == DataValue(Void, 0, <<>>)

RECURSIVE SizeOf(_)

SizeOf(t) ==
    CASE t = U32 -> 4
      [] t = Bool -> 1
      [] t[1] \in {"ptr", "fn"} -> 8
      [] t[1] = "pack" -> FoldLeft(LAMBDA n, e : n + SizeOf(e), 0, Tail(t))
      [] OTHER -> 0

HasSlot(v) == v.slot # 0

Throw(c) == [c EXCEPT !.status = "throws"]

Code(c, ins) == [c EXCEPT !.code = @ \o ins]

\* The value of node n: entered in values, from where it is never evicted.
Enters(c, n, v) == [c EXCEPT !.values = (n :> v) @@ @, !.val = v]

MaxFrame == 128

\* Mutant: the offset of the slot is taken before the frame grows.
AllocatedBefore(c, n, type, size) ==
    IF c.sp + size > MaxFrame THEN Throw(c)
    ELSE Enters([c EXCEPT !.sp = @ + size], n, DataValue(type, c.sp, <<>>))

\* A new slot of the size for node n; a displacement has eight bits.
Allocated(c, n, type, size) ==
    IF c.sp + size > MaxFrame THEN Throw(c)
    ELSE Enters([c EXCEPT !.sp = @ + size], n, DataValue(type, c.sp + size, <<>>))

\* into: values without a slot fail an assertion.
Into(c, v, reg) ==
    IF HasSlot(v) THEN Code(c, <<Ins("load", reg, v.slot, SizeOf(v.type))>>) ELSE Throw(c)

\* rtos: a register to the slot of the value just allocated.
ToSlot(c, v, size) == Code(c, <<Ins("store", "a", v.slot, size)>>)

\* Steps one after the other until one throws.
Then(c, Step(_)) == IF c.status = "ok" THEN Step(c) ELSE c


\* arg_reg
ArgRegister == <<"di", "si">>

\* load_args: the arguments are stored in slots of their own.
ArgValues ==
    LET offset[i \in 0 .. Len(Params)] == IF i = 0 THEN 0 ELSE offset[i - 1] + SizeOf(Params[i])
    IN [i \in DOMAIN Params |-> DataValue(Params[i], offset[i], <<>>)]

LoadArgs ==
    [values |-> [n \in {} |-> NoValue], status |-> "ok", val |-> NoValue, vals |-> <<>>,
     sp |-> IF Params = <<>> THEN 0 ELSE Last(ArgValues).slot,
     code |-> [i \in DOMAIN Params |->
                  Ins("store", ArgRegister[i], ArgValues[i].slot, SizeOf(Params[i]))]]

RECURSIVE Compile(_, _, _)

CompileEach(g, ns, c) ==
    FoldLeft(LAMBDA d, n : Then(d, LAMBDA e :
                LET r == Compile(g, n, e) IN [r EXCEPT !.vals = Append(e.vals, r.val)]),
             [c EXCEPT !.vals = <<>>], ns)

\* The arguments of a call go to their registers as they are compiled.
CompileArgs(g, ns, c) ==
    FoldLeft(LAMBDA d, i : Then(d, LAMBDA e :
                LET r == Compile(g, ns[i], e)
                IN Then(r, LAMBDA q : [Into(q, q.val, ArgRegister[i])
                                           EXCEPT !.vals = Append(e.vals, q.val)])),
             [c EXCEPT !.vals = <<>>], [i \in DOMAIN ns |-> i])

\* encode_arith and encode_comparison
CompileBinary(g, n, ins, c) ==
    LET nd == g.nodes[n]
        both == CompileEach(g, nd.src, c)
    IN Then(both, LAMBDA b :
       Then(Into(Into(b, b.vals[1], "a"), b.vals[2], "c"), LAMBDA d :
       Then(Allocated(Code(d, <<Ins(ins, "a", 0, 0)>>), n, nd.rtype, 4), LAMBDA e :
            ToSlot(e, e.val, 4))))

\* The call of a function of the project; the instruction carries the slots
\* of the arguments for the record of the machine.
CompileCall(g, n, c) ==
    LET nd == g.nodes[n]
        fn == Compile(g, nd.src[1], c)
        args == CompileArgs(g, Tail(nd.src), fn)
    IN Then(fn, LAMBDA f :
       Then(args, LAMBDA a :
       IF ~ HasSlot(f.val) THEN Throw(a)
       ELSE Then(Allocated(Code(a, <<Ins("call", "a", f.val.slot,
                                         [i \in DOMAIN a.vals |-> a.vals[i].slot])>>),
                           n, nd.rtype, 4), LAMBDA e :
                 ToSlot(e, e.val, 4))))

\* A branch of a FORK: its code apart, and its value stored to the slot of the
\* FORK, if it has one.  The values it computes stay known after it.
CompileBranch(g, n, slot, c) ==
    Then(Compile(g, n, [c EXCEPT !.code = <<>>]), LAMBDA d :
         IF slot = 0 THEN d
         ELSE Then(Into(d, d.val, "a"), LAMBDA e : Code(e, <<Ins("store", "a", slot, 4)>>)))

CompileFork(g, n, c) ==
    LET nd == g.nodes[n]
        sized == SizeOf(nd.rtype) # 0
        start == IF sized THEN Allocated(c, n, nd.rtype, 4) ELSE c
        slot == IF sized THEN start.val.slot ELSE 0
        cond == Then(start, LAMBDA d : Compile(g, nd.src[1], d))
        test == Then(cond, LAMBDA d : Into(d, d.val, "a"))
        lhs == CompileBranch(g, nd.src[2], slot, test)
        rhs == CompileBranch(g, nd.src[3], slot, lhs)
        fork == Ins("if", "a", test.val.slot, <<lhs.code, rhs.code>>)
    IN IF test.status # "ok" THEN test
       ELSE IF lhs.status # "ok" THEN lhs
       ELSE IF rhs.status # "ok" THEN rhs
       ELSE Enters([rhs EXCEPT !.code = Append(test.code, fork)], n, IF sized THEN start.val ELSE NoValue)

CompileNode(g, n, c) ==
    LET nd == g.nodes[n]
        Child == Compile(g, nd.src[1], c)
    IN
    CASE nd.op \in {"UINT32", "BOOL"} ->
            Then(Allocated(c, n, nd.rtype, 4), LAMBDA d :
                 Code(d, <<Ins("imm", "", d.val.slot, nd.data)>>))
      [] nd.op = "PACK" ->
            Then(CompileEach(g, nd.src, c), LAMBDA d :
                 Enters(d, n, DataValue(nd.rtype, 0, d.vals)))
      [] nd.op = "PACKIND" ->
            Then(Child, LAMBDA d : [d EXCEPT !.val = d.val.parts[nd.data + 1]])
      [] nd.op = "ARG" -> [c EXCEPT !.val = ArgValues[nd.data + 1]]
      [] nd.op = "ADDROF" ->
            Then(Child, LAMBDA d :
                 IF ~ HasSlot(d.val) THEN Throw(d)
                 ELSE Then(Allocated(Code(d, <<Ins("lea", "a", d.val.slot, 0)>>), n, nd.rtype, 8),
                           LAMBDA e : ToSlot(e, e.val, 8)))
      [] nd.op = "DEREF" ->
            Then(Child, LAMBDA d :
                 IF SizeOf(nd.rtype) \notin {1, 4, 8} THEN Throw(d)
                 ELSE Then(Allocated(Code(d, <<Ins("load", "c", d.val.slot, 8),
                                               Ins("deref", "a", 0, SizeOf(nd.rtype))>>),
                                     n, nd.rtype, SizeOf(nd.rtype)),
                           LAMBDA e : ToSlot(e, e.val, SizeOf(nd.rtype))))
      [] nd.op = "CALL_BUILTIN" ->
            CASE nd.data = 0 -> CompileCall(g, n, c)
              [] nd.data = ADD -> CompileBinary(g, n, "add", c)
              [] nd.data = LE -> CompileBinary(g, n, "setle", c)
              [] OTHER -> Throw(c)
      [] nd.op = "FORK" -> CompileFork(g, n, c)
      [] nd.op = "FNSYM" ->
            Then(Allocated(Code(c, <<Ins("leafn", "a", 0, nd.data)>>), n, nd.rtype, 8), LAMBDA d :
                 ToSlot(d, d.val, 8))
      [] nd.op = "SEQU" -> Then(CompileEach(g, nd.src, c), LAMBDA d : Enters(d, n, NoValue))
      [] nd.op \in {"DUMMY", "VOID"} -> Enters(c, n, NoValue)

Compile(g, n, c) ==
    IF n \in DOMAIN c.values THEN [c EXCEPT !.val = c.values[n]] ELSE CompileNode(g, n, c)

\* The constructor of x86::Function: the frame, then side effects and value.
Compiled(g) ==
    LET effects == IF g.se = 0 THEN LoadArgs ELSE Compile(g, g.se, LoadArgs)
        value == Then(effects, LAMBDA c : Compile(g, g.val, c))
        result == Then(value, LAMBDA c : Into(c, c.val, "a"))
    IN [code |-> result.code, status |-> result.status]

-----------------------------------------------------------------------------
(* The machine.  m has the registers, the slots that were written, and junk,  *)
(* what a register or a slot holds that nothing was put in; hazards records   *)
(* what the compiler should have prevented.                                   *)

\* The lowest byte of a number, and the rest.
Low(n) == n % 2
High(n) == n - Low(n)

Num(v, m) == IF v[1] = "n" THEN v[2] ELSE m.junk

\* A slot that nothing was stored in holds junk.
Read(m, slot) == IF slot \in DOMAIN m.mem THEN m.mem[slot] ELSE <<"n", m.junk>>

\* A load of one byte leaves the rest of the register.
Sized(v, old, size, m) ==
    CASE size = 1 -> <<"n", High(Num(old, m)) + Low(Num(v, m))>>
      [] size = 4 -> <<"n", Num(v, m)>>
      [] OTHER -> v

\* A store of four bytes cuts a pointer in two.
Cut(v, size, m) ==
    CASE size = 1 -> <<"n", Low(Num(v, m))>>
      [] size = 4 -> IF v[1] = "n" THEN v ELSE <<"torn">>
      [] OTHER -> v

Hazard(m, kind, if) == IF if THEN [m EXCEPT !.hazards = @ \cup {kind}] ELSE m

ReadSlot(m, reg, slot, size) ==
    [Hazard(m, "raw", slot \notin DOMAIN m.mem)
        EXCEPT !.regs[reg] = Sized(Read(m, slot), @, size, m)]

Signed(n) == IF n >= 2^(W - 1) THEN n - 2^W ELSE n

\* The callee takes its arguments from the registers and leaves junk in all
\* but that of the result.
CallTo(m, ins) ==
    LET f == Read(m, ins.slot)
        given(i) == m.regs[ArgRegister[i]]
        wild == f \notin {FunctionValue(MUL), FunctionValue(SECOND)}
        n == IF wild THEN m.junk
             ELSE Applied(f[2], <<Number(Num(given(1), m)), Number(Num(given(2), m))>>)[2]
        lost == \E i \in DOMAIN ins.arg : given(i) # Read(m, ins.arg[i])
    IN [Hazard(Hazard(m, "args", lost), "wild", wild)
           EXCEPT !.regs = [r \in DOMAIN @ |-> <<"n", IF r = "a" THEN n ELSE m.junk>>]]

RECURSIVE Execute(_, _)

Step(m, i) ==
    LET a == m.regs["a"]
        c == m.regs["c"]
        IntoA(v) == [m EXCEPT !.regs["a"] = v]
    IN
    CASE i.op = "imm" -> [m EXCEPT !.mem = (i.slot :> <<"n", i.arg>>) @@ @]
      [] i.op = "store" -> [m EXCEPT !.mem = (i.slot :> Cut(m.regs[i.reg], i.arg, m)) @@ @]
      [] i.op = "load" -> ReadSlot(m, i.reg, i.slot, i.arg)
      [] i.op = "add" -> IntoA(<<"n", (Num(a, m) + Num(c, m)) % 2^W>>)
      [] i.op = "setle" ->
            LET signed == Signed(Num(a, m)) <= Signed(Num(c, m))
            IN Hazard(IntoA(<<"n", IF signed THEN 1 ELSE 0>>), "sign",
                      signed # (Num(a, m) <= Num(c, m)))
      [] i.op = "lea" -> IntoA(<<"ptr", i.slot>>)
      [] i.op = "leafn" -> IntoA(FunctionValue(i.arg))
      [] i.op = "deref" -> IF c[1] = "ptr" THEN ReadSlot(m, "a", c[2], i.arg)
                           ELSE Hazard(IntoA(<<"n", m.junk>>), "wild", TRUE)
      [] i.op = "call" -> CallTo(m, i)
      [] i.op = "if" ->
            Hazard(Execute(i.arg[IF Num(a, m) # 0 THEN 1 ELSE 2], m),
                   "wide", (Num(a, m) # 0) # (Low(Num(Read(m, i.slot), m)) = 1))

Execute(code, m) == FoldLeft(LAMBDA n, i : Step(n, i), m, code)

\* The value that a caller finds in the register of the result.
ResultOf(m, type) ==
    CASE type = U32 -> Number(Num(m.regs["a"], m))
      [] type = Bool -> Truth(Low(Num(m.regs["a"], m)) = 1)
      [] OTHER -> m.regs["a"]

\* A call of the compiled function.  A bool is passed in the lowest byte.
Executed(code, args, junk, type) ==
    LET Passed(i) == <<"n", IF Params[i] = Bool THEN High(junk) + args[i][2] ELSE args[i][2]>>
        m == Execute(code,
               [regs |-> [r \in {"a", "c", "di", "si"} |->
                            IF r = "di" /\ 1 \in DOMAIN Params THEN Passed(1)
                            ELSE IF r = "si" /\ 2 \in DOMAIN Params THEN Passed(2)
                            ELSE <<"n", junk>>],
                mem |-> [s \in {} |-> <<>>], junk |-> junk, hazards |-> {}])
    IN [val |-> ResultOf(m, type), hazards |-> m.hazards]

=============================================================================
