------------------------------- MODULE Interp -------------------------------
(***************************************************************************)
(* The interpreter of a data-flow graph: eval, dedup_eval and call of      *)
(* inter/dfg.cpp, with the intrinsics of inter/magic.cpp.  Its state has   *)
(* the cache of the call (values by node), what was printed, the value     *)
(* returned, and whether a logic_error was thrown.                         *)
(***************************************************************************)
EXTENDS Tree

\* Mutant: nothing is found in the cache.
CachedNever(s, n) == FALSE

\* The value of a node that was evaluated is kept for the rest of the call.
Cached(s, n) == n \in DOMAIN s.cache

RECURSIVE DedupEval(_, _, _, _)

\* Nodes in order, until one throws; vals are their values.
EvalEach(g, ns, args, s) ==
    FoldLeft(LAMBDA r, n :
                IF r.status # "ok" THEN r
                ELSE LET q == DedupEval(g, n, args, r) IN [q EXCEPT !.vals = Append(r.vals, q.val)],
             [s EXCEPT !.vals = <<>>], ns)

\* The arguments of a call of a function of the project are evaluated before
\* the function itself.
CallOrder(src, f) == IF f = 0 THEN Append(Tail(src), src[1]) ELSE src

\* No intrinsic is in the pool of compiled functions.
EvalCall(f, s) ==
    LET callee == IF f = 0 THEN Last(s.vals)[2] ELSE f
        vs == IF f = 0 THEN Front(s.vals) ELSE s.vals
    IN IF f = 0 /\ IsIntrinsic(callee) THEN [s EXCEPT !.status = "throws"]
       ELSE [s EXCEPT !.val = Applied(callee, vs), !.out = @ \o Printed(callee, vs)]

\* Which of the branches is evaluated.
Taken(cond) == IF cond = Truth(TRUE) THEN 2 ELSE 3

Eval(g, n, args, s) ==
    LET nd == g.nodes[n]
        src == IF nd.op = "CALL_BUILTIN" THEN CallOrder(nd.src, nd.data) ELSE nd.src
        all == EvalEach(g, src, args, s)
        Yield(q, v) == IF q.status = "ok" THEN [q EXCEPT !.val = v] ELSE q
    IN
    CASE nd.op = "UINT32" -> Yield(s, Number(nd.data))
      [] nd.op = "BOOL" -> Yield(s, Truth(nd.data # 0))
      [] nd.op = "ARG" -> Yield(s, args[nd.data + 1])
      [] nd.op = "FNSYM" -> Yield(s, FunctionValue(nd.data))
      [] nd.op = "PACK" -> Yield(all, Pack(all.vals))
      [] nd.op = "PACKIND" -> Yield(all, all.vals[1][nd.data + 2])
      [] nd.op = "ADDROF" -> Yield(all, PointerTo(all.vals[1]))
      [] nd.op = "DEREF" -> Yield(all, all.vals[1][2])
      [] nd.op = "CALL_BUILTIN" -> IF all.status = "ok" THEN EvalCall(nd.data, all) ELSE all
      [] nd.op = "FORK" ->
            LET cond == DedupEval(g, nd.src[1], args, s)
            IN IF cond.status = "ok" THEN DedupEval(g, nd.src[Taken(cond.val)], args, cond) ELSE cond
      [] nd.op = "SEQU" -> Yield(all, Nothing)
      [] nd.op = "DUMMY" -> Yield(s, Nothing)
      [] nd.op = "VOID" -> [s EXCEPT !.status = "throws"]

DedupEval(g, n, args, s) ==
    IF Cached(s, n) THEN [s EXCEPT !.val = s.cache[n]]
    ELSE LET r == Eval(g, n, args, s)
         IN IF r.status = "ok" THEN [r EXCEPT !.cache = (n :> r.val) @@ @] ELSE r

\* CompiledFunctionPool::call: first the side effects of the root.
Called(g, args) ==
    LET start == [cache |-> [n \in {} |-> Nothing], out |-> <<>>, val |-> Nothing,
                  vals |-> <<>>, status |-> "ok"]
        effects == IF g.se = 0 THEN start ELSE DedupEval(g, g.se, args, start)
        result == IF effects.status = "ok" THEN DedupEval(g, g.val, args, effects) ELSE effects
    IN [val |-> result.val, out |-> result.out, status |-> result.status]

=============================================================================
