------------------------------ MODULE Lowering ------------------------------
(***************************************************************************)
(* Lowering of a tree to a data-flow graph: DataFlowGraph::compile of      *)
(* targets/dfg.cpp.  Its state has                                         *)
(*   nodes   the nodes of the graph; they are named by their places        *)
(*   br      the chain of CodeBranches, innermost last, each the map of    *)
(*           the variables that were set in it                             *)
(*   val,se  the Operation returned: the node of the value and the node of *)
(*           the side effects, 0 for none                                  *)
(*   status  "ok", "throws", or "fault" for undefined behaviour, after     *)
(*           which nothing is done                                         *)
(* The children of a node are lowered before the node is made; the code    *)
(* makes some nodes first, which only their places tell.                   *)
(***************************************************************************)
EXTENDS Tree

DataNode(op, rtype, data, src) == [op |-> op, rtype |-> rtype, data |-> data, src |-> src]

NoVars == [x \in {} |-> 0]

Ok(s) == s.status = "ok"

Fails(s, how) == [s EXCEPT !.status = how]

Made(s, node) == [s EXCEPT !.nodes = Append(@, node), !.val = Len(s.nodes) + 1]

\* A node that is the value, and a node for the side effects.
Value(s, node, se) == [Made(s, node) EXCEPT !.se = se]

\* A node for the side effects; the value stays.
Effect(s, node) == [Made(s, node) EXCEPT !.se = Len(s.nodes) + 1, !.val = s.val]

Sequ(src) == DataNode("SEQU", Error, 0, src)

\* se_merge
Merged(s, lse, rse) ==
    CASE lse = 0 -> [s EXCEPT !.se = rse]
      [] rse = 0 -> [s EXCEPT !.se = lse]
      [] OTHER -> Effect(s, Sequ(<<lse, rse>>))

\* Mutant: the variables of the outer scopes are not looked up.
GetVarHere(br, x) == IF x \in DOMAIN Last(br) THEN Last(br)[x] ELSE 0

\* CodeBranch::getvar, 0 for the null pointer.
GetVar(br, x) ==
    LET i == SelectLastInSeq(br, LAMBDA vars : x \in DOMAIN vars)
    IN IF i = 0 THEN 0 ELSE br[i][x]

\* CodeBranch::setvar: the innermost scope.
SetVar(s, x, n) == [s EXCEPT !.br[Len(s.br)] = (x :> n) @@ @]

Enter(s, vars) == [s EXCEPT !.br = Append(@, vars)]

Leave(s) == [s EXCEPT !.br = Front(@)]

\* The local side_effects of CALL and OVERCALL: no call counts as one.
CallHasEffect(f) == FALSE

RECURSIVE Lower(_, _, _, _)

\* Children from left to right: their values, and the side effects they have.
LowerEach(ts, first, path, ret, s) ==
    FoldLeft(LAMBDA r, i :
                IF ~ Ok(r) THEN r
                ELSE LET q == Lower(ts[i], Append(path, i), ret, r)
                     IN [q EXCEPT !.vals = Append(r.vals, q.val),
                                  !.ses = IF q.se = 0 THEN r.ses ELSE Append(r.ses, q.se)],
             [s EXCEPT !.vals = <<>>, !.ses = <<>>],
             [i \in 1 .. Len(ts) - first + 1 |-> i + first - 1])

\* PACK and COMMA put the side effects of their children in sequence.
Sequenced(s) == IF s.ses = <<>> THEN [s EXCEPT !.se = 0] ELSE Effect(s, Sequ(s.ses))

\* After the children, unless one of them failed.
LowerPack(type, s) ==
    LET q == Sequenced(s) IN Value(q, DataNode("PACK", type, 0, s.vals), q.se)

\* An index past the children leaves the result uninitialized.
LowerComma(t, s) ==
    IF t.data + 1 \in DOMAIN s.vals THEN [Sequenced(s) EXCEPT !.val = s.vals[t.data + 1]]
                                    ELSE Fails(s, "fault")

LowerUnary(t, type, s) == Value(s, DataNode(t.type, type, t.data, s.vals), s.se)

\* f is the intrinsic that is called by its symbol, or 0 for any other call.
LowerCall(f, type, s) ==
    IF Len(s.ses) > 1 THEN Fails(s, "throws")
    ELSE LET call == Made(s, DataNode("CALL_BUILTIN", type, f, s.vals))
         IN Merged(call, IF CallHasEffect(f) THEN call.val ELSE 0,
                         IF s.ses = <<>> THEN 0 ELSE s.ses[1])

LowerSetVar(x, s) ==
    Value(SetVar(s, x, s.val), DataNode("VOID", Void, 0, <<>>), s.se)

LowerGetVar(x, s) ==
    LET n == GetVar(s.br, x)
    IN IF n = 0 THEN Fails(s, "fault") ELSE [s EXCEPT !.val = n, !.se = 0]

\* The scope of the variable is a branch of its own, dropped after the body.
LowerHaveVar(t, path, ret, s) ==
    LET bound == Lower(t.children[1], Append(path, 1), ret, s)
        body == Lower(t.children[2], Append(path, 2), ret, Enter(bound, t.data :> bound.val))
    IN IF ~ Ok(bound) THEN bound
       ELSE IF ~ Ok(body) THEN body
       ELSE Merged(Leave(body), bound.se, body.se)

\* A branch of a FORK: the state after it, and the variables it set.
Branch(t, i, path, ret, s) ==
    Lower(t.children[i], Append(path, i), ret, Enter(s, NoVars))

\* Mutant: what the branches assigned is forgotten.
OverrideNone(s, cond, lvars, rvars) == s

\* One FORK for each variable that a branch set.
Override(s, cond, lvars, rvars) ==
    FoldLeft(LAMBDA r, x :
                LET outer == GetVar(r.br, x)
                    In(vars) == IF x \in DOMAIN vars THEN vars[x] ELSE outer
                IN IF ~ Ok(r) THEN r
                   ELSE IF outer = 0 THEN Fails(r, "fault")
                   ELSE LET q == Made(r, DataNode("FORK", r.nodes[outer].rtype, 0,
                                                  <<cond, In(lvars), In(rvars)>>))
                        IN SetVar(q, x, q.val),
             s, SetToSeq(DOMAIN lvars \cup DOMAIN rvars))

Dummy == DataNode("DUMMY", Void, 0, <<>>)

\* The side effects of one branch, after those of the condition.
BranchEffect(s, cse, bse) ==
    IF cse = 0 /\ bse = 0 THEN Effect(s, Dummy) ELSE Merged(s, cse, bse)

LowerFork(t, path, ret, s) ==
    LET cond == Lower(t.children[1], Append(path, 1), ret, s)
        lhs == Branch(t, 2, path, ret, cond)
        rhs == Branch(t, 3, path, ret, Leave(lhs))
        set == Override(Leave(rhs), cond.val, Last(lhs.br), Last(rhs.br))
        join == Value(set, DataNode("FORK", ret[path], 0, <<cond.val, lhs.val, rhs.val>>), 0)
        le == BranchEffect(join, cond.se, lhs.se)
        re == BranchEffect(le, cond.se, rhs.se)
    IN IF ~ Ok(cond) THEN cond
       ELSE IF ~ Ok(lhs) THEN lhs
       ELSE IF ~ Ok(rhs) THEN rhs
       ELSE IF ~ Ok(set) THEN set
       ELSE IF cond.se = 0 /\ lhs.se = 0 /\ rhs.se = 0 THEN join
       ELSE Effect(re, DataNode("FORK", Void, 0, <<cond.val, le.se, re.se>>))

\* Leaves of the tree that are nodes of the graph as they are.
LowerLeaf(t, type, s) == Value(s, DataNode(t.type, type, t.data, <<>>), 0)

\* The function a call names by its symbol, if it is an intrinsic.
CalledIntrinsic(t) ==
    IF t.children[1].type = "FNSYM" /\ IsIntrinsic(t.children[1].data)
    THEN t.children[1].data ELSE 0

Lower(t, path, ret, s) ==
    LET f == CalledIntrinsic(t)
        each(first) == LowerEach(t.children, first, path, ret, s)
        After(q, r) == IF Ok(q) THEN r ELSE q
        all == each(IF t.type = "CALL" /\ f # 0 THEN 2 ELSE 1)
    IN
    CASE t.type \in {"UINT32", "BOOL", "ARG", "FNSYM"} -> LowerLeaf(t, ret[path], s)
      [] t.type = "GETVAR" -> LowerGetVar(t.data, s)
      [] t.type = "HAVEVAR" -> LowerHaveVar(t, path, ret, s)
      [] t.type = "FORK" -> LowerFork(t, path, ret, s)
      [] t.type = "PACK" -> After(all, LowerPack(ret[path], all))
      [] t.type = "COMMA" -> After(all, LowerComma(t, all))
      [] t.type = "CALL" -> After(all, LowerCall(f, ret[path], all))
      [] t.type = "SETVAR" -> After(all, LowerSetVar(t.data, all))
      [] t.type \in {"PACKIND", "ADDROF", "DEREF"} -> After(all, LowerUnary(t, ret[path], all))

\* The constructor of DataFlowGraph.
Lowered(t, ret) ==
    LET s == Lower(t, <<>>, ret, [nodes |-> <<>>, br |-> <<NoVars>>, status |-> "ok",
                                  val |-> 0, se |-> 0, vals |-> <<>>, ses |-> <<>>])
    IN [nodes |-> s.nodes, val |-> s.val, se |-> s.se, status |-> s.status]

=============================================================================
