--------------------------- MODULE MCSavedProject ---------------------------
(* SavedProject with two built-in types and a few bodies. *)
EXTENDS SavedProject

Dtype(size) == [tag |-> "dtype", refs |-> <<>>, size |-> size, align |-> size, hashed |-> TRUE]

MCBuiltin == <<Dtype(4), Dtype(8)>>

Pack(t, size) == [tag |-> "pack", refs |-> <<t>>, size |-> size, align |-> size, hashed |-> TRUE]

Pointer(t) == [tag |-> "pointer", refs |-> <<t>>, size |-> 8, align |-> 8, hashed |-> TRUE]

\* None yet; a type that the client emplaced; a pointer before what it points
\* to, as a collection leaves them.
MCTables == {<<>>, <<Dtype(2)>>, <<Pointer(4), Pack(1, 4)>>}

Type(tag, refs) == [tag |-> tag, refs |-> refs]

MCMade == {Type("pack", <<1>>)}

Function(ret, param, cname, root) == [sig |-> <<ret, param>>, cname |-> cname, root |-> root]

NType == Node("NTYPE", 0, 0, <<>>)

MCDeclared ==
    {Function(1, 3, <<"f">>, NType), Function(2, 4, <<"f">>, NType)} \cup
    {Function(1, 2, <<>>, Node("EXTERN_OR_INTRIN", n, 0, <<>>)) : n \in {10, INTR_EXTERN}}

u32 == Node("UINT32", 5, 0, <<>>)
u64 == Node("UINT64", 0, 7, <<>>)
pack(n) == Node("PACK", 0, 0, <<n>>)
addrof(n) == Node("ADDROF", 0, 0, <<n>>)
call(args) == Node("CALL", 0, 0, <<Node("FNSYM", 1, 0, <<>>)>> \o args)
overcall(n) == Node("OVERCALL", 1, 0, <<n>>)
arg == Node("ARG", 0, 0, <<>>)

\* The second function calls the first.
MCBodies ==
    <<{addrof(u64)},
      {call(<<pack(u32)>>), call(<<>>), call(<<overcall(arg)>>), overcall(pack(u32))}>>

=============================================================================
