------------------------------- MODULE Serial -------------------------------
(***************************************************************************)
(* The file format of a project: what serialize writes of its types,       *)
(* functions, overload sets and nodes, and what the deserializing          *)
(* constructors make of it (ast.cpp, type.hpp, type-database.hpp,          *)
(* function.hpp, overload.hpp, entity_pool.hpp, project_entity_pool.hpp).  *)
(*                                                                         *)
(* A file is a sequence of items: numbers (muleb128), single bytes, and    *)
(* the characters of names.  A reference is the position of what it        *)
(* denotes; types count from 1, the built-in ones first.                   *)
(***************************************************************************)
EXTENDS Integers, Sequences, SequencesExt

CONSTANT Builtin  \* the built-in types, T_INTRINSIC_END of them

T_ERROR == 0

\* What storage holds that deserialize does not write to.
Unset == -1

\* Function::INTR_EXTERN, the number of no intrinsic.
INTR_EXTERN == 99

VARIABLE_CHILDREN == -1

\* A node; data is the 64-bit field of a node without children.
Node(type, prim, data, kids) ==
    [type |-> type, prim |-> prim, data |-> data, kids |-> kids, ret |-> T_ERROR]

nchld_of(type) ==
    CASE type \in {"UINT32", "UINT64", "SINT32", "BOOL", "GETVAR", "FNSYM", "NTYPE",
                   "EXTERN_OR_INTRIN", "ARG"} -> 0
      [] type \in {"SETVAR", "PACKIND", "DEREF", "ADDROF"} -> 1
      [] type = "HAVEVAR" -> 2
      [] type = "FORK" -> 3
      [] type \in {"PACK", "COMMA", "CALL", "OVERCALL"} -> VARIABLE_CHILDREN

\* Mutant: 64-bit fields are not part of the format.
has_no_data(type) == FALSE

has_extended_data(type) == type = "UINT64"

is_intrin(root) == root.type = "EXTERN_OR_INTRIN" /\ root.prim # INTR_EXTERN

-----------------------------------------------------------------------------
(* Writing. *)

Number(n) == <<<<"number", n>>>>

Byte(b) == <<<<"byte", b>>>>

Numbers(ns) == Number(Len(ns)) \o [i \in DOMAIN ns |-> <<"number", ns[i]>>]

Each(s, Write(_)) == FlattenSeq([i \in DOMAIN s |-> Write(s[i])])

RECURSIVE WriteNode(_)

WriteNode(n) ==
    Byte(n.type) \o Number(n.prim)
    \o (IF nchld_of(n.type) = VARIABLE_CHILDREN THEN Number(Len(n.kids)) ELSE <<>>)
    \o (IF has_extended_data(n.type) THEN Number(n.data) ELSE <<>>)
    \o Each(n.kids, LAMBDA k : WriteNode(k))

\* A signature as a list: the return type and the parameters.
WriteSignature(sig) == Number(Head(sig)) \o Numbers(Tail(sig))

WriteType(t) ==
    Number(t.size) \o Number(t.align) \o Byte(t.tag)
    \o CASE t.tag = "pack" -> Numbers(t.refs)
         [] t.tag = "function" -> WriteSignature(t.refs)
         [] t.tag = "pointer" -> Number(Head(t.refs))
         [] t.tag = "dtype" -> <<>>

WriteFunction(f) ==
    WriteSignature(f.sig)
    \o IF is_intrin(f.root)
       THEN Number(0) \o Number(f.root.prim)
       ELSE Number(Len(f.cname) + 1) \o Each(f.cname, Byte) \o WriteNode(f.root)

\* The built-in types are not written.
Write(project) ==
    LET types == SubSeq(project.types, Len(Builtin) + 1, Len(project.types)) IN
    Number(Len(types)) \o Each(types, WriteType)
    \o Number(Len(project.functions)) \o Each(project.functions, WriteFunction)
    \o Number(Len(project.overloads)) \o Each(project.overloads, Numbers)

-----------------------------------------------------------------------------
(* Reading: each operator returns what it read, and the rest of the file.  *)

Read(x, rest) == [read |-> x, rest |-> rest]

\* A number or a byte.
ReadItem(s) == IF s = <<>> THEN Read(Unset, s) ELSE Read(Head(s)[2], Tail(s))

ReadMany(n, s, One(_)) ==
    FoldLeft(LAMBDA acc, i : LET r == One(acc.rest) IN Read(Append(acc.read, r.read), r.rest),
             Read(<<>>, s), [i \in 1..n |-> i])

ReadCounted(s, One(_)) == LET n == ReadItem(s) IN ReadMany(n.read, n.rest, One)

ReadNumbers(s) == ReadCounted(s, ReadItem)

RECURSIVE ReadNode(_)

\* ASTNode::deserialize; the result type is not written to.
ReadNode(s) ==
    LET type == ReadItem(s)
        prim == ReadItem(type.rest)
        fixed == nchld_of(type.read)
        n == IF fixed = VARIABLE_CHILDREN THEN ReadItem(prim.rest) ELSE Read(fixed, prim.rest)
        kids == ReadMany(n.read, n.rest, LAMBDA r : ReadNode(r))
        data == IF has_extended_data(type.read) THEN ReadItem(kids.rest) ELSE Read(0, kids.rest)
    IN Read([Node(type.read, prim.read, data.read, kids.read) EXCEPT !.ret = Unset], data.rest)

ReadSignature(s) ==
    LET ret == ReadItem(s)
        params == ReadNumbers(ret.rest)
    IN Read(<<ret.read>> \o params.read, params.rest)

\* TypeInfo::deserialize; the hash is not written to.  A type without contents
\* is what the storage holds already, and is not entered in the table.
ReadType(s) ==
    LET size == ReadItem(s)
        align == ReadItem(size.rest)
        tag == ReadItem(align.rest)
        one == ReadItem(tag.rest)
        refs == CASE tag.read = "pack" -> ReadNumbers(tag.rest)
                  [] tag.read = "function" -> ReadSignature(tag.rest)
                  [] tag.read = "pointer" -> Read(<<one.read>>, one.rest)
                  [] tag.read = "dtype" -> Read(<<>>, tag.rest)
    IN Read([tag |-> tag.read, refs |-> refs.read, size |-> size.read, align |-> align.read,
             hashed |-> FALSE], refs.rest)

ReadFunction(s) ==
    LET sig == ReadSignature(s)
        n == ReadItem(sig.rest)
        number == ReadItem(n.rest)
        name == ReadMany(n.read - 1, n.rest, ReadItem)
        root == ReadNode(name.rest)
    IN IF n.read = 0
       THEN Read([sig |-> sig.read, cname |-> <<>>,
                  root |-> Node("EXTERN_OR_INTRIN", number.read, 0, <<>>)], number.rest)
       ELSE Read([sig |-> sig.read, cname |-> name.read, root |-> root.read], root.rest)

\* Mutant: the built-in types come last.
PlacedLast(types) == types \o Builtin

\* EntityPool and TypeDatabase: the places of the built-in types are not read.
Placed(types) == Builtin \o types

\* The constructor of ProjectEntitiesPool.  All types are there, without
\* contents, before the first is read.
ReadProject(s) ==
    LET types == ReadCounted(s, ReadType)
        functions == ReadCounted(types.rest, ReadFunction)
        overloads == ReadCounted(functions.rest, ReadNumbers)
    IN Read([types |-> Placed(types.read), functions |-> functions.read,
             overloads |-> overloads.read], overloads.rest)

=============================================================================
