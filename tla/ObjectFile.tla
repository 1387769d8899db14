----------------------------- MODULE ObjectFile -----------------------------
(***************************************************************************)
(* Compiled functions put together: the program with its symbols           *)
(* (targets/x86.hpp) and the object file that is made of it                *)
(* (formats/elf.hpp, elf.cpp).  A relocation names a function by its id,   *)
(* the program gives it a place, the object file takes that place for the  *)
(* place of a symbol, and the symbol's name is an offset in a table of     *)
(* names.                                                                  *)
(*                                                                         *)
(* The bytes of a function are told apart by where they come from.  Places *)
(* in the object file count from 0, as in the code.                        *)
(***************************************************************************)
EXTENDS Integers, Sequences, SequencesExt, FiniteSets, FiniteSetsExt

CONSTANTS
    Letter,       \* what the names of functions are made of
    Compiled,     \* bound: functions that a client compiles, with the ids it gives them
    Imported,     \* bound: functions that it imports, likewise
    Projects,     \* bound: projects that are compiled as a whole
    MaxFunctions, \* bound: functions of a program
    MaxTexts      \* bound: programs put into one object file

\* A name in a table ends with this, and does not contain it.
End == "end"

SectionLetters == {"shstrtab", "strtab", "text", "symtab", "rela"}

Names == Seq((Letter \cup SectionLetters) \ {End})

\* Compiled code, with calls inside of it, and what stands for code that is
\* elsewhere.
Codes ==
    {fn \in [cname : Names, size : Nat \ {0}, rels : Seq([offset : Nat, fni : Nat, isize : Nat])] :
        \A i \in DOMAIN fn.rels : fn.rels[i].offset < fn.size}

Stubs == [cname : Names, size : {0}, rels : {<<>>}]

ASSUME CodeAssumption ==
    /\ Compiled \subseteq [fid : Nat, fn : Codes]
    /\ Imported \subseteq [fid : Nat, cname : Names]
    /\ Projects \subseteq Seq([kind : {"body"}, fn : Codes] \cup
                             [kind : {"extern", "intrinsic"}, fn : Stubs])

VARIABLES
    prog,   \* targets::x86::Program
    elf,    \* formats::elf::Elf
    texts   \* history: the calls of add_text

objectVars == <<prog, elf, texts>>

-----------------------------------------------------------------------------
(* The program.  A function is added with its id, which is kept as a       *)
(* history; a stub has no code.                                            *)

NoProgram == [fnv |-> <<>>, function_order |-> [fid \in {} |-> 0], symtab |-> <<>>]

Stub(name) == [cname |-> name, size |-> 0, rels |-> <<>>]

\* A second function of the same id is not found by it.
add_function(p, fid, fn) ==
    [p EXCEPT !.function_order =
                  [i \in DOMAIN @ \cup {fid} |-> IF i \in DOMAIN @ THEN @[i] ELSE Len(p.fnv)],
              !.fnv = Append(@, [fid |-> fid, fn |-> fn])]

Symbol(name, index, import) == [name |-> name, index |-> index, import |-> import]

import_function(p, fid, name) ==
    add_function([p EXCEPT !.symtab = Append(@, Symbol(name, 0, TRUE))], fid, Stub(name))

export_function(p, fid, fn) ==
    add_function([p EXCEPT !.symtab = Append(@, Symbol(fn.cname, Len(p.fnv), FALSE))], fid, fn)

With(p, fid, f) ==
    CASE f.kind = "extern" -> import_function(p, fid, f.fn.cname)
      [] f.kind = "body" -> export_function(p, fid, f.fn)
      [] f.kind = "intrinsic" -> p

\* The constructor from a project: intrinsics take no part.
ProgramOf(project) ==
    LET upto[fid \in 0..Len(project)] ==
            IF fid = 0 THEN NoProgram ELSE With(upto[fid - 1], fid, project[fid])
    IN upto[Len(project)]

-----------------------------------------------------------------------------
(* The object file. *)

\* Nametable::add, and the name that a reader finds at a place.
AddName(table, name) == table \o name \o <<End>>
NameAt(table, at) ==
    SubSeq(table, at + 1, Min({i \in DOMAIN table : i > at /\ table[i] = End}) - 1)

Section(name, type, data, entsize, link, info) ==
    [name |-> name, type |-> type, data |-> data, entsize |-> entsize, link |-> link, info |-> info]

add_section(e, name, type, data, entsize, link, info) ==
    [e EXCEPT !.sections = Append(@, Section(Len(e.shstrtab), type, data, entsize, link, info)),
              !.shstrtab = AddName(@, name)]

\* The constructor: the two tables of names, whose data is filled in last.
NoElf ==
    LET empty == [sections |-> <<>>, shstrtab |-> <<End>>, strtab |-> <<End>>]
        one == add_section(empty, <<"shstrtab">>, "strtab", <<>>, 1, 0, 0)
    IN add_section(one, <<"strtab">>, "strtab", <<>>, 1, 0, 0)

\* Where the code of the i-th function begins.
Entry(p, i) ==
    LET at[j \in DOMAIN p.fnv] == IF j = 1 THEN 0 ELSE at[j - 1] + p.fnv[j - 1].fn.size
    IN at[i]

Text(p) == FlattenSeq([i \in DOMAIN p.fnv |-> [k \in 1..p.fnv[i].fn.size |-> <<i, k - 1>>]])

NullSymbol == [name |-> 0, shndx |-> 0, value |-> 0]

\* The symbols of a program, after the null symbol, and the table that has
\* their names.
Symbols(p, strtab, text) ==
    LET table[k \in 0..Len(p.symtab)] ==
            IF k = 0 THEN strtab ELSE AddName(table[k - 1], p.symtab[k].name)
        entry(k, s) ==
            IF s.import THEN [NullSymbol EXCEPT !.name = Len(table[k - 1])]
            ELSE [name |-> Len(table[k - 1]), shndx |-> text, value |-> Entry(p, s.index + 1)]
    IN [entries |-> <<NullSymbol>> \o [k \in DOMAIN p.symtab |-> entry(k, p.symtab[k])],
        strtab |-> table[Len(p.symtab)]]

\* get_index throws for a function that is not in the program.
Complete(p) ==
    \A i \in DOMAIN p.fnv : \A r \in ToSet(p.fnv[i].fn.rels) : r.fni \in DOMAIN p.function_order

\* Mutant: without the null symbol.
RelocationNoNull(p, i, r) ==
    [offset |-> Entry(p, i) + r.offset, sym |-> p.function_order[r.fni], addend |-> -r.isize]

Relocation(p, i, r) ==
    [offset |-> Entry(p, i) + r.offset, sym |-> p.function_order[r.fni] + 1, addend |-> -r.isize]

Relocations(p) ==
    FlattenSeq([i \in DOMAIN p.fnv |->
        [k \in DOMAIN p.fnv[i].fn.rels |-> Relocation(p, i, p.fnv[i].fn.rels[k])]])

WithText(e, p) == add_section(e, <<"text">>, "progbits", Text(p), 1, 0, 0)

WithSymbols(e, p) ==
    LET s == Symbols(p, e.strtab, Len(e.sections)) IN
    add_section([e EXCEPT !.strtab = s.strtab], <<"symtab">>, "symtab", s.entries, 24, 2, 1)

\* Mutant: the sections are those of the first program.
WithRelocationsFirst(e, p) ==
    add_section(e, <<"rela", "text">>, "rela", Relocations(p), 24, 4, 3)

WithRelocations(e, p) ==
    add_section(e, <<"rela", "text">>, "rela", Relocations(p), 24, Len(e.sections), Len(e.sections) - 1)

\* add_text, and how far it comes when it throws.
add_text(e, p) ==
    LET s == WithSymbols(WithText(e, p), p) IN IF Complete(p) THEN WithRelocations(s, p) ELSE s

\* encode, as the section headers describe it: the two tables of names are as
\* they are by now; the data of the sections follows the header, the section
\* headers follow the data.
HeaderSize == 64

encode(e) ==
    LET sections == [e.sections EXCEPT ![1].data = e.shstrtab, ![2].data = e.strtab]
        size(s) == Len(s.data) * s.entsize
        at[k \in 1..(Len(sections) + 1)] ==
            IF k = 1 THEN HeaderSize ELSE at[k - 1] + size(sections[k - 1])
    IN [headers |-> [k \in DOMAIN sections |->
                        [section |-> sections[k], at |-> at[k], size |-> size(sections[k])]],
        shoff |-> at[Len(sections) + 1]]

-----------------------------------------------------------------------------
(* What a client does with them. *)

ObjectInit ==
    /\ prog = NoProgram
    /\ elf = NoElf
    /\ texts = <<>>

Grow(p) ==
    /\ Len(p.fnv) <= MaxFunctions
    /\ Len(texts) < MaxTexts
    /\ prog' = p
    /\ UNCHANGED <<elf, texts>>

ImportFunction(i) == Grow(import_function(prog, i.fid, i.cname))

ExportFunction(c) == Grow(export_function(prog, c.fid, c.fn))

\* add_function is public, too, and makes no symbol.
AddFunction(c) == Grow(add_function(prog, c.fid, c.fn))

CompileProject(project) ==
    /\ prog = NoProgram
    /\ Grow(ProgramOf(project))

AddText ==
    /\ Len(texts) < MaxTexts
    /\ elf' = add_text(elf, prog)
    /\ texts' = Append(texts, [prog |-> prog, text |-> Len(elf.sections) + 1, thrown |-> ~Complete(prog)])
    /\ prog' = NoProgram

ClientNext ==
    \/ \E i \in Imported : ImportFunction(i)
    \/ \E c \in Compiled : ExportFunction(c) \/ AddFunction(c)
    \/ \E project \in Projects : CompileProject(project)
    \/ AddText

-----------------------------------------------------------------------------
(* Properties. *)

\* The j-th function of p is what a symbol of a text section stands for.
StandsFor(sym, p, j, text) ==
    LET f == p.fnv[j].fn IN
    /\ NameAt(elf.strtab, sym.name) = f.cname
    /\ IF f.size = 0 THEN sym.shndx = 0
       ELSE sym.shndx = text /\ elf.sections[text].data[sym.value + 1] = <<j, 0>>

\* Through ids, places, symbols and offsets, each relocation arrives: its place
\* in the text is the one in the function that asked for it, and its symbol
\* stands for a function of the id that was asked for.  Programs for which
\* add_function was called directly are excepted, and those for which add_text
\* threw, whose code is in the file without any relocation.
RelocationsResolve ==
    \A c \in ToSet(texts) : ~c.thrown /\ Len(c.prog.symtab) = Len(c.prog.fnv) =>
        \A i \in DOMAIN c.prog.fnv : \A r \in ToSet(c.prog.fnv[i].fn.rels) :
            \E entry \in ToSet(elf.sections[c.text + 2].data), j \in DOMAIN c.prog.fnv :
                /\ elf.sections[c.text].data[entry.offset + 1] = <<i, r.offset>>
                /\ entry.addend = -r.isize
                /\ c.prog.fnv[j].fid = r.fni
                /\ StandsFor(elf.sections[c.text + 1].data[entry.sym + 1], c.prog, j, c.text)

\* In what encode returns at any time, sections do not overlap, have the names
\* they were given, and refer to each other: symbols to their names,
\* relocations to the symbols and the text of the same program, whatever was
\* added before, and whether that was complete or not.
SectionsLinked ==
    LET object == encode(elf)
        h == object.headers
        Named(k) == NameAt(h[1].section.data, h[k].section.name)
    IN
    \A k \in DOMAIN h :
        /\ h[k].at >= HeaderSize
        /\ h[k].at + h[k].size <= object.shoff
        /\ \A l \in DOMAIN h : k < l => h[k].at + h[k].size <= h[l].at
        /\ h[k].section.type = "symtab" =>
            /\ Named(k) = <<"symtab">>
            /\ Named(h[k].section.link) = <<"strtab">>
            /\ \A s \in ToSet(h[k].section.data) :
                /\ s.name < Len(h[h[k].section.link].section.data)
                /\ s.shndx # 0 => Named(s.shndx) = <<"text">> /\ s.value < h[s.shndx].size
        /\ h[k].section.type = "rela" =>
            /\ Named(k) = <<"rela", "text">>
            /\ h[h[k].section.link].section.type = "symtab"
            /\ Named(h[k].section.info) = <<"text">>
            /\ \A s \in ToSet(h[h[k].section.link].section.data) : s.shndx \in {0, h[k].section.info}
            /\ \A r \in ToSet(h[k].section.data) : r.offset < h[h[k].section.info].size

=============================================================================
