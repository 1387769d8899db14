-------------------------------- MODULE MCBcc -------------------------------
(* Bcc with short arguments and small functions. *)
EXTENDS Bcc

MCArguments == UNION {[1..n -> {"in", "out", "-o", "-h"}] : n \in 0..3}

Call(offset, fni) == [offset |-> offset, fni |-> fni, isize |-> offset + 1]

Code(name, size, rels) == [cname |-> name, size |-> size, rels |-> rels]

f == Code(<<"f">>, 3, <<Call(1, 1), Call(2, 2)>>)
g == Code(<<"g", "h">>, 2, <<Call(0, 1)>>)

MCCompiled == {[fid |-> 1, fn |-> f], [fid |-> 2, fn |-> g], [fid |-> 1, fn |-> g]}

MCImported == {[fid |-> i, cname |-> <<"h">>] : i \in {1, 2}}

Body(fn) == [kind |-> "body", fn |-> fn]
Extern(name) == [kind |-> "extern", fn |-> Stub(name)]
Intrinsic == [kind |-> "intrinsic", fn |-> Stub(<<>>)]

\* A function and what it calls: another, an imported one, an intrinsic; and
\* projects without bodies.
MCProjects ==
    {<<Body(f), Body(g)>>, <<Body(f), Extern(<<"h">>)>>, <<Body(f), Intrinsic>>,
     <<Intrinsic, Body(Code(<<"k">>, 1, <<Call(0, 2)>>))>>,
     <<Extern(<<"h">>), Extern(<<>>)>>, <<>>}

=============================================================================
