--------------------------------- MODULE Bcc --------------------------------
(***************************************************************************)
(* The command line (bcc.cpp): the arguments are scanned, the project is   *)
(* read and compiled, and the object file is written.                      *)
(***************************************************************************)
EXTENDS ObjectFile

CONSTANT Arguments  \* bound: the argument lists bcc is started with

ASSUME ArgumentsAssumption == Arguments \subseteq Seq(STRING)

VARIABLES
    argv,   \* the arguments that are still to be scanned
    args,   \* the operands found, of which there may be two
    pc,     \* what bcc does next, or how it ended
    given   \* history: the arguments

bccVars == <<argv, args, pc, given>>

Options == {"-h", "-o"}

Init ==
    /\ ObjectInit
    /\ args = <<>>
    /\ given \in Arguments
    /\ argv = given
    /\ pc \in {"scan", "library"}
    /\ pc = "library" => given = <<>>

\* The next argument: any option but -h is unknown.
Scan ==
    /\ pc = "scan"
    /\ argv # <<>>
    /\ argv' = Tail(argv)
    /\ \/ /\ Head(argv) = "-h"
          /\ pc' = "helped"
          /\ UNCHANGED args
       \/ /\ Head(argv) \in Options \ {"-h"}
          /\ pc' = "failed"
          /\ UNCHANGED args
       \/ /\ Head(argv) \notin Options
          /\ IF Len(args) = 2
             THEN pc' = "failed" /\ UNCHANGED args
             ELSE args' = Append(args, Head(argv)) /\ UNCHANGED pc
    /\ UNCHANGED <<given, objectVars>>

\* Mutant: the number of operands is not looked at.
ScannedAny ==
    /\ pc = "scan"
    /\ argv = <<>>
    /\ pc' = "read"
    /\ UNCHANGED <<argv, args, given, objectVars>>

Scanned ==
    /\ pc = "scan"
    /\ argv = <<>>
    /\ pc' = IF Len(args) = 2 THEN "read" ELSE "failed"
    /\ UNCHANGED <<argv, args, given, objectVars>>

\* The file cannot be read, or it is, and the project in it is compiled.  No
\* node of a loaded body has a type, and there is no inference here: lowering
\* it is undefined.
ReadAndCompile ==
    /\ pc = "read"
    /\ \/ pc' = "failed" /\ UNCHANGED <<prog, elf, texts>>
       \/ \E project \in Projects :
            IF \E f \in ToSet(project) : f.kind = "body"
            THEN pc' = "undefined" /\ UNCHANGED <<prog, elf, texts>>
            ELSE /\ pc' = "write"
                 /\ prog' = ProgramOf(project)
                 /\ elf' = add_text(NoElf, prog')
                 /\ texts' = <<[prog |-> prog', text |-> 3, thrown |-> FALSE]>>
    /\ UNCHANGED <<argv, args, given>>

\* The name of the output file is the third element of an array of two, read
\* before there is anything to write.
Write ==
    /\ pc = "write"
    /\ pc' = "undefined"
    /\ UNCHANGED <<argv, args, given, objectVars>>

Main == Scan \/ Scanned \/ ReadAndCompile \/ Write

Library ==
    /\ pc = "library"
    /\ ClientNext
    /\ UNCHANGED bccVars

Next == Main \/ Library

Spec == Init /\ [][Next]_<<bccVars, objectVars>>

-----------------------------------------------------------------------------
(* Properties. *)

\* How bcc ends is decided by its arguments alone: by the first option or the
\* third operand, whichever comes first; and it goes on exactly when there are
\* two operands and nothing else.
DecidedByArguments ==
    LET operands(i) == {j \in 1..i : given[j] \notin Options}
        stops == {i \in DOMAIN given : given[i] \in Options \/ Cardinality(operands(i)) > 2}
    IN
    /\ pc = "helped" => stops # {} /\ given[Min(stops)] = "-h"
    /\ pc \in {"read", "write", "undefined"} => stops = {} /\ args = given /\ Len(given) = 2
    /\ pc = "failed" => stops = {} \/ given[Min(stops)] # "-h"

\* usage() of bcc.cpp says how bcc is called: "bcc <infile> -o <outfile>".  Called
\* like this, it does not end with an error about its arguments.
UsageAccepted == given = <<"in", "-o", "out">> => pc # "failed"

=============================================================================
