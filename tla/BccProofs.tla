------------------------------ MODULE BccProofs ------------------------------
(***************************************************************************)
(* Proofs about Bcc and the library it uses, for every list of arguments,  *)
(* every project and any number of programs in a file.                     *)
(***************************************************************************)
EXTENDS Bcc, ObjectFileProofs

-----------------------------------------------------------------------------
(* The scan of the arguments. *)

\* So far there were only operands, no more than two, and what follows them is
\* still to be scanned.
Scanning ==
    /\ args \in Seq(STRING) /\ argv \in Seq(STRING) /\ given \in Seq(STRING)
    /\ pc \in {"scan", "library", "helped", "failed", "read", "write", "undefined"}
    /\ pc = "scan" =>
        /\ given = args \o argv
        /\ Len(args) <= 2
        /\ \A i \in 1..Len(args) : args[i] \notin Options

\* The inductive invariant.
IInv == ObjectInv /\ Scanning /\ DecidedByArguments

\* Where the scan of these arguments stops, if anywhere.
Operands(i) == {j \in 1..i : given[j] \notin Options}
Stops == {i \in DOMAIN given : given[i] \in Options \/ Cardinality(Operands(i)) > 2}

\* DecidedByArguments with its local definitions expanded.
LEMMA DecidedIs ==
    DecidedByArguments <=>
        /\ pc = "helped" => Stops # {} /\ given[Min(Stops)] = "-h"
        /\ pc \in {"read", "write", "undefined"} => Stops = {} /\ args = given /\ Len(given) = 2
        /\ pc = "failed" => Stops = {} \/ given[Min(Stops)] # "-h"
  BY DEF DecidedByArguments, Stops, Operands

\* The next argument is the one after the operands that were found.
LEMMA NextArgument ==
    ASSUME Scanning, pc = "scan", argv # <<>>
    PROVE  /\ Len(args) \in 0..2 /\ DOMAIN given = 1..Len(given) /\ Len(given) \in Nat
           /\ Len(args) + 1 \in DOMAIN given
           /\ given[Len(args) + 1] = Head(argv)
           /\ \A i \in 1..Len(args) : given[i] = args[i] /\ given[i] \notin Options
           /\ Tail(argv) \in Seq(STRING) /\ Head(argv) \in STRING
           /\ given = Append(args, Head(argv)) \o Tail(argv)
<1> DEFINE n == Len(args)
           h == Head(argv)
           t == Tail(argv)
<1>1. args \in Seq(STRING) /\ argv \in Seq(STRING) /\ given \in Seq(STRING) /\ given = args \o argv
      /\ n <= 2 /\ \A i \in 1..n : args[i] \notin Options
  BY DEF Scanning
<1>2. n \in Nat /\ Len(argv) \in Nat /\ Len(argv) > 0 /\ DOMAIN given = 1..Len(given) /\ Len(given) \in Nat
  BY <1>1, LenProperties, EmptySeq
<1>3. h \in STRING /\ t \in Seq(STRING) /\ argv = <<h>> \o t /\ h = argv[1]
  BY <1>1, HeadTailProperties
<1>4. Len(given) = n + Len(argv)
      /\ \A i \in 1..(n + Len(argv)) : given[i] = IF i <= n THEN args[i] ELSE argv[i - n]
  BY <1>1, ConcatProperties
<1> HIDE DEF n, h, t
<1>5. n + 1 \in 1..(n + Len(argv)) /\ ~(n + 1 <= n) /\ (n + 1) - n = 1
      /\ \A i \in 1..n : i \in 1..(n + Len(argv)) /\ i <= n
  BY <1>2
<1>6. n + 1 \in DOMAIN given /\ given[n + 1] = h /\ \A i \in 1..n : given[i] = args[i]
  BY <1>2, <1>3, <1>4, <1>5
<1>7. given = Append(args, h) \o t
  <2>1. <<h>> \in Seq(STRING)
    BY <1>3
  <2>2. Append(args, h) = args \o <<h>>
    BY <1>1, <1>3, AppendIsConcat
  <2>3. (args \o <<h>>) \o t = args \o (<<h>> \o t)
    BY <1>1, <1>3, <2>1, ConcatAssociative
  <2>4. QED
    BY <1>1, <1>3, <2>2, <2>3
<1>8. n \in 0..2 /\ \A i \in 1..n : given[i] = args[i] /\ given[i] \notin Options
  BY <1>1, <1>2, <1>6
<1>9. QED
  BY <1>2, <1>3, <1>6, <1>7, <1>8 DEF n, h, t

\* Operands alone do not stop the scan before the third.
LEMMA OperandsCount ==
    ASSUME NEW n \in Nat, \A i \in 1..n : given[i] \notin Options, NEW i \in 0..n
    PROVE  Cardinality(Operands(i)) = i /\ (i > 0 /\ i <= 2 => i \notin Stops)
<1>1. Operands(i) = 1..i
  <2>1. \A j \in 1..i : j \in 1..n
    OBVIOUS
  <2>2. QED
    BY <2>1 DEF Operands
<1>2. Cardinality(1..i) = i
  <2>1. 1 \in Int /\ i \in Int /\ i \in Nat
    OBVIOUS
  <2>2. Cardinality(1..i) = IF 1 > i THEN 0 ELSE i - 1 + 1
    BY <2>1, FS_Interval
  <2>3. QED
    BY <2>1, <2>2
<1>3. QED
  BY <1>1, <1>2 DEF Stops

\* The scan stops at the first option or at the third operand.
LEMMA FirstStop ==
    ASSUME Scanning, pc = "scan", argv # <<>>, Head(argv) \in Options \/ Len(args) = 2
    PROVE  Stops # {} /\ given[Min(Stops)] = Head(argv)
<1> DEFINE n == Len(args)
           k == n + 1
<1>1. /\ n \in 0..2 /\ DOMAIN given = 1..Len(given) /\ Len(given) \in Nat
      /\ k \in DOMAIN given /\ given[k] = Head(argv)
      /\ \A i \in 1..n : given[i] \notin Options
  BY NextArgument
<1>2. k \in Stops
  <2>1. CASE Head(argv) \in Options
    BY <1>1, <2>1 DEF Stops
  <2>2. CASE Head(argv) \notin Options
    <3>1. n = 2 /\ k = 3
      <4>1. n = 2
        BY <2>2
      <4> HIDE DEF n
      <4>2. QED
        BY <4>1
    <3> HIDE DEF n, k
    <3>2. 3 \in Nat /\ 3 \in 0..3 /\ \A i \in 1..3 : given[i] \notin Options
      <4>1. \A i \in 1..3 : i \in 1..2 \/ i = 3
        OBVIOUS
      <4>2. QED
        BY <1>1, <2>2, <3>1, <4>1
    <3>3. Cardinality(Operands(3)) = 3
      BY <3>2, OperandsCount
    <3>4. QED
      BY <1>1, <3>1, <3>3 DEF Stops
  <2>3. QED
    BY <2>1, <2>2
<1>3. \A i \in Stops : k <= i
  <2>1. ASSUME NEW i \in Stops, ~(k <= i)
        PROVE  FALSE
    <3>1. i \in 1..Len(given)
      BY <1>1 DEF Stops
    <3>2. i \in 0..n /\ i > 0 /\ i <= 2 /\ n \in Nat
      <4>1. n \in 0..2 /\ ~(n + 1 <= i)
        BY <1>1, <2>1
      <4> HIDE DEF n
      <4>2. QED
        BY <1>1, <3>1, <4>1
    <3>3. i \notin Stops
      BY <1>1, <3>2, OperandsCount
    <3>4. QED
      BY <3>3, <2>1
  <2>2. QED
    BY <2>1
<1>4. \A i \in Stops : i \in Nat
  BY <1>1 DEF Stops
<1>5. Min(Stops) = k
  <2> HIDE DEF k
  <2>1. \A x \in Stops : (\A y \in Stops : x <= y) => x = k
    BY <1>2, <1>3, <1>4
  <2>2. QED
    BY <1>2, <1>3, <2>1 DEF Min
<1>6. QED
  BY <1>1, <1>2, <1>5

\* Arguments that are all operands, and no more than two, do not stop it.
LEMMA NoStop ==
    ASSUME Scanning, pc = "scan", argv = <<>>
    PROVE  Stops = {} /\ args = given
<1> DEFINE n == Len(args)
<1>1. args \in Seq(STRING) /\ given = args \o <<>> /\ n <= 2 /\ \A i \in 1..n : args[i] \notin Options
  BY DEF Scanning
<1>2. given = args /\ n \in Nat /\ DOMAIN given = 1..n
  BY <1>1, LenProperties, ConcatEmptySeq
<1> HIDE DEF n
<1>3. ASSUME NEW i \in Stops
      PROVE  FALSE
  <2>1. i \in 1..n
    BY <1>2 DEF Stops
  <2>2. i \in 0..n /\ i > 0 /\ i <= 2
    BY <1>1, <1>2, <2>1
  <2>3. i \notin Stops
    BY <1>1, <1>2, <2>2, OperandsCount
  <2>4. QED
    BY <2>3, <1>3
<1>4. QED
  BY <1>2, <1>3

-----------------------------------------------------------------------------
(* The invariant is inductive: one lemma per action. *)

\* The initial states.
LEMMA InitInvariant == Init => IInv
<1> SUFFICES ASSUME Init PROVE IInv
  OBVIOUS
<1>1. ObjectInv
  BY ObjectInitInv DEF Init
<1>2. args = <<>> /\ given \in Seq(STRING) /\ argv = given /\ pc \in {"scan", "library"}
  BY ArgumentsAssumption DEF Init
<1>3. <<>> \o given = given
  BY <1>2, ConcatEmptySeq
<1>4. args \in Seq(STRING) /\ Len(args) = 0
  BY <1>2
<1>5. Scanning
  BY <1>2, <1>3, <1>4 DEF Scanning
<1>6. DecidedByArguments
  BY <1>2, DecidedIs
<1>7. QED
  BY <1>1, <1>5, <1>6 DEF IInv

\* What the program and the file are does not change.
LEMMA ObjectUnchanged ==
    ASSUME ObjectInv, UNCHANGED objectVars
    PROVE  ObjectInv'
  BY DEF ObjectInv, objectVars

\* The properties of the arguments after a step.
LEMMA DecidedNext ==
    ASSUME UNCHANGED given
    PROVE  DecidedByArguments' <=>
             /\ pc' = "helped" => Stops # {} /\ given[Min(Stops)] = "-h"
             /\ pc' \in {"read", "write", "undefined"} => Stops = {} /\ args' = given /\ Len(given) = 2
             /\ pc' = "failed" => Stops = {} \/ given[Min(Stops)] # "-h"
  BY DEF DecidedByArguments, Stops, Operands

\* One argument is scanned.
LEMMA ScanInvariant == IInv /\ Scan => IInv'
<1> SUFFICES ASSUME IInv, Scan PROVE IInv'
  OBVIOUS
<1>1. ObjectInv /\ Scanning
  BY DEF IInv
<1>2. /\ pc = "scan" /\ argv # <<>> /\ argv' = Tail(argv) /\ given' = given
      /\ UNCHANGED objectVars
  BY DEF Scan
<1>3. ObjectInv'
  BY <1>1, <1>2, ObjectUnchanged
<1>4. /\ args \in Seq(STRING) /\ given \in Seq(STRING) /\ Tail(argv) \in Seq(STRING) /\ Head(argv) \in STRING
      /\ \A i \in 1..Len(args) : args[i] \notin Options
      /\ given = Append(args, Head(argv)) \o Tail(argv)
      /\ Len(args) \in 0..2
  BY <1>1, <1>2, NextArgument DEF Scanning
<1>5. CASE Head(argv) = "-h" /\ pc' = "helped" /\ UNCHANGED args
  <2>1. Stops # {} /\ given[Min(Stops)] = "-h"
    BY <1>1, <1>2, <1>5, FirstStop DEF Options
  <2>2. DecidedByArguments'
    BY <1>2, <1>5, <2>1, DecidedNext
  <2>3. Scanning'
    BY <1>2, <1>4, <1>5 DEF Scanning
  <2>4. QED
    BY <1>3, <2>2, <2>3 DEF IInv
<1>6. CASE (Head(argv) \in Options \ {"-h"} \/ (Head(argv) \notin Options /\ Len(args) = 2))
           /\ pc' = "failed" /\ UNCHANGED args
  <2>1. Head(argv) # "-h"
    BY <1>6 DEF Options
  <2>2. Stops # {} /\ given[Min(Stops)] = Head(argv)
    BY <1>1, <1>2, <1>6, FirstStop
  <2>3. DecidedByArguments'
    BY <1>2, <1>6, <2>1, <2>2, DecidedNext
  <2>4. Scanning'
    BY <1>2, <1>4, <1>6 DEF Scanning
  <2>5. QED
    BY <1>3, <2>3, <2>4 DEF IInv
<1>7. CASE Head(argv) \notin Options /\ Len(args) # 2 /\ args' = Append(args, Head(argv)) /\ UNCHANGED pc
  <2> DEFINE h == Head(argv)
             n == Len(args)
             a == Append(args, h)
  <2>1. a \in Seq(STRING) /\ Len(a) = n + 1 /\ a[n + 1] = h /\ \A i \in 1..n : a[i] = args[i]
    BY <1>4, AppendProperties
  <2>2. n + 1 <= 2 /\ \A i \in 1..(n + 1) : i \in 1..n \/ i = n + 1
    BY <1>4, <1>7
  <2>3. Scanning'
    <3>1. args' = a /\ given' = args' \o argv' /\ pc' = pc /\ pc = "scan"
      BY <1>2, <1>4, <1>7
    <3>2. \A i \in 1..(n + 1) : a[i] \notin Options
      BY <1>4, <1>7, <2>1, <2>2
    <3> HIDE DEF a, n
    <3>3. QED
      BY <1>2, <1>4, <2>1, <2>2, <3>1, <3>2 DEF Scanning
  <2>4. DecidedByArguments'
    BY <1>2, <1>7, DecidedNext
  <2>5. QED
    BY <1>3, <2>3, <2>4 DEF IInv
<1>8. \/ /\ Head(argv) = "-h"
         /\ pc' = "helped"
         /\ UNCHANGED args
      \/ /\ Head(argv) \in Options \ {"-h"}
         /\ pc' = "failed"
         /\ UNCHANGED args
      \/ /\ Head(argv) \notin Options
         /\ IF Len(args) = 2
            THEN pc' = "failed" /\ UNCHANGED args
            ELSE args' = Append(args, Head(argv)) /\ UNCHANGED pc
  BY DEF Scan
<1>9. \/ Head(argv) = "-h" /\ pc' = "helped" /\ UNCHANGED args
      \/ (Head(argv) \in Options \ {"-h"} \/ (Head(argv) \notin Options /\ Len(args) = 2))
           /\ pc' = "failed" /\ UNCHANGED args
      \/ Head(argv) \notin Options /\ Len(args) # 2 /\ args' = Append(args, Head(argv)) /\ UNCHANGED pc
  BY <1>8, Zenon
<1>10. QED
  BY <1>5, <1>6, <1>7, <1>9

\* The arguments are at an end.
LEMMA ScannedInvariant == IInv /\ Scanned => IInv'
<1> SUFFICES ASSUME IInv, Scanned PROVE IInv'
  OBVIOUS
<1>1. ObjectInv /\ Scanning
  BY DEF IInv
<1>2. /\ pc = "scan" /\ argv = <<>> /\ pc' = IF Len(args) = 2 THEN "read" ELSE "failed"
      /\ argv' = argv /\ args' = args /\ given' = given /\ UNCHANGED objectVars
  BY DEF Scanned
<1>3. ObjectInv'
  BY <1>1, <1>2, ObjectUnchanged
<1>4. Stops = {} /\ args = given
  BY <1>1, <1>2, NoStop
<1>5. DecidedByArguments'
  BY <1>2, <1>4, DecidedNext
<1>6. Scanning'
  BY <1>1, <1>2 DEF Scanning
<1>7. QED
  BY <1>3, <1>5, <1>6 DEF IInv

\* The project is read and compiled, or not.
LEMMA ReadAndCompileInvariant == IInv /\ ReadAndCompile => IInv'
<1> SUFFICES ASSUME IInv, ReadAndCompile PROVE IInv'
  OBVIOUS
<1>1. ObjectInv /\ Scanning /\ DecidedByArguments
  BY DEF IInv
<1>2. pc = "read" /\ argv' = argv /\ args' = args /\ given' = given
      /\ pc' \in {"failed", "undefined", "write"}
  BY DEF ReadAndCompile
<1>3. Stops = {} /\ args = given /\ Len(given) = 2
  BY <1>1, <1>2, DecidedIs
<1>4. DecidedByArguments'
  BY <1>2, <1>3, DecidedNext
<1>5. Scanning'
  BY <1>1, <1>2 DEF Scanning
<1>6. CASE UNCHANGED <<prog, elf, texts>>
  <2>1. ObjectInv'
    BY <1>1, <1>6, ObjectUnchanged DEF objectVars
  <2>2. QED
    BY <1>4, <1>5, <2>1 DEF IInv
<1>7. ASSUME NEW project \in Projects, ~\E f \in ToSet(project) : f.kind = "body",
             prog' = ProgramOf(project), elf' = add_text(NoElf, prog'),
             texts' = <<[prog |-> prog', text |-> 3, thrown |-> FALSE]>>
      PROVE  IInv'
  <2>1. \A f \in ToSet(project) : f.kind # "body"
    BY <1>7
  <2>2. ObjectInv'
    BY <1>7, <2>1, OneTextInv
  <2>3. QED
    BY <1>4, <1>5, <2>2 DEF IInv
<1>8. QED
  BY <1>6, <1>7 DEF ReadAndCompile

\* Writing changes nothing that can still be seen.
LEMMA WriteInvariant == IInv /\ Write => IInv'
<1> SUFFICES ASSUME IInv, Write PROVE IInv'
  OBVIOUS
<1>1. ObjectInv /\ Scanning /\ DecidedByArguments
  BY DEF IInv
<1>2. pc = "write" /\ pc' = "undefined" /\ argv' = argv /\ args' = args /\ given' = given
      /\ UNCHANGED objectVars
  BY DEF Write
<1>3. ObjectInv'
  BY <1>1, <1>2, ObjectUnchanged
<1>4. Stops = {} /\ args = given /\ Len(given) = 2
  BY <1>1, <1>2, DecidedIs
<1>5. DecidedByArguments'
  BY <1>2, <1>4, DecidedNext
<1>6. Scanning'
  BY <1>1, <1>2 DEF Scanning
<1>7. QED
  BY <1>3, <1>5, <1>6 DEF IInv

\* A client of the library has nothing to do with the arguments.
LEMMA LibraryInvariant == IInv /\ Library => IInv'
<1> SUFFICES ASSUME IInv, Library PROVE IInv'
  OBVIOUS
<1>1. ObjectInv'
  BY ClientInv DEF IInv, Library
<1>2. UNCHANGED bccVars
  BY DEF Library
<1>3. Scanning' /\ DecidedByArguments'
  BY <1>2 DEF IInv, bccVars, Scanning, DecidedByArguments
<1>4. QED
  BY <1>1, <1>3 DEF IInv

\* A step in which nothing changes.
LEMMA StutterInvariant == IInv /\ UNCHANGED <<bccVars, objectVars>> => IInv'
<1> SUFFICES ASSUME IInv, UNCHANGED <<bccVars, objectVars>> PROVE IInv'
  OBVIOUS
<1>1. UNCHANGED bccVars /\ UNCHANGED objectVars
  OBVIOUS
<1>2. ObjectInv'
  BY <1>1, ObjectUnchanged DEF IInv
<1>3. Scanning' /\ DecidedByArguments'
  BY <1>1 DEF IInv, bccVars, Scanning, DecidedByArguments
<1>4. QED
  BY <1>2, <1>3 DEF IInv

\* The invariant of bcc and of the object file holds in every state.
THEOREM Invariance == Spec => []IInv
<1>1. Init => IInv
  BY InitInvariant
<1>2. IInv /\ [Next]_<<bccVars, objectVars>> => IInv'
  BY ScanInvariant, ScannedInvariant, ReadAndCompileInvariant, WriteInvariant, LibraryInvariant,
     StutterInvariant DEF Next, Main
<1>3. QED
  BY <1>1, <1>2, PTL DEF Spec

\* Through ids, places, symbols and offsets each relocation of a complete
\* program arrives at what it was made for (elf.cpp, add_text).
THEOREM RelocationsAlwaysResolve == Spec => []RelocationsResolve
<1>1. IInv => RelocationsResolve
  BY ObjectResolves DEF IInv
<1>2. QED
  BY <1>1, Invariance, PTL

\* The sections of the object file lie side by side, have their names, and refer
\* to each other (elf.cpp, encode).
THEOREM SectionsAlwaysLinked == Spec => []SectionsLinked
<1>1. IInv => SectionsLinked
  BY ObjectLinked DEF IInv
<1>2. QED
  BY <1>1, Invariance, PTL

\* How bcc ends is decided by its arguments alone (bcc.cpp, main).
THEOREM ArgumentsDecide == Spec => []DecidedByArguments
<1>1. IInv => DecidedByArguments
  BY DEF IInv
<1>2. QED
  BY <1>1, Invariance, PTL
=============================================================================
