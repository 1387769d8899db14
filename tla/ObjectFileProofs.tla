-------------------------- MODULE ObjectFileProofs --------------------------
(***************************************************************************)
(* Proofs about ObjectFile, for programs of every size and any number of   *)
(* them in a file.                                                         *)
(*                                                                         *)
(* What is laid out one after the other, code, names and the data of the   *)
(* sections, is a chain of sequences, each of which continues the one      *)
(* before: what is at a place in one is there in all that follow.          *)
(***************************************************************************)
EXTENDS ObjectFile, FiniteSetTheorems, SequenceTheorems, ArithmeticLemmas, TLAPS

-----------------------------------------------------------------------------
(* Functions that are defined by what comes before. *)

Steps(S, b, n, step, f) ==
    f \in [0..n -> S] /\ f[0] = b /\ \A k \in 1..n : f[k] = step[<<k, f[k - 1]>>]

\* A step that is taken n times leads from the first value through n more.
LEMMA StepsExist ==
    ASSUME NEW S, NEW b \in S, NEW n \in Nat, NEW step \in [(1..n) \X S -> S]
    PROVE  \E f : Steps(S, b, n, step, f)
<1> DEFINE L(m) == \E f \in [0..m -> S] : f[0] = b /\ \A k \in 1..m : f[k] = step[<<k, f[k - 1]>>]
           T == {m \in 0..n : ~L(m)}
<1>1. SUFFICES ASSUME T # {} PROVE FALSE
  <2>1. n \in 0..n
    OBVIOUS
  <2> HIDE DEF L
  <2>2. n \notin T => L(n)
    BY <2>1
  <2>3. QED
    BY <2>2 DEF L, Steps
<1>2. PICK m \in T : \A i \in T : m <= i
  <2>1. T \in SUBSET Nat
    OBVIOUS
  <2> HIDE DEF T
  <2>2. QED
    BY <1>1, <2>1, LeastNatural
<1>3. m \in 0..n /\ m \in Nat
  OBVIOUS
<1>4. m # 0
  <2>1. SUFFICES ASSUME m = 0 PROVE L(0)
    BY <1>2
  <2> DEFINE g == [k \in 0..0 |-> b]
  <2>2. g \in [0..0 -> S] /\ g[0] = b /\ \A k \in 1..0 : g[k] = step[<<k, g[k - 1]>>]
    OBVIOUS
  <2> HIDE DEF g
  <2>3. QED
    BY <2>2
<1>5. m - 1 \in 0..n /\ m - 1 \in Nat
  BY <1>3, <1>4
<1>6. L(m - 1)
  <2> HIDE DEF L
  <2>1. m - 1 \notin T
    <3> HIDE DEF T
    <3>1. QED
      BY <1>2, <1>5, <1>3
  <2>2. QED
    BY <1>5, <2>1
<1>7. PICK f \in [0..(m - 1) -> S] : f[0] = b /\ \A k \in 1..(m - 1) : f[k] = step[<<k, f[k - 1]>>]
  BY <1>6
<1> DEFINE g == [k \in 0..m |-> IF k = m THEN step[<<m, f[m - 1]>>] ELSE f[k]]
<1>8. \A k \in 0..(m - 1) : g[k] = f[k] /\ f[k] \in S
  BY <1>3
<1>9. g[m] = step[<<m, f[m - 1]>>] /\ g[m] \in S
  <2>1. m \in 1..n /\ m - 1 \in 0..(m - 1)
    BY <1>3, <1>4, <1>5
  <2>2. <<m, f[m - 1]>> \in (1..n) \X S
    BY <1>8, <2>1
  <2>3. step[<<m, f[m - 1]>>] \in S
    BY <2>2
  <2>4. QED
    BY <1>3, <2>3
<1>10. \A k \in 0..m : k = m \/ k \in 0..(m - 1)
  BY <1>3
<1>11. g \in [0..m -> S]
  <2>1. \A k \in 0..m : g[k] \in S
    BY <1>8, <1>9, <1>10
  <2>2. QED
    BY <2>1
<1> HIDE DEF g
<1>12. g[0] = b
  BY <1>5, <1>7, <1>8
<1>13. ASSUME NEW k \in 1..m
       PROVE  g[k] = step[<<k, g[k - 1]>>]
  <2>1. k - 1 \in 0..(m - 1)
    BY <1>3
  <2>2. CASE k = m
    BY <1>8, <1>9, <2>1, <2>2
  <2>3. CASE k # m
    <3>1. k \in 1..(m - 1) /\ k \in 0..(m - 1)
      BY <1>3, <2>3
    <3>2. QED
      BY <1>7, <1>8, <2>1, <3>1
  <2>4. QED
    BY <2>2, <2>3
<1>14. L(m)
  BY <1>11, <1>12, <1>13
<1>15. QED
  BY <1>2, <1>14

Agree(S, n, u, f) == \A k \in 0..n : u[k] = f[k] /\ u[k] \in S

\* Whatever takes these steps agrees.
LEMMA StepsAgree ==
    ASSUME NEW S, NEW b \in S, NEW n \in Nat, NEW step \in [(1..n) \X S -> S],
           NEW f, Steps(S, b, n, step, f),
           NEW u, u[0] = b, \A k \in 1..n, v \in S : u[k - 1] = v => u[k] = step[<<k, v>>]
    PROVE  Agree(S, n, u, f)
<1> DEFINE T == {k \in 0..n : ~(u[k] = f[k])}
<1>1. \A k \in 0..n : f[k] \in S
  BY DEF Steps
<1>2. f[0] = b /\ \A k \in 1..n : f[k] = step[<<k, f[k - 1]>>]
  BY DEF Steps
<1>3. T = {}
  <2>1. SUFFICES ASSUME T # {} PROVE FALSE
    OBVIOUS
  <2>2. PICK m \in T : \A i \in T : m <= i
    <3>1. T \in SUBSET Nat
      OBVIOUS
    <3> HIDE DEF T
    <3>2. QED
      BY <2>1, <3>1, LeastNatural
  <2>3. m \in 0..n /\ u[m] # f[m]
    OBVIOUS
  <2>4. m # 0
    BY <1>2, <2>3
  <2>5. m \in 1..n /\ m - 1 \in 0..n /\ m \in Nat
    BY <2>3, <2>4
  <2>6. m - 1 \notin T
    <3> HIDE DEF T
    <3>1. QED
      BY <2>2, <2>5
  <2>7. u[m - 1] = f[m - 1]
    BY <2>5, <2>6
  <2>8. QED
    BY <1>1, <1>2, <2>3, <2>5, <2>7
<1>4. QED
  BY <1>1, <1>3 DEF Agree

\* t begins with s.
Continues(t, s) == Len(s) <= Len(t) /\ \A i \in 1..Len(s) : t[i] = s[i]

\* Every sequence of the chain continues those before it by the next part.
Chain(S, b, parts, f) ==
    /\ f \in [0..Len(parts) -> Seq(S)]
    /\ f[0] = b
    /\ \A k \in 1..Len(parts) : f[k] = f[k - 1] \o parts[k]
    /\ \A m \in 0..Len(parts) : \A k \in 0..m : Continues(f[m], f[k])
    /\ \A k \in 1..Len(parts) : Len(f[k]) = Len(f[k - 1]) + Len(parts[k])
    /\ \A m \in 1..Len(parts) : \A k \in 1..m : \A i \in 1..Len(parts[k]) :
          f[m][Len(f[k - 1]) + i] = parts[k][i]

\* A sequence that is continued twice.
LEMMA ContinuesFacts ==
    ASSUME NEW S, NEW s \in Seq(S), NEW t \in Seq(S)
    PROVE  /\ Continues(s, s)
           /\ Continues(s \o t, s)
           /\ \A r \in Seq(S) : Continues(s, r) => Continues(s \o t, r)
<1>1. Len(s) \in Nat /\ Len(t) \in Nat
  BY LenProperties
<1>2. Len(s \o t) = Len(s) + Len(t) /\ \A i \in 1..Len(s) : (s \o t)[i] = s[i]
  OBVIOUS
<1>3. Continues(s, s) /\ Continues(s \o t, s)
  BY <1>1, <1>2 DEF Continues
<1>4. ASSUME NEW r \in Seq(S), Continues(s, r)
      PROVE  Continues(s \o t, r)
  <2>1. Len(r) \in Nat /\ Len(r) <= Len(s)
    BY <1>4, LenProperties DEF Continues
  <2>2. \A i \in 1..Len(r) : i \in 1..Len(s) /\ s[i] = r[i]
    BY <1>1, <1>4, <2>1 DEF Continues
  <2>3. QED
    BY <1>1, <1>2, <2>1, <2>2 DEF Continues
<1>5. QED
  BY <1>3, <1>4

\* A chain exists.
LEMMA ChainExists ==
    ASSUME NEW S, NEW b \in Seq(S), NEW parts \in Seq(Seq(S))
    PROVE  \E f : Chain(S, b, parts, f)
<1> DEFINE n == Len(parts)
           Q == Seq(S)
           step == [x \in (1..n) \X Q |-> x[2] \o parts[x[1]]]
<1>1. n \in Nat /\ \A k \in 1..n : parts[k] \in Q
  BY LenProperties, ElementOfSeq
<1>2. step \in [(1..n) \X Q -> Q]
  BY <1>1
<1>3. \A k \in 1..n, v \in Q : step[<<k, v>>] = v \o parts[k]
  OBVIOUS
<1> HIDE DEF step, n
<1>4. PICK f \in [0..n -> Q] : f[0] = b /\ \A k \in 1..n : f[k] = step[<<k, f[k - 1]>>]
  <2>1. b \in Q /\ n \in Nat
    BY <1>1
  <2> HIDE DEF Q
  <2>2. PICK f : Steps(Q, b, n, step, f)
    BY <1>2, <2>1, StepsExist
  <2>3. QED
    BY <2>2 DEF Steps
<1>5. \A k \in 1..n : k - 1 \in 0..n /\ f[k - 1] \in Q /\ f[k] = f[k - 1] \o parts[k]
  <2> HIDE DEF Q
  <2>1. ASSUME NEW k \in 1..n
        PROVE  k - 1 \in 0..n /\ k \in 1..n
    BY <1>1
  <2>2. \A k \in 1..n : k - 1 \in 0..n /\ f[k - 1] \in Q
    BY <2>1, <1>4
  <2>3. ASSUME NEW k \in 1..n
        PROVE  f[k] = f[k - 1] \o parts[k]
    <3>1. f[k] = step[<<k, f[k - 1]>>]
      BY <1>4
    <3>2. step[<<k, f[k - 1]>>] = f[k - 1] \o parts[k]
      BY <1>3, <2>2
    <3>3. QED
      BY <3>1, <3>2
  <2>4. QED
    BY <2>2, <2>3
<1>6. \A k \in 1..n : Len(f[k]) = Len(f[k - 1]) + Len(parts[k])
  BY <1>1, <1>5, ConcatProperties
<1> DEFINE T == {m \in 0..n : \E k \in 0..m : ~Continues(f[m], f[k])}
<1>7. T = {}
  <2>1. SUFFICES ASSUME T # {} PROVE FALSE
    OBVIOUS
  <2>2. PICK m \in T : \A i \in T : m <= i
    <3>1. T \in SUBSET Nat
      OBVIOUS
    <3> HIDE DEF T
    <3>2. QED
      BY <2>1, <3>1, LeastNatural
  <2>3. PICK k \in 0..m : ~Continues(f[m], f[k])
    OBVIOUS
  <2>4. m \in 0..n /\ m \in Nat /\ k \in 0..n
    BY <1>1
  <2>5. k # m
    <3>1. f[m] \in Seq(S)
      BY <1>4, <2>4
    <3>2. QED
      BY <2>3, <3>1, ContinuesFacts
  <2>6. m \in 1..n /\ k \in 0..(m - 1) /\ m - 1 \in 0..n
    BY <1>1, <2>4, <2>5
  <2>7. m - 1 \notin T
    <3> HIDE DEF T
    <3>1. QED
      BY <2>2, <2>4, <2>6
  <2>8. Continues(f[m - 1], f[k])
    BY <2>6, <2>7
  <2>9. f[m - 1] \in Seq(S) /\ f[k] \in Seq(S) /\ parts[m] \in Seq(S) /\ f[m] = f[m - 1] \o parts[m]
    BY <1>1, <1>4, <1>5, <2>4, <2>6
  <2>10. Continues(f[m - 1] \o parts[m], f[k])
    BY <2>8, <2>9, ContinuesFacts
  <2>11. QED
    BY <2>3, <2>9, <2>10
<1>8. \A m \in 0..n : \A k \in 0..m : Continues(f[m], f[k])
  BY <1>7
<1> HIDE DEF T
<1>9. ASSUME NEW m \in 1..n, NEW k \in 1..m, NEW i \in 1..Len(parts[k])
      PROVE  f[m][Len(f[k - 1]) + i] = parts[k][i]
  <2>1. k \in 1..n /\ m \in 0..n /\ k \in 0..m
    BY <1>1
  <2>2. Continues(f[m], f[k])
    BY <1>8, <2>1
  <2> DEFINE s == f[k - 1]
             t == parts[k]
             j == Len(s) + i
  <2>3. s \in Seq(S) /\ t \in Seq(S) /\ f[k] = s \o t
    BY <1>1, <1>5, <2>1
  <2>4. Len(s) \in Nat /\ Len(t) \in Nat /\ i \in 1..Len(t)
    BY <2>3, LenProperties
  <2> HIDE DEF s, t
  <2>5. j \in 1..(Len(s) + Len(t)) /\ ~(j <= Len(s)) /\ j - Len(s) = i
    BY <2>4
  <2>6. Len(s \o t) = Len(s) + Len(t) /\ (s \o t)[j] = t[i]
    <3> HIDE DEF j
    <3>1. QED
      BY <2>3, <2>5, ConcatProperties
  <2> HIDE DEF j
  <2>7. f[m][j] = f[k][j]
    BY <2>2, <2>3, <2>5, <2>6 DEF Continues
  <2>8. QED
    BY <2>3, <2>6, <2>7 DEF s, t, j
<1>10. Chain(S, b, parts, f)
  <2>1. f \in [0..n -> Seq(S)] /\ f[0] = b
    BY <1>4
  <2>2. \A k \in 1..n : f[k] = f[k - 1] \o parts[k]
    BY <1>5
  <2>3. QED
    BY <1>6, <1>8, <1>9, <2>1, <2>2 DEF Chain, n
<1>11. QED
  BY <1>10

\* What is in a part is in the end of the chain.
LEMMA PartInChain ==
    ASSUME NEW S, NEW b, NEW parts \in Seq(Seq(S)), NEW f, Chain(S, b, parts, f),
           NEW i \in 1..Len(parts), NEW k \in 1..Len(parts[i])
    PROVE  \E m \in DOMAIN f[Len(parts)] : f[Len(parts)][m] = parts[i][k]
<1> DEFINE n == Len(parts)
           l == Len(f[i - 1])
           t == f[n]
<1>1. n \in Nat /\ parts[i] \in Seq(S)
  BY LenProperties, ElementOfSeq
<1>2. n \in 1..n /\ n \in 0..n /\ i \in 0..n /\ i - 1 \in 0..n
  BY <1>1
<1>3. t \in Seq(S) /\ f[i - 1] \in Seq(S)
  BY <1>2 DEF Chain
<1>4. l \in Nat /\ Len(parts[i]) \in Nat /\ DOMAIN t = 1..Len(t) /\ Len(t) \in Nat
  BY <1>1, <1>3, LenProperties
<1>5. t[l + k] = parts[i][k]
  BY <1>2 DEF Chain
<1>6. Continues(t, f[i]) /\ Len(f[i]) = l + Len(parts[i])
  BY <1>2 DEF Chain
<1>7. l + Len(parts[i]) <= Len(t)
  BY <1>6 DEF Continues
<1> HIDE DEF l, t
<1>8. l + k \in DOMAIN t
  BY <1>4, <1>7
<1>9. QED
  BY <1>5, <1>8 DEF t

\* FlattenSeq is the end of the chain of its parts.
LEMMA Flattened ==
    ASSUME NEW S, NEW parts \in Seq(Seq(S))
    PROVE  \E f : Chain(S, <<>>, parts, f) /\ FlattenSeq(parts) = f[Len(parts)]
<1> DEFINE n == Len(parts)
<1>1. n \in Nat /\ DOMAIN parts = 1..n /\ \A k \in 1..n : parts[k] \in Seq(S)
  BY LenProperties, ElementOfSeq
<1>2. PICK f : Chain(S, <<>>, parts, f)
  <2>1. <<>> \in Seq(S)
    OBVIOUS
  <2>2. QED
    BY <2>1, ChainExists
<1>3. CASE n = 0
  <2>1. parts = <<>>
    BY <1>3
  <2>2. FlattenSeq(parts) = parts
    BY <1>3 DEF FlattenSeq
  <2>3. f[n] = <<>>
    BY <1>2, <1>3 DEF Chain
  <2>4. QED
    BY <1>2, <2>1, <2>2, <2>3
<1>4. CASE n # 0
  <2> DEFINE E(h, i) == IF i = 1 THEN parts[i] ELSE h[i - 1] \o parts[i]
             flatten == CHOOSE h : h = [i \in 1..n |-> E(h, i)]
             g == [i \in 1..n |-> f[i]]
  <2>1. FlattenSeq(parts) = flatten[n]
    BY <1>4 DEF FlattenSeq
  <2>2. f[1] = parts[1]
    <3>1. 1 \in 1..n
      BY <1>1, <1>4
    <3>2. f[1] = f[0] \o parts[1] /\ f[0] = <<>>
      <4>1. 1 - 1 = 0
        OBVIOUS
      <4>2. QED
        BY <1>2, <3>1, <4>1 DEF Chain
    <3>3. <<>> \o parts[1] = parts[1]
      BY <1>1, <3>1, ConcatEmptySeq
    <3>4. QED
      BY <3>2, <3>3
  <2>3. \A i \in 1..n : i # 1 => i - 1 \in 1..n /\ f[i] = f[i - 1] \o parts[i]
    BY <1>1, <1>2 DEF Chain
  <2>4. \A i \in 1..n : g[i] = E(g, i)
    BY <2>2, <2>3
  <2>5. g = [i \in 1..n |-> E(g, i)]
    <3> DEFINE h == [i \in 1..n |-> E(g, i)]
    <3>1. \A i \in 1..n : h[i] = E(g, i)
      OBVIOUS
    <3>2. g = [i \in 1..n |-> g[i]] /\ h = [i \in 1..n |-> h[i]]
      OBVIOUS
    <3> HIDE DEF g, h, E
    <3>3. g = h
      BY <2>4, <3>1, <3>2
    <3>4. QED
      BY <3>3 DEF h
  <2> HIDE DEF g
  <2>6. flatten = [i \in 1..n |-> E(flatten, i)]
    <3> HIDE DEF E
    <3>1. QED
      BY <2>5
  <2> HIDE DEF flatten
  <2>7. \A i \in 1..n : flatten[i] = E(flatten, i)
    <3> HIDE DEF E
    <3>1. QED
      BY <2>6
  <2> DEFINE T == {i \in 1..n : flatten[i] # f[i]}
  <2>8. T = {}
    <3>1. SUFFICES ASSUME T # {} PROVE FALSE
      OBVIOUS
    <3>2. PICK m \in T : \A i \in T : m <= i
      <4>1. T \in SUBSET Nat
        OBVIOUS
      <4> HIDE DEF T
      <4>2. QED
        BY <3>1, <4>1, LeastNatural
    <3>3. m \in 1..n /\ flatten[m] # f[m]
      OBVIOUS
    <3>4. m # 1
      BY <2>2, <2>7, <3>3
    <3>5. m - 1 \in 1..n /\ m \in Nat
      BY <1>1, <3>3, <3>4
    <3>6. m - 1 \notin T
      <4> HIDE DEF T
      <4>1. QED
        BY <3>2, <3>5
    <3>7. flatten[m - 1] = f[m - 1]
      BY <3>5, <3>6
    <3>8. QED
      BY <2>3, <2>7, <3>3, <3>4, <3>7
  <2>9. n \in 1..n
    BY <1>1, <1>4
  <2>10. QED
    BY <1>2, <2>1, <2>8, <2>9
<1>5. QED
  BY <1>3, <1>4

-----------------------------------------------------------------------------
(* Programs. *)

\* The functions of a program; ids that lead to places; a symbol for every
\* function in its place, as long as every function is added with a symbol.
Program == [fnv : Seq([fid : Nat, fn : Codes \cup Stubs]),
            function_order : UNION {[D -> Nat] : D \in SUBSET Nat},
            symtab : Seq([name : Names, index : Nat, import : BOOLEAN])]

SymbolFits(p, s, k) ==
    /\ s.name = p.fnv[k].fn.cname
    /\ IF s.import THEN p.fnv[k].fn.size = 0 ELSE s.index = k - 1

ProgramInv(p) ==
    /\ p \in Program
    /\ \A fid \in DOMAIN p.function_order :
        /\ p.function_order[fid] < Len(p.fnv)
        /\ p.fnv[p.function_order[fid] + 1].fid = fid
    /\ \A k \in DOMAIN p.symtab : ~p.symtab[k].import =>
        p.symtab[k].index < Len(p.fnv) /\ p.fnv[p.symtab[k].index + 1].fn.size > 0
    /\ Len(p.symtab) <= Len(p.fnv)
    /\ Len(p.symtab) = Len(p.fnv) =>
        \A k \in DOMAIN p.symtab : SymbolFits(p, p.symtab[k], k)

\* The types of a program's parts.
LEMMA ProgramFacts ==
    ASSUME NEW p, ProgramInv(p)
    PROVE  /\ p.fnv \in Seq([fid : Nat, fn : Codes \cup Stubs])
           /\ Len(p.fnv) \in Nat /\ DOMAIN p.fnv = 1..Len(p.fnv)
           /\ \A i \in DOMAIN p.fnv : p.fnv[i].fid \in Nat /\ p.fnv[i].fn \in Codes \cup Stubs
           /\ \A fid \in DOMAIN p.function_order : p.function_order[fid] \in Nat /\ fid \in Nat
           /\ p.symtab \in Seq([name : Names, index : Nat, import : BOOLEAN])
           /\ Len(p.symtab) \in Nat /\ DOMAIN p.symtab = 1..Len(p.symtab)
           /\ \A k \in DOMAIN p.symtab :
                p.symtab[k].name \in Names /\ p.symtab[k].index \in Nat /\ p.symtab[k].import \in BOOLEAN
<1> DEFINE F == [fid : Nat, fn : Codes \cup Stubs]
           Y == [name : Names, index : Nat, import : BOOLEAN]
<1>1. /\ p.fnv \in Seq(F) /\ p.symtab \in Seq(Y)
      /\ p.function_order \in UNION {[D -> Nat] : D \in SUBSET Nat}
  BY DEF ProgramInv, Program
<1>2. \A x \in F : x.fid \in Nat /\ x.fn \in Codes \cup Stubs
  OBVIOUS
<1>3. \A x \in Y : x.name \in Names /\ x.index \in Nat /\ x.import \in BOOLEAN
  OBVIOUS
<1>4. \A fid \in DOMAIN p.function_order : p.function_order[fid] \in Nat /\ fid \in Nat
  BY <1>1
<1> HIDE DEF F, Y
<1>5. Len(p.fnv) \in Nat /\ DOMAIN p.fnv = 1..Len(p.fnv) /\ \A i \in DOMAIN p.fnv : p.fnv[i] \in F
  BY <1>1, LenProperties, ElementOfSeq
<1>6. Len(p.symtab) \in Nat /\ DOMAIN p.symtab = 1..Len(p.symtab) /\ \A i \in DOMAIN p.symtab : p.symtab[i] \in Y
  BY <1>1, LenProperties, ElementOfSeq
<1>7. QED
  BY <1>1, <1>2, <1>3, <1>4, <1>5, <1>6 DEF F, Y

\* Code and stubs.
LEMMA CodesFacts ==
    ASSUME NEW fn \in Codes \cup Stubs
    PROVE  /\ fn.cname \in Names /\ fn.size \in Nat
           /\ fn.rels \in Seq([offset : Nat, fni : Nat, isize : Nat])
           /\ DOMAIN fn.rels = 1..Len(fn.rels) /\ Len(fn.rels) \in Nat
           /\ \A i \in DOMAIN fn.rels :
                /\ fn.rels[i].offset \in 0..(fn.size - 1) /\ fn.rels[i].fni \in Nat /\ fn.rels[i].isize \in Nat
                /\ fn.size > 0
<1> DEFINE R == [offset : Nat, fni : Nat, isize : Nat]
<1>1. CASE fn \in Codes
  <2>1. /\ fn.cname \in Names /\ fn.size \in Nat \ {0} /\ fn.rels \in Seq(R)
        /\ \A i \in DOMAIN fn.rels : fn.rels[i].offset < fn.size
    BY <1>1 DEF Codes
  <2>2. \A x \in R : x.offset \in Nat /\ x.fni \in Nat /\ x.isize \in Nat
    OBVIOUS
  <2> HIDE DEF R
  <2>3. DOMAIN fn.rels = 1..Len(fn.rels) /\ Len(fn.rels) \in Nat /\ \A i \in DOMAIN fn.rels : fn.rels[i] \in R
    BY <2>1, LenProperties, ElementOfSeq
  <2>4. \A i \in DOMAIN fn.rels :
          /\ fn.rels[i].offset \in 0..(fn.size - 1) /\ fn.rels[i].fni \in Nat /\ fn.rels[i].isize \in Nat
    BY <2>1, <2>2, <2>3
  <2>5. QED
    BY <2>1, <2>3, <2>4 DEF R
<1>2. CASE fn \in Stubs
  <2>1. fn.cname \in Names /\ fn.size = 0 /\ fn.rels = <<>>
    BY <1>2 DEF Stubs
  <2>2. QED
    BY <2>1
<1>3. QED
  BY <1>1, <1>2

\* The function_order of a program to which a function is added.
Ordered(p, fid) ==
    [i \in DOMAIN p.function_order \cup {fid} |->
        IF i \in DOMAIN p.function_order THEN p.function_order[i] ELSE Len(p.fnv)]

\* A function with a symbol that fits it, or a function alone, is added.
LEMMA AddedInv ==
    ASSUME NEW p, ProgramInv(p), NEW fid \in Nat, NEW fn \in Codes \cup Stubs, NEW q,
           q = [fnv |-> Append(p.fnv, [fid |-> fid, fn |-> fn]), function_order |-> Ordered(p, fid),
                symtab |-> q.symtab],
           \/ q.symtab = p.symtab
           \/ \E s \in [name : Names, index : Nat, import : BOOLEAN] :
                /\ q.symtab = Append(p.symtab, s)
                /\ s.name = fn.cname
                /\ IF s.import THEN fn.size = 0 ELSE s.index = Len(p.fnv) /\ fn.size > 0
    PROVE  ProgramInv(q)
<1> DEFINE F == [fid : Nat, fn : Codes \cup Stubs]
           Y == [name : Names, index : Nat, import : BOOLEAN]
           x == [fid |-> fid, fn |-> fn]
           n == Len(p.fnv)
           l == Len(p.symtab)
           s0 == p.symtab
           v0 == p.fnv
           o0 == p.function_order
<1>1. /\ v0 \in Seq(F) /\ n \in Nat /\ DOMAIN v0 = 1..n
      /\ s0 \in Seq(Y) /\ l \in Nat /\ DOMAIN s0 = 1..l
      /\ \A k \in 1..l : s0[k].index \in Nat /\ s0[k].import \in BOOLEAN
      /\ \A i \in 1..n : v0[i].fid \in Nat /\ v0[i].fn \in Codes \cup Stubs
      /\ \A i \in DOMAIN o0 : o0[i] \in Nat
  BY ProgramFacts
<1>2. x \in F /\ x.fid = fid /\ x.fn = fn
  OBVIOUS
<1>3. q.fnv = Append(v0, x) /\ q.function_order = Ordered(p, fid)
      /\ (q.symtab = s0 \/ \E s \in Y : /\ q.symtab = Append(s0, s)
                                         /\ s.name = fn.cname
                                         /\ IF s.import THEN fn.size = 0 ELSE s.index = n /\ fn.size > 0)
      /\ q = [fnv |-> q.fnv, function_order |-> q.function_order, symtab |-> q.symtab]
  OBVIOUS
<1>4. /\ \A i \in DOMAIN o0 : o0[i] < n /\ v0[o0[i] + 1].fid = i
      /\ \A k \in 1..l : ~s0[k].import => s0[k].index < n /\ v0[s0[k].index + 1].fn.size > 0
      /\ l <= n
      /\ l = n => \A k \in 1..l : SymbolFits(p, s0[k], k)
  BY <1>1 DEF ProgramInv
<1>5. o0 \in UNION {[D -> Nat] : D \in SUBSET Nat}
  BY DEF ProgramInv, Program
<1>6. fn.size \in Nat
  BY CodesFacts
<1> HIDE DEF F, Y, x
<1> DEFINE v1 == q.fnv
           s1 == q.symtab
           o1 == q.function_order
<1>7. /\ v1 \in Seq(F) /\ Len(v1) = n + 1
      /\ \A i \in 1..n : v1[i] = v0[i]
      /\ v1[n + 1] = x
  <2> HIDE DEF v0
  <2>1. v1 = Append(v0, x) /\ n = Len(v0) /\ x \in F /\ v0 \in Seq(F)
    BY <1>1, <1>2, <1>3 DEF v0
  <2> HIDE DEF v1, n
  <2>2. QED
    BY ONLY <2>1, AppendProperties
<1>8. /\ o1 \in UNION {[D -> Nat] : D \in SUBSET Nat}
      /\ \A i \in DOMAIN o1 : o1[i] < n + 1 /\ v1[o1[i] + 1].fid = i
  <2> HIDE DEF o0, o1, v1, v0, n
  <2>1. o1 = [i \in DOMAIN o0 \cup {fid} |-> IF i \in DOMAIN o0 THEN o0[i] ELSE n]
    BY <1>3 DEF Ordered, o0, o1, n
  <2>2. o1 \in [DOMAIN o0 \cup {fid} -> Nat] /\ DOMAIN o0 \cup {fid} \in SUBSET Nat
    <3>1. DOMAIN o0 \in SUBSET Nat
      BY <1>5
    <3>2. QED
      BY <1>1, <2>1, <3>1
  <2>3. \A i \in DOMAIN o0 : o0[i] < n + 1 /\ o0[i] + 1 \in 1..n
    BY <1>1, <1>4
  <2>4. ASSUME NEW i \in DOMAIN o1
        PROVE  o1[i] < n + 1 /\ v1[o1[i] + 1].fid = i
    <3>1. CASE i \in DOMAIN o0
      <4>1. o1[i] = o0[i]
        BY <2>1, <3>1
      <4>2. QED
        BY <1>4, <1>7, <2>3, <3>1, <4>1
    <3>2. CASE i \notin DOMAIN o0
      <4>1. i = fid /\ o1[i] = n
        BY <2>1, <2>4, <3>2
      <4>2. QED
        BY <1>1, <1>2, <1>7, <4>1
    <3>3. QED
      BY <3>1, <3>2
  <2>5. QED
    BY <2>2, <2>4
<1>9. CASE s1 = s0
  <2>1. \A k \in 1..l : ~s0[k].import => s0[k].index < n + 1 /\ v1[s0[k].index + 1].fn.size > 0
    <3> HIDE DEF s0, v0, v1, n, l
    <3>1. ASSUME NEW k \in 1..l, ~s0[k].import
          PROVE  s0[k].index < n + 1 /\ v1[s0[k].index + 1].fn.size > 0
      <4>1. s0[k].index + 1 \in 1..n /\ s0[k].index < n + 1
        BY <1>1, <1>4, <3>1
      <4>2. QED
        BY <1>4, <1>7, <3>1, <4>1
    <3>2. QED
      BY <3>1
  <2>2. Len(s1) = l /\ DOMAIN s1 = 1..l /\ l < n + 1
    BY <1>1, <1>4, <1>9
  <2>3. q \in Program
    BY <1>1, <1>3, <1>7, <1>8, <1>9 DEF Program, F, Y
  <2>4. QED
    BY <1>7, <1>8, <1>9, <2>1, <2>2, <2>3 DEF ProgramInv
<1>10. ASSUME NEW s \in Y, s1 = Append(s0, s), s.name = fn.cname,
              IF s.import THEN fn.size = 0 ELSE s.index = n /\ fn.size > 0
       PROVE  ProgramInv(q)
  <2>1. /\ s1 \in Seq(Y) /\ Len(s1) = l + 1
        /\ \A k \in 1..l : s1[k] = s0[k]
        /\ s1[l + 1] = s
    <3>1. s1 = Append(s0, s) /\ l = Len(s0) /\ s0 \in Seq(Y)
      BY <1>1, <1>10
    <3> HIDE DEF s0, s1, l
    <3>2. QED
      BY ONLY <3>1, s \in Y, AppendProperties
  <2> HIDE DEF s0, v0, s1, v1, n, l
  <2>2. DOMAIN s1 = 1..(l + 1) /\ \A k \in 1..(l + 1) : k \in 1..l \/ k = l + 1
    BY <1>1, <2>1
  <2>3. \A k \in 1..(l + 1) : ~s1[k].import => s1[k].index < n + 1 /\ v1[s1[k].index + 1].fn.size > 0
    <3>1. ASSUME NEW k \in 1..l, ~s0[k].import
          PROVE  s0[k].index < n + 1 /\ v1[s0[k].index + 1].fn.size > 0
      <4>1. s0[k].index + 1 \in 1..n /\ s0[k].index < n + 1
        BY <1>1, <1>4, <3>1
      <4>2. QED
        BY <1>4, <1>7, <3>1, <4>1
    <3>2. ~s.import => s.index < n + 1 /\ v1[s.index + 1].fn.size > 0
      BY <1>1, <1>2, <1>7, <1>10
    <3>3. QED
      BY <2>1, <2>2, <3>1, <3>2
  <2>4. ASSUME l + 1 = n + 1, NEW k \in 1..(l + 1)
        PROVE  s1[k].name = v1[k].fn.cname /\ IF s1[k].import THEN v1[k].fn.size = 0 ELSE s1[k].index = k - 1
    <3>1. l = n
      BY <1>1, <2>4
    <3>2. CASE k \in 1..l
      <4>1. SymbolFits(p, s0[k], k)
        BY <1>4, <3>1, <3>2
      <4>2. s0[k].name = v0[k].fn.cname /\ IF s0[k].import THEN v0[k].fn.size = 0 ELSE s0[k].index = k - 1
        BY <4>1 DEF SymbolFits, v0
      <4>3. s1[k] = s0[k] /\ v1[k] = v0[k]
        BY <1>7, <2>1, <3>1, <3>2
      <4>4. QED
        BY <4>2, <4>3
    <3>3. CASE k = l + 1
      <4>1. s1[k] = s /\ v1[k] = x /\ n = k - 1
        BY <1>1, <1>7, <2>1, <3>1, <3>3
      <4>2. QED
        BY <1>2, <1>10, <4>1
    <3>4. QED
      BY <2>2, <3>2, <3>3
  <2>5. l + 1 <= n + 1
    BY <1>1, <1>4
  <2>6. q \in Program
    BY <1>3, <1>7, <1>8, <2>1 DEF Program, F, Y, v1, s1
  <2>7. QED
    BY <1>7, <1>8, <2>1, <2>2, <2>3, <2>4, <2>5, <2>6 DEF ProgramInv, SymbolFits, s1, v1
<1>11. QED
  BY <1>3, <1>9, <1>10 DEF Y

\* What the members of Program do keeps it in order.
LEMMA NoProgramInv == ProgramInv(NoProgram)
<1>1. [fid \in {} |-> 0] \in [{} -> Nat] /\ {} \in SUBSET Nat
  OBVIOUS
<1>2. NoProgram \in Program
  BY <1>1 DEF NoProgram, Program
<1>3. QED
  BY <1>2 DEF NoProgram, ProgramInv

\* add_function leaves the symbols alone.
LEMMA AddFunctionParts ==
    ASSUME NEW p, NEW fid, NEW fn,
           p = [fnv |-> p.fnv, function_order |-> p.function_order, symtab |-> p.symtab]
    PROVE  add_function(p, fid, fn) = [fnv |-> Append(p.fnv, [fid |-> fid, fn |-> fn]),
                                       function_order |-> Ordered(p, fid), symtab |-> p.symtab]
<1> DEFINE x == [fid |-> fid, fn |-> fn]
           q == add_function(p, fid, fn)
<1>1. q = [p EXCEPT !.function_order = Ordered(p, fid), !.fnv = Append(p.fnv, x)]
  BY DEF add_function, Ordered
<1> HIDE DEF q, x
<1>2. q = [fnv |-> Append(p.fnv, x), function_order |-> Ordered(p, fid), symtab |-> p.symtab]
  BY <1>1
<1>3. QED
  BY <1>2 DEF q, x

\* add_function, import_function and export_function.
LEMMA AddFunctionInv ==
    ASSUME NEW p, ProgramInv(p), NEW fid \in Nat, NEW fn \in Codes \cup Stubs
    PROVE  ProgramInv(add_function(p, fid, fn))
<1>1. p = [fnv |-> p.fnv, function_order |-> p.function_order, symtab |-> p.symtab]
  BY DEF ProgramInv, Program
<1> DEFINE q == add_function(p, fid, fn)
<1>2. q = [fnv |-> Append(p.fnv, [fid |-> fid, fn |-> fn]), function_order |-> Ordered(p, fid),
           symtab |-> p.symtab]
  BY <1>1, AddFunctionParts
<1> HIDE DEF q
<1>3. ProgramInv(q)
  BY <1>2, AddedInv
<1>4. QED
  BY <1>3 DEF q

\* A function and a symbol that fits it.
LEMMA AddWithSymbolInv ==
    ASSUME NEW p, ProgramInv(p), NEW fid \in Nat, NEW fn \in Codes \cup Stubs,
           NEW s \in [name : Names, index : Nat, import : BOOLEAN],
           s.name = fn.cname,
           IF s.import THEN fn.size = 0 ELSE s.index = Len(p.fnv) /\ fn.size > 0
    PROVE  ProgramInv(add_function([p EXCEPT !.symtab = Append(@, s)], fid, fn))
<1> DEFINE v == p.fnv
           o == p.function_order
           t == p.symtab
           r == [p EXCEPT !.symtab = Append(@, s)]
           q == add_function(r, fid, fn)
<1>1. p = [fnv |-> v, function_order |-> o, symtab |-> t]
  BY DEF ProgramInv, Program
<1>2. r = [fnv |-> v, function_order |-> o, symtab |-> Append(t, s)]
  <2> HIDE DEF v, o, t
  <2>1. QED
    BY <1>1
<1> HIDE DEF r
<1>3. Ordered(r, fid) = Ordered(p, fid)
  <2>1. r.fnv = p.fnv /\ r.function_order = p.function_order
    BY <1>2
  <2>2. QED
    BY <2>1 DEF Ordered
<1>4. q = [fnv |-> Append(v, [fid |-> fid, fn |-> fn]), function_order |-> Ordered(p, fid),
           symtab |-> Append(t, s)]
  <2> HIDE DEF v, o, t
  <2>1. r = [fnv |-> r.fnv, function_order |-> r.function_order, symtab |-> r.symtab]
    BY <1>2
  <2>2. q = [fnv |-> Append(r.fnv, [fid |-> fid, fn |-> fn]), function_order |-> Ordered(r, fid),
             symtab |-> r.symtab]
    BY <2>1, AddFunctionParts
  <2>3. r.fnv = v /\ r.symtab = Append(t, s)
    BY <1>2
  <2> HIDE DEF q
  <2>4. QED
    BY <1>3, <2>2, <2>3
<1> HIDE DEF q
<1>5. ProgramInv(q)
  <2>1. q.symtab = Append(p.symtab, s)
    BY <1>4
  <2>2. q = [fnv |-> Append(p.fnv, [fid |-> fid, fn |-> fn]), function_order |-> Ordered(p, fid),
             symtab |-> q.symtab]
    BY <1>4
  <2>3. QED
    BY <2>1, <2>2, AddedInv
<1>6. QED
  BY <1>5 DEF q, r

\* import_function adds a stub and its symbol.
LEMMA ImportFunctionInv ==
    ASSUME NEW p, ProgramInv(p), NEW fid \in Nat, NEW name \in Names
    PROVE  ProgramInv(import_function(p, fid, name))
<1> DEFINE s == Symbol(name, 0, TRUE)
           fn == Stub(name)
<1>1. /\ s \in [name : Names, index : Nat, import : BOOLEAN] /\ s.import
      /\ s.name = fn.cname /\ fn.size = 0 /\ fn \in Codes \cup Stubs
  BY DEF Symbol, Stub, Stubs
<1> HIDE DEF s, fn
<1>2. ProgramInv(add_function([p EXCEPT !.symtab = Append(@, s)], fid, fn))
  BY <1>1, AddWithSymbolInv
<1>3. QED
  BY <1>2 DEF import_function, s, fn

\* export_function adds code and its symbol.
LEMMA ExportFunctionInv ==
    ASSUME NEW p, ProgramInv(p), NEW fid \in Nat, NEW fn \in Codes
    PROVE  ProgramInv(export_function(p, fid, fn))
<1> DEFINE s == Symbol(fn.cname, Len(p.fnv), FALSE)
<1>1. fn.size > 0 /\ fn.cname \in Names
  BY DEF Codes
<1>2. Len(p.fnv) \in Nat
  BY ProgramFacts
<1>3. /\ s \in [name : Names, index : Nat, import : BOOLEAN] /\ ~s.import
      /\ s.name = fn.cname /\ s.index = Len(p.fnv)
  BY <1>1, <1>2 DEF Symbol
<1> HIDE DEF s
<1>4. ProgramInv(add_function([p EXCEPT !.symtab = Append(@, s)], fid, fn))
  BY <1>1, <1>3, AddWithSymbolInv
<1>5. QED
  BY <1>4 DEF export_function, s

\* A program is made of a whole project.
Items == [kind : {"body"}, fn : Codes] \cup [kind : {"extern", "intrinsic"}, fn : Stubs]

\* The constructor of Program, for one function of the project.
LEMMA WithInv ==
    ASSUME NEW p, ProgramInv(p), NEW fid \in Nat, NEW f \in Items
    PROVE  ProgramInv(With(p, fid, f))
<1>1. CASE f.kind = "body"
  <2>1. f.fn \in Codes
    BY <1>1 DEF Items
  <2>2. With(p, fid, f) = export_function(p, fid, f.fn)
    BY <1>1 DEF With
  <2>3. QED
    BY <2>1, <2>2, ExportFunctionInv
<1>2. CASE f.kind = "extern"
  <2>1. f.fn.cname \in Names
    BY <1>2 DEF Items, Codes, Stubs
  <2>2. With(p, fid, f) = import_function(p, fid, f.fn.cname)
    BY <1>2 DEF With
  <2>3. QED
    BY <2>1, <2>2, ImportFunctionInv
<1>3. CASE f.kind = "intrinsic"
  BY <1>3 DEF With
<1>4. QED
  BY <1>1, <1>2, <1>3 DEF Items

\* What holds of the empty program and survives every function of a project
\* holds of the project's program.
LEMMA ProgramOfIn ==
    ASSUME NEW project, Len(project) \in Nat, NEW S, NoProgram \in S,
           \A k \in 1..Len(project), p \in S : With(p, k, project[k]) \in S
    PROVE  ProgramOf(project) \in S
<1> DEFINE n == Len(project)
           step == [x \in (1..n) \X S |-> With(x[2], x[1], project[x[1]])]
           E(u, k) == IF k = 0 THEN NoProgram ELSE With(u[k - 1], k, project[k])
           upto == CHOOSE u : u = [k \in 0..n |-> E(u, k)]
<1>1. n \in Nat
  OBVIOUS
<1>2. NoProgram \in S
  OBVIOUS
<1>3. \A k \in 1..n, p \in S : With(p, k, project[k]) \in S
  OBVIOUS
<1>4. step \in [(1..n) \X S -> S] /\ \A k \in 1..n, p \in S : step[<<k, p>>] = With(p, k, project[k])
  BY <1>3
<1> HIDE DEF step, n
<1>5. PICK f : Steps(S, NoProgram, n, step, f)
  BY <1>1, <1>2, <1>4, StepsExist
<1>6. upto = [k \in 0..n |-> E(upto, k)]
  <2>1. f = [k \in 0..n |-> E(f, k)]
    <3>1. \A k \in 1..n : k - 1 \in 0..n
      BY <1>1
    <3>2. \A k \in 1..n : f[k] = With(f[k - 1], k, project[k])
      BY <1>4, <1>5, <3>1 DEF Steps
    <3>3. \A k \in 0..n : k = 0 \/ k \in 1..n
      BY <1>1
    <3>4. \A k \in 0..n : f[k] = E(f, k)
      BY <1>5, <3>2, <3>3 DEF Steps
    <3> HIDE DEF E
    <3>5. QED
      BY <1>5, <3>4 DEF Steps
  <2> HIDE DEF E
  <2>2. QED
    BY <2>1
<1>7. ProgramOf(project) = upto[n]
  BY DEF ProgramOf, n
<1> HIDE DEF upto
<1>8. upto[0] = NoProgram /\ \A k \in 1..n : upto[k] = With(upto[k - 1], k, project[k])
  <2>1. \A k \in 0..n : upto[k] = E(upto, k)
    <3> HIDE DEF E
    <3>1. QED
      BY <1>6
  <2>2. 0 \in 0..n /\ \A k \in 1..n : k \in 0..n /\ k # 0
    BY <1>1
  <2>3. QED
    BY <2>1, <2>2
<1>9. \A k \in 1..n, p \in S : upto[k - 1] = p => upto[k] = step[<<k, p>>]
  BY <1>4, <1>8
<1>10. \A k \in 0..n : upto[k] = f[k] /\ upto[k] \in S
  <2> HIDE DEF E
  <2>1. /\ NoProgram \in S /\ n \in Nat /\ step \in [(1..n) \X S -> S]
        /\ Steps(S, NoProgram, n, step, f) /\ upto[0] = NoProgram
        /\ \A k \in 1..n, v \in S : upto[k - 1] = v => upto[k] = step[<<k, v>>]
    BY <1>1, <1>2, <1>4, <1>5, <1>8, <1>9
  <2>2. Agree(S, n, upto, f)
    BY ONLY <2>1, StepsAgree
  <2>3. QED
    BY <2>2 DEF Agree
<1>11. n \in 0..n
  BY <1>1
<1>12. QED
  BY <1>2, <1>7, <1>10, <1>11

\* The program of a project is in order, whatever its functions are.
LEMMA ProgramOfInv ==
    ASSUME NEW project \in Seq(Items)
    PROVE  ProgramInv(ProgramOf(project))
<1> DEFINE S == {p \in Program : ProgramInv(p)}
<1>1. Len(project) \in Nat /\ \A k \in 1..Len(project) : project[k] \in Items /\ k \in Nat
  BY LenProperties, ElementOfSeq
<1>2. NoProgram \in S /\ \A p \in S : ProgramInv(p)
  BY NoProgramInv DEF ProgramInv
<1>3. \A k \in 1..Len(project), p \in S : With(p, k, project[k]) \in S
  <2>1. \A k \in 1..Len(project), p \in S : ProgramInv(With(p, k, project[k]))
    BY <1>1, WithInv
  <2>2. QED
    BY <2>1 DEF ProgramInv
<1> HIDE DEF S
<1>4. ProgramOf(project) \in S
  BY <1>1, <1>2, <1>3, ProgramOfIn
<1>5. QED
  BY <1>2, <1>4

OnlyStubs(p) == \A i \in DOMAIN p.fnv : p.fnv[i].fn.rels = <<>>

\* A program of stubs is complete, and a project without bodies makes one.
LEMMA NoBodiesComplete ==
    ASSUME NEW project \in Seq(Items), \A f \in ToSet(project) : f.kind # "body"
    PROVE  Complete(ProgramOf(project))
<1> DEFINE S == {p \in Program : ProgramInv(p) /\ OnlyStubs(p)}
<1>1. Len(project) \in Nat /\ \A k \in 1..Len(project) : project[k] \in Items /\ k \in Nat /\ project[k].kind # "body"
  <2>1. Len(project) \in Nat /\ DOMAIN project = 1..Len(project) /\ \A k \in 1..Len(project) : project[k] \in Items /\ k \in Nat
    BY LenProperties, ElementOfSeq
  <2>2. QED
    BY <2>1 DEF ToSet
<1>2. NoProgram \in S
  BY NoProgramInv DEF ProgramInv, OnlyStubs, NoProgram
<1>3. ASSUME NEW k \in 1..Len(project), NEW p \in S
      PROVE  With(p, k, project[k]) \in S
  <2> DEFINE f == project[k]
             q == With(p, k, f)
  <2>1. ProgramInv(p) /\ OnlyStubs(p) /\ f \in Items /\ k \in Nat /\ f.kind # "body"
    BY <1>1
  <2>2. ProgramInv(q)
    BY <2>1, WithInv
  <2>3. OnlyStubs(q)
    <3>1. CASE f.kind = "extern"
      <4> DEFINE r == [p EXCEPT !.symtab = Append(@, Symbol(f.fn.cname, 0, TRUE))]
                 v == p.fnv
                 x == [fid |-> k, fn |-> Stub(f.fn.cname)]
      <4>1. q = add_function(r, k, Stub(f.fn.cname))
        BY <3>1 DEF With, import_function
      <4>2. r.fnv = v /\ r = [fnv |-> r.fnv, function_order |-> r.function_order, symtab |-> r.symtab]
        <5>1. p = [fnv |-> p.fnv, function_order |-> p.function_order, symtab |-> p.symtab]
          BY <2>1 DEF ProgramInv, Program
        <5> DEFINE y == Symbol(f.fn.cname, 0, TRUE)
        <5> HIDE DEF y
        <5>2. r = [fnv |-> p.fnv, function_order |-> p.function_order, symtab |-> Append(p.symtab, y)]
          <6>1. r = [p EXCEPT !.symtab = Append(p.symtab, y)]
            BY DEF y
          <6> HIDE DEF r
          <6>2. QED
            BY <5>1, <6>1
        <5> HIDE DEF r
        <5>3. QED
          BY <5>2
      <4>3. q.fnv = Append(v, x)
        <5> HIDE DEF q, r, v
        <5>1. add_function(r, k, Stub(f.fn.cname)).fnv = Append(r.fnv, x)
          BY <4>2, AddFunctionParts
        <5>2. QED
          BY <4>1, <4>2, <5>1
      <4>4. x.fn.rels = <<>>
        BY DEF Stub
      <4>5. \E F : v \in Seq(F) /\ x \in F
        <5> DEFINE F == [fid : Nat, fn : Codes \cup Stubs]
        <5>1. v \in Seq(F)
          BY <2>1, ProgramFacts
        <5>2. Stub(f.fn.cname) \in Stubs
          BY <2>1, <3>1 DEF Items, Stub, Stubs
        <5>3. x \in F
          BY <1>1, <5>2
        <5>4. QED
          BY <5>1, <5>3
      <4> HIDE DEF q, v, x
      <4>6. PICK F : v \in Seq(F) /\ x \in F
        BY <4>5
      <4>7. DOMAIN q.fnv = 1..(Len(v) + 1) /\ Len(v) \in Nat /\ DOMAIN v = 1..Len(v)
            /\ \A i \in 1..(Len(v) + 1) : q.fnv[i] = IF i <= Len(v) THEN v[i] ELSE x
        BY <4>3, <4>6, AppendProperties, LenProperties
      <4>8. \A i \in DOMAIN v : v[i].fn.rels = <<>>
        BY <2>1 DEF OnlyStubs, v
      <4>9. QED
        BY <4>4, <4>7, <4>8 DEF OnlyStubs
    <3>2. CASE f.kind = "intrinsic"
      BY <2>1, <3>2 DEF With
    <3>3. QED
      BY <2>1, <3>1, <3>2 DEF Items
  <2>4. QED
    BY <2>2, <2>3 DEF ProgramInv
<1>4. \A p \in S : Complete(p)
  BY DEF OnlyStubs, Complete, ToSet
<1> HIDE DEF S
<1>5. ProgramOf(project) \in S
  BY <1>1, <1>2, <1>3, ProgramOfIn
<1>6. QED
  BY <1>4, <1>5

-----------------------------------------------------------------------------
(* Names in a table. *)

\* A name stands at a place in a table, with the end after it.
IsNameAt(table, at, name) ==
    /\ at \in Nat
    /\ at + Len(name) < Len(table)
    /\ \A i \in 1..Len(name) : table[at + i] = name[i]
    /\ table[at + Len(name) + 1] = End

Letters == Letter \cup SectionLetters \cup {End}

\* A name is a sequence of anything but the end.
LEMMA NamesFacts ==
    ASSUME NEW name \in Names
    PROVE  /\ name \in Seq(Letters)
           /\ Len(name) \in Nat /\ DOMAIN name = 1..Len(name)
           /\ \A i \in 1..Len(name) : name[i] \in Letters /\ name[i] # End
<1> DEFINE S == (Letter \cup SectionLetters) \ {End}
<1>1. name \in Seq(S)
  BY DEF Names
<1>2. \A x \in S : x \in Letters /\ x # End
  BY DEF Letters
<1> HIDE DEF S
<1>3. Len(name) \in Nat /\ DOMAIN name = 1..Len(name) /\ \A i \in 1..Len(name) : name[i] \in S
  BY <1>1, LenProperties, ElementOfSeq
<1>4. name \in Seq(Letters)
  BY <1>1, <1>2, <1>3
<1>5. QED
  BY <1>2, <1>3, <1>4

\* A reader finds it.
LEMMA NameFound ==
    ASSUME NEW table \in Seq(Letters), NEW at, NEW name \in Names, IsNameAt(table, at, name)
    PROVE  NameAt(table, at) = name
<1> DEFINE n == Len(name)
           m == Len(table)
           D == {i \in DOMAIN table : i > at /\ table[i] = End}
           e == at + n + 1
<1>1. /\ at \in Nat /\ n \in Nat /\ m \in Nat /\ at + n < m
      /\ \A i \in 1..n : table[at + i] = name[i] /\ name[i] # End
      /\ table[e] = End
      /\ DOMAIN table = 1..m
  BY NamesFacts, LenProperties DEF IsNameAt
<1>2. e \in D
  <2>1. e \in 1..m /\ e > at
    BY <1>1
  <2>2. QED
    BY <1>1, <2>1
<1>3. \A i \in D : e <= i
  <2>1. ASSUME NEW i \in D, ~(e <= i)
        PROVE  FALSE
    <3>1. i \in 1..m /\ i > at /\ table[i] = End
      BY <1>1
    <3>2. i - at \in 1..n /\ at + (i - at) = i
      BY <1>1, <2>1, <3>1
    <3> DEFINE j == i - at
    <3>3. j \in 1..n /\ table[at + j] = End
      BY <3>1, <3>2
    <3> HIDE DEF j
    <3>4. QED
      BY <1>1, <3>3
  <2>2. QED
    BY <2>1
<1>4. \A i \in D : i \in Nat
  BY <1>1
<1>5. e \in Nat /\ e - 1 = at + n
  BY <1>1
<1>6. NameAt(table, at) = SubSeq(table, at + 1, Min(D) - 1)
  BY DEF NameAt
<1> HIDE DEF D, e, n, m
<1>7. Min(D) = e
  <2>1. \A x \in D : (\A y \in D : x <= y) => x = e
    BY <1>2, <1>3, <1>4, <1>5
  <2>2. QED
    BY <1>2, <1>3, <2>1 DEF Min
<1> DEFINE s == SubSeq(table, at + 1, at + n)
<1>8. s \in Seq(Letters) /\ Len(s) = n /\ \A i \in 1..n : s[i] = table[at + i]
  <2>1. at + 1 \in Int /\ at + n \in Int
    BY <1>1
  <2>2. \A i \in (at + 1)..(at + n) : table[i] \in Letters
    <3>1. ASSUME NEW i \in (at + 1)..(at + n)
          PROVE  i \in 1..m
      BY <1>1
    <3>2. QED
      BY <3>1, ElementOfSeq DEF m
  <2> DEFINE a == at + 1
             b == at + n
  <2>3. a \in Int /\ b \in Int /\ \A i \in a..b : table[i] \in Letters
    BY <2>1, <2>2
  <2>4. b - a + 1 = n /\ \A i \in 1..n : a + i - 1 = at + i
    BY <1>1
  <2>5. a <= b <=> n >= 1
    BY <1>1
  <2> HIDE DEF a, b
  <2>6. /\ SubSeq(table, a, b) \in Seq(Letters)
        /\ Len(SubSeq(table, a, b)) = IF a <= b THEN b - a + 1 ELSE 0
        /\ \A i \in 1..(b - a + 1) : SubSeq(table, a, b)[i] = table[a + i - 1]
    BY <2>3, SubSeqProperties
  <2>7. s = SubSeq(table, a, b)
    BY DEF a, b
  <2> HIDE DEF s
  <2>8. Len(s) = n
    BY <1>1, <2>4, <2>5, <2>6, <2>7
  <2>9. \A i \in 1..n : s[i] = table[at + i]
    BY <2>4, <2>6, <2>7
  <2>10. QED
    BY <2>6, <2>7, <2>8, <2>9
<1> HIDE DEF s
<1>9. s = name
  <2>1. \A i \in 1..Len(s) : s[i] = name[i]
    BY <1>1, <1>8
  <2>2. name \in Seq(Letters) /\ Len(s) = Len(name)
    BY <1>8, NamesFacts DEF n
  <2>3. QED
    BY <1>8, <2>1, <2>2, SeqEqual
<1>10. QED
  BY <1>5, <1>6, <1>7, <1>9 DEF s

\* It stays there when the table goes on.
LEMMA NameKept ==
    ASSUME NEW s \in Seq(Letters), NEW t \in Seq(Letters), Continues(t, s),
           NEW at, NEW name \in Names, IsNameAt(s, at, name)
    PROVE  IsNameAt(t, at, name)
<1> DEFINE n == Len(name)
<1>1. n \in Nat /\ Len(s) \in Nat /\ Len(t) \in Nat
  BY NamesFacts, LenProperties
<1>2. Len(s) <= Len(t) /\ \A i \in 1..Len(s) : t[i] = s[i]
  BY DEF Continues
<1>3. at \in Nat /\ at + n < Len(s) /\ (\A i \in 1..n : s[at + i] = name[i]) /\ s[at + n + 1] = End
  BY DEF IsNameAt
<1> HIDE DEF n
<1>4. \A i \in 1..n : at + i \in 1..Len(s)
  BY <1>1, <1>3
<1>5. at + n + 1 \in 1..Len(s) /\ at + n < Len(t)
  BY <1>1, <1>2, <1>3
<1>6. QED
  BY <1>2, <1>3, <1>4, <1>5 DEF IsNameAt, n

\* Nametable::add puts it at the end of the table.
LEMMA NameAdded ==
    ASSUME NEW table \in Seq(Letters), NEW name \in Names
    PROVE  /\ AddName(table, name) \in Seq(Letters)
           /\ Continues(AddName(table, name), table)
           /\ IsNameAt(AddName(table, name), Len(table), name)
           /\ AddName(table, name) = table \o (name \o <<End>>)
<1> DEFINE e == <<End>>
           r == name \o e
<1>1. e \in Seq(Letters) /\ Len(e) = 1 /\ e[1] = End
  <2>1. End \in Letters
    BY DEF Letters
  <2>2. QED
    BY <2>1
<1>2. name \in Seq(Letters) /\ Len(name) \in Nat /\ Len(table) \in Nat
  BY NamesFacts, LenProperties
<1> HIDE DEF e
<1>3. r \in Seq(Letters) /\ Len(r) = Len(name) + 1
      /\ \A i \in 1..(Len(name) + 1) : r[i] = IF i <= Len(name) THEN name[i] ELSE e[i - Len(name)]
  <2>1. /\ r \in Seq(Letters) /\ Len(r) = Len(name) + Len(e)
        /\ \A i \in 1..(Len(name) + Len(e)) : r[i] = IF i <= Len(name) THEN name[i] ELSE e[i - Len(name)]
    BY <1>1, <1>2, ConcatProperties
  <2>2. QED
    BY <1>1, <2>1
<1>4. (table \o name) \o e = table \o r
  BY <1>1, <1>2, ConcatAssociative
<1> HIDE DEF r
<1> DEFINE t == table \o r
<1>5. t \in Seq(Letters) /\ Len(t) = Len(table) + Len(r)
      /\ \A i \in 1..(Len(table) + Len(r)) : t[i] = IF i <= Len(table) THEN table[i] ELSE r[i - Len(table)]
  <2>1. r \in Seq(Letters)
    BY <1>3
  <2>2. QED
    BY <2>1, ConcatProperties
<1>6. Continues(t, table)
  BY <1>3, ContinuesFacts
<1> HIDE DEF t
<1>7. \A i \in 1..(Len(name) + 1) : t[Len(table) + i] = r[i]
  <2>1. ASSUME NEW i \in 1..(Len(name) + 1)
        PROVE  t[Len(table) + i] = r[i]
    <3>1. /\ Len(table) + i \in 1..(Len(table) + Len(r)) /\ ~(Len(table) + i <= Len(table))
          /\ (Len(table) + i) - Len(table) = i
      BY <1>2, <1>3
    <3>2. QED
      BY <1>5, <3>1
  <2>2. QED
    BY <2>1
<1>8. r[Len(name) + 1] = End /\ \A i \in 1..Len(name) : r[i] = name[i]
  <2>1. Len(name) + 1 \in 1..(Len(name) + 1) /\ ~(Len(name) + 1 <= Len(name)) /\ (Len(name) + 1) - Len(name) = 1
    BY <1>2
  <2>2. \A i \in 1..Len(name) : i \in 1..(Len(name) + 1) /\ i <= Len(name)
    BY <1>2
  <2>3. QED
    BY <1>1, <1>3, <2>1, <2>2
<1>9. IsNameAt(t, Len(table), name)
  <2>1. \A i \in 1..Len(name) : i \in 1..(Len(name) + 1)
    BY <1>2
  <2>2. \A i \in 1..Len(name) : t[Len(table) + i] = name[i]
    BY <1>7, <1>8, <2>1
  <2>3. Len(name) + 1 \in 1..(Len(name) + 1) /\ Len(table) + (Len(name) + 1) = Len(table) + Len(name) + 1
    BY <1>2
  <2>4. t[Len(table) + Len(name) + 1] = End
    BY <1>7, <1>8, <2>3
  <2>5. Len(table) + Len(name) < Len(t)
    BY <1>2, <1>3, <1>5
  <2>6. QED
    BY <1>2, <2>2, <2>4, <2>5 DEF IsNameAt
<1>10. AddName(table, name) = t
  BY <1>4 DEF AddName, e, t
<1>11. QED
  BY <1>5, <1>6, <1>9, <1>10 DEF t, r, e

-----------------------------------------------------------------------------
(* The code of a program, function by function. *)

CodeOf(p, i) == [k \in 1..p.fnv[i].fn.size |-> <<i, k - 1>>]

\* Every function has its bytes in the text from its entry on.
Laid(p) ==
    /\ Text(p) \in Seq(Nat \X Nat)
    /\ \A i \in DOMAIN p.fnv :
        /\ Entry(p, i) \in Nat
        /\ Entry(p, i) + p.fnv[i].fn.size <= Len(Text(p))
        /\ \A k \in 0..(p.fnv[i].fn.size - 1) : Text(p)[Entry(p, i) + k + 1] = <<i, k>>

\* The code of every function is in the text, at its entry.
LEMMA TextLaid ==
    ASSUME NEW p, ProgramInv(p)
    PROVE  Laid(p)
<1> DEFINE v == p.fnv
           n == Len(v)
           size(i) == v[i].fn.size
           parts == [i \in DOMAIN v |-> CodeOf(p, i)]
           B == Nat \X Nat
<1>1. n \in Nat /\ DOMAIN v = 1..n /\ \A i \in 1..n : size(i) \in Nat
  <2>1. n \in Nat /\ DOMAIN v = 1..n /\ \A i \in 1..n : v[i].fn \in Codes \cup Stubs
    BY ProgramFacts
  <2>2. QED
    BY <2>1, CodesFacts
<1>2. \A i \in 1..n : /\ CodeOf(p, i) \in Seq(B) /\ Len(CodeOf(p, i)) = size(i)
                      /\ \A k \in 1..size(i) : CodeOf(p, i)[k] = <<i, k - 1>>
  <2>1. ASSUME NEW i \in 1..n
        PROVE  /\ CodeOf(p, i) \in Seq(B) /\ Len(CodeOf(p, i)) = size(i)
               /\ \A k \in 1..size(i) : CodeOf(p, i)[k] = <<i, k - 1>>
    <3> DEFINE z == size(i)
               c == [k \in 1..z |-> <<i, k - 1>>]
    <3>1. z \in Nat /\ CodeOf(p, i) = c
      BY <1>1 DEF CodeOf
    <3> HIDE DEF z
    <3>2. \A k \in 1..z : <<i, k - 1>> \in B
      BY <1>1, <3>1
    <3>3. c \in Seq(B) /\ Len(c) = z /\ \A k \in 1..z : c[k] = <<i, k - 1>>
      <4> HIDE DEF B
      <4>1. QED
        BY <3>1, <3>2
    <3> HIDE DEF c
    <3>4. QED
      BY <3>1, <3>3 DEF z
  <2>2. QED
    BY <2>1
<1> HIDE DEF size, B
<1>3. parts \in Seq(Seq(B)) /\ Len(parts) = n /\ \A i \in 1..n : parts[i] = CodeOf(p, i)
  <2> HIDE DEF v, n
  <2>1. QED
    BY <1>1, <1>2
<1>4. Text(p) = FlattenSeq(parts)
  BY DEF Text, CodeOf
<1> HIDE DEF parts
<1>5. PICK f : Chain(B, <<>>, parts, f) /\ FlattenSeq(parts) = f[Len(parts)]
  BY <1>3, Flattened
<1>6. /\ f \in [0..n -> Seq(B)] /\ f[0] = <<>>
      /\ \A m \in 0..n : \A k \in 0..m : Continues(f[m], f[k])
      /\ \A k \in 1..n : Len(f[k]) = Len(f[k - 1]) + size(k)
      /\ \A m \in 1..n : \A k \in 1..m : \A i \in 1..size(k) : f[m][Len(f[k - 1]) + i] = <<k, i - 1>>
  <2>1. /\ f \in [0..n -> Seq(B)] /\ f[0] = <<>>
        /\ \A m \in 0..n : \A k \in 0..m : Continues(f[m], f[k])
        /\ \A k \in 1..n : Len(f[k]) = Len(f[k - 1]) + Len(parts[k])
        /\ \A m \in 1..n : \A k \in 1..m : \A i \in 1..Len(parts[k]) :
              f[m][Len(f[k - 1]) + i] = parts[k][i]
    BY <1>3, <1>5 DEF Chain
  <2>2. \A k \in 1..n : Len(parts[k]) = size(k) /\ \A i \in 1..size(k) : parts[k][i] = <<k, i - 1>>
    BY <1>2, <1>3
  <2>3. \A m \in 1..n : \A k \in 1..m : k \in 1..n
    BY <1>1
  <2> HIDE DEF n
  <2>4. \A k \in 1..n : Len(f[k]) = Len(f[k - 1]) + size(k)
    BY <2>1, <2>2
  <2>5. ASSUME NEW m \in 1..n, NEW k \in 1..m, NEW i \in 1..size(k)
        PROVE  f[m][Len(f[k - 1]) + i] = <<k, i - 1>>
    <3>1. k \in 1..n /\ i \in 1..Len(parts[k])
      BY <2>2, <2>3
    <3>2. f[m][Len(f[k - 1]) + i] = parts[k][i]
      BY <2>1, <3>1
    <3>3. QED
      BY <2>2, <3>1, <3>2
  <2>6. QED
    BY <2>1, <2>4, <2>5
<1>7. ASSUME NEW i \in 1..n
      PROVE  Entry(p, i) = Len(f[i - 1])
  <2> DEFINE E(u, j) == IF j = 1 THEN 0 ELSE u[j - 1] + size(j - 1)
             at == CHOOSE u : u = [j \in DOMAIN v |-> E(u, j)]
             g == [j \in DOMAIN v |-> Len(f[j - 1])]
  <2>1. Entry(p, i) = at[i]
    BY DEF Entry, size
  <2>2. \A j \in 1..n : g[j] = Len(f[j - 1])
    BY <1>1
  <2>3. \A j \in 1..n : Len(f[j - 1]) = IF j = 1 THEN 0 ELSE Len(f[j - 1 - 1]) + size(j - 1)
    <3>1. Len(f[0]) = 0
      BY <1>6
    <3>2. ASSUME NEW j \in 1..n, j # 1
          PROVE  Len(f[j - 1]) = Len(f[j - 1 - 1]) + size(j - 1)
      <4> DEFINE k == j - 1
      <4>1. k \in 1..n
        BY <1>1, <3>2
      <4> HIDE DEF k
      <4>2. Len(f[k]) = Len(f[k - 1]) + size(k)
        BY <1>6, <4>1
      <4>3. QED
        BY <4>2 DEF k
    <3>3. ASSUME NEW j \in 1..n, j = 1
          PROVE  Len(f[j - 1]) = 0
      <4>1. j - 1 = 0
        BY <3>3
      <4>2. QED
        BY <3>1, <4>1
    <3>4. QED
      BY <3>2, <3>3
  <2>4. \A j \in 1..n : g[j] = E(g, j)
    <3>1. \A j \in 1..n : j # 1 => j - 1 \in 1..n
      BY <1>1
    <3> HIDE DEF g
    <3>2. \A j \in 1..n : j # 1 => g[j - 1] = Len(f[j - 1 - 1])
      BY <2>2, <3>1
    <3>3. QED
      BY <2>2, <2>3, <3>2
  <2>5. g = [j \in DOMAIN v |-> E(g, j)]
    <3> DEFINE h == [j \in DOMAIN v |-> E(g, j)]
    <3>1. \A j \in 1..n : h[j] = E(g, j)
      BY <1>1
    <3>2. g = [j \in 1..n |-> g[j]] /\ h = [j \in 1..n |-> h[j]]
      BY <1>1
    <3> HIDE DEF g, h, E
    <3>3. g = h
      BY <2>4, <3>1, <3>2
    <3>4. QED
      BY <3>3 DEF h
  <2> HIDE DEF g
  <2>6. at = [j \in DOMAIN v |-> E(at, j)]
    <3> HIDE DEF E
    <3>1. QED
      BY <2>5
  <2> HIDE DEF at
  <2>7. \A j \in 1..n : at[j] = E(at, j)
    <3> HIDE DEF E
    <3>1. QED
      BY <1>1, <2>6
  <2> DEFINE T == {j \in 1..n : at[j] # Len(f[j - 1])}
  <2>8. T = {}
    <3>1. SUFFICES ASSUME T # {} PROVE FALSE
      OBVIOUS
    <3>2. PICK m \in T : \A j \in T : m <= j
      <4>1. T \in SUBSET Nat
        OBVIOUS
      <4> HIDE DEF T
      <4>2. QED
        BY <3>1, <4>1, LeastNatural
    <3>3. m \in 1..n /\ at[m] # Len(f[m - 1])
      OBVIOUS
    <3>4. m # 1
      BY <2>3, <2>7, <3>3
    <3>5. m - 1 \in 1..n /\ m \in Nat
      BY <1>1, <3>3, <3>4
    <3>6. m - 1 \notin T
      <4> HIDE DEF T
      <4>1. QED
        BY <3>2, <3>5
    <3>7. at[m - 1] = Len(f[m - 1 - 1])
      BY <3>5, <3>6
    <3>8. QED
      BY <2>3, <2>7, <3>3, <3>4, <3>7
  <2>9. QED
    BY <2>1, <2>8
<1>8. Text(p) = f[n] /\ Text(p) \in Seq(B)
  <2>1. n \in 0..n
    BY <1>1
  <2>2. QED
    BY <1>3, <1>4, <1>5, <1>6, <2>1
<1>9. ASSUME NEW i \in 1..n
      PROVE  /\ Entry(p, i) \in Nat
             /\ Entry(p, i) + size(i) <= Len(Text(p))
             /\ \A k \in 0..(size(i) - 1) : Text(p)[Entry(p, i) + k + 1] = <<i, k>>
  <2>1. i \in 0..n /\ i - 1 \in 0..n /\ n \in 0..n /\ n \in 1..n /\ i \in 1..n
    BY <1>1
  <2>2. Len(f[i - 1]) \in Nat /\ Len(f[i]) = Len(f[i - 1]) + size(i)
    <3>1. f[i - 1] \in Seq(B)
      BY <1>6, <2>1
    <3>2. QED
      BY <1>6, <3>1, LenProperties
  <2>3. Len(f[i]) <= Len(f[n])
    BY <1>6, <2>1 DEF Continues
  <2>4. ASSUME NEW k \in 0..(size(i) - 1)
        PROVE  f[n][Len(f[i - 1]) + k + 1] = <<i, k>>
    <3> DEFINE j == k + 1
    <3>1. j \in 1..size(i) /\ j - 1 = k /\ Len(f[i - 1]) + k + 1 = Len(f[i - 1]) + j
      <4> DEFINE l == Len(f[i - 1])
                 z == size(i)
      <4>1. l \in Nat /\ z \in Nat /\ k \in 0..(z - 1)
        BY <1>1, <2>1, <2>2
      <4> HIDE DEF l, z
      <4>2. j \in 1..z /\ j - 1 = k /\ l + k + 1 = l + j
        BY <4>1
      <4>3. QED
        BY <4>2 DEF l, z
    <3>2. f[n][Len(f[i - 1]) + j] = <<i, j - 1>>
      <4> HIDE DEF j
      <4>1. QED
        BY <1>6, <2>1, <3>1
    <3> HIDE DEF j
    <3>3. QED
      BY <3>1, <3>2
  <2> DEFINE a == Len(f[i - 1])
             b == Len(f[n])
             c == Len(f[i])
  <2>5. a \in Nat /\ b \in Nat /\ c = a + size(i) /\ c <= b /\ size(i) \in Nat
    <3>1. f[n] \in Seq(B)
      BY <1>6, <2>1
    <3>2. QED
      BY <1>1, <2>1, <2>2, <2>3, <3>1, LenProperties
  <2>6. Entry(p, i) = a /\ Len(Text(p)) = b
    BY <1>7, <1>8
  <2>7. a + size(i) <= b
    <3> HIDE DEF a, b, c
    <3>1. QED
      BY <2>5
  <2>8. \A k \in 0..(size(i) - 1) : Text(p)[a + k + 1] = <<i, k>>
    BY <1>8, <2>4
  <2> HIDE DEF a, b, c
  <2>9. QED
    BY <2>5, <2>6, <2>7, <2>8
<1>10. QED
  BY <1>1, <1>8, <1>9 DEF Laid, B, size

\* The relocations of a complete program: each inside of the text, and none
\* is left out.
RelocationRecord == [offset : Nat, sym : Nat, addend : Int]

Relocated(p) ==
    /\ Relocations(p) \in Seq({r \in RelocationRecord : r.offset < Len(Text(p))})
    /\ \A i \in DOMAIN p.fnv : \A k \in DOMAIN p.fnv[i].fn.rels :
        \E m \in DOMAIN Relocations(p) : Relocations(p)[m] = Relocation(p, i, p.fnv[i].fn.rels[k])

\* The relocations of a complete program.
LEMMA RelocationsLaid ==
    ASSUME NEW p, ProgramInv(p), Complete(p)
    PROVE  Relocated(p)
<1> DEFINE v == p.fnv
           n == Len(v)
           rels(i) == v[i].fn.rels
           of(i) == [k \in DOMAIN rels(i) |-> Relocation(p, i, rels(i)[k])]
           parts == [i \in DOMAIN v |-> of(i)]
           R == {r \in RelocationRecord : r.offset < Len(Text(p))}
<1>1. n \in Nat /\ DOMAIN v = 1..n /\ \A i \in 1..n : v[i].fn \in Codes \cup Stubs
  BY ProgramFacts
<1>2. ASSUME NEW i \in 1..n, NEW k \in DOMAIN rels(i)
      PROVE  Relocation(p, i, rels(i)[k]) \in R
  <2> DEFINE r == rels(i)[k]
             z == v[i].fn.size
             e == Entry(p, i)
             t == Len(Text(p))
  <2>1. r.offset \in 0..(z - 1) /\ r.fni \in Nat /\ r.isize \in Nat /\ z \in Nat
    BY <1>1, CodesFacts
  <2>2. e \in Nat /\ e + z <= t
    BY <1>1, TextLaid DEF Laid
  <2>3. t \in Nat
    BY TextLaid, LenProperties DEF Laid
  <2>4. r.fni \in DOMAIN p.function_order
    BY <1>1 DEF Complete, ToSet
  <2>5. p.function_order[r.fni] \in Nat
    BY <2>4, ProgramFacts
  <2> DEFINE o == p.function_order[r.fni]
             x == r.offset
             y == r.isize
  <2>6. Relocation(p, i, r) = [offset |-> e + x, sym |-> o + 1, addend |-> -y]
    BY DEF Relocation
  <2>7. e + x \in Nat /\ e + x < t /\ o + 1 \in Nat /\ -y \in Int
    <3>1. x \in 0..(z - 1) /\ y \in Nat /\ o \in Nat
      BY <2>1, <2>5
    <3> HIDE DEF e, z, t, x, o, y
    <3>2. QED
      BY <2>1, <2>2, <2>3, <3>1
  <2> HIDE DEF e, x, o, y
  <2>8. [offset |-> e + x, sym |-> o + 1, addend |-> -y] \in R
    BY <2>7 DEF RelocationRecord
  <2>9. QED
    BY <2>6, <2>8
<1> HIDE DEF R
<1>3. ASSUME NEW i \in 1..n
      PROVE  of(i) \in Seq(R)
  <2>1. DOMAIN rels(i) = 1..Len(rels(i)) /\ Len(rels(i)) \in Nat
    BY <1>1, CodesFacts
  <2> HIDE DEF rels
  <2>2. QED
    BY <1>2, <2>1
<1>4. parts \in Seq(Seq(R)) /\ Len(parts) = n /\ \A i \in 1..n : parts[i] = of(i)
  <2> HIDE DEF v, n, of
  <2>1. QED
    BY <1>1, <1>3
<1>5. Relocations(p) = FlattenSeq(parts)
  BY DEF Relocations
<1> HIDE DEF parts
<1>6. PICK f : Chain(R, <<>>, parts, f) /\ FlattenSeq(parts) = f[Len(parts)]
  BY <1>4, Flattened
<1>7. n \in 0..n /\ f \in [0..n -> Seq(R)] /\ Relocations(p) = f[n]
  BY <1>1, <1>4, <1>5, <1>6 DEF Chain
<1>8. f[n] \in Seq(R) /\ DOMAIN f[n] = 1..Len(f[n]) /\ Len(f[n]) \in Nat
  BY <1>7, LenProperties
<1>9. ASSUME NEW i \in 1..n, NEW k \in DOMAIN rels(i)
      PROVE  \E m \in DOMAIN f[n] : f[n][m] = Relocation(p, i, rels(i)[k])
  <2> DEFINE g == rels(i)
  <2>1. DOMAIN g = 1..Len(g) /\ Len(g) \in Nat /\ k \in DOMAIN g
    BY <1>1, CodesFacts
  <2>2. of(i) = [j \in 1..Len(g) |-> Relocation(p, i, g[j])]
    BY <2>1
  <2> HIDE DEF g, of
  <2>3. Len(of(i)) = Len(g) /\ of(i)[k] = Relocation(p, i, g[k])
    BY <2>1, <2>2
  <2>4. parts[i] = of(i) /\ i \in 1..Len(parts) /\ k \in 1..Len(parts[i]) /\ parts \in Seq(Seq(R))
    BY <1>4, <2>1, <2>3
  <2>5. \E m \in DOMAIN f[Len(parts)] : f[Len(parts)][m] = parts[i][k]
    BY ONLY <1>6, <2>4, PartInChain
  <2>6. QED
    BY <1>4, <2>3, <2>4, <2>5 DEF g
<1>10. QED
  BY <1>1, <1>7, <1>8, <1>9 DEF Relocated, R

-----------------------------------------------------------------------------
(* The symbols of a program. *)

SymbolRecord == [name : Nat, shndx : Nat, value : Nat]

\* Every entry but the first is that of a symbol, and its name is in the table.
EntryOf(p, k, e, table, text) ==
    /\ IsNameAt(table, e.name, p.symtab[k].name)
    /\ IF p.symtab[k].import THEN e.shndx = 0 /\ e.value = 0
       ELSE e.shndx = text /\ e.value = Entry(p, p.symtab[k].index + 1)

\* The entries of a program's symbols, their names being in the table.
Listed(p, entries, table, text) ==
    /\ entries \in Seq(SymbolRecord)
    /\ Len(entries) = Len(p.symtab) + 1
    /\ entries[1] = NullSymbol
    /\ \A k \in DOMAIN p.symtab : EntryOf(p, k, entries[k + 1], table, text)

\* What Symbols returns for a table of names.
SymbolsListed(p, strtab, text) ==
    /\ Symbols(p, strtab, text).strtab \in Seq(Letters)
    /\ Continues(Symbols(p, strtab, text).strtab, strtab)
    /\ Listed(p, Symbols(p, strtab, text).entries, Symbols(p, strtab, text).strtab, text)

\* Program::symtab becomes a section of symbols.
LEMMA SymbolsAreListed ==
    ASSUME NEW p, ProgramInv(p), NEW strtab \in Seq(Letters), NEW text \in Nat
    PROVE  SymbolsListed(p, strtab, text)
<1> DEFINE y == p.symtab
           n == Len(y)
           names == [k \in 1..n |-> y[k].name \o <<End>>]
           E(u, k) == IF k = 0 THEN strtab ELSE AddName(u[k - 1], y[k].name)
           table == CHOOSE u : u = [k \in 0..n |-> E(u, k)]
           entry(k) == IF y[k].import THEN [NullSymbol EXCEPT !.name = Len(table[k - 1])]
                       ELSE [name |-> Len(table[k - 1]), shndx |-> text, value |-> Entry(p, y[k].index + 1)]
           entries == [k \in DOMAIN y |-> entry(k)]
<1>1. /\ n \in Nat /\ DOMAIN y = 1..n
      /\ \A k \in 1..n : y[k].name \in Names /\ y[k].index \in Nat /\ y[k].import \in BOOLEAN
  BY ProgramFacts
<1>2. \A k \in 1..n : ~y[k].import => y[k].index + 1 \in DOMAIN p.fnv
  <2>1. \A k \in 1..n : ~y[k].import => y[k].index < Len(p.fnv)
    BY <1>1 DEF ProgramInv
  <2>2. Len(p.fnv) \in Nat /\ DOMAIN p.fnv = 1..Len(p.fnv)
    BY ProgramFacts
  <2>3. QED
    BY <1>1, <2>1, <2>2
<1>3. Symbols(p, strtab, text) = [entries |-> <<NullSymbol>> \o entries, strtab |-> table[n]]
  BY DEF Symbols
<1> HIDE DEF entries, table
<1>4. names \in Seq(Seq(Letters)) /\ Len(names) = n /\ \A k \in 1..n : names[k] = y[k].name \o <<End>>
  <2>1. \A k \in 1..n : y[k].name \o <<End>> \in Seq(Letters)
    <3>1. ASSUME NEW k \in 1..n
          PROVE  y[k].name \o <<End>> \in Seq(Letters)
      <4>1. y[k].name \in Seq(Letters)
        BY <1>1, NamesFacts
      <4>2. End \in Letters
        BY DEF Letters
      <4>3. <<End>> \in Seq(Letters)
        BY <4>2
      <4>4. QED
        BY <4>1, <4>3, ConcatProperties
    <3>2. QED
      BY <3>1
  <2> HIDE DEF y, n
  <2>2. QED
    BY <1>1, <2>1
<1> HIDE DEF names
<1>5. PICK f : Chain(Letters, strtab, names, f)
  BY <1>4, ChainExists
<1>6. /\ f \in [0..n -> Seq(Letters)] /\ f[0] = strtab
      /\ \A k \in 1..n : f[k] = f[k - 1] \o names[k]
      /\ \A m \in 0..n : \A k \in 0..m : Continues(f[m], f[k])
  BY <1>4, <1>5 DEF Chain
<1>7. ASSUME NEW k \in 1..n
      PROVE  /\ k - 1 \in 0..n /\ k \in 0..n /\ k # 0
             /\ f[k] = AddName(f[k - 1], y[k].name)
             /\ IsNameAt(f[k], Len(f[k - 1]), y[k].name)
             /\ Len(f[k - 1]) \in Nat
  <2>1. k - 1 \in 0..n /\ k \in 0..n /\ k # 0
    BY <1>1
  <2>2. f[k - 1] \in Seq(Letters) /\ y[k].name \in Names
    BY <1>1, <1>6, <2>1
  <2>3. f[k] = f[k - 1] \o (y[k].name \o <<End>>)
    BY <1>4, <1>6
  <2>4. QED
    BY <2>1, <2>2, <2>3, NameAdded, LenProperties
<1>8. f = [k \in 0..n |-> E(f, k)]
  <2>1. \A k \in 0..n : k = 0 \/ k \in 1..n
    BY <1>1
  <2>2. \A k \in 0..n : f[k] = E(f, k)
    BY <1>6, <1>7, <2>1
  <2> HIDE DEF E
  <2>3. QED
    BY <1>6, <2>2
<1>9. table = [k \in 0..n |-> E(table, k)]
  <2> HIDE DEF E
  <2>1. QED
    BY <1>8 DEF table
<1>10. \A k \in 0..n : table[k] = E(table, k)
  <2> HIDE DEF E
  <2>1. QED
    BY <1>9
<1> DEFINE T == {k \in 0..n : table[k] # f[k]}
<1>11. T = {}
  <2>1. SUFFICES ASSUME T # {} PROVE FALSE
    OBVIOUS
  <2>2. PICK m \in T : \A j \in T : m <= j
    <3>1. T \in SUBSET Nat
      OBVIOUS
    <3> HIDE DEF T
    <3>2. QED
      BY <2>1, <3>1, LeastNatural
  <2>3. m \in 0..n /\ table[m] # f[m]
    OBVIOUS
  <2>4. m # 0
    BY <1>6, <1>10, <2>3
  <2>5. m \in 1..n /\ m - 1 \in 0..n /\ m \in Nat
    BY <1>1, <2>3, <2>4
  <2>6. m - 1 \notin T
    <3> HIDE DEF T
    <3>1. QED
      BY <2>2, <2>5
  <2>7. table[m - 1] = f[m - 1]
    BY <2>5, <2>6
  <2>8. QED
    BY <1>7, <1>10, <2>3, <2>4, <2>5, <2>7
<1>12. \A k \in 0..n : table[k] = f[k]
  BY <1>11
<1> HIDE DEF T
<1>13. n \in 0..n /\ 0 \in 0..n
  BY <1>1
<1>14. Symbols(p, strtab, text).strtab = f[n] /\ f[n] \in Seq(Letters) /\ Continues(f[n], strtab)
  <2>1. Continues(f[n], f[0])
    BY <1>6, <1>13
  <2>2. Symbols(p, strtab, text).strtab = table[n]
    BY <1>3
  <2>3. table[n] = f[n] /\ f[n] \in Seq(Letters) /\ f[0] = strtab
    BY <1>6, <1>12, <1>13
  <2>4. QED
    BY <2>1, <2>2, <2>3
<1>15. ASSUME NEW k \in 1..n
       PROVE  entries[k] \in SymbolRecord /\ EntryOf(p, k, entries[k], f[n], text)
  <2> DEFINE l == Len(f[k - 1])
             v == Entry(p, y[k].index + 1)
  <2>1. table[k - 1] = f[k - 1] /\ l \in Nat
    BY <1>7, <1>12
  <2>2. entries[k] = entry(k)
    BY <1>1 DEF entries
  <2>3. IsNameAt(f[n], l, y[k].name)
    <3>1. Continues(f[n], f[k])
      BY <1>6, <1>7, <1>13
    <3>2. IsNameAt(f[k], l, y[k].name) /\ f[k] \in Seq(Letters) /\ f[n] \in Seq(Letters) /\ y[k].name \in Names
      BY <1>1, <1>6, <1>7, <1>13
    <3>3. QED
      BY <3>1, <3>2, NameKept
  <2>4. CASE y[k].import
    <3>1. entries[k] = [name |-> l, shndx |-> 0, value |-> 0]
      BY <2>1, <2>2, <2>4 DEF NullSymbol
    <3> HIDE DEF l
    <3>2. QED
      BY <2>1, <2>3, <2>4, <3>1 DEF EntryOf, SymbolRecord
  <2>5. CASE ~y[k].import
    <3>1. v \in Nat
      BY <1>2, <2>5, TextLaid DEF Laid
    <3>2. entries[k] = [name |-> l, shndx |-> text, value |-> v]
      BY <2>1, <2>2, <2>5
    <3> HIDE DEF l, v
    <3>3. entries[k] \in SymbolRecord
      BY <2>1, <3>1, <3>2 DEF SymbolRecord
    <3>4. QED
      BY <2>3, <2>5, <3>2, <3>3 DEF EntryOf, v
  <2>6. QED
    BY <2>4, <2>5
<1> DEFINE all == <<NullSymbol>> \o entries
<1>16. NullSymbol \in SymbolRecord
  BY DEF NullSymbol, SymbolRecord
<1>17. entries \in Seq(SymbolRecord) /\ Len(entries) = n
  <2>1. DOMAIN entries = 1..n /\ entries = [k \in 1..n |-> entries[k]]
    BY <1>1 DEF entries
  <2> HIDE DEF n
  <2>2. QED
    BY <1>1, <1>15, <2>1
<1>18. all \in Seq(SymbolRecord) /\ Len(all) = n + 1 /\ all[1] = NullSymbol
       /\ \A k \in 1..n : all[k + 1] = entries[k]
  <2> DEFINE one == <<NullSymbol>>
  <2>1. one \in Seq(SymbolRecord) /\ Len(one) = 1 /\ one[1] = NullSymbol
    BY <1>16
  <2> HIDE DEF one
  <2>2. /\ one \o entries \in Seq(SymbolRecord) /\ Len(one \o entries) = 1 + n
        /\ \A i \in 1..(1 + n) : (one \o entries)[i] = IF i <= 1 THEN one[i] ELSE entries[i - 1]
    BY <1>17, <2>1, ConcatProperties
  <2>3. all = one \o entries
    BY DEF one
  <2> HIDE DEF all, n
  <2>4. Len(all) = n + 1 /\ all[1] = NullSymbol
    BY <1>1, <2>1, <2>2, <2>3
  <2>5. \A k \in 1..n : k + 1 \in 1..(1 + n) /\ ~(k + 1 <= 1) /\ (k + 1) - 1 = k
    BY <1>1
  <2>6. \A k \in 1..n : all[k + 1] = entries[k]
    BY <2>2, <2>3, <2>5
  <2>7. QED
    BY <2>2, <2>3, <2>4, <2>6
<1>19. Symbols(p, strtab, text).entries = all
  BY <1>3
<1> HIDE DEF all
<1>20. Listed(p, all, f[n], text)
  BY <1>1, <1>15, <1>18 DEF Listed
<1>21. QED
  BY <1>14, <1>19, <1>20 DEF SymbolsListed

\* Symbols stay listed when the table of names goes on.
LEMMA ListedKept ==
    ASSUME NEW p, ProgramInv(p), NEW entries, NEW s \in Seq(Letters), NEW t \in Seq(Letters),
           Continues(t, s), NEW text, Listed(p, entries, s, text)
    PROVE  Listed(p, entries, t, text)
<1>1. ASSUME NEW k \in DOMAIN p.symtab
      PROVE  EntryOf(p, k, entries[k + 1], t, text)
  <2>1. p.symtab[k].name \in Names
    BY ProgramFacts
  <2>2. EntryOf(p, k, entries[k + 1], s, text)
    BY DEF Listed
  <2>3. IsNameAt(t, entries[k + 1].name, p.symtab[k].name)
    BY <2>1, <2>2, NameKept DEF EntryOf
  <2>4. QED
    BY <2>2, <2>3 DEF EntryOf
<1>2. QED
  BY <1>1 DEF Listed

-----------------------------------------------------------------------------
(* The object file. *)

Data == Seq(Nat \X Nat) \cup Seq(SymbolRecord) \cup Seq(RelocationRecord)

AnySection == [name : Nat, type : {"strtab", "progbits", "symtab", "rela"}, data : Data,
               entsize : Nat, link : Nat, info : Nat]

ElfFile == [sections : Seq(AnySection), shstrtab : Seq(Letters), strtab : Seq(Letters)]

\* The two tables of names come first.
ElfOK(e) ==
    /\ e \in ElfFile
    /\ Len(e.sections) >= 2
    /\ e.sections[1].type = "strtab"
    /\ e.sections[2].type = "strtab"
    /\ IsNameAt(e.shstrtab, e.sections[2].name, <<"strtab">>)
    /\ Len(e.strtab) > 0

\* Nothing is taken out of a file, or moved.
Grows(q, e) ==
    /\ Continues(q.sections, e.sections)
    /\ Continues(q.shstrtab, e.shstrtab)
    /\ Continues(q.strtab, e.strtab)

\* q is e with one section more.
AddedTo(q, e, name, type, data, entsize, link, info) ==
    /\ q \in ElfFile
    /\ Grows(q, e)
    /\ q.strtab = e.strtab
    /\ Len(q.sections) = Len(e.sections) + 1
    /\ q.sections[Len(e.sections) + 1] = Section(Len(e.shstrtab), type, data, entsize, link, info)
    /\ IsNameAt(q.shstrtab, Len(e.shstrtab), name)

\* The parts of a file.
LEMMA ElfFacts ==
    ASSUME NEW e \in ElfFile
    PROVE  /\ e.sections \in Seq(AnySection) /\ e.shstrtab \in Seq(Letters) /\ e.strtab \in Seq(Letters)
           /\ Len(e.sections) \in Nat /\ DOMAIN e.sections = 1..Len(e.sections)
           /\ Len(e.shstrtab) \in Nat /\ Len(e.strtab) \in Nat
           /\ \A k \in DOMAIN e.sections : e.sections[k] \in AnySection
<1>1. e.sections \in Seq(AnySection) /\ e.shstrtab \in Seq(Letters) /\ e.strtab \in Seq(Letters)
  BY DEF ElfFile
<1>2. QED
  BY <1>1, LenProperties, ElementOfSeq

\* The names of sections.
LEMMA SectionNames ==
    /\ <<"shstrtab">> \in Names /\ <<"strtab">> \in Names /\ <<"text">> \in Names
    /\ <<"symtab">> \in Names /\ <<"rela", "text">> \in Names
<1> DEFINE S == (Letter \cup SectionLetters) \ {End}
<1>1. "shstrtab" \in S /\ "strtab" \in S /\ "text" \in S /\ "symtab" \in S /\ "rela" \in S
  BY DEF SectionLetters, End
<1> HIDE DEF S
<1>2. <<"shstrtab">> \in Seq(S) /\ <<"strtab">> \in Seq(S) /\ <<"text">> \in Seq(S) /\ <<"symtab">> \in Seq(S)
  BY <1>1
<1>3. <<"rela", "text">> \in Seq(S)
  BY <1>1
<1>4. QED
  BY <1>2, <1>3 DEF Names, S

\* Elf::add_section.
LEMMA SectionAdded ==
    ASSUME NEW e \in ElfFile, NEW name \in Names,
           NEW type \in {"strtab", "progbits", "symtab", "rela"}, NEW data \in Data,
           NEW entsize \in Nat, NEW link \in Nat, NEW info \in Nat
    PROVE  AddedTo(add_section(e, name, type, data, entsize, link, info),
                   e, name, type, data, entsize, link, info)
<1> DEFINE s == Section(Len(e.shstrtab), type, data, entsize, link, info)
           q == add_section(e, name, type, data, entsize, link, info)
           l == e.sections
           t == e.shstrtab
           u == AddName(t, name)
<1>1. /\ l \in Seq(AnySection) /\ t \in Seq(Letters) /\ e.strtab \in Seq(Letters)
      /\ Len(l) \in Nat /\ Len(t) \in Nat
      /\ e = [sections |-> l, shstrtab |-> t, strtab |-> e.strtab]
  BY ElfFacts DEF ElfFile
<1>2. s \in AnySection
  BY <1>1 DEF Section, AnySection
<1>3. u \in Seq(Letters) /\ Continues(u, t) /\ IsNameAt(u, Len(t), name)
  BY <1>1, NameAdded
<1>4. q = [e EXCEPT !.sections = Append(l, s), !.shstrtab = u]
  BY DEF add_section
<1> HIDE DEF q, s, l, t, u
<1>5. q = [sections |-> Append(l, s), shstrtab |-> u, strtab |-> e.strtab]
  BY <1>1, <1>4
<1>6. /\ Append(l, s) \in Seq(AnySection) /\ Len(Append(l, s)) = Len(l) + 1
      /\ Append(l, s)[Len(l) + 1] = s
      /\ \A i \in 1..Len(l) : Append(l, s)[i] = l[i]
  BY <1>1, <1>2, AppendProperties
<1>7. Continues(Append(l, s), l)
  BY <1>1, <1>6 DEF Continues
<1>8. Continues(e.strtab, e.strtab)
  BY <1>1, ContinuesFacts
<1>9. q.sections = Append(l, s) /\ q.shstrtab = u /\ q.strtab = e.strtab
  BY <1>5
<1>10. q \in ElfFile
  BY <1>1, <1>3, <1>5, <1>6 DEF ElfFile
<1>11. Grows(q, e)
  BY <1>3, <1>7, <1>8, <1>9 DEF Grows, l, t
<1>12. QED
  BY <1>3, <1>6, <1>9, <1>10, <1>11 DEF AddedTo, q, s, l, t

\* A file that grows twice, and one that stays as it is.
LEMMA GrowsFacts ==
    ASSUME NEW e \in ElfFile
    PROVE  /\ Grows(e, e)
           /\ \A q \in ElfFile, r \in ElfFile : Grows(q, e) /\ Grows(r, q) => Grows(r, e)
<1>1. Grows(e, e)
  BY ElfFacts DEF Grows, Continues
<1>2. ASSUME NEW q \in ElfFile, NEW r \in ElfFile, Grows(q, e), Grows(r, q)
      PROVE  Grows(r, e)
  <2>1. ASSUME NEW a, NEW b, NEW c, Len(a) \in Nat, Len(b) \in Nat, Len(c) \in Nat,
               Continues(b, a), Continues(c, b)
        PROVE  Continues(c, a)
    <3>1. Len(a) <= Len(b) /\ Len(b) <= Len(c)
      BY <2>1 DEF Continues
    <3>2. \A i \in 1..Len(a) : i \in 1..Len(b)
      BY <2>1, <3>1
    <3>3. \A i \in 1..Len(a) : c[i] = a[i]
      BY <2>1, <3>2 DEF Continues
    <3>4. QED
      BY <2>1, <3>1, <3>3 DEF Continues
  <2>2. /\ Len(e.sections) \in Nat /\ Len(e.shstrtab) \in Nat /\ Len(e.strtab) \in Nat
        /\ Len(q.sections) \in Nat /\ Len(q.shstrtab) \in Nat /\ Len(q.strtab) \in Nat
        /\ Len(r.sections) \in Nat /\ Len(r.shstrtab) \in Nat /\ Len(r.strtab) \in Nat
    BY ElfFacts
  <2>3. Continues(r.sections, e.sections)
    BY <1>2, <2>1, <2>2 DEF Grows
  <2>4. Continues(r.shstrtab, e.shstrtab)
    BY <1>2, <2>1, <2>2 DEF Grows
  <2>5. Continues(r.strtab, e.strtab)
    BY <1>2, <2>1, <2>2 DEF Grows
  <2>6. QED
    BY <2>3, <2>4, <2>5 DEF Grows
<1>3. QED
  BY <1>1, <1>2

\* A section of the name.
Named(e, k, name) == IsNameAt(e.shstrtab, e.sections[k].name, name)

TextAt(e, k, p) ==
    /\ k \in 3..Len(e.sections)
    /\ e.sections[k].type = "progbits"
    /\ Named(e, k, <<"text">>)
    /\ e.sections[k].data = Text(p)
    /\ e.sections[k].entsize = 1

SymbolsAt(e, k, p) ==
    /\ k \in 3..Len(e.sections)
    /\ e.sections[k].type = "symtab"
    /\ Named(e, k, <<"symtab">>)
    /\ e.sections[k].link = 2
    /\ Listed(p, e.sections[k].data, e.strtab, k - 1)

RelocationsAt(e, k, p) ==
    /\ k \in 3..Len(e.sections)
    /\ e.sections[k].type = "rela"
    /\ Named(e, k, <<"rela", "text">>)
    /\ e.sections[k].link = k - 1
    /\ e.sections[k].info = k - 2
    /\ e.sections[k].data = Relocations(p)

\* What add_text has put into the file.
PlacedAt(e, c) ==
    /\ ProgramInv(c.prog)
    /\ c.text \in Nat
    /\ TextAt(e, c.text, c.prog)
    /\ SymbolsAt(e, c.text + 1, c.prog)
    /\ ~c.thrown => Complete(c.prog) /\ RelocationsAt(e, c.text + 2, c.prog)

SectionOf(c, k) == k = c.text \/ k = c.text + 1 \/ (~c.thrown /\ k = c.text + 2)

\* Every call of add_text has its sections, and every section a call.
ElfInv(e, calls) ==
    /\ ElfOK(e)
    /\ \A c \in calls : PlacedAt(e, c)
    /\ \A k \in 3..Len(e.sections) : \E c \in calls : SectionOf(c, k)

\* What is in a file stays there when it grows.
LEMMA SectionKept ==
    ASSUME NEW e \in ElfFile, NEW q \in ElfFile, Grows(q, e), NEW k \in DOMAIN e.sections
    PROVE  /\ k \in DOMAIN q.sections /\ q.sections[k] = e.sections[k]
           /\ \A name \in Names : Named(e, k, name) => Named(q, k, name)
<1>1. /\ Len(e.sections) \in Nat /\ Len(q.sections) \in Nat /\ Len(e.sections) <= Len(q.sections)
      /\ DOMAIN e.sections = 1..Len(e.sections) /\ DOMAIN q.sections = 1..Len(q.sections)
      /\ \A i \in 1..Len(e.sections) : q.sections[i] = e.sections[i]
  BY ElfFacts DEF Grows, Continues
<1>2. k \in DOMAIN q.sections /\ q.sections[k] = e.sections[k]
  BY <1>1
<1>3. ASSUME NEW name \in Names, Named(e, k, name)
      PROVE  Named(q, k, name)
  <2> DEFINE at == e.sections[k].name
  <2>1. IsNameAt(e.shstrtab, at, name) /\ Continues(q.shstrtab, e.shstrtab)
        /\ e.shstrtab \in Seq(Letters) /\ q.shstrtab \in Seq(Letters)
    BY <1>3, ElfFacts DEF Named, Grows
  <2> HIDE DEF at
  <2>2. IsNameAt(q.shstrtab, at, name)
    BY <2>1, NameKept
  <2>3. QED
    BY <1>2, <2>2 DEF Named, at
<1>4. QED
  BY <1>2, <1>3

\* The sections of a program stay.
LEMMA PlacedKept ==
    ASSUME NEW e \in ElfFile, NEW q \in ElfFile, Grows(q, e), NEW c, PlacedAt(e, c)
    PROVE  PlacedAt(q, c)
<1> DEFINE t == c.text
           p == c.prog
<1>1. t \in Nat /\ TextAt(e, t, p) /\ SymbolsAt(e, t + 1, p) /\ ProgramInv(p)
      /\ (~c.thrown => Complete(p) /\ RelocationsAt(e, t + 2, p))
  BY DEF PlacedAt
<1> HIDE DEF t, p
<1>2. DOMAIN e.sections = 1..Len(e.sections) /\ DOMAIN q.sections = 1..Len(q.sections)
      /\ Len(e.sections) \in Nat /\ Len(q.sections) \in Nat /\ Len(e.sections) <= Len(q.sections)
  BY ElfFacts DEF Grows, Continues
<1>3. ASSUME NEW k \in 3..Len(e.sections)
      PROVE  k \in DOMAIN e.sections /\ k \in 3..Len(q.sections)
  BY <1>2
<1>4. TextAt(q, t, p)
  <2>1. t \in 3..Len(e.sections)
    BY <1>1 DEF TextAt
  <2>2. t \in 3..Len(q.sections) /\ q.sections[t] = e.sections[t] /\ Named(q, t, <<"text">>)
    BY <1>1, <1>3, <2>1, SectionKept, SectionNames DEF TextAt
  <2>3. QED
    BY <1>1, <2>2 DEF TextAt
<1>5. SymbolsAt(q, t + 1, p)
  <2> DEFINE k == t + 1
  <2>1. k \in 3..Len(e.sections)
    BY <1>1 DEF SymbolsAt
  <2> HIDE DEF k
  <2>2. k \in 3..Len(q.sections) /\ q.sections[k] = e.sections[k] /\ Named(q, k, <<"symtab">>)
    BY <1>1, <1>3, <2>1, SectionKept, SectionNames DEF SymbolsAt, k
  <2>3. Continues(q.strtab, e.strtab) /\ e.strtab \in Seq(Letters) /\ q.strtab \in Seq(Letters)
    BY ElfFacts DEF Grows
  <2>4. Listed(p, e.sections[k].data, e.strtab, k - 1)
    BY <1>1 DEF SymbolsAt, k
  <2>5. Listed(p, e.sections[k].data, q.strtab, k - 1)
    BY <1>1, <2>3, <2>4, ListedKept
  <2>6. QED
    BY <1>1, <2>2, <2>5 DEF SymbolsAt, k
<1>6. ASSUME ~c.thrown
      PROVE  RelocationsAt(q, t + 2, p)
  <2> DEFINE k == t + 2
  <2>1. k \in 3..Len(e.sections)
    BY <1>1, <1>6 DEF RelocationsAt
  <2> HIDE DEF k
  <2>2. k \in 3..Len(q.sections) /\ q.sections[k] = e.sections[k] /\ Named(q, k, <<"rela", "text">>)
    BY <1>1, <1>3, <1>6, <2>1, SectionKept, SectionNames DEF RelocationsAt, k
  <2>3. QED
    BY <1>1, <1>6, <2>2 DEF RelocationsAt, k
<1>7. QED
  BY <1>1, <1>4, <1>5, <1>6 DEF PlacedAt, t, p

\* A file with its two tables keeps them.
LEMMA GrownIsOK ==
    ASSUME NEW e, ElfOK(e), NEW q \in ElfFile, Grows(q, e)
    PROVE  ElfOK(q)
<1>1. e \in ElfFile
  BY DEF ElfOK
<1>2. DOMAIN e.sections = 1..Len(e.sections) /\ Len(e.sections) \in Nat /\ Len(q.sections) \in Nat
      /\ Len(e.sections) <= Len(q.sections) /\ Len(e.strtab) <= Len(q.strtab)
      /\ Len(e.strtab) \in Nat /\ Len(q.strtab) \in Nat
  BY <1>1, ElfFacts DEF Grows, Continues
<1>3. Len(e.sections) >= 2 /\ Len(e.strtab) > 0
  BY DEF ElfOK
<1>4. 1 \in DOMAIN e.sections /\ 2 \in DOMAIN e.sections
  BY <1>2, <1>3
<1>5. q.sections[1] = e.sections[1] /\ q.sections[2] = e.sections[2]
  BY <1>1, <1>4, SectionKept
<1>6. Named(q, 2, <<"strtab">>)
  <2>1. Named(e, 2, <<"strtab">>)
    BY DEF ElfOK, Named
  <2>2. QED
    BY <1>1, <1>4, <2>1, SectionKept, SectionNames
<1>7. Len(q.sections) >= 2 /\ Len(q.strtab) > 0
  BY <1>2, <1>3
<1>8. QED
  BY <1>5, <1>6, <1>7 DEF ElfOK, Named

\* The last section of a file to which it was added.
LEMMA LastAdded ==
    ASSUME NEW e, ElfOK(e), NEW q, NEW name, NEW type, NEW data, NEW entsize, NEW link, NEW info,
           AddedTo(q, e, name, type, data, entsize, link, info)
    PROVE  /\ ElfOK(q) /\ q \in ElfFile /\ Grows(q, e) /\ e \in ElfFile
           /\ Len(e.sections) + 1 \in 3..Len(q.sections)
           /\ Len(q.sections) = Len(e.sections) + 1 /\ Len(e.sections) \in Nat
           /\ Named(q, Len(e.sections) + 1, name)
           /\ q.sections[Len(e.sections) + 1].type = type
           /\ q.sections[Len(e.sections) + 1].data = data
           /\ q.sections[Len(e.sections) + 1].entsize = entsize
           /\ q.sections[Len(e.sections) + 1].link = link
           /\ q.sections[Len(e.sections) + 1].info = info
<1> DEFINE k == Len(e.sections) + 1
           s == q.sections[k]
<1>1. /\ q \in ElfFile /\ Grows(q, e) /\ Len(q.sections) = k
      /\ s = Section(Len(e.shstrtab), type, data, entsize, link, info)
      /\ IsNameAt(q.shstrtab, Len(e.shstrtab), name)
  BY DEF AddedTo
<1>2. ElfOK(q) /\ e \in ElfFile /\ Len(e.sections) >= 2
  BY <1>1, GrownIsOK DEF ElfOK
<1>3. Len(e.sections) \in Nat
  BY <1>2, ElfFacts
<1>4. k \in 3..k
  BY <1>2, <1>3
<1>5. Named(q, k, name)
  <2>1. s.name = Len(e.shstrtab)
    BY <1>1 DEF Section
  <2>2. QED
    BY <1>1, <2>1 DEF Named
<1>6. s.type = type /\ s.data = data /\ s.entsize = entsize /\ s.link = link /\ s.info = info
  BY <1>1 DEF Section
<1>7. QED
  BY <1>1, <1>2, <1>3, <1>4, <1>5, <1>6

\* add_text adds the text and the symbols of a program.
LEMMA TextAndSymbols ==
    ASSUME NEW e, ElfOK(e), NEW p, ProgramInv(p)
    PROVE  LET s == WithSymbols(WithText(e, p), p) IN
           /\ ElfOK(s) /\ Grows(s, e)
           /\ Len(s.sections) = Len(e.sections) + 2
           /\ TextAt(s, Len(e.sections) + 1, p)
           /\ SymbolsAt(s, Len(e.sections) + 2, p)
<1> DEFINE a == WithText(e, p)
           l == Len(e.sections)
           y == Symbols(p, a.strtab, Len(a.sections))
           b == [a EXCEPT !.strtab = y.strtab]
           s == WithSymbols(a, p)
<1>1. e \in ElfFile /\ l \in Nat
  BY ElfFacts DEF ElfOK
<1>2. AddedTo(a, e, <<"text">>, "progbits", Text(p), 1, 0, 0)
  <2>1. Text(p) \in Data
    BY TextLaid DEF Laid, Data
  <2>2. QED
    BY <1>1, <2>1, SectionNames, SectionAdded DEF WithText
<1> HIDE DEF a
<1>3. /\ ElfOK(a) /\ a \in ElfFile /\ Grows(a, e) /\ Len(a.sections) = l + 1
      /\ l + 1 \in 3..Len(a.sections)
      /\ Named(a, l + 1, <<"text">>)
      /\ a.sections[l + 1].type = "progbits" /\ a.sections[l + 1].data = Text(p)
      /\ a.sections[l + 1].entsize = 1
  BY <1>2, LastAdded
<1>4. TextAt(a, l + 1, p)
  BY <1>3 DEF TextAt
<1>5. /\ a.sections \in Seq(AnySection) /\ a.shstrtab \in Seq(Letters) /\ a.strtab \in Seq(Letters)
      /\ Len(a.sections) = l + 1 /\ Len(a.sections) \in Nat
      /\ a = [sections |-> a.sections, shstrtab |-> a.shstrtab, strtab |-> a.strtab]
  BY <1>3, ElfFacts DEF ElfFile
<1>6. SymbolsListed(p, a.strtab, Len(a.sections))
  BY <1>5, SymbolsAreListed
<1>7. /\ y.strtab \in Seq(Letters) /\ Continues(y.strtab, a.strtab)
      /\ Listed(p, y.entries, y.strtab, l + 1)
  BY <1>5, <1>6 DEF SymbolsListed
<1>8. s = add_section(b, <<"symtab">>, "symtab", y.entries, 24, 2, 1)
  BY DEF WithSymbols
<1> HIDE DEF y, s
<1>9. b = [sections |-> a.sections, shstrtab |-> a.shstrtab, strtab |-> y.strtab]
  BY <1>5
<1> HIDE DEF b
<1>10. b \in ElfFile /\ b.strtab = y.strtab /\ Len(b.sections) = l + 1
  BY <1>5, <1>7, <1>9 DEF ElfFile
<1>11. Grows(b, a)
  BY <1>5, <1>7, <1>9, ContinuesFacts DEF Grows
<1>12. ElfOK(b)
  BY <1>3, <1>10, <1>11, GrownIsOK
<1>13. AddedTo(s, b, <<"symtab">>, "symtab", y.entries, 24, 2, 1)
  <2>1. y.entries \in Data
    BY <1>7 DEF Listed, Data
  <2>2. QED
    BY <1>8, <1>10, <2>1, SectionNames, SectionAdded
<1>14. /\ ElfOK(s) /\ s \in ElfFile /\ Grows(s, b) /\ s.strtab = b.strtab
       /\ Len(s.sections) = l + 2 /\ l + 2 \in 3..Len(s.sections)
       /\ Named(s, l + 2, <<"symtab">>)
       /\ s.sections[l + 2].type = "symtab" /\ s.sections[l + 2].data = y.entries
       /\ s.sections[l + 2].link = 2
  <2>1. s.strtab = b.strtab
    BY <1>13 DEF AddedTo
  <2>2. (l + 1) + 1 = l + 2
    BY <1>1
  <2> DEFINE m == Len(b.sections)
  <2>3. /\ ElfOK(s) /\ s \in ElfFile /\ Grows(s, b)
        /\ m + 1 \in 3..Len(s.sections) /\ Len(s.sections) = m + 1
        /\ Named(s, m + 1, <<"symtab">>)
        /\ s.sections[m + 1].type = "symtab" /\ s.sections[m + 1].data = y.entries
        /\ s.sections[m + 1].link = 2
    BY <1>12, <1>13, LastAdded
  <2>4. m + 1 = l + 2
    BY <1>10, <2>2
  <2> HIDE DEF m
  <2>5. QED
    BY <2>1, <2>3, <2>4
<1>15. SymbolsAt(s, l + 2, p)
  <2>1. (l + 2) - 1 = l + 1
    BY <1>1
  <2>2. Listed(p, s.sections[l + 2].data, s.strtab, l + 1)
    BY <1>7, <1>10, <1>14
  <2>3. QED
    BY <1>14, <2>1, <2>2 DEF SymbolsAt
<1>16. Grows(s, a) /\ Grows(s, e)
  BY <1>1, <1>3, <1>10, <1>11, <1>14, GrowsFacts
<1>17. TextAt(s, l + 1, p)
  <2> DEFINE k == l + 1
  <2>1. k \in 3..Len(a.sections) /\ k \in DOMAIN a.sections /\ k \in 3..Len(s.sections)
    BY <1>1, <1>3, <1>5, <1>14
  <2> HIDE DEF k
  <2>2. s.sections[k] = a.sections[k] /\ Named(s, k, <<"text">>)
    BY <1>3, <1>14, <1>16, <2>1, SectionKept, SectionNames DEF k
  <2>3. QED
    BY <1>4, <2>1, <2>2 DEF TextAt, k
<1>18. QED
  BY <1>14, <1>15, <1>16, <1>17 DEF s, a

\* add_text, whether it throws or not.
LEMMA AddTextPlaces ==
    ASSUME NEW e, ElfOK(e), NEW p, ProgramInv(p), NEW c,
           c.prog = p, c.text = Len(e.sections) + 1, c.thrown = ~Complete(p)
    PROVE  LET q == add_text(e, p) IN
           /\ ElfOK(q) /\ Grows(q, e) /\ PlacedAt(q, c)
           /\ \A k \in (Len(e.sections) + 1)..Len(q.sections) : SectionOf(c, k)
<1> DEFINE l == Len(e.sections)
           s == WithSymbols(WithText(e, p), p)
           q == add_text(e, p)
<1>1. e \in ElfFile /\ l \in Nat
  BY ElfFacts DEF ElfOK
<1>2. /\ ElfOK(s) /\ Grows(s, e) /\ Len(s.sections) = l + 2
      /\ TextAt(s, l + 1, p) /\ SymbolsAt(s, l + 2, p)
  BY TextAndSymbols
<1>3. q = IF Complete(p) THEN WithRelocations(s, p) ELSE s
  BY DEF add_text
<1> HIDE DEF q, s
<1>4. s \in ElfFile /\ (l + 1) + 1 = l + 2 /\ (l + 1) + 2 = l + 3 /\ l + 1 \in Nat
  BY <1>1, <1>2 DEF ElfOK
<1>5. CASE ~Complete(p)
  <2>1. q = s /\ c.thrown
    BY <1>3, <1>5
  <2>2. PlacedAt(s, c)
    BY <1>2, <1>4, <2>1 DEF PlacedAt
  <2>3. ASSUME NEW k \in (l + 1)..(l + 2)
        PROVE  SectionOf(c, k)
    <3>1. k = l + 1 \/ k = l + 2
      BY <1>1
    <3>2. QED
      BY <1>4, <3>1 DEF SectionOf
  <2>4. QED
    BY <1>2, <2>1, <2>2, <2>3 DEF q
<1>6. CASE Complete(p)
  <2>1. q = add_section(s, <<"rela", "text">>, "rela", Relocations(p), 24, l + 2, l + 1)
    <3>1. (l + 2) - 1 = l + 1
      BY <1>1
    <3>2. QED
      BY <1>2, <1>3, <1>6, <3>1 DEF WithRelocations
  <2>2. Relocations(p) \in Data
    <3> DEFINE R == {r \in RelocationRecord : r.offset < Len(Text(p))}
    <3>1. Relocations(p) \in Seq(R)
      BY <1>6, RelocationsLaid DEF Relocated
    <3>2. \A r \in R : r \in RelocationRecord
      OBVIOUS
    <3> HIDE DEF R
    <3>3. Relocations(p) \in Seq(RelocationRecord)
      BY <3>1, <3>2
    <3>4. QED
      BY <3>3 DEF Data
  <2>3. AddedTo(q, s, <<"rela", "text">>, "rela", Relocations(p), 24, l + 2, l + 1)
    BY <1>1, <1>4, <2>1, <2>2, SectionNames, SectionAdded
  <2>4. /\ ElfOK(q) /\ q \in ElfFile /\ Grows(q, s)
        /\ Len(q.sections) = l + 3 /\ l + 3 \in 3..Len(q.sections)
        /\ Named(q, l + 3, <<"rela", "text">>)
        /\ q.sections[l + 3].type = "rela" /\ q.sections[l + 3].data = Relocations(p)
        /\ q.sections[l + 3].link = l + 2 /\ q.sections[l + 3].info = l + 1
    <3> DEFINE m == Len(s.sections)
    <3>1. /\ ElfOK(q) /\ q \in ElfFile /\ Grows(q, s)
          /\ m + 1 \in 3..Len(q.sections) /\ Len(q.sections) = m + 1
          /\ Named(q, m + 1, <<"rela", "text">>)
          /\ q.sections[m + 1].type = "rela" /\ q.sections[m + 1].data = Relocations(p)
          /\ q.sections[m + 1].link = l + 2 /\ q.sections[m + 1].info = l + 1
      BY <1>2, <2>3, LastAdded
    <3>2. m + 1 = l + 3
      BY <1>1, <1>2
    <3> HIDE DEF m
    <3>3. QED
      BY <3>1, <3>2
  <2>5. RelocationsAt(q, l + 3, p)
    <3>1. (l + 3) - 1 = l + 2 /\ (l + 3) - 2 = l + 1
      BY <1>1
    <3>2. QED
      BY <2>4, <3>1 DEF RelocationsAt
  <2>6. Grows(q, e)
    BY <1>1, <1>2, <1>4, <2>4, GrowsFacts
  <2> DEFINE d == [prog |-> p, text |-> l + 1, thrown |-> TRUE]
  <2>7. PlacedAt(s, d)
    <3>1. d.prog = p /\ d.text = l + 1 /\ d.thrown
      OBVIOUS
    <3> HIDE DEF d
    <3>2. QED
      BY <1>2, <1>4, <3>1 DEF PlacedAt
  <2>8. PlacedAt(q, d)
    BY <1>4, <2>4, <2>7, PlacedKept
  <2>9. TextAt(q, l + 1, p) /\ SymbolsAt(q, l + 2, p)
    BY <1>4, <2>8 DEF PlacedAt
  <2>10. PlacedAt(q, c)
    BY <1>4, <1>6, <2>5, <2>9 DEF PlacedAt
  <2>11. ASSUME NEW k \in (l + 1)..(l + 3)
         PROVE  SectionOf(c, k)
    <3>1. k = l + 1 \/ k = l + 2 \/ k = l + 3
      BY <1>1
    <3>2. QED
      BY <1>4, <1>6, <3>1 DEF SectionOf
  <2>12. QED
    BY <2>4, <2>6, <2>10, <2>11 DEF q
<1>7. QED
  BY <1>5, <1>6

\* What was in the file stays, and what is new is accounted for.
LEMMA AddTextInv ==
    ASSUME NEW e, NEW calls, ElfInv(e, calls), NEW p, ProgramInv(p), NEW c,
           c.prog = p, c.text = Len(e.sections) + 1, c.thrown = ~Complete(p)
    PROVE  ElfInv(add_text(e, p), calls \cup {c})
<1> DEFINE q == add_text(e, p)
           l == Len(e.sections)
<1>1. ElfOK(e) /\ (\A d \in calls : PlacedAt(e, d)) /\ \A k \in 3..l : \E d \in calls : SectionOf(d, k)
  BY DEF ElfInv
<1>2. /\ ElfOK(q) /\ Grows(q, e) /\ PlacedAt(q, c)
      /\ \A k \in (l + 1)..Len(q.sections) : SectionOf(c, k)
  BY <1>1, AddTextPlaces
<1> HIDE DEF q
<1>3. e \in ElfFile /\ q \in ElfFile
  BY <1>1, <1>2 DEF ElfOK
<1>4. l \in Nat /\ Len(q.sections) \in Nat
  BY <1>3, ElfFacts
<1>5. \A d \in calls : PlacedAt(q, d)
  BY <1>1, <1>2, <1>3, PlacedKept
<1>6. ASSUME NEW k \in 3..Len(q.sections)
      PROVE  \E d \in calls \cup {c} : SectionOf(d, k)
  <2>1. k \in 3..l \/ k \in (l + 1)..Len(q.sections)
    BY <1>4
  <2>2. QED
    BY <1>1, <1>2, <2>1
<1>7. QED
  BY <1>2, <1>5, <1>6 DEF ElfInv, q

\* The file begins with its two tables of names.
LEMMA NoElfInv == ElfInv(NoElf, {})
<1> DEFINE empty == [sections |-> <<>>, shstrtab |-> <<End>>, strtab |-> <<End>>]
           one == add_section(empty, <<"shstrtab">>, "strtab", <<>>, 1, 0, 0)
           two == add_section(one, <<"strtab">>, "strtab", <<>>, 1, 0, 0)
<1>1. empty \in ElfFile /\ Len(empty.sections) = 0 /\ Len(empty.strtab) = 1
  <2>1. End \in Letters
    BY DEF Letters
  <2>2. <<End>> \in Seq(Letters) /\ Len(<<End>>) = 1
    BY <2>1
  <2>3. <<>> \in Seq(AnySection) /\ Len(<<>>) = 0
    OBVIOUS
  <2>4. empty \in ElfFile
    BY <2>2, <2>3 DEF ElfFile
  <2>5. QED
    BY <2>2, <2>3, <2>4
<1>2. <<>> \in Data
  BY DEF Data
<1> HIDE DEF empty
<1>3. AddedTo(one, empty, <<"shstrtab">>, "strtab", <<>>, 1, 0, 0)
  BY <1>1, <1>2, SectionNames, SectionAdded
<1> HIDE DEF one
<1>4. one \in ElfFile /\ Grows(one, empty) /\ one.strtab = empty.strtab /\ Len(one.sections) = 1
      /\ one.sections[1].type = "strtab"
  BY <1>1, <1>3 DEF AddedTo, Section
<1>5. AddedTo(two, one, <<"strtab">>, "strtab", <<>>, 1, 0, 0)
  BY <1>2, <1>4, SectionNames, SectionAdded
<1> HIDE DEF two
<1>6. two \in ElfFile /\ Grows(two, one) /\ two.strtab = one.strtab /\ Len(two.sections) = 2
      /\ two.sections[2] = Section(Len(one.shstrtab), "strtab", <<>>, 1, 0, 0)
      /\ IsNameAt(two.shstrtab, Len(one.shstrtab), <<"strtab">>)
  BY <1>4, <1>5 DEF AddedTo
<1>7. two.sections[2].type = "strtab" /\ two.sections[2].name = Len(one.shstrtab)
  BY <1>6 DEF Section
<1>8. two.sections[1] = one.sections[1]
  BY <1>4, <1>6 DEF Grows, Continues
<1>9. ElfOK(two)
  BY <1>1, <1>4, <1>6, <1>7, <1>8 DEF ElfOK
<1>10. NoElf = two
  BY DEF NoElf, two, one, empty
<1>11. ~\E k \in 3..2 : TRUE
  OBVIOUS
<1>12. ElfInv(two, {})
  BY <1>6, <1>9, <1>11 DEF ElfInv
<1>13. QED
  BY <1>10, <1>12

-----------------------------------------------------------------------------
(* What the properties say. *)

Calls == [prog : Program, text : Nat, thrown : BOOLEAN]

\* The program under construction, the file and its history.
ObjectInv ==
    /\ ProgramInv(prog)
    /\ texts \in Seq(Calls)
    /\ ElfInv(elf, ToSet(texts))

\* A relocation that was asked for is in the section, at its place in the text
\* and for the symbol of a function that has its id.
LEMMA RelocationArrives ==
    ASSUME NEW p, ProgramInv(p), Complete(p), NEW i \in DOMAIN p.fnv, NEW r \in ToSet(p.fnv[i].fn.rels)
    PROVE  \E entry \in ToSet(Relocations(p)), j \in DOMAIN p.fnv :
             /\ Text(p)[entry.offset + 1] = <<i, r.offset>>
             /\ entry.addend = -r.isize
             /\ p.fnv[j].fid = r.fni
             /\ entry.sym = j
<1>1. PICK k \in DOMAIN p.fnv[i].fn.rels : p.fnv[i].fn.rels[k] = r
  BY DEF ToSet
<1>2. PICK m \in DOMAIN Relocations(p) : Relocations(p)[m] = Relocation(p, i, r)
  BY <1>1, RelocationsLaid DEF Relocated
<1> DEFINE entry == Relocations(p)[m]
           o == p.function_order[r.fni]
           e == Entry(p, i)
           x == r.offset
           z == p.fnv[i].fn.size
<1>3. entry \in ToSet(Relocations(p))
  BY DEF ToSet
<1>4. entry.offset = e + x /\ entry.sym = o + 1 /\ entry.addend = -r.isize
  BY <1>2 DEF Relocation
<1>5. p.fnv[i].fn \in Codes \cup Stubs
  BY ProgramFacts
<1>6. x \in 0..(z - 1)
  BY <1>1, <1>5, CodesFacts
<1>7. Text(p)[e + x + 1] = <<i, x>>
  BY <1>6, TextLaid DEF Laid
<1>8. r.fni \in DOMAIN p.function_order
  BY DEF Complete
<1>9. o < Len(p.fnv) /\ p.fnv[o + 1].fid = r.fni /\ o \in Nat
  BY <1>8, ProgramFacts DEF ProgramInv
<1>10. o + 1 \in DOMAIN p.fnv
  <2>1. Len(p.fnv) \in Nat /\ DOMAIN p.fnv = 1..Len(p.fnv)
    BY ProgramFacts
  <2> HIDE DEF o
  <2>2. QED
    BY <1>9, <2>1
<1> HIDE DEF entry, o, e
<1>11. QED
  BY <1>3, <1>4, <1>7, <1>9, <1>10

\* The symbol of a function stands for it, when every function has a symbol.
LEMMA SymbolStandsFor ==
    ASSUME NEW c, ElfOK(elf), PlacedAt(elf, c), Len(c.prog.symtab) = Len(c.prog.fnv),
           NEW j \in DOMAIN c.prog.fnv
    PROVE  StandsFor(elf.sections[c.text + 1].data[j + 1], c.prog, j, c.text)
<1> DEFINE p == c.prog
           t == c.text
           f == p.fnv[j].fn
           s == p.symtab[j]
           sym == elf.sections[t + 1].data[j + 1]
<1>1. ProgramInv(p) /\ t \in Nat /\ TextAt(elf, t, p) /\ SymbolsAt(elf, t + 1, p)
  BY DEF PlacedAt
<1>2. j \in DOMAIN p.symtab /\ s.name \in Names /\ s.import \in BOOLEAN /\ s.index \in Nat
  BY <1>1, ProgramFacts
<1>3. SymbolFits(p, s, j)
  BY <1>1, <1>2 DEF ProgramInv
<1>4. (t + 1) - 1 = t
  BY <1>1
<1>5. Listed(p, elf.sections[t + 1].data, elf.strtab, t)
  BY <1>1, <1>4 DEF SymbolsAt
<1>6. EntryOf(p, j, sym, elf.strtab, t)
  BY <1>2, <1>5 DEF Listed
<1>7. elf.strtab \in Seq(Letters)
  BY ElfFacts DEF ElfOK
<1>8. NameAt(elf.strtab, sym.name) = f.cname
  <2>1. s.name = f.cname
    BY <1>3 DEF SymbolFits
  <2>2. IsNameAt(elf.strtab, sym.name, s.name)
    BY <1>6 DEF EntryOf
  <2>3. NameAt(elf.strtab, sym.name) = s.name
    BY <1>2, <1>7, <2>2, NameFound
  <2>4. QED
    BY <2>1, <2>3
<1>9. CASE f.size = 0
  <2>1. s.import
    <3>1. SUFFICES ASSUME ~s.import PROVE FALSE
      OBVIOUS
    <3>2. s.index + 1 = j
      <4>1. s.index = j - 1 /\ j \in Int
        BY <1>1, <1>3, <3>1, ProgramFacts DEF SymbolFits
      <4>2. QED
        BY <4>1
    <3>3. p.fnv[s.index + 1].fn.size > 0
      BY <1>1, <1>2, <3>1 DEF ProgramInv
    <3>4. f.size > 0
      BY <3>2, <3>3
    <3>5. QED
      BY <1>9, <3>4
  <2>2. sym.shndx = 0
    BY <1>6, <2>1 DEF EntryOf
  <2>3. QED
    BY <1>8, <1>9, <2>2 DEF StandsFor
<1>10. CASE f.size # 0
  <2>1. ~s.import /\ s.index = j - 1
    BY <1>3, <1>10 DEF SymbolFits
  <2>2. s.index + 1 = j
    <3>1. j \in Int
      BY <1>1, ProgramFacts
    <3>2. QED
      BY <2>1, <3>1
  <2>3. sym.shndx = t /\ sym.value = Entry(p, j)
    BY <1>6, <2>1, <2>2 DEF EntryOf
  <2>4. f.size \in Nat
    BY <1>1, ProgramFacts, CodesFacts
  <2>5. 0 \in 0..(f.size - 1)
    BY <1>10, <2>4
  <2>6. Text(p)[Entry(p, j) + 0 + 1] = <<j, 0>> /\ Entry(p, j) \in Nat
    BY <1>1, <2>5, TextLaid DEF Laid
  <2>7. Entry(p, j) + 0 + 1 = Entry(p, j) + 1
    BY <2>6
  <2>8. elf.sections[t].data[sym.value + 1] = <<j, 0>>
    BY <1>1, <2>3, <2>6, <2>7 DEF TextAt
  <2>9. QED
    BY <1>8, <1>10, <2>3, <2>8 DEF StandsFor
<1>11. QED
  BY <1>9, <1>10

\* The invariant gives that relocations resolve.
LEMMA ObjectResolves == ObjectInv => RelocationsResolve
<1> SUFFICES ASSUME ObjectInv,
                    NEW c \in ToSet(texts), ~c.thrown, Len(c.prog.symtab) = Len(c.prog.fnv),
                    NEW i \in DOMAIN c.prog.fnv, NEW r \in ToSet(c.prog.fnv[i].fn.rels)
             PROVE  \E entry \in ToSet(elf.sections[c.text + 2].data), j \in DOMAIN c.prog.fnv :
                      /\ elf.sections[c.text].data[entry.offset + 1] = <<i, r.offset>>
                      /\ entry.addend = -r.isize
                      /\ c.prog.fnv[j].fid = r.fni
                      /\ StandsFor(elf.sections[c.text + 1].data[entry.sym + 1], c.prog, j, c.text)
  BY DEF RelocationsResolve
<1> DEFINE p == c.prog
<1>1. ElfOK(elf) /\ PlacedAt(elf, c)
  BY DEF ObjectInv, ElfInv
<1>2. ProgramInv(p) /\ Complete(p)
  BY <1>1 DEF PlacedAt
<1>3. elf.sections[c.text + 2].data = Relocations(p) /\ elf.sections[c.text].data = Text(p)
  BY <1>1 DEF PlacedAt, TextAt, RelocationsAt
<1>4. PICK entry \in ToSet(Relocations(p)), j \in DOMAIN p.fnv :
             /\ Text(p)[entry.offset + 1] = <<i, r.offset>>
             /\ entry.addend = -r.isize
             /\ p.fnv[j].fid = r.fni
             /\ entry.sym = j
  BY <1>2, RelocationArrives
<1>5. StandsFor(elf.sections[c.text + 1].data[j + 1], p, j, c.text)
  BY <1>1, SymbolStandsFor
<1>6. QED
  BY <1>3, <1>4, <1>5

\* What encode lays out: the data of the sections, one after the other.
Encoded(e, o) ==
    /\ DOMAIN o.headers = DOMAIN e.sections
    /\ o.headers[1].section.data = e.shstrtab
    /\ o.headers[2].section.data = e.strtab
    /\ \A k \in DOMAIN e.sections :
        /\ o.headers[k].section.name = e.sections[k].name
        /\ o.headers[k].section.type = e.sections[k].type
        /\ k > 2 => o.headers[k].section = e.sections[k]
        /\ o.headers[k].size = Len(o.headers[k].section.data) * o.headers[k].section.entsize
        /\ o.headers[k].at >= HeaderSize
        /\ o.headers[k].at + o.headers[k].size <= o.shoff
        /\ \A l \in DOMAIN e.sections : k < l => o.headers[k].at + o.headers[k].size <= o.headers[l].at

\* Places that are each behind the one before.
LEMMA Offsets ==
    ASSUME NEW n \in Nat, NEW size \in [1..n -> Nat], NEW at,
           at = CHOOSE u : u = [k \in 1..(n + 1) |-> IF k = 1 THEN HeaderSize ELSE u[k - 1] + size[k - 1]]
    PROVE  /\ \A k \in 1..(n + 1) : at[k] \in Nat /\ at[k] >= HeaderSize
           /\ \A k \in 1..n : \A l \in 1..(n + 1) : k < l => at[k] + size[k] <= at[l]
<1> DEFINE E(u, k) == IF k = 1 THEN HeaderSize ELSE u[k - 1] + size[k - 1]
           step == [x \in (1..n) \X Nat |-> x[2] + size[x[1]]]
<1>1. step \in [(1..n) \X Nat -> Nat] /\ \A k \in 1..n, v \in Nat : step[<<k, v>>] = v + size[k]
  <2>1. \A k \in 1..n, v \in Nat : v + size[k] \in Nat
    <3>1. \A k \in 1..n : size[k] \in Nat
      OBVIOUS
    <3>2. QED
      BY <3>1
  <2>2. QED
    BY <2>1
<1> HIDE DEF step
<1>2. HeaderSize \in Nat
  BY DEF HeaderSize
<1>3. PICK f : Steps(Nat, HeaderSize, n, step, f)
  BY <1>1, <1>2, StepsExist
<1>4. /\ f \in [0..n -> Nat] /\ f[0] = HeaderSize
      /\ \A k \in 1..n : k - 1 \in 0..n /\ f[k - 1] \in Nat /\ f[k] = f[k - 1] + size[k] /\ size[k] \in Nat
  <2>1. /\ f \in [0..n -> Nat] /\ f[0] = HeaderSize
        /\ \A k \in 1..n : f[k] = step[<<k, f[k - 1]>>]
    BY <1>3 DEF Steps
  <2>2. \A k \in 1..n : k - 1 \in 0..n /\ size[k] \in Nat
    OBVIOUS
  <2>3. \A k \in 1..n : f[k - 1] \in Nat
    BY <2>1, <2>2
  <2>4. QED
    BY <1>1, <2>1, <2>2, <2>3
<1> DEFINE g == [k \in 1..(n + 1) |-> f[k - 1]]
<1>5. g = [k \in 1..(n + 1) |-> E(g, k)]
  <2>1. \A k \in 1..(n + 1) : k = 1 \/ k - 1 \in 1..n
    OBVIOUS
  <2>2. ASSUME NEW k \in 1..(n + 1)
        PROVE  g[k] = E(g, k)
    <3>1. CASE k = 1
      <4>1. k - 1 = 0
        BY <3>1
      <4>2. QED
        BY <1>4, <3>1, <4>1
    <3>2. CASE k - 1 \in 1..n
      <4> DEFINE j == k - 1
      <4>1. j \in 1..n /\ j \in 1..(n + 1) /\ k # 1 /\ g[k] = f[j]
        BY <3>2
      <4>2. g[j] = f[j - 1]
        BY <4>1
      <4> HIDE DEF j
      <4>3. f[j] = f[j - 1] + size[j]
        BY <1>4, <4>1
      <4> HIDE DEF g
      <4>4. g[k] = g[j] + size[j]
        BY <4>1, <4>2, <4>3
      <4>5. QED
        BY <4>1, <4>4 DEF j
    <3>3. QED
      BY <2>1, <3>1, <3>2
  <2> DEFINE h == [k \in 1..(n + 1) |-> E(g, k)]
  <2>3. h = [k \in 1..(n + 1) |-> h[k]] /\ g = [k \in 1..(n + 1) |-> g[k]] /\ \A k \in 1..(n + 1) : h[k] = E(g, k)
    OBVIOUS
  <2> HIDE DEF g, h, E
  <2>4. g = h
    BY <2>2, <2>3
  <2>5. QED
    BY <2>4 DEF h
<1> HIDE DEF g
<1>6. at = [k \in 1..(n + 1) |-> E(at, k)]
  <2> HIDE DEF E
  <2>1. at = CHOOSE u : u = [k \in 1..(n + 1) |-> E(u, k)]
    BY DEF E
  <2>2. QED
    BY <1>5, <2>1
<1>7. \A k \in 1..(n + 1) : at[k] = E(at, k)
  <2> HIDE DEF E
  <2>1. QED
    BY <1>6
<1> DEFINE T == {k \in 1..(n + 1) : ~(at[k] \in Nat /\ at[k] >= HeaderSize)}
<1>8. T = {}
  <2>1. SUFFICES ASSUME T # {} PROVE FALSE
    OBVIOUS
  <2>2. PICK m \in T : \A j \in T : m <= j
    <3>1. T \in SUBSET Nat
      OBVIOUS
    <3> HIDE DEF T
    <3>2. QED
      BY <2>1, <3>1, LeastNatural
  <2>3. m \in 1..(n + 1) /\ ~(at[m] \in Nat /\ at[m] >= HeaderSize)
    OBVIOUS
  <2>4. m # 1
    BY <1>2, <1>7, <2>3
  <2>5. m - 1 \in 1..(n + 1) /\ m - 1 \in 1..n /\ m \in Nat
    BY <2>3, <2>4
  <2>6. m - 1 \notin T
    <3> HIDE DEF T
    <3>1. QED
      BY <2>2, <2>5
  <2>7. at[m - 1] \in Nat /\ at[m - 1] >= HeaderSize
    BY <2>5, <2>6
  <2>8. at[m] = at[m - 1] + size[m - 1] /\ size[m - 1] \in Nat
    BY <1>7, <2>3, <2>4, <2>5
  <2>9. QED
    BY <1>2, <2>3, <2>7, <2>8
<1>9. \A k \in 1..(n + 1) : at[k] \in Nat /\ at[k] >= HeaderSize
  BY <1>8
<1> HIDE DEF T
<1>10. ASSUME NEW k \in 1..n
       PROVE  \A l \in 1..(n + 1) : k < l => at[k] + size[k] <= at[l]
  <2> DEFINE U == {l \in 1..(n + 1) : k < l /\ ~(at[k] + size[k] <= at[l])}
  <2>1. SUFFICES ASSUME U # {} PROVE FALSE
    OBVIOUS
  <2>2. PICK m \in U : \A j \in U : m <= j
    <3>1. U \in SUBSET Nat
      OBVIOUS
    <3> HIDE DEF U
    <3>2. QED
      BY <2>1, <3>1, LeastNatural
  <2>3. m \in 1..(n + 1) /\ k < m /\ ~(at[k] + size[k] <= at[m])
    OBVIOUS
  <2>4. m # 1 /\ m - 1 \in 1..(n + 1) /\ m - 1 \in 1..n /\ m \in Nat
    BY <2>3
  <2>5. at[m] = at[m - 1] + size[m - 1] /\ size[m - 1] \in Nat /\ at[m - 1] \in Nat /\ at[m] \in Nat
    BY <1>7, <1>9, <2>3, <2>4
  <2>6. k # m - 1
    BY <2>3, <2>5
  <2>7. k < m - 1
    BY <2>3, <2>6
  <2>8. m - 1 \notin U
    <3> HIDE DEF U
    <3>1. QED
      BY <2>2, <2>4
  <2>9. at[k] + size[k] <= at[m - 1]
    BY <2>4, <2>7, <2>8
  <2>10. at[k] \in Nat /\ size[k] \in Nat
    <3>1. k \in 1..(n + 1)
      OBVIOUS
    <3>2. QED
      BY <1>9, <3>1
  <2>11. QED
    BY <2>3, <2>5, <2>9, <2>10
<1>11. QED
  BY <1>9, <1>10

\* encode.
LEMMA EncodeFacts ==
    ASSUME NEW e, ElfOK(e)
    PROVE  Encoded(e, encode(e))
<1> DEFINE l == e.sections
           one == [l EXCEPT ![1] = [l[1] EXCEPT !.data = e.shstrtab]]
           s == [one EXCEPT ![2] = [one[2] EXCEPT !.data = e.strtab]]
           n == Len(s)
           size(x) == Len(x.data) * x.entsize
           sizes == [k \in 1..n |-> size(s[k])]
           at == CHOOSE u : u = [k \in 1..(n + 1) |-> IF k = 1 THEN HeaderSize ELSE u[k - 1] + size(s[k - 1])]
           h == [k \in DOMAIN s |-> [section |-> s[k], at |-> at[k], size |-> size(s[k])]]
<1>1. /\ l \in Seq(AnySection) /\ Len(l) \in Nat /\ DOMAIN l = 1..Len(l) /\ Len(l) >= 2
      /\ e.shstrtab \in Seq(Letters) /\ e.strtab \in Seq(Letters)
      /\ \A k \in 1..Len(l) : l[k] \in AnySection
  BY ElfFacts DEF ElfOK
<1>2. ASSUME NEW x \in AnySection
      PROVE  /\ x.data \in Data /\ x.entsize \in Nat
             /\ \A d : /\ [x EXCEPT !.data = d].data = d
                       /\ [x EXCEPT !.data = d].entsize = x.entsize
                       /\ [x EXCEPT !.data = d].name = x.name
                       /\ [x EXCEPT !.data = d].type = x.type
  BY DEF AnySection
<1>3. \A d \in Data : Len(d) \in Nat
  BY LenProperties DEF Data
<1>4. encode(e) = [headers |-> h, shoff |-> at[n + 1]]
  BY DEF encode
<1> DEFINE x1 == [l[1] EXCEPT !.data = e.shstrtab]
           x2 == [l[2] EXCEPT !.data = e.strtab]
<1>5. /\ DOMAIN s = 1..Len(l) /\ s[1] = x1 /\ s[2] = x2 /\ \A k \in 1..Len(l) : k > 2 => s[k] = l[k]
  <2>1. 1 \in 1..Len(l) /\ 2 \in 1..Len(l)
    BY <1>1
  <2>2. one[2] = l[2]
    BY <1>1, <2>1
  <2>3. s = [one EXCEPT ![2] = x2] /\ one = [l EXCEPT ![1] = x1]
    BY <2>2
  <2> HIDE DEF x1, x2, one, s, l
  <2>4. QED
    BY <1>1, <2>1, <2>3
<1>6. n = Len(l)
  <2>1. s = [k \in 1..Len(l) |-> s[k]]
    <3> HIDE DEF l, x1, x2
    <3>1. QED
      BY <1>1, <1>5
  <2> HIDE DEF s, l
  <2>2. s \in Seq({s[k] : k \in 1..Len(l)})
    BY <1>1, <2>1
  <2>3. DOMAIN s = 1..Len(s) /\ Len(s) \in Nat
    BY <2>2, LenProperties
  <2>4. QED
    BY <1>1, <1>5, <2>3
<1>7. ASSUME NEW k \in 1..Len(l)
      PROVE  /\ s[k].name = l[k].name /\ s[k].type = l[k].type
             /\ Len(s[k].data) \in Nat /\ s[k].entsize \in Nat
  <2>1. l[k] \in AnySection
    BY <1>1
  <2>2. CASE k = 1
    <3>1. s[k] = [l[k] EXCEPT !.data = e.shstrtab]
      BY <1>5, <2>2
    <3> HIDE DEF s, l
    <3>2. QED
      BY <1>1, <1>2, <2>1, <3>1, LenProperties
  <2>3. CASE k = 2
    <3>1. s[k] = [l[k] EXCEPT !.data = e.strtab]
      BY <1>5, <2>3
    <3> HIDE DEF s, l
    <3>2. QED
      BY <1>1, <1>2, <2>1, <3>1, LenProperties
  <2>4. CASE k > 2
    <3>1. s[k] = l[k]
      BY <1>5, <2>4
    <3> HIDE DEF s, l
    <3>2. QED
      BY <1>2, <1>3, <2>1, <3>1
  <2>5. QED
    BY <1>1, <2>2, <2>3, <2>4
<1>8. s[1].data = e.shstrtab /\ s[2].data = e.strtab
  <2>1. 1 \in 1..Len(l) /\ 2 \in 1..Len(l)
    BY <1>1
  <2>2. l[1] \in AnySection /\ l[2] \in AnySection
    BY <1>1, <2>1
  <2> HIDE DEF s, l
  <2>3. QED
    BY <1>2, <1>5, <2>2
<1> HIDE DEF s, l
<1>9. \A k \in 1..n : size(s[k]) \in Nat
  <2>1. \A a \in Nat, b \in Nat : a * b \in Nat
    OBVIOUS
  <2>2. QED
    BY <1>6, <1>7, <2>1
<1> HIDE DEF n
<1>10. n \in Nat /\ sizes \in [1..n -> Nat] /\ \A k \in 1..n : sizes[k] = size(s[k])
  BY <1>1, <1>6, <1>9
<1>11. at = CHOOSE u : u = [k \in 1..(n + 1) |-> IF k = 1 THEN HeaderSize ELSE u[k - 1] + sizes[k - 1]]
  <2>1. ASSUME NEW u
        PROVE  [k \in 1..(n + 1) |-> IF k = 1 THEN HeaderSize ELSE u[k - 1] + size(s[k - 1])]
             = [k \in 1..(n + 1) |-> IF k = 1 THEN HeaderSize ELSE u[k - 1] + sizes[k - 1]]
    <3>1. \A k \in 1..(n + 1) : k # 1 => k - 1 \in 1..n
      BY <1>10
    <3> HIDE DEF size, sizes
    <3>2. QED
      BY <1>10, <3>1
  <2> HIDE DEF size, sizes
  <2>2. QED
    BY <2>1
<1> HIDE DEF at, sizes
<1>12. /\ \A k \in 1..(n + 1) : at[k] \in Nat /\ at[k] >= HeaderSize
       /\ \A k \in 1..n : \A j \in 1..(n + 1) : k < j => at[k] + sizes[k] <= at[j]
  BY <1>10, <1>11, Offsets
<1>13. ASSUME NEW k \in 1..n
       PROVE  h[k].section = s[k] /\ h[k].at = at[k] /\ h[k].size = size(s[k])
  BY <1>5, <1>6
<1>14. DOMAIN h = 1..n
  BY <1>5, <1>6
<1> HIDE DEF h
<1>15. ASSUME NEW k \in 1..n
       PROVE  /\ h[k].at >= HeaderSize
              /\ h[k].at + h[k].size <= at[n + 1]
              /\ \A j \in 1..n : k < j => h[k].at + h[k].size <= h[j].at
  <2>1. k \in 1..(n + 1) /\ n + 1 \in 1..(n + 1) /\ k < n + 1 /\ \A j \in 1..n : j \in 1..(n + 1)
    BY <1>10
  <2>2. h[k].size = sizes[k] /\ h[k].at = at[k] /\ \A j \in 1..n : h[j].at = at[j]
    BY <1>10, <1>13
  <2>3. QED
    BY <1>12, <2>1, <2>2
<1>16. 1 \in 1..n /\ 2 \in 1..n /\ DOMAIN e.sections = 1..n /\ e.sections = l
  BY <1>1, <1>6 DEF l
<1>17. /\ h[1].section.data = e.shstrtab /\ h[2].section.data = e.strtab
       /\ \A k \in 1..n :
            /\ h[k].section.name = l[k].name /\ h[k].section.type = l[k].type
            /\ k > 2 => h[k].section = l[k]
            /\ h[k].size = Len(h[k].section.data) * h[k].section.entsize
  <2>1. \A k \in 1..n : h[k].section = s[k] /\ h[k].size = size(s[k])
    BY <1>13
  <2>2. h[1].section.data = e.shstrtab /\ h[2].section.data = e.strtab
    BY <1>8, <1>16, <2>1
  <2>3. ASSUME NEW k \in 1..n
        PROVE  /\ h[k].section.name = l[k].name /\ h[k].section.type = l[k].type
               /\ k > 2 => h[k].section = l[k]
    BY <1>5, <1>6, <1>7, <2>1
  <2>4. ASSUME NEW k \in 1..n
        PROVE  h[k].size = Len(h[k].section.data) * h[k].section.entsize
    <3>1. size(s[k]) = Len(s[k].data) * s[k].entsize
      OBVIOUS
    <3> HIDE DEF size
    <3>2. QED
      BY <2>1, <3>1
  <2>5. QED
    BY <2>2, <2>3, <2>4
<1>18. encode(e).headers = h /\ encode(e).shoff = at[n + 1]
  BY <1>4
<1>19. QED
  BY <1>14, <1>15, <1>16, <1>17, <1>18 DEF Encoded

\* The symbols of a program: each name is in the table, and each value in the
\* text.
LEMMA SymbolBounds ==
    ASSUME NEW p, ProgramInv(p), NEW entries, NEW table \in Seq(Letters), Len(table) > 0, NEW text,
           Listed(p, entries, table, text), NEW s \in ToSet(entries)
    PROVE  /\ s.name < Len(table)
           /\ s.shndx \in {0, text}
           /\ s.shndx # 0 => s.value < Len(Text(p))
<1> DEFINE n == Len(p.symtab)
<1>1. n \in Nat /\ DOMAIN p.symtab = 1..n /\ Len(table) \in Nat
  BY ProgramFacts, LenProperties
<1>2. DOMAIN entries = 1..(n + 1)
  <2>1. entries \in Seq(SymbolRecord) /\ Len(entries) = n + 1
    BY DEF Listed
  <2> HIDE DEF n
  <2>2. QED
    BY <2>1, LenProperties
<1>3. PICK m \in 1..(n + 1) : s = entries[m]
  BY <1>2 DEF ToSet
<1>4. CASE m = 1
  <2>1. s = NullSymbol
    BY <1>3, <1>4 DEF Listed
  <2>2. QED
    BY <1>1, <2>1 DEF NullSymbol
<1>5. CASE m # 1
  <2> DEFINE k == m - 1
             y == p.symtab[k]
             e == Entry(p, y.index + 1)
             z == p.fnv[y.index + 1].fn.size
  <2>1. k \in DOMAIN p.symtab /\ k + 1 = m
    BY <1>1, <1>5
  <2> HIDE DEF k
  <2>2. EntryOf(p, k, s, table, text)
    BY <1>3, <2>1 DEF Listed
  <2>3. y.name \in Names /\ y.index \in Nat /\ y.import \in BOOLEAN
    BY <2>1, ProgramFacts
  <2>4. s.name < Len(table)
    <3>1. Len(y.name) \in Nat
      BY <2>3, NamesFacts
    <3>2. s.name \in Nat /\ s.name + Len(y.name) < Len(table)
      BY <2>2 DEF EntryOf, IsNameAt
    <3>3. QED
      BY <1>1, <3>1, <3>2
  <2>5. CASE y.import
    BY <2>2, <2>4, <2>5 DEF EntryOf
  <2>6. CASE ~y.import
    <3>1. y.index < Len(p.fnv) /\ z > 0
      BY <2>1, <2>6 DEF ProgramInv
    <3>2. Len(p.fnv) \in Nat /\ DOMAIN p.fnv = 1..Len(p.fnv)
      BY ProgramFacts
    <3>3. y.index + 1 \in DOMAIN p.fnv
      BY <2>3, <3>1, <3>2
    <3>4. e \in Nat /\ e + z <= Len(Text(p))
      BY <3>3, TextLaid DEF Laid
    <3>5. z \in Nat /\ Len(Text(p)) \in Nat
      <4>1. Len(Text(p)) \in Nat
        BY TextLaid, LenProperties DEF Laid
      <4>2. z \in Nat
        BY <3>3, ProgramFacts, CodesFacts
      <4>3. QED
        BY <4>1, <4>2
    <3>6. s.shndx = text /\ s.value = e
      BY <2>2, <2>6 DEF EntryOf
    <3> HIDE DEF e, z
    <3>7. e < Len(Text(p))
      BY <3>1, <3>4, <3>5
    <3>8. QED
      BY <2>4, <3>6, <3>7
  <2>7. QED
    BY <2>5, <2>6
<1>6. QED
  BY <1>4, <1>5

\* A section of symbols or of relocations is one that add_text has added.
LEMMA SectionsOfType ==
    ASSUME NEW e, NEW calls, ElfInv(e, calls), NEW k \in DOMAIN e.sections
    PROVE  /\ e.sections[k].type = "symtab" =>
                k > 2 /\ \E c \in calls : k = c.text + 1 /\ PlacedAt(e, c)
           /\ e.sections[k].type = "rela" =>
                k > 2 /\ \E c \in calls : k = c.text + 2 /\ ~c.thrown /\ PlacedAt(e, c)
<1>1. ElfOK(e) /\ (\A c \in calls : PlacedAt(e, c)) /\ \A i \in 3..Len(e.sections) : \E c \in calls : SectionOf(c, i)
  BY DEF ElfInv
<1>2. DOMAIN e.sections = 1..Len(e.sections) /\ Len(e.sections) \in Nat
  BY <1>1, ElfFacts DEF ElfOK
<1>3. e.sections[1].type = "strtab" /\ e.sections[2].type = "strtab"
  BY <1>1 DEF ElfOK
<1>4. k = 1 \/ k = 2 \/ k \in 3..Len(e.sections)
  BY <1>2
<1>5. CASE k \in 3..Len(e.sections)
  <2>1. PICK c \in calls : SectionOf(c, k)
    BY <1>1, <1>5
  <2>2. PlacedAt(e, c) /\ k > 2
    BY <1>1, <1>5
  <2>3. c.text \in Nat /\ e.sections[c.text].type = "progbits" /\ e.sections[c.text + 1].type = "symtab"
        /\ (~c.thrown => e.sections[c.text + 2].type = "rela")
    BY <2>2 DEF PlacedAt, TextAt, SymbolsAt, RelocationsAt
  <2>4. QED
    BY <2>1, <2>2, <2>3 DEF SectionOf
<1>6. QED
  BY <1>3, <1>4, <1>5

\* What encode returns has the names of the sections.
LEMMA HeaderNamed ==
    ASSUME NEW e, ElfOK(e), NEW k \in DOMAIN e.sections, NEW name \in Names, Named(e, k, name)
    PROVE  NameAt(encode(e).headers[1].section.data, encode(e).headers[k].section.name) = name
<1>1. Encoded(e, encode(e))
  BY EncodeFacts
<1>2. encode(e).headers[1].section.data = e.shstrtab
      /\ encode(e).headers[k].section.name = e.sections[k].name
  BY <1>1 DEF Encoded
<1>3. e.shstrtab \in Seq(Letters)
  BY ElfFacts DEF ElfOK
<1>4. NameAt(e.shstrtab, e.sections[k].name) = name
  BY <1>3, NameFound DEF Named
<1>5. QED
  BY <1>2, <1>4

\* The invariant gives that the sections refer to each other.
LEMMA ObjectLinked == ObjectInv => SectionsLinked
<1> SUFFICES ASSUME ObjectInv PROVE SectionsLinked
  OBVIOUS
<1> DEFINE o == encode(elf)
           h == o.headers
           sec == elf.sections
           name(k) == NameAt(h[1].section.data, h[k].section.name)
<1>1. ElfOK(elf) /\ ElfInv(elf, ToSet(texts))
  BY DEF ObjectInv, ElfInv
<1>2. /\ DOMAIN sec = 1..Len(sec) /\ Len(sec) \in Nat /\ Len(sec) >= 2
      /\ elf.strtab \in Seq(Letters) /\ Len(elf.strtab) > 0 /\ Len(elf.strtab) \in Nat
  BY <1>1, ElfFacts DEF ElfOK
<1>3. /\ DOMAIN h = DOMAIN sec
      /\ h[2].section.data = elf.strtab
      /\ \A k \in DOMAIN sec :
          /\ h[k].section.type = sec[k].type
          /\ k > 2 => h[k].section = sec[k]
          /\ h[k].size = Len(h[k].section.data) * h[k].section.entsize
          /\ h[k].at >= HeaderSize
          /\ h[k].at + h[k].size <= o.shoff
          /\ \A l \in DOMAIN sec : k < l => h[k].at + h[k].size <= h[l].at
  BY <1>1, EncodeFacts DEF Encoded
<1>4. \A k \in DOMAIN sec, nm \in Names : Named(elf, k, nm) => name(k) = nm
  BY <1>1, HeaderNamed
<1>5. 2 \in DOMAIN sec /\ name(2) = <<"strtab">>
  <2>1. 2 \in DOMAIN sec
    BY <1>2
  <2>2. Named(elf, 2, <<"strtab">>)
    BY <1>1 DEF ElfOK, Named
  <2> HIDE DEF name
  <2>3. QED
    BY <1>4, <2>1, <2>2, SectionNames
<1> HIDE DEF h, o, sec, name
\* The sections of a program.
<1>6. ASSUME NEW c, PlacedAt(elf, c), NEW t, t = c.text
      PROVE  /\ t \in DOMAIN sec /\ t > 2 /\ t \in Nat
             /\ name(t) = <<"text">> /\ h[t].size = Len(Text(c.prog)) /\ Len(Text(c.prog)) \in Nat
             /\ t + 1 \in DOMAIN sec /\ name(t + 1) = <<"symtab">>
             /\ h[t + 1].section.type = "symtab" /\ h[t + 1].section.link = 2
             /\ \A s \in ToSet(h[t + 1].section.data) :
                  /\ s.name < Len(elf.strtab)
                  /\ s.shndx \in {0, t}
                  /\ s.shndx # 0 => s.value < Len(Text(c.prog))
  <2> DEFINE p == c.prog
  <2>1. t \in Nat /\ ProgramInv(p) /\ TextAt(elf, t, p) /\ SymbolsAt(elf, t + 1, p)
    BY <1>6 DEF PlacedAt
  <2>2. t \in 3..Len(sec) /\ t + 1 \in 3..Len(sec)
    BY <2>1 DEF TextAt, SymbolsAt, sec
  <2>3. t \in DOMAIN sec /\ t + 1 \in DOMAIN sec /\ t > 2 /\ t + 1 > 2
    BY <1>2, <2>2
  <2>4. h[t].section = sec[t] /\ h[t + 1].section = sec[t + 1]
        /\ h[t].size = Len(h[t].section.data) * h[t].section.entsize
    BY <1>3, <2>3
  <2>5. name(t) = <<"text">> /\ name(t + 1) = <<"symtab">>
    BY <1>4, <2>1, <2>3, SectionNames DEF TextAt, SymbolsAt
  <2>6. Len(Text(p)) \in Nat
    BY <2>1, TextLaid, LenProperties DEF Laid
  <2>7. h[t].size = Len(Text(p))
    <3>1. h[t].section.data = Text(p) /\ h[t].section.entsize = 1
      BY <2>1, <2>4 DEF TextAt, sec
    <3>2. h[t].size = Len(Text(p)) * 1
      BY <2>4, <3>1
    <3>3. QED
      BY <2>6, <3>2
  <2>8. h[t + 1].section.type = "symtab" /\ h[t + 1].section.link = 2
    BY <2>1, <2>4 DEF SymbolsAt, sec
  <2>9. Listed(p, h[t + 1].section.data, elf.strtab, t)
    <3>1. (t + 1) - 1 = t
      BY <2>1
    <3>2. QED
      BY <2>1, <2>4, <3>1 DEF SymbolsAt, sec
  <2>10. ASSUME NEW s \in ToSet(h[t + 1].section.data)
         PROVE  /\ s.name < Len(elf.strtab)
                /\ s.shndx \in {0, t}
                /\ s.shndx # 0 => s.value < Len(Text(p))
    BY <1>2, <2>1, <2>9, SymbolBounds
  <2>11. QED
    BY <2>1, <2>3, <2>5, <2>6, <2>7, <2>8, <2>10
<1>7. ASSUME NEW k \in DOMAIN h, h[k].section.type = "symtab"
      PROVE  /\ name(k) = <<"symtab">>
             /\ name(h[k].section.link) = <<"strtab">>
             /\ \A s \in ToSet(h[k].section.data) :
                 /\ s.name < Len(h[h[k].section.link].section.data)
                 /\ s.shndx # 0 => name(s.shndx) = <<"text">> /\ s.value < h[s.shndx].size
  <2>1. k \in DOMAIN sec /\ sec[k].type = "symtab"
    BY <1>3, <1>7
  <2>2. PICK c \in ToSet(texts) : k = c.text + 1 /\ PlacedAt(elf, c)
    BY <1>1, <2>1, SectionsOfType DEF sec
  <2> DEFINE t == c.text
  <2>3. /\ k = t + 1
        /\ name(t) = <<"text">> /\ h[t].size = Len(Text(c.prog))
        /\ name(t + 1) = <<"symtab">> /\ h[t + 1].section.link = 2
        /\ \A s \in ToSet(h[t + 1].section.data) :
             /\ s.name < Len(elf.strtab)
             /\ s.shndx \in {0, t}
             /\ s.shndx # 0 => s.value < Len(Text(c.prog))
    BY <1>6, <2>2
  <2> HIDE DEF t
  <2>4. name(k) = <<"symtab">> /\ h[k].section.link = 2 /\ name(h[k].section.link) = <<"strtab">>
        /\ h[h[k].section.link].section.data = elf.strtab
    BY <1>3, <1>5, <2>3
  <2>5. ASSUME NEW s \in ToSet(h[k].section.data)
        PROVE  /\ s.name < Len(h[h[k].section.link].section.data)
               /\ s.shndx # 0 => name(s.shndx) = <<"text">> /\ s.value < h[s.shndx].size
    <3>1. s.name < Len(elf.strtab) /\ s.shndx \in {0, t}
          /\ (s.shndx # 0 => s.value < Len(Text(c.prog)))
      BY <2>3, <2>5
    <3>2. s.shndx # 0 => s.shndx = t
      BY <3>1
    <3>3. QED
      BY <2>3, <2>4, <3>1, <3>2
  <2>6. QED
    BY <2>4, <2>5
<1>8. ASSUME NEW k \in DOMAIN h, h[k].section.type = "rela"
      PROVE  /\ name(k) = <<"rela", "text">>
             /\ h[h[k].section.link].section.type = "symtab"
             /\ name(h[k].section.info) = <<"text">>
             /\ \A s \in ToSet(h[h[k].section.link].section.data) : s.shndx \in {0, h[k].section.info}
             /\ \A r \in ToSet(h[k].section.data) : r.offset < h[h[k].section.info].size
  <2>1. k \in DOMAIN sec /\ sec[k].type = "rela"
    BY <1>3, <1>8
  <2>2. k > 2 /\ \E c \in ToSet(texts) : k = c.text + 2 /\ ~c.thrown /\ PlacedAt(elf, c)
    BY <1>1, <2>1, SectionsOfType DEF sec
  <2>3. PICK c \in ToSet(texts) : k = c.text + 2 /\ ~c.thrown /\ PlacedAt(elf, c)
    BY <2>2
  <2> DEFINE t == c.text
             p == c.prog
  <2>4. /\ k = t + 2 /\ t \in Nat
        /\ name(t) = <<"text">> /\ h[t].size = Len(Text(p))
        /\ h[t + 1].section.type = "symtab"
        /\ \A s \in ToSet(h[t + 1].section.data) : s.shndx \in {0, t}
    BY <1>6, <2>3
  <2>5. RelocationsAt(elf, t + 2, p) /\ ProgramInv(p) /\ Complete(p)
    BY <2>3 DEF PlacedAt
  <2> HIDE DEF t, p
  <2>6. h[k].section = sec[k]
    BY <1>3, <2>1, <2>2
  <2>7. /\ Named(elf, k, <<"rela", "text">>)
        /\ sec[k].link = k - 1 /\ sec[k].info = k - 2
        /\ sec[k].data = Relocations(p)
    BY <2>4, <2>5 DEF RelocationsAt, sec
  <2>8. name(k) = <<"rela", "text">>
    BY <1>4, <2>1, <2>7, SectionNames
  <2>9. h[k].section.link = t + 1 /\ h[k].section.info = t
    <3>1. k - 1 = t + 1 /\ k - 2 = t
      BY <2>4
    <3>2. QED
      BY <2>6, <2>7, <3>1
  <2>10. ASSUME NEW r \in ToSet(h[k].section.data)
         PROVE  r.offset < Len(Text(p))
    <3> DEFINE R == {x \in RelocationRecord : x.offset < Len(Text(p))}
    <3>1. Relocations(p) \in Seq(R)
      BY <2>5, RelocationsLaid DEF Relocated
    <3>2. r \in ToSet(Relocations(p))
      BY <2>6, <2>7, <2>10
    <3>3. \A x \in R : x.offset < Len(Text(p))
      OBVIOUS
    <3> HIDE DEF R
    <3>4. r \in R
      BY <3>1, <3>2, LenProperties, ElementOfSeq DEF ToSet
    <3>5. QED
      BY <3>3, <3>4
  <2>11. QED
    BY <2>4, <2>8, <2>9, <2>10
<1>9. SectionsLinked = \A k \in DOMAIN h :
        /\ h[k].at >= HeaderSize
        /\ h[k].at + h[k].size <= o.shoff
        /\ \A l \in DOMAIN h : k < l => h[k].at + h[k].size <= h[l].at
        /\ h[k].section.type = "symtab" =>
            /\ name(k) = <<"symtab">>
            /\ name(h[k].section.link) = <<"strtab">>
            /\ \A s \in ToSet(h[k].section.data) :
                /\ s.name < Len(h[h[k].section.link].section.data)
                /\ s.shndx # 0 => name(s.shndx) = <<"text">> /\ s.value < h[s.shndx].size
        /\ h[k].section.type = "rela" =>
            /\ name(k) = <<"rela", "text">>
            /\ h[h[k].section.link].section.type = "symtab"
            /\ name(h[k].section.info) = <<"text">>
            /\ \A s \in ToSet(h[h[k].section.link].section.data) : s.shndx \in {0, h[k].section.info}
            /\ \A r \in ToSet(h[k].section.data) : r.offset < h[h[k].section.info].size
  BY DEF SectionsLinked, h, o, name
<1>10. \A k \in DOMAIN h :
        /\ h[k].at >= HeaderSize
        /\ h[k].at + h[k].size <= o.shoff
        /\ \A l \in DOMAIN h : k < l => h[k].at + h[k].size <= h[l].at
  BY <1>3
<1>11. QED
  BY <1>7, <1>8, <1>9, <1>10

-----------------------------------------------------------------------------
(* The invariant is inductive. *)

\* At first there is nothing.
LEMMA ObjectInitInv == ObjectInit => ObjectInv
<1> SUFFICES ASSUME ObjectInit PROVE ObjectInv
  OBVIOUS
<1>1. prog = NoProgram /\ elf = NoElf /\ texts = <<>>
  BY DEF ObjectInit
<1>2. ToSet(texts) = {}
  BY <1>1 DEF ToSet
<1>3. texts \in Seq(Calls)
  BY <1>1
<1>4. QED
  BY <1>1, <1>2, <1>3, NoProgramInv, NoElfInv DEF ObjectInv

\* Appending adds to the set of what is in a sequence.
LEMMA AppendToSet ==
    ASSUME NEW S, NEW s \in Seq(S), NEW x \in S
    PROVE  Append(s, x) \in Seq(S) /\ ToSet(Append(s, x)) = ToSet(s) \cup {x}
<1> DEFINE q == Append(s, x)
           n == Len(s)
<1>1. n \in Nat /\ DOMAIN s = 1..n
  BY LenProperties
<1>2. q \in Seq(S) /\ Len(q) = n + 1 /\ q[n + 1] = x /\ \A i \in 1..n : q[i] = s[i]
  BY AppendProperties
<1> HIDE DEF q, n
<1>3. DOMAIN q = 1..(n + 1)
  BY <1>2, LenProperties
<1>4. \A i \in 1..(n + 1) : i \in 1..n \/ i = n + 1
  BY <1>1
<1>5. n + 1 \in 1..(n + 1) /\ \A i \in 1..n : i \in 1..(n + 1)
  BY <1>1
<1>6. ToSet(q) = ToSet(s) \cup {x}
  <2>1. ToSet(q) = {q[i] : i \in 1..(n + 1)} /\ ToSet(s) = {s[i] : i \in 1..n}
    BY <1>1, <1>3 DEF ToSet
  <2>2. QED
    BY <1>2, <1>4, <1>5, <2>1
<1>7. QED
  BY <1>2, <1>6 DEF q

\* A program that grows leaves the file alone.
LEMMA GrowInv ==
    ASSUME ObjectInv, NEW p, ProgramInv(p), Grow(p)
    PROVE  ObjectInv'
<1>1. prog' = p /\ elf' = elf /\ texts' = texts
  BY DEF Grow
<1>2. ProgramInv(prog')
  BY <1>1
<1>3. ElfInv(elf', ToSet(texts'))
  BY <1>1 DEF ObjectInv
<1>4. QED
  BY <1>1, <1>2, <1>3 DEF ObjectInv

\* A step of the client.
LEMMA ClientInv ==
    ASSUME ObjectInv, ClientNext
    PROVE  ObjectInv'
<1>1. ProgramInv(prog)
  BY DEF ObjectInv
<1>2. ASSUME NEW i \in Imported, ImportFunction(i)
      PROVE  ObjectInv'
  <2>1. i.fid \in Nat /\ i.cname \in Names
    BY CodeAssumption
  <2>2. ProgramInv(import_function(prog, i.fid, i.cname))
    BY <1>1, <2>1, ImportFunctionInv
  <2>3. QED
    BY <1>2, <2>2, GrowInv DEF ImportFunction
<1>3. ASSUME NEW c \in Compiled, ExportFunction(c) \/ AddFunction(c)
      PROVE  ObjectInv'
  <2>1. c.fid \in Nat /\ c.fn \in Codes
    BY CodeAssumption
  <2>2. ProgramInv(export_function(prog, c.fid, c.fn))
    BY <1>1, <2>1, ExportFunctionInv
  <2>3. ProgramInv(add_function(prog, c.fid, c.fn))
    BY <1>1, <2>1, AddFunctionInv
  <2>4. CASE ExportFunction(c)
    BY <2>2, <2>4, GrowInv DEF ExportFunction
  <2>5. CASE AddFunction(c)
    BY <2>3, <2>5, GrowInv DEF AddFunction
  <2>6. QED
    BY <1>3, <2>4, <2>5
<1>4. ASSUME NEW project \in Projects, CompileProject(project)
      PROVE  ObjectInv'
  <2>1. project \in Seq(Items)
    BY CodeAssumption DEF Items
  <2>2. ProgramInv(ProgramOf(project))
    BY <2>1, ProgramOfInv
  <2>3. QED
    BY <1>4, <2>2, GrowInv DEF CompileProject
<1>5. CASE AddText
  <2> DEFINE c == [prog |-> prog, text |-> Len(elf.sections) + 1, thrown |-> ~Complete(prog)]
  <2>1. elf' = add_text(elf, prog) /\ texts' = Append(texts, c) /\ prog' = NoProgram
    BY <1>5 DEF AddText
  <2>2. c.prog = prog /\ c.text = Len(elf.sections) + 1 /\ c.thrown = ~Complete(prog)
    OBVIOUS
  <2>3. ElfInv(elf, ToSet(texts)) /\ texts \in Seq(Calls)
    BY DEF ObjectInv
  <2>4. Len(elf.sections) \in Nat
    BY <2>3, ElfFacts DEF ElfInv, ElfOK
  <2>5. c \in Calls
    BY <1>1, <2>4 DEF Calls, ProgramInv
  <2> HIDE DEF c
  <2>6. ElfInv(elf', ToSet(texts) \cup {c})
    BY <1>1, <2>1, <2>2, <2>3, AddTextInv
  <2>7. ToSet(texts') = ToSet(texts) \cup {c} /\ texts' \in Seq(Calls)
    BY <2>1, <2>3, <2>5, AppendToSet
  <2>8. ProgramInv(prog')
    BY <2>1, NoProgramInv
  <2>9. ElfInv(elf', ToSet(texts'))
    BY <2>6, <2>7
  <2>10. QED
    BY <2>7, <2>8, <2>9 DEF ObjectInv
<1>6. QED
  BY <1>2, <1>3, <1>4, <1>5 DEF ClientNext

\* A file that is made of one complete program, as bcc makes it.
LEMMA OneTextInv ==
    ASSUME NEW project \in Projects, \A f \in ToSet(project) : f.kind # "body",
           prog' = ProgramOf(project), elf' = add_text(NoElf, prog'),
           texts' = <<[prog |-> prog', text |-> 3, thrown |-> FALSE]>>
    PROVE  ObjectInv'
<1> DEFINE p == ProgramOf(project)
           c == [prog |-> p, text |-> 3, thrown |-> FALSE]
<1>1. project \in Seq(Items)
  BY CodeAssumption DEF Items
<1>2. ProgramInv(p) /\ Complete(p)
  BY <1>1, ProgramOfInv, NoBodiesComplete
<1>3. Len(NoElf.sections) + 1 = 3
  <2>1. NoElf.sections \in Seq(AnySection) /\ Len(NoElf.sections) \in Nat
    BY NoElfInv, ElfFacts DEF ElfInv, ElfOK
  <2>2. ~\E k \in 3..Len(NoElf.sections) : TRUE
    BY NoElfInv DEF ElfInv
  <2>3. Len(NoElf.sections) >= 2
    BY NoElfInv DEF ElfInv, ElfOK
  <2>4. ~(3 \in 3..Len(NoElf.sections))
    BY <2>2
  <2>5. QED
    BY <2>1, <2>3, <2>4
<1>4. c \in Calls
  BY <1>2 DEF Calls, ProgramInv
<1>5. c.prog = p /\ c.text = Len(NoElf.sections) + 1 /\ c.thrown = ~Complete(p)
  BY <1>2, <1>3
<1>6. prog' = p /\ elf' = add_text(NoElf, p) /\ texts' = <<c>>
  OBVIOUS
<1> HIDE DEF c, p
<1>7. ElfInv(elf', {} \cup {c})
  BY <1>2, <1>5, <1>6, NoElfInv, AddTextInv
<1>8. ToSet(texts') = {c} /\ texts' \in Seq(Calls)
  <2>1. <<c>> \in Seq(Calls) /\ DOMAIN <<c>> = {1} /\ <<c>>[1] = c
    BY <1>4
  <2>2. ToSet(<<c>>) = {c}
    BY <2>1 DEF ToSet
  <2>3. QED
    BY <1>6, <2>1, <2>2
<1>9. ElfInv(elf', ToSet(texts'))
  BY <1>7, <1>8
<1>10. QED
  BY <1>2, <1>6, <1>8, <1>9 DEF ObjectInv
=============================================================================
