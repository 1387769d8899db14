---------------------- MODULE AstNodesRefinementProofs ----------------------
(***************************************************************************)
(* The nodes of ast.hpp implement TreeEdits, for any number of variables,  *)
(* arrays and labels and trees of every size.                              *)
(*                                                                         *)
(* The tree below a cell unfolds into a function from paths to cells       *)
(* (Unfolds); the labels of these cells are the tree that TreeEdits speaks *)
(* of.  A forest unfolds every variable; no two of its nodes are at one    *)
(* address (OneAddress), and the names of the client lead to the addresses *)
(* of its nodes (WalkIsForest).  An edit of the storage is then an edit of *)
(* the forest by the operators of TreeEdits themselves: PutForest says so  *)
(* for a cell that is set, RelistedForest for a list of children, and      *)
(* FreedForest for arrays that are freed.  That what transform_initialize  *)
(* and deserialize build is a copy, Copying carries from call to call.     *)
(***************************************************************************)
EXTENDS AstNodesRefinement, AstNodesProofs

-----------------------------------------------------------------------------
(* Paths. *)

Path == Seq(Nat)

\* A path that is not empty has a last step.
LEMMA PathLast ==
    ASSUME NEW p \in Path, p # <<>>
    PROVE  \E q \in Path, j \in Nat : p = Append(q, j)
BY SequenceEmptyOrAppend DEF Path

\* Paths are closed under what is done with them.
LEMMA PathTypes ==
    ASSUME NEW p \in Path, NEW q \in Path, NEW j \in Nat
    PROVE  /\ <<>> \in Path /\ <<j>> \in Path /\ Append(p, j) \in Path /\ p \o q \in Path
           /\ Append(p, j) # <<>> /\ Append(p, j) # p
           /\ Len(Append(p, j)) = Len(p) + 1 /\ Len(p) \in Nat
<1>1. <<>> \in Path /\ <<j>> \in Path /\ Append(p, j) \in Path
  BY DEF Path
<1>2. p \o q \in Path
  BY DEF Path
<1>3. Len(Append(p, j)) = Len(p) + 1 /\ Len(p) \in Nat
  BY DEF Path
<1>4. Append(p, j) # <<>> /\ Append(p, j) # p
  BY <1>3
<1>5. QED
  BY <1>1, <1>2, <1>3, <1>4

\* Steps are appended at the end, and nothing changes nothing.
LEMMA PathConcat ==
    ASSUME NEW p \in Path, NEW q \in Path, NEW j \in Nat
    PROVE  /\ p \o Append(q, j) = Append(p \o q, j)
           /\ p \o <<>> = p /\ <<>> \o p = p
           /\ SubSeq(p \o q, Len(p) + 1, Len(p \o q)) = q
           /\ Append(p, j) = p \o <<j>>
           /\ <<j>> \o p # <<>>
           /\ Head(<<j>> \o p) = j /\ Tail(<<j>> \o p) = p
<1>1. p \o Append(q, j) = Append(p \o q, j)
  BY DEF Path
<1>2. p \o <<>> = p /\ <<>> \o p = p
  BY DEF Path
<1>3. SubSeq(p \o q, Len(p) + 1, Len(p \o q)) = q
  BY DEF Path
<1>4. Append(p, j) = p \o <<j>>
  BY DEF Path
<1>5. Head(<<j>> \o p) = j /\ Tail(<<j>> \o p) = p
  BY DEF Path
<1>6. <<j>> \o p # <<>>
  BY DEF Path
<1>7. QED
  BY <1>1, <1>2, <1>3, <1>4, <1>5, <1>6, Zenon

\* Appending paths is associative.
LEMMA PathConcat3 ==
    ASSUME NEW p \in Path, NEW q \in Path, NEW r \in Path
    PROVE  p \o (q \o r) = (p \o q) \o r
BY ConcatAssociative DEF Path

\* What follows a path is determined by it.
LEMMA PathCancel ==
    ASSUME NEW p \in Path, NEW q \in Path, NEW r \in Path, p \o q = p \o r
    PROVE  q = r
<1> DEFINE cut(x) == SubSeq(x, Len(p) + 1, Len(x))
<1>1. cut(p \o q) = q /\ cut(p \o r) = r
  BY PathConcat
<1> HIDE DEF cut
<1>2. QED
  BY <1>1, Zenon

\* The first step of a path.
LEMMA PathFirst ==
    ASSUME NEW p \in Path, p # <<>>
    PROVE  /\ Head(p) \in Nat /\ Tail(p) \in Path
           /\ p = <<Head(p)>> \o Tail(p)
<1>1. Head(p) \in Nat /\ Tail(p) \in Path
  BY DEF Path
<1> DEFINE h == Head(p)
           t == Tail(p)
<1>2. Len(p) = Len(t) + 1 /\ Len(t) \in Nat /\ p[1] = h /\ \A i \in 1..Len(t) : t[i] = p[i + 1]
  BY DEF Path
<1> HIDE DEF h, t
<1>3. h \in Nat /\ t \in Path
  BY <1>1 DEF h, t
<1> DEFINE s == <<h>> \o t
<1>4. s \in Path /\ Len(s) = Len(t) + 1 /\ s[1] = h /\ \A i \in 1..Len(t) : s[i + 1] = t[i]
  BY <1>3 DEF Path
<1> HIDE DEF s
<1>5. ASSUME NEW i \in 1..Len(p) PROVE p[i] = s[i]
  <2>1. CASE i = 1
    BY <1>2, <1>4, <2>1
  <2>2. CASE i # 1
    <3>1. i - 1 \in 1..Len(t) /\ (i - 1) + 1 = i
      BY <1>2, <2>2
    <3>2. QED
      BY <1>2, <1>4, <3>1
  <2>3. QED
    BY <2>1, <2>2
<1>6. p = s
  BY <1>2, <1>4, <1>5, SeqEqual DEF Path
<1>7. QED
  BY <1>3, <1>6 DEF s, h, t

\* A prefix is what something follows.
LEMMA PrefixFacts ==
    ASSUME NEW p \in Path, NEW r \in Path
    PROVE  T!IsPrefix(p, r) <=> \E q \in Path : r = p \o q
<1>1. ASSUME NEW q \in Path, r = p \o q PROVE T!IsPrefix(p, r)
  BY <1>1 DEF T!IsPrefix, Path
<1>2. ASSUME T!IsPrefix(p, r) PROVE \E q \in Path : r = p \o q
  <2>1. /\ r = p \o SubSeq(r, Len(p) + 1, Len(r))
        /\ SubSeq(r, Len(p) + 1, Len(r)) \in Path
    BY <1>2 DEF T!IsPrefix, Path
  <2>2. QED
    BY <2>1
<1>3. QED
  BY <1>1, <1>2

\* A prefix of a path that goes one step further.
LEMMA PrefixAppend ==
    ASSUME NEW p \in Path, NEW r \in Path, NEW j \in Nat
    PROVE  T!IsPrefix(p, Append(r, j)) <=> p = Append(r, j) \/ T!IsPrefix(p, r)
<1>0. Append(r, j) \in Path /\ <<>> \in Path
  BY PathTypes
<1>1. ASSUME p = Append(r, j) PROVE T!IsPrefix(p, Append(r, j))
  BY <1>0, <1>1, PathConcat, PrefixFacts
<1>2. ASSUME T!IsPrefix(p, r) PROVE T!IsPrefix(p, Append(r, j))
  <2>1. PICK q \in Path : r = p \o q
    BY <1>2, PrefixFacts
  <2>2. Append(q, j) \in Path /\ Append(r, j) = p \o Append(q, j)
    <3>1. Append(q, j) \in Path
      BY PathTypes
    <3>2. p \o Append(q, j) = Append(p \o q, j)
      BY PathConcat, Zenon
    <3>3. QED
      BY <2>1, <3>1, <3>2, Zenon
  <2>3. QED
    BY <1>0, <2>2, PrefixFacts
<1>3. ASSUME T!IsPrefix(p, Append(r, j)), p # Append(r, j) PROVE T!IsPrefix(p, r)
  <2>1. PICK q \in Path : Append(r, j) = p \o q
    BY <1>0, <1>3, PrefixFacts
  <2>2. q # <<>>
    BY <1>3, <2>1, PathConcat
  <2>3. PICK s \in Path, k \in Nat : q = Append(s, k)
    BY <2>2, PathLast
  <2>4. Append(r, j) = Append(p \o s, k) /\ p \o s \in Path
    <3>1. p \o Append(s, k) = Append(p \o s, k)
      BY PathConcat
    <3>2. p \o s \in Path
      BY PathTypes, Zenon
    <3>3. QED
      BY <2>1, <2>3, <3>1, <3>2, Zenon
  <2>5. r = p \o s
    BY <2>4, AppendTwice DEF Path
  <2>6. QED
    BY <2>5, PrefixFacts
<1>4. QED
  BY <1>1, <1>2, <1>3

\* A path begins with itself, and only the empty one is shorter than each step.
LEMMA PrefixSelf ==
    ASSUME NEW p \in Path
    PROVE  /\ T!IsPrefix(p, p)
           /\ T!IsPrefix(<<>>, p)
           /\ T!IsPrefix(p, <<>>) <=> p = <<>>
           /\ \A q \in Path, j \in Nat : ~T!IsPrefix(Append(p \o q, j), p)
<1>1. <<>> \in Path /\ p \o <<>> = p /\ <<>> \o p = p
  BY PathTypes, PathConcat
<1>2. T!IsPrefix(p, p) /\ T!IsPrefix(<<>>, p)
  BY <1>1, PrefixFacts
<1>3. T!IsPrefix(p, <<>>) => p = <<>>
  BY DEF T!IsPrefix, Path
<1>4. ASSUME NEW q \in Path, NEW j \in Nat PROVE ~T!IsPrefix(Append(p \o q, j), p)
  <2>1. Len(Append(p \o q, j)) > Len(p)
    BY DEF Path
  <2>2. Len(p) \in Nat /\ Len(Append(p \o q, j)) \in Nat
    BY DEF Path
  <2>3. QED
    BY <2>1, <2>2 DEF T!IsPrefix
<1>5. QED
  BY <1>2, <1>3, <1>4

\* Induction on the length of a path.
LEMMA PathInduction ==
    ASSUME NEW S, <<>> \in S, \A q \in Path, j \in Nat : q \in S => Append(q, j) \in S
    PROVE  Path \subseteq S
<1> DEFINE R == {n \in Nat : \E p \in Path : Len(p) = n /\ p \notin S}
<1>1. SUFFICES ASSUME NEW p0 \in Path, p0 \notin S PROVE FALSE
  OBVIOUS
<1>2. R # {} /\ R \in SUBSET Nat
  BY <1>1, PathTypes
<1>3. PICK n \in R : \A k \in R : n <= k
  BY <1>2, LeastNatural
<1>4. PICK p \in Path : Len(p) = n /\ p \notin S
  BY <1>3
<1>5. PICK q \in Path, j \in Nat : p = Append(q, j)
  BY <1>4, PathLast
<1>6. Len(q) \in Nat /\ n = Len(q) + 1
  BY <1>4, <1>5, PathTypes
<1>7. q \in S
  <2>1. Len(q) \notin R
    <3> HIDE DEF R
    <3>1. QED
      BY <1>3, <1>6
  <2>2. QED
    BY <1>6, <2>1
<1>8. QED
  BY <1>4, <1>5, <1>7

-----------------------------------------------------------------------------
(* The operators of TreeEdits on functions from paths. *)

OnPaths(t) == DOMAIN t \subseteq Path /\ t = [p \in DOMAIN t |-> t[p]]

\* Two functions on paths are equal when they agree.
LEMMA SameOnPaths ==
    ASSUME NEW t, NEW u, OnPaths(t), OnPaths(u), DOMAIN t = DOMAIN u,
           \A p \in DOMAIN t : t[p] = u[p]
    PROVE  t = u
BY DEF OnPaths

\* What is below p, by paths from there.
LEMMA SubFacts ==
    ASSUME NEW t, OnPaths(t), NEW p \in Path
    PROVE  /\ OnPaths(T!Sub(t, p))
           /\ DOMAIN T!Sub(t, p) = {q \in Path : p \o q \in DOMAIN t}
           /\ \A q \in DOMAIN T!Sub(t, p) : T!Sub(t, p)[q] = t[p \o q]
<1> DEFINE D == {SubSeq(q, Len(p) + 1, Len(q)) : q \in T!Below(t, p)}
<1>1. T!Sub(t, p) = [r \in D |-> t[p \o r]]
  BY DEF T!Sub
<1>2. ASSUME NEW r \in D PROVE r \in Path /\ p \o r \in DOMAIN t
  <2>1. PICK q \in T!Below(t, p) : r = SubSeq(q, Len(p) + 1, Len(q))
    BY <1>2
  <2>2. q \in DOMAIN t /\ q \in Path /\ T!IsPrefix(p, q)
    BY <2>1 DEF T!Below, OnPaths
  <2>3. PICK s \in Path : q = p \o s
    BY <2>2, PrefixFacts
  <2>4. r = s
    BY <2>1, <2>3, PathConcat
  <2>5. QED
    BY <2>2, <2>3, <2>4
<1>3. ASSUME NEW r \in Path, p \o r \in DOMAIN t PROVE r \in D
  <2>1. p \o r \in Path
    BY PathTypes
  <2>2. T!IsPrefix(p, p \o r)
    BY <2>1, PrefixFacts
  <2>3. p \o r \in T!Below(t, p)
    BY <1>3, <2>2 DEF T!Below
  <2>4. r = SubSeq(p \o r, Len(p) + 1, Len(p \o r))
    BY PathConcat
  <2>5. QED
    BY <2>3, <2>4
<1>4. D = {q \in Path : p \o q \in DOMAIN t}
  BY <1>2, <1>3
<1> HIDE DEF D
<1>5. DOMAIN T!Sub(t, p) = D /\ \A r \in D : T!Sub(t, p)[r] = t[p \o r]
  BY <1>1
<1>6. T!Sub(t, p) = [r \in DOMAIN T!Sub(t, p) |-> T!Sub(t, p)[r]]
  BY <1>1
<1>7. QED
  BY <1>2, <1>4, <1>5, <1>6 DEF OnPaths

\* With s in the place of what was at p.
LEMMA GraftFacts ==
    ASSUME NEW t, OnPaths(t), NEW p \in Path, NEW s, OnPaths(s)
    PROVE  /\ OnPaths(T!Graft(t, p, s))
           /\ \A r \in Path : r \in DOMAIN T!Graft(t, p, s) <=>
                  \/ r \in DOMAIN t /\ ~T!IsPrefix(p, r)
                  \/ \E q \in DOMAIN s : r = p \o q
           /\ \A q \in DOMAIN s : T!Graft(t, p, s)[p \o q] = s[q]
           /\ \A r \in DOMAIN t : ~T!IsPrefix(p, r) => T!Graft(t, p, s)[r] = t[r]
           /\ \A q \in Path : p \o q \in DOMAIN T!Graft(t, p, s) <=> q \in DOMAIN s
<1> DEFINE g == T!Graft(t, p, s)
           D == (DOMAIN t \ T!Below(t, p)) \cup {p \o q : q \in DOMAIN s}
<1>1. g = [r \in D |-> IF T!IsPrefix(p, r) THEN s[SubSeq(r, Len(p) + 1, Len(r))] ELSE t[r]]
  BY DEF T!Graft
<1>2. D \subseteq Path
  BY PathTypes DEF OnPaths
<1>3. \A q \in DOMAIN s : q \in Path /\ p \o q \in Path /\ p \o q \in D
  BY PathTypes DEF OnPaths
<1>4. \A r \in DOMAIN t : r \in Path /\ (r \in T!Below(t, p) <=> T!IsPrefix(p, r))
  BY DEF OnPaths, T!Below
<1>5. \A r \in Path : r \in D <=> \/ r \in DOMAIN t /\ ~T!IsPrefix(p, r)
                                  \/ \E q \in DOMAIN s : r = p \o q
  BY <1>4
<1>6. \A r \in DOMAIN t : ~T!IsPrefix(p, r) => r \in D
  BY <1>4, <1>5
<1> HIDE DEF D
<1>7. DOMAIN g = D /\ OnPaths(g)
  BY <1>1, <1>2 DEF OnPaths
<1>8. ASSUME NEW q \in DOMAIN s PROVE g[p \o q] = s[q]
  <2>1. T!IsPrefix(p, p \o q) /\ SubSeq(p \o q, Len(p) + 1, Len(p \o q)) = q
    BY <1>3, PrefixFacts, PathConcat
  <2>2. QED
    BY <1>1, <1>3, <2>1
<1>9. ASSUME NEW r \in DOMAIN t, ~T!IsPrefix(p, r) PROVE g[r] = t[r]
  BY <1>1, <1>6, <1>9
<1>10. ASSUME NEW q \in Path PROVE p \o q \in D <=> q \in DOMAIN s
  <2>1. p \o q \in Path /\ T!IsPrefix(p, p \o q)
    BY PathTypes, PrefixFacts
  <2>2. ASSUME NEW q2 \in DOMAIN s, p \o q = p \o q2 PROVE q = q2
    BY <1>3, <2>2, PathCancel
  <2>3. QED
    BY <1>3, <1>5, <2>1, <2>2
<1>11. QED
  BY <1>5, <1>7, <1>8, <1>9, <1>10

\* The same, said of the tree that results.
Grafted(k, t, p, s) ==
    /\ OnPaths(k)
    /\ \A r \in Path : r \in DOMAIN k <=>
           \/ r \in DOMAIN t /\ ~T!IsPrefix(p, r)
           \/ \E q \in DOMAIN s : r = p \o q
    /\ \A q \in DOMAIN s : k[p \o q] = s[q]
    /\ \A r \in DOMAIN t : ~T!IsPrefix(p, r) => k[r] = t[r]

\* A tree after grafting.
LEMMA GraftIs ==
    ASSUME NEW t, OnPaths(t), NEW p \in Path, NEW s, OnPaths(s)
    PROVE  Grafted(T!Graft(t, p, s), t, p, s)
BY GraftFacts DEF Grafted

\* The root alone.
Bare(x) == [r \in {<<>>} |-> x]

\* Its only path is the empty one.
LEMMA BareFacts ==
    ASSUME NEW x
    PROVE  OnPaths(Bare(x)) /\ DOMAIN Bare(x) = {<<>>} /\ Bare(x)[<<>>] = x
BY PathTypes DEF Bare, OnPaths, Path

\* Without the children of p is with p alone in its place.
LEMMA CutIsGraft ==
    ASSUME NEW t, OnPaths(t), NEW p \in DOMAIN t
    PROVE  T!Cut(t, p) = T!Graft(t, p, Bare(t[p]))
<1> DEFINE u == T!Cut(t, p)
           g == T!Graft(t, p, Bare(t[p]))
           D == (DOMAIN t \ T!Below(t, p)) \cup {p}
<1>1. p \in Path /\ p \o <<>> = p
  BY PathConcat DEF OnPaths
<1>2. OnPaths(Bare(t[p])) /\ DOMAIN Bare(t[p]) = {<<>>} /\ Bare(t[p])[<<>>] = t[p]
  BY BareFacts
<1>3. u = [r \in D |-> t[r]]
  BY DEF T!Cut
<1>4. \A r \in DOMAIN t : r \in Path /\ (r \in T!Below(t, p) <=> T!IsPrefix(p, r))
  BY DEF OnPaths, T!Below
<1>5. D \subseteq Path /\ \A r \in D : r = p \/ (r \in DOMAIN t /\ ~T!IsPrefix(p, r))
  BY <1>1, <1>4
<1>6. \A r \in Path : (r = p \/ (r \in DOMAIN t /\ ~T!IsPrefix(p, r))) => r \in D
  BY <1>4
<1> HIDE DEF D
<1>7. OnPaths(u) /\ DOMAIN u = D /\ \A r \in D : u[r] = t[r]
  BY <1>3, <1>5 DEF OnPaths
<1>8. /\ OnPaths(g)
      /\ \A r \in Path : r \in DOMAIN g <=> \/ r \in DOMAIN t /\ ~T!IsPrefix(p, r)
                                           \/ r = p
      /\ g[p] = t[p]
      /\ \A r \in DOMAIN t : ~T!IsPrefix(p, r) => g[r] = t[r]
  <2> DEFINE s == Bare(t[p])
  <2> HIDE DEF s
  <2>1. OnPaths(s) /\ DOMAIN s = {<<>>} /\ s[<<>>] = t[p]
    BY <1>2 DEF s
  <2>2. /\ OnPaths(T!Graft(t, p, s))
        /\ \A r \in Path : r \in DOMAIN T!Graft(t, p, s) <=>
               \/ r \in DOMAIN t /\ ~T!IsPrefix(p, r)
               \/ \E q \in DOMAIN s : r = p \o q
        /\ \A q \in DOMAIN s : T!Graft(t, p, s)[p \o q] = s[q]
        /\ \A r \in DOMAIN t : ~T!IsPrefix(p, r) => T!Graft(t, p, s)[r] = t[r]
    <3>1. OnPaths(t) /\ p \in Path /\ OnPaths(s)
      BY <1>1, <2>1
    <3> HIDE DEF g
    <3>2. QED
      BY <3>1, GraftFacts
  <2>3. QED
    BY <1>1, <2>1, <2>2 DEF s
<1> HIDE DEF u, g
<1>9. DOMAIN u = DOMAIN g
  <2>1. DOMAIN g \subseteq Path
    BY <1>8 DEF OnPaths
  <2>2. QED
    BY <1>5, <1>6, <1>7, <1>8, <2>1
<1>10. \A r \in DOMAIN u : u[r] = g[r]
  BY <1>5, <1>7, <1>8
<1>11. QED
  BY <1>7, <1>8, <1>9, <1>10, SameOnPaths DEF u, g

\* Elsewhere the tree is the same.
LEMMA GraftElse ==
    ASSUME NEW t, OnPaths(t), NEW p \in Path, NEW s, OnPaths(s), NEW r \in Path, ~T!IsPrefix(p, r)
    PROVE  /\ r \in DOMAIN T!Graft(t, p, s) <=> r \in DOMAIN t
           /\ r \in DOMAIN t => T!Graft(t, p, s)[r] = t[r]
<1>1. \A q \in DOMAIN s : r # p \o q
  BY PrefixFacts DEF OnPaths
<1>2. /\ r \in DOMAIN T!Graft(t, p, s) <=> \/ r \in DOMAIN t /\ ~T!IsPrefix(p, r)
                                           \/ \E q \in DOMAIN s : r = p \o q
      /\ r \in DOMAIN t => T!Graft(t, p, s)[r] = t[r]
  BY GraftFacts
<1>3. QED
  BY <1>1, <1>2

-----------------------------------------------------------------------------
(* Unfoldings. *)

\* The tree of cells below a cell c: the paths from c, with the cell that each
\* leads to in the storage m.
Unfolds(m, c, g) ==
    /\ OnPaths(g)
    /\ <<>> \in DOMAIN g /\ g[<<>>] = c
    /\ \A p \in Path, j \in Nat : Append(p, j) \in DOMAIN g <=> p \in DOMAIN g /\ j \in 1..g[p].n
    /\ \A p \in DOMAIN g : \A j \in 1..g[p].n : j \in Nat => g[Append(p, j)] = m[g[p].data][j]

\* Every node but the root is a child.
LEMMA UnfoldsChild ==
    ASSUME NEW m, NEW c, NEW g, Unfolds(m, c, g), NEW p \in DOMAIN g, p # <<>>
    PROVE  \E q \in DOMAIN g : \E j \in 1..g[q].n :
               q \in Path /\ j \in Nat /\ p = Append(q, j) /\ g[p] = m[g[q].data][j]
<1>1. PICK q \in Path, j \in Nat : p = Append(q, j)
  BY PathLast DEF Unfolds, OnPaths
<1>2. q \in DOMAIN g /\ j \in 1..g[q].n
  BY <1>1 DEF Unfolds
<1>3. QED
  BY <1>1, <1>2 DEF Unfolds

\* The nodes are reached from the root.
LEMMA UnfoldsInduction ==
    ASSUME NEW m, NEW c, NEW g, Unfolds(m, c, g), NEW S, <<>> \in S,
           \A p \in DOMAIN g : \A j \in 1..g[p].n : p \in S /\ j \in Nat => Append(p, j) \in S
    PROVE  DOMAIN g \subseteq S
<1> DEFINE R == {p \in Path : p \in DOMAIN g => p \in S}
<1>1. <<>> \in R
  BY DEF Path
<1>2. ASSUME NEW q \in Path, NEW j \in Nat, q \in R PROVE Append(q, j) \in R
  <2>1. Append(q, j) \in Path
    BY PathTypes
  <2>2. ASSUME Append(q, j) \in DOMAIN g PROVE Append(q, j) \in S
    <3>1. q \in DOMAIN g /\ j \in 1..g[q].n
      BY <2>2 DEF Unfolds
    <3>2. QED
      BY <1>2, <3>1
  <2>3. QED
    BY <2>1, <2>2
<1>3. Path \subseteq R
  <2> HIDE DEF R
  <2>1. QED
    BY <1>1, <1>2, PathInduction
<1>4. QED
  BY <1>3 DEF Unfolds, OnPaths

\* Whoever is above a node is a node.
LEMMA UnfoldsAbove ==
    ASSUME NEW m, NEW c, NEW g, Unfolds(m, c, g), NEW p \in Path, NEW q \in Path, p \o q \in DOMAIN g
    PROVE  p \in DOMAIN g
<1> DEFINE R == {s \in Path : p \o s \in DOMAIN g => p \in DOMAIN g}
<1>1. <<>> \in R
  BY PathTypes, PathConcat
<1>2. ASSUME NEW s \in Path, NEW j \in Nat, s \in R PROVE Append(s, j) \in R
  <2>1. Append(s, j) \in Path /\ p \o s \in Path
    BY PathTypes
  <2>2. p \o Append(s, j) = Append(p \o s, j)
    BY PathConcat
  <2>3. Append(p \o s, j) \in DOMAIN g => p \o s \in DOMAIN g
    BY <2>1 DEF Unfolds
  <2>4. QED
    BY <1>2, <2>1, <2>2, <2>3
<1>3. Path \subseteq R
  <2> HIDE DEF R
  <2>1. QED
    BY <1>1, <1>2, PathInduction
<1>4. QED
  BY <1>3

\* Storage that has the same children for the nodes.
LEMMA UnfoldsAgree ==
    ASSUME NEW m, NEW c, NEW g, Unfolds(m, c, g), NEW m2,
           \A p \in DOMAIN g : \A j \in 1..g[p].n : m2[g[p].data][j] = m[g[p].data][j]
    PROVE  Unfolds(m2, c, g)
BY DEF Unfolds

\* A node without children.
LEMMA UnfoldsBare ==
    ASSUME NEW m, NEW c, c.n = 0
    PROVE  Unfolds(m, c, Bare(c))
<1>1. OnPaths(Bare(c)) /\ DOMAIN Bare(c) = {<<>>} /\ Bare(c)[<<>>] = c
  BY BareFacts
<1>2. \A j : j \notin 1..c.n
  OBVIOUS
<1>3. \A p \in Path, j \in Nat : Append(p, j) # <<>>
  BY PathTypes
<1>4. QED
  BY <1>1, <1>2, <1>3 DEF Unfolds

\* What is below a node is its unfolding.
LEMMA UnfoldsSub ==
    ASSUME NEW m, NEW c, NEW g, Unfolds(m, c, g), NEW p \in DOMAIN g
    PROVE  Unfolds(m, g[p], T!Sub(g, p))
<1> DEFINE s == T!Sub(g, p)
<1>1. p \in Path /\ OnPaths(g)
  BY DEF Unfolds, OnPaths
<1>2. OnPaths(s) /\ DOMAIN s = {q \in Path : p \o q \in DOMAIN g} /\ \A q \in DOMAIN s : s[q] = g[p \o q]
  BY <1>1, SubFacts
<1> HIDE DEF s
<1>3. <<>> \in DOMAIN s /\ s[<<>>] = g[p]
  BY <1>1, <1>2, PathTypes, PathConcat
<1>4. ASSUME NEW q \in Path, NEW j \in Nat
      PROVE  /\ Append(q, j) \in DOMAIN s <=> q \in DOMAIN s /\ j \in 1..s[q].n
             /\ q \in DOMAIN s /\ j \in 1..s[q].n => s[Append(q, j)] = m[s[q].data][j]
  <2>1. Append(q, j) \in Path /\ p \o q \in Path
    BY <1>1, PathTypes
  <2>2. p \o Append(q, j) = Append(p \o q, j)
    BY <1>1, PathConcat
  <2>3. /\ Append(p \o q, j) \in DOMAIN g <=> p \o q \in DOMAIN g /\ j \in 1..g[p \o q].n
        /\ p \o q \in DOMAIN g /\ j \in 1..g[p \o q].n => g[Append(p \o q, j)] = m[g[p \o q].data][j]
    BY <2>1 DEF Unfolds
  <2>4. QED
    BY <1>2, <2>1, <2>2, <2>3
<1>5. QED
  BY <1>2, <1>3, <1>4 DEF Unfolds, OnPaths, s

\* Where the storage has c in the place of the node at p, and the other nodes
\* have their children as before, the tree of c takes the place of what was
\* at p.
LEMMA UnfoldsGraft ==
    ASSUME NEW m, NEW r, NEW g, Unfolds(m, r, g), NEW p \in DOMAIN g,
           NEW m2, NEW c, NEW h, Unfolds(m2, c, h),
           \A q \in DOMAIN g : \A j \in 1..g[q].n : ~T!IsPrefix(p, q) /\ j \in Nat =>
               m2[g[q].data][j] = IF Append(q, j) = p THEN c ELSE m[g[q].data][j]
    PROVE  Unfolds(m2, IF p = <<>> THEN c ELSE r, T!Graft(g, p, h))
<1> DEFINE u == T!Graft(g, p, h)
<1>1. p \in Path /\ OnPaths(g) /\ OnPaths(h) /\ <<>> \in DOMAIN h /\ h[<<>>] = c /\ <<>> \in Path
  BY PathTypes DEF Unfolds, OnPaths
<1>2. /\ OnPaths(u)
      /\ \A q \in DOMAIN h : u[p \o q] = h[q]
      /\ \A q \in Path : p \o q \in DOMAIN u <=> q \in DOMAIN h
  BY <1>1, GraftFacts
<1>3. \A q \in Path : ~T!IsPrefix(p, q) => /\ q \in DOMAIN u <=> q \in DOMAIN g
                                           /\ q \in DOMAIN g => u[q] = g[q]
  BY <1>1, GraftElse
<1> HIDE DEF u
<1>4. p \in DOMAIN u /\ u[p] = c
  BY <1>1, <1>2, PathConcat
<1>5. <<>> \in DOMAIN u /\ u[<<>>] = IF p = <<>> THEN c ELSE r
  <2>1. CASE p = <<>>
    BY <1>4, <2>1
  <2>2. CASE p # <<>>
    BY <1>1, <1>3, <2>2, PrefixSelf DEF Unfolds
  <2>3. QED
    BY <2>1, <2>2
<1>6. ASSUME NEW q \in Path, NEW j \in Nat
      PROVE  /\ Append(q, j) \in DOMAIN u <=> q \in DOMAIN u /\ j \in 1..u[q].n
             /\ q \in DOMAIN u /\ j \in 1..u[q].n => u[Append(q, j)] = m2[u[q].data][j]
  <2>1. Append(q, j) \in Path
    BY PathTypes
  <2>2. CASE T!IsPrefix(p, q)
    <3>1. PICK s \in Path : q = p \o s
      BY <1>1, <2>2, PrefixFacts
    <3>2. Append(s, j) \in Path
      BY PathTypes
    <3>3. Append(q, j) = p \o Append(s, j)
      <4>1. p \in Path
        BY <1>1
      <4>2. p \o Append(s, j) = Append(p \o s, j)
        BY <4>1, PathConcat
      <4>3. QED
        BY <3>1, <4>2
    <3>4. /\ Append(s, j) \in DOMAIN h <=> s \in DOMAIN h /\ j \in 1..h[s].n
          /\ s \in DOMAIN h /\ j \in 1..h[s].n => h[Append(s, j)] = m2[h[s].data][j]
      BY DEF Unfolds
    <3>5. QED
      BY <1>2, <3>1, <3>2, <3>3, <3>4
  <2>3. CASE ~T!IsPrefix(p, q) /\ Append(q, j) = p
    <3>1. q \in DOMAIN g /\ j \in 1..g[q].n
      BY <2>3 DEF Unfolds
    <3>2. q \in DOMAIN u /\ u[q] = g[q]
      BY <1>3, <2>3, <3>1
    <3>3. QED
      BY <1>4, <2>3, <3>1, <3>2
  <2>4. CASE ~T!IsPrefix(p, q) /\ Append(q, j) # p
    <3>1. ~T!IsPrefix(p, Append(q, j))
      BY <1>1, <2>4, PrefixAppend
    <3>2. /\ Append(q, j) \in DOMAIN u <=> Append(q, j) \in DOMAIN g
          /\ Append(q, j) \in DOMAIN g => u[Append(q, j)] = g[Append(q, j)]
          /\ q \in DOMAIN u <=> q \in DOMAIN g
          /\ q \in DOMAIN g => u[q] = g[q]
      BY <1>3, <2>1, <2>4, <3>1
    <3>3. /\ Append(q, j) \in DOMAIN g <=> q \in DOMAIN g /\ j \in 1..g[q].n
          /\ q \in DOMAIN g /\ j \in 1..g[q].n => g[Append(q, j)] = m[g[q].data][j]
      BY DEF Unfolds
    <3>4. q \in DOMAIN g /\ j \in 1..g[q].n => m2[g[q].data][j] = m[g[q].data][j]
      BY <2>4
    <3>5. QED
      BY <3>2, <3>3, <3>4
  <2>5. QED
    BY <2>2, <2>3, <2>4
<1>7. QED
  BY <1>2, <1>5, <1>6 DEF Unfolds, OnPaths, u

-----------------------------------------------------------------------------
(* The tree of TreeEdits is the labels of an unfolding. *)

LabelsOf(g) == [p \in DOMAIN g |-> g[p].label]

\* The labels are on the same paths as the cells,
LEMMA LabelsFacts ==
    ASSUME NEW g, OnPaths(g)
    PROVE  /\ OnPaths(LabelsOf(g)) /\ DOMAIN LabelsOf(g) = DOMAIN g
           /\ \A p \in DOMAIN g : LabelsOf(g)[p] = g[p].label
BY DEF LabelsOf, OnPaths

\* those of a subtree are the subtree of the labels,
LEMMA LabelsSub ==
    ASSUME NEW g, OnPaths(g), NEW p \in Path
    PROVE  LabelsOf(T!Sub(g, p)) = T!Sub(LabelsOf(g), p)
<1> DEFINE l == LabelsOf(g)
           s == T!Sub(g, p)
           a == LabelsOf(s)
           b == T!Sub(l, p)
<1>1. OnPaths(l) /\ DOMAIN l = DOMAIN g /\ \A q \in DOMAIN g : l[q] = g[q].label
  BY LabelsFacts
<1>2. OnPaths(s) /\ DOMAIN s = {q \in Path : p \o q \in DOMAIN g} /\ \A q \in DOMAIN s : s[q] = g[p \o q]
  BY SubFacts
<1> HIDE DEF l, s
<1>3. OnPaths(b) /\ DOMAIN b = {q \in Path : p \o q \in DOMAIN l} /\ \A q \in DOMAIN b : b[q] = l[p \o q]
  BY <1>1, SubFacts
<1>4. OnPaths(a) /\ DOMAIN a = DOMAIN s /\ \A q \in DOMAIN s : a[q] = s[q].label
  BY <1>2, LabelsFacts
<1> HIDE DEF a, b
<1>5. DOMAIN a = DOMAIN b /\ \A q \in DOMAIN a : a[q] = b[q]
  BY <1>1, <1>2, <1>3, <1>4
<1>6. QED
  BY <1>3, <1>4, <1>5, SameOnPaths DEF a, b, l, s

\* and those of a tree with a graft are the labels with the labels grafted.
LEMMA LabelsGraft ==
    ASSUME NEW g, OnPaths(g), NEW p \in Path, NEW h, OnPaths(h)
    PROVE  LabelsOf(T!Graft(g, p, h)) = T!Graft(LabelsOf(g), p, LabelsOf(h))
<1> DEFINE l == LabelsOf(g)
           k == LabelsOf(h)
           u == T!Graft(g, p, h)
           a == LabelsOf(u)
           b == T!Graft(l, p, k)
<1>1. /\ OnPaths(l) /\ DOMAIN l = DOMAIN g /\ \A q \in DOMAIN g : l[q] = g[q].label
      /\ OnPaths(k) /\ DOMAIN k = DOMAIN h /\ \A q \in DOMAIN h : k[q] = h[q].label
  BY LabelsFacts
<1>2. /\ OnPaths(u)
      /\ \A q \in DOMAIN h : u[p \o q] = h[q]
      /\ \A q \in Path : p \o q \in DOMAIN u <=> q \in DOMAIN h
      /\ \A r \in Path : ~T!IsPrefix(p, r) => /\ r \in DOMAIN u <=> r \in DOMAIN g
                                              /\ r \in DOMAIN g => u[r] = g[r]
  BY GraftFacts, GraftElse
<1> HIDE DEF l, k, u
<1>3. /\ OnPaths(b)
      /\ \A q \in DOMAIN k : b[p \o q] = k[q]
      /\ \A q \in Path : p \o q \in DOMAIN b <=> q \in DOMAIN k
      /\ \A r \in Path : ~T!IsPrefix(p, r) => /\ r \in DOMAIN b <=> r \in DOMAIN l
                                              /\ r \in DOMAIN l => b[r] = l[r]
  <2>1. OnPaths(l) /\ OnPaths(k)
    BY <1>1
  <2>2. /\ OnPaths(b)
        /\ \A q \in DOMAIN k : b[p \o q] = k[q]
        /\ \A q \in Path : p \o q \in DOMAIN b <=> q \in DOMAIN k
    BY <2>1, GraftFacts
  <2>3. \A r \in Path : ~T!IsPrefix(p, r) => /\ r \in DOMAIN b <=> r \in DOMAIN l
                                             /\ r \in DOMAIN l => b[r] = l[r]
    BY <2>1, GraftElse
  <2>4. QED
    BY <2>2, <2>3
<1>4. OnPaths(a) /\ DOMAIN a = DOMAIN u /\ \A q \in DOMAIN u : a[q] = u[q].label
  BY <1>2, LabelsFacts
<1> HIDE DEF a, b
<1>5. ASSUME NEW r \in Path
      PROVE  (r \in DOMAIN a <=> r \in DOMAIN b) /\ (r \in DOMAIN a => a[r] = b[r])
  <2>1. CASE T!IsPrefix(p, r)
    <3>1. PICK q \in Path : r = p \o q
      BY <2>1, PrefixFacts
    <3>2. /\ r \in DOMAIN u <=> q \in DOMAIN h
          /\ r \in DOMAIN b <=> q \in DOMAIN h
          /\ q \in DOMAIN h => u[r] = h[q] /\ b[r] = k[q] /\ k[q] = h[q].label
      BY <1>1, <1>2, <1>3, <3>1
    <3>3. QED
      BY <1>4, <3>2
  <2>2. CASE ~T!IsPrefix(p, r)
    BY <1>1, <1>2, <1>3, <1>4, <2>2
  <2>3. QED
    BY <2>1, <2>2
<1>6. DOMAIN a = DOMAIN b /\ \A r \in DOMAIN a : a[r] = b[r]
  BY <1>3, <1>4, <1>5 DEF OnPaths
<1>7. QED
  BY <1>3, <1>4, <1>6, SameOnPaths DEF a, b, l, k, u

\* A tree with x over a list of trees.
Lists(u, x, list) ==
    /\ OnPaths(u)
    /\ \A r \in Path : r \in DOMAIN u <=>
           r = <<>> \/ \E i \in DOMAIN list : \E q \in DOMAIN list[i] : r = <<i>> \o q
    /\ u[<<>>] = x
    /\ \A i \in DOMAIN list, q \in Path :
           /\ <<i>> \o q \in DOMAIN u <=> q \in DOMAIN list[i]
           /\ q \in DOMAIN list[i] => u[<<i>> \o q] = list[i][q]

\* Listing is this tree.
LEMMA ListingFacts ==
    ASSUME NEW x, NEW list, DOMAIN list \subseteq Nat, \A i \in DOMAIN list : OnPaths(list[i])
    PROVE  Lists(T!Listing(x, list), x, list)
<1> DEFINE D == UNION {{<<i>> \o r : r \in DOMAIN list[i]} : i \in DOMAIN list}
           E == D \cup {<<>>}
           u == T!Listing(x, list)
<1>1. u = [r \in E |-> IF r = <<>> THEN x ELSE list[Head(r)][Tail(r)]]
  BY DEF T!Listing
<1>2. \A r : r \in E <=> r = <<>> \/ \E i \in DOMAIN list : \E q \in DOMAIN list[i] : r = <<i>> \o q
  <2>1. ASSUME NEW r PROVE r \in D <=> \E i \in DOMAIN list : r \in {<<i>> \o q : q \in DOMAIN list[i]}
    OBVIOUS
  <2>2. ASSUME NEW r, NEW i
        PROVE r \in {<<i>> \o q : q \in DOMAIN list[i]} <=> \E q \in DOMAIN list[i] : r = <<i>> \o q
    BY Zenon
  <2> HIDE DEF D
  <2>3. QED
    BY <2>1, <2>2, Zenon
<1>3. \A i \in DOMAIN list, q \in Path : /\ <<i>> \o q \in Path /\ <<i>> \o q # <<>>
                                         /\ Head(<<i>> \o q) = i /\ Tail(<<i>> \o q) = q
  <2>1. ASSUME NEW i \in DOMAIN list, NEW q \in Path
        PROVE  /\ <<i>> \o q \in Path /\ <<i>> \o q # <<>>
               /\ Head(<<i>> \o q) = i /\ Tail(<<i>> \o q) = q
    <3>1. i \in Nat
      OBVIOUS
    <3>2. <<i>> \in Path
      BY <3>1 DEF Path
    <3>3. <<i>> \o q \in Path
      BY <3>2, PathTypes
    <3>4. QED
      BY <3>1, <3>3, PathConcat
  <2>2. QED
    BY <2>1
<1>4. \A i \in DOMAIN list : DOMAIN list[i] \subseteq Path
  BY DEF OnPaths
<1> HIDE DEF E
<1>5. E \subseteq Path
  <2>1. <<>> \in Path
    BY DEF Path
  <2>2. ASSUME NEW r \in E PROVE r \in Path
    <3>1. r # <<>> => \E i \in DOMAIN list : \E q \in DOMAIN list[i] : r = <<i>> \o q
      BY <1>2
    <3>2. \A i \in DOMAIN list : \A q \in DOMAIN list[i] : <<i>> \o q \in Path
      BY <1>3, <1>4
    <3>3. QED
      BY <2>1, <3>1, <3>2
  <2>3. QED
    BY <2>2
<1>6. OnPaths(u) /\ DOMAIN u = E /\ \A r \in E : u[r] = IF r = <<>> THEN x ELSE list[Head(r)][Tail(r)]
  BY <1>1, <1>5 DEF OnPaths
<1> HIDE DEF u
<1>7. u[<<>>] = x
  BY <1>2, <1>6
<1>8. ASSUME NEW i \in DOMAIN list, NEW q \in Path
      PROVE  /\ <<i>> \o q \in E <=> q \in DOMAIN list[i]
             /\ q \in DOMAIN list[i] => u[<<i>> \o q] = list[i][q]
  <2>1. ASSUME NEW i2 \in DOMAIN list, NEW q2 \in DOMAIN list[i2], <<i>> \o q = <<i2>> \o q2
        PROVE  i = i2 /\ q = q2
    <3>1. q2 \in Path
      BY <1>4
    <3>2. /\ Head(<<i2>> \o q2) = i2 /\ Tail(<<i2>> \o q2) = q2
          /\ Head(<<i>> \o q) = i /\ Tail(<<i>> \o q) = q
      BY <1>3, <3>1
    <3>3. QED
      BY <2>1, <3>2
  <2>2. <<i>> \o q \in E <=> q \in DOMAIN list[i]
    <3> DEFINE r == <<i>> \o q
    <3>1. r # <<>>
      BY <1>3
    <3>2. \A i2 \in DOMAIN list : \A q2 \in DOMAIN list[i2] : r = <<i2>> \o q2 => i = i2 /\ q = q2
      BY <2>1
    <3>3. r \in E <=> r = <<>> \/ \E i2 \in DOMAIN list : \E q2 \in DOMAIN list[i2] : r = <<i2>> \o q2
      BY <1>2
    <3>4. q \in DOMAIN list[i] => r \in E
      BY <3>3
    <3> HIDE DEF r
    <3>5. r \in E => q \in DOMAIN list[i]
      BY <3>1, <3>2, <3>3
    <3>6. QED
      BY <3>4, <3>5 DEF r
  <2>3. q \in DOMAIN list[i] => u[<<i>> \o q] = list[i][q]
    BY <1>3, <1>6, <2>2
  <2>4. QED
    BY <2>2, <2>3
<1>9. QED
  BY <1>2, <1>6, <1>7, <1>8 DEF u, Lists

\* The paths of t from its first steps are those of the trees in the list.
Parts(t, list) ==
    \A i \in Nat, q \in Path :
        /\ <<i>> \o q \in DOMAIN t <=> i \in DOMAIN list /\ q \in DOMAIN list[i]
        /\ i \in DOMAIN list /\ q \in DOMAIN list[i] => t[<<i>> \o q] = list[i][q]

\* That is enough for a tree to be the listing.
LEMMA SameListing ==
    ASSUME NEW x, NEW list, DOMAIN list \subseteq Nat, \A i \in DOMAIN list : OnPaths(list[i]),
           NEW t, OnPaths(t), <<>> \in DOMAIN t, t[<<>>] = x, Parts(t, list)
    PROVE  t = T!Listing(x, list)
<1> DEFINE u == T!Listing(x, list)
<1>1. Lists(u, x, list)
  BY ListingFacts
<1> HIDE DEF u
<1>2. ASSUME NEW r \in Path
      PROVE  (r \in DOMAIN t <=> r \in DOMAIN u) /\ (r \in DOMAIN t => t[r] = u[r])
  <2>1. CASE r = <<>>
    BY <1>1, <2>1 DEF Lists
  <2>2. CASE r # <<>>
    <3>1. PICK i \in Nat, q \in Path : r = <<i>> \o q
      BY <2>2, PathFirst
    <3>2. i \notin DOMAIN list => r \notin DOMAIN u
      <4>1. ASSUME NEW i2 \in DOMAIN list, NEW q2 \in DOMAIN list[i2], r = <<i2>> \o q2
            PROVE  i2 = i
        <5>1. i2 \in Nat /\ q2 \in Path
          BY DEF OnPaths
        <5>2. Head(<<i2>> \o q2) = i2 /\ Head(<<i>> \o q) = i
          BY <5>1, PathConcat
        <5>3. QED
          BY <3>1, <4>1, <5>2
      <4>2. r \in DOMAIN u => \E i2 \in DOMAIN list : \E q2 \in DOMAIN list[i2] : r = <<i2>> \o q2
        BY <1>1, <2>2 DEF Lists
      <4>3. QED
        BY <4>1, <4>2
    <3>3. QED
      BY <1>1, <3>1, <3>2 DEF Lists, Parts
  <2>3. QED
    BY <2>1, <2>2
<1>3. DOMAIN t = DOMAIN u /\ \A r \in DOMAIN t : t[r] = u[r]
  BY <1>1, <1>2 DEF OnPaths, Lists
<1>4. QED
  BY <1>1, <1>3, SameOnPaths DEF u, Lists

\* The labels of a list of trees of cells.
LabelsOfAll(list) == [i \in DOMAIN list |-> LabelsOf(list[i])]

\* The labels of a node over a list of trees are its label over the labels of
\* the list.
LEMMA LabelsListing ==
    ASSUME NEW c, NEW list, DOMAIN list \subseteq Nat, \A i \in DOMAIN list : OnPaths(list[i])
    PROVE  LabelsOf(T!Listing(c, list)) = T!Listing(c.label, LabelsOfAll(list))
<1> DEFINE u == T!Listing(c, list)
           t == LabelsOf(u)
           k == LabelsOfAll(list)
<1>1. Lists(u, c, list)
  BY ListingFacts
<1>2. /\ DOMAIN k = DOMAIN list
      /\ \A i \in DOMAIN list : /\ OnPaths(k[i]) /\ DOMAIN k[i] = DOMAIN list[i]
                                /\ \A q \in DOMAIN list[i] : k[i][q] = list[i][q].label
  BY LabelsFacts DEF LabelsOfAll
<1> HIDE DEF u, k
<1>3. OnPaths(t) /\ DOMAIN t = DOMAIN u /\ \A r \in DOMAIN u : t[r] = u[r].label
  BY <1>1, LabelsFacts DEF Lists
<1> HIDE DEF t
<1>4. <<>> \in DOMAIN t /\ t[<<>>] = c.label
  <2>1. <<>> \in Path
    BY DEF Path
  <2>2. <<>> \in DOMAIN u
    BY <1>1, <2>1 DEF Lists
  <2>3. QED
    BY <1>1, <1>3, <2>2 DEF Lists
<1>5. ASSUME NEW i \in Nat, NEW q \in Path
      PROVE  /\ <<i>> \o q \in DOMAIN t <=> i \in DOMAIN k /\ q \in DOMAIN k[i]
             /\ i \in DOMAIN k /\ q \in DOMAIN k[i] => t[<<i>> \o q] = k[i][q]
  <2>1. CASE i \in DOMAIN list
    BY <1>1, <1>2, <1>3, <2>1 DEF Lists
  <2>2. CASE i \notin DOMAIN list
    <3>1. ASSUME NEW i2 \in DOMAIN list, NEW q2 \in DOMAIN list[i2], <<i>> \o q = <<i2>> \o q2
          PROVE  i2 = i
      <4>1. i2 \in Nat /\ q2 \in Path
        BY DEF OnPaths
      <4>2. Head(<<i2>> \o q2) = i2 /\ Head(<<i>> \o q) = i
        BY <4>1, PathConcat
      <4>3. QED
        BY <3>1, <4>2
    <3>2. <<i>> \in Path
      BY DEF Path
    <3>3. <<i>> \o q \in Path /\ <<i>> \o q # <<>>
      <4>1. <<i>> \o q \in Path
        BY <3>2, PathTypes
      <4>2. <<i>> \o q # <<>>
        BY PathConcat
      <4>3. QED
        BY <4>1, <4>2
    <3>4. <<i>> \o q \notin DOMAIN u
      BY <1>1, <2>2, <3>1, <3>3 DEF Lists
    <3>5. QED
      BY <1>2, <1>3, <2>2, <3>4
  <2>3. QED
    BY <2>1, <2>2
<1>6. t = T!Listing(c.label, k)
  <2>1. Parts(t, k)
    BY <1>5 DEF Parts
  <2>2. QED
    BY <1>2, <1>3, <1>4, <2>1, SameListing
<1>7. QED
  BY <1>6 DEF t, u, k

\* The children of a node, as TreeEdits lists them.
LEMMA ChildrenFacts ==
    ASSUME NEW m, NEW c, NEW g, Unfolds(m, c, g), NEW p \in DOMAIN g, g[p].n \in Nat
    PROVE  T!Children(T!Sub(LabelsOf(g), p)) = [i \in 1..g[p].n |-> LabelsOf(T!Sub(g, Append(p, i)))]
<1> DEFINE l == LabelsOf(g)
           t == T!Sub(l, p)
           D == {Head(r) : r \in DOMAIN t \ {<<>>}}
<1>1. /\ OnPaths(g) /\ p \in Path
      /\ OnPaths(l) /\ DOMAIN l = DOMAIN g
  BY LabelsFacts DEF Unfolds, OnPaths
<1> HIDE DEF l
<1>2. OnPaths(t) /\ DOMAIN t = {q \in Path : p \o q \in DOMAIN g} /\ \A q \in DOMAIN t : t[q] = l[p \o q]
  BY <1>1, SubFacts
<1> HIDE DEF t
<1>3. ASSUME NEW i \in Nat
      PROVE  /\ Append(p, i) \in Path /\ Append(p, i) = p \o <<i>> /\ <<i>> \in Path
             /\ Append(p, i) \in DOMAIN g <=> i \in 1..g[p].n
  <2>1. Append(p, i) \in Path /\ <<i>> \in Path
    BY <1>1, PathTypes
  <2>2. Append(p, i) = p \o <<i>>
    BY <1>1, PathConcat
  <2>3. Append(p, i) \in DOMAIN g <=> i \in 1..g[p].n
    BY <1>1 DEF Unfolds
  <2>4. QED
    BY <2>1, <2>2, <2>3
<1>4. ASSUME NEW i \in 1..g[p].n PROVE i \in D
  <2>1. i \in Nat
    OBVIOUS
  <2>2. <<i>> \in DOMAIN t /\ <<i>> # <<>> /\ Head(<<i>>) = i
    <3>1. p \o <<i>> \in DOMAIN g /\ <<i>> \in Path
      <4>1. Append(p, i) \in DOMAIN g
        BY <1>3, <2>1
      <4>2. QED
        BY <1>3, <2>1, <4>1
    <3>2. <<i>> # <<>> /\ Head(<<i>>) = i
      BY <2>1
    <3>3. QED
      BY <1>2, <3>1, <3>2
  <2>3. QED
    BY <2>2
<1>5. ASSUME NEW i \in D PROVE i \in 1..g[p].n
  <2>1. PICK r \in DOMAIN t \ {<<>>} : i = Head(r)
    OBVIOUS
  <2>2. r \in Path /\ p \o r \in DOMAIN g
    BY <1>2
  <2>3. i \in Nat /\ Tail(r) \in Path /\ r = <<i>> \o Tail(r)
    BY <2>1, <2>2, PathFirst
  <2>4. p \o r = Append(p, i) \o Tail(r)
    <3>1. p \o (<<i>> \o Tail(r)) = (p \o <<i>>) \o Tail(r)
      BY <1>1, <1>3, <2>3, PathConcat3
    <3>2. QED
      BY <1>3, <2>3, <3>1, Zenon
  <2>5. Append(p, i) \in DOMAIN g
    BY <1>3, <2>2, <2>3, <2>4, UnfoldsAbove
  <2>6. QED
    BY <1>3, <2>3, <2>5
<1>6. D = 1..g[p].n
  BY <1>4, <1>5
<1> HIDE DEF D
<1>7. ASSUME NEW i \in 1..g[p].n PROVE T!Sub(t, <<i>>) = LabelsOf(T!Sub(g, Append(p, i)))
  <2>1. i \in Nat
    OBVIOUS
  <2> DEFINE a == T!Sub(t, <<i>>)
             b == T!Sub(l, Append(p, i))
  <2>2. OnPaths(a) /\ DOMAIN a = {q \in Path : <<i>> \o q \in DOMAIN t} /\ \A q \in DOMAIN a : a[q] = t[<<i>> \o q]
    <3>1. <<i>> \in Path
      BY <1>3, <2>1
    <3>2. QED
      BY <1>2, <3>1, SubFacts
  <2>3. OnPaths(b) /\ DOMAIN b = {q \in Path : Append(p, i) \o q \in DOMAIN l} /\ \A q \in DOMAIN b : b[q] = l[Append(p, i) \o q]
    <3>1. Append(p, i) \in Path
      BY <1>3, <2>1
    <3>2. QED
      BY <1>1, <3>1, SubFacts
  <2> HIDE DEF a, b
  <2>4. ASSUME NEW q \in Path
        PROVE  /\ <<i>> \o q \in Path
               /\ p \o (<<i>> \o q) = Append(p, i) \o q
    <3>1. <<i>> \in Path
      BY <1>3, <2>1
    <3>2. <<i>> \o q \in Path
      BY <3>1, PathTypes
    <3>3. p \o (<<i>> \o q) = (p \o <<i>>) \o q
      BY <1>1, <3>1, PathConcat3
    <3>4. p \o <<i>> = Append(p, i)
      BY <1>3, <2>1
    <3>5. QED
      BY <3>2, <3>3, <3>4
  <2>5. DOMAIN a = DOMAIN b
    BY <1>1, <1>2, <2>2, <2>3, <2>4
  <2>6. ASSUME NEW q \in DOMAIN a PROVE a[q] = b[q]
    <3>1. q \in Path /\ <<i>> \o q \in DOMAIN t /\ a[q] = t[<<i>> \o q]
      BY <2>2
    <3>2. t[<<i>> \o q] = l[p \o (<<i>> \o q)]
      BY <1>2, <3>1
    <3>3. b[q] = l[Append(p, i) \o q]
      BY <2>3, <2>5
    <3>4. p \o (<<i>> \o q) = Append(p, i) \o q
      BY <2>4, <3>1
    <3>5. QED
      BY <3>1, <3>2, <3>3, <3>4
  <2>7. a = b
    BY <2>2, <2>3, <2>5, <2>6, SameOnPaths
  <2>8. b = LabelsOf(T!Sub(g, Append(p, i)))
    <3>1. Append(p, i) \in Path
      BY <1>3, <2>1
    <3>2. QED
      BY <1>1, <3>1, LabelsSub DEF b, l
  <2>9. QED
    BY <2>7, <2>8 DEF a
<1>8. T!Children(t) = [i \in D |-> T!Sub(t, <<i>>)]
  BY DEF T!Children, D
<1>9. T!Children(t) = [i \in 1..g[p].n |-> LabelsOf(T!Sub(g, Append(p, i)))]
  BY <1>6, <1>7, <1>8
<1>10. QED
  BY <1>9 DEF t, l

\* A node whose children have these trees.
LEMMA UnfoldsListing ==
    ASSUME NEW m, NEW c, c.n \in Nat, NEW list, DOMAIN list = 1..c.n,
           \A j \in 1..c.n : Unfolds(m, m[c.data][j], list[j])
    PROVE  Unfolds(m, c, T!Listing(c, list))
<1> DEFINE u == T!Listing(c, list)
<1>1. DOMAIN list \subseteq Nat /\ \A i \in DOMAIN list : OnPaths(list[i])
  BY DEF Unfolds
<1>2. Lists(u, c, list)
  BY <1>1, ListingFacts
<1> HIDE DEF u
<1>3. <<>> \in Path
  BY DEF Path
<1>4. <<>> \in DOMAIN u /\ u[<<>>] = c
  BY <1>2, <1>3 DEF Lists
<1>5. ASSUME NEW r \in Path, NEW j \in Nat
      PROVE  /\ Append(r, j) \in DOMAIN u <=> r \in DOMAIN u /\ j \in 1..u[r].n
             /\ r \in DOMAIN u /\ j \in 1..u[r].n => u[Append(r, j)] = m[u[r].data][j]
  <2>1. CASE r = <<>>
    <3>1. Append(r, j) = <<j>> \o <<>>
      BY <2>1
    <3>2. <<j>> \o <<>> \in DOMAIN u <=> j \in 1..c.n
      <4>1. ASSUME j \in 1..c.n
            PROVE  /\ <<j>> \o <<>> \in DOMAIN u
                   /\ u[<<j>> \o <<>>] = m[c.data][j]
        <5>1. <<>> \in DOMAIN list[j] /\ list[j][<<>>] = m[c.data][j]
          BY <4>1 DEF Unfolds
        <5>2. QED
          BY <1>2, <1>3, <4>1, <5>1 DEF Lists
      <4>2. ASSUME <<j>> \o <<>> \in DOMAIN u PROVE j \in 1..c.n
        <5>1. <<j>> \o <<>> \in Path /\ <<j>> \o <<>> # <<>>
          BY DEF Path
        <5>2. PICK i \in DOMAIN list : \E q \in DOMAIN list[i] : <<j>> \o <<>> = <<i>> \o q
          BY <1>2, <4>2, <5>1 DEF Lists
        <5>3. PICK q \in DOMAIN list[i] : <<j>> \o <<>> = <<i>> \o q
          BY <5>2
        <5>4. q \in Path /\ i \in Nat
          BY <1>1 DEF OnPaths
        <5>5. Head(<<j>> \o <<>>) = j /\ Head(<<i>> \o q) = i
          BY <1>3, <5>4, PathConcat
        <5>6. QED
          BY <5>3, <5>5
      <4>3. QED
        BY <4>1, <4>2
    <3>3. j \in 1..c.n => u[<<j>> \o <<>>] = m[c.data][j]
      <4>1. ASSUME j \in 1..c.n PROVE u[<<j>> \o <<>>] = m[c.data][j]
        <5>1. <<>> \in DOMAIN list[j] /\ list[j][<<>>] = m[c.data][j]
          BY <4>1 DEF Unfolds
        <5>2. QED
          BY <1>2, <1>3, <4>1, <5>1 DEF Lists
      <4>2. QED
        BY <4>1
    <3>4. QED
      BY <1>4, <2>1, <3>1, <3>2, <3>3
  <2>2. CASE r # <<>>
    <3>1. PICK i \in Nat, q \in Path : r = <<i>> \o q
      BY <2>2, PathFirst
    <3>2. Append(q, j) \in Path /\ <<i>> \in Path
      BY PathTypes
    <3>3. Append(r, j) = <<i>> \o Append(q, j)
      <4>1. <<i>> \o Append(q, j) = Append(<<i>> \o q, j)
        BY <3>2, PathConcat
      <4>2. QED
        BY <3>1, <4>1
    <3>4. CASE i \in DOMAIN list
      <4>1. Unfolds(m, m[c.data][i], list[i])
        BY <3>4
      <4>2. /\ Append(q, j) \in DOMAIN list[i] <=> q \in DOMAIN list[i] /\ j \in 1..list[i][q].n
            /\ q \in DOMAIN list[i] /\ j \in 1..list[i][q].n => list[i][Append(q, j)] = m[list[i][q].data][j]
        BY <4>1 DEF Unfolds
      <4>3. /\ Append(r, j) \in DOMAIN u <=> Append(q, j) \in DOMAIN list[i]
            /\ Append(q, j) \in DOMAIN list[i] => u[Append(r, j)] = list[i][Append(q, j)]
            /\ r \in DOMAIN u <=> q \in DOMAIN list[i]
            /\ q \in DOMAIN list[i] => u[r] = list[i][q]
        BY <1>2, <3>1, <3>2, <3>3, <3>4 DEF Lists
      <4>4. QED
        BY <4>2, <4>3
    <3>5. CASE i \notin DOMAIN list
      <4>1. ASSUME NEW s \in Path PROVE <<i>> \o s \notin DOMAIN u
        <5>1. <<i>> \o s \in Path /\ <<i>> \o s # <<>>
          <6>1. <<i>> \o s \in Path
            BY <3>2, PathTypes
          <6>2. <<i>> \o s # <<>>
            BY PathConcat
          <6>3. QED
            BY <6>1, <6>2
        <5>2. ASSUME NEW k \in DOMAIN list, NEW x \in DOMAIN list[k], <<i>> \o s = <<k>> \o x
              PROVE  FALSE
          <6>1. x \in Path /\ k \in Nat
            BY <1>1 DEF OnPaths
          <6>2. Head(<<i>> \o s) = i /\ Head(<<k>> \o x) = k
            BY <6>1, PathConcat
          <6>3. QED
            BY <3>5, <5>2, <6>2
        <5>3. QED
          BY <1>2, <5>1, <5>2 DEF Lists
      <4>2. QED
        BY <3>1, <3>2, <3>3, <4>1
    <3>6. QED
      BY <3>4, <3>5
  <2>3. QED
    BY <2>1, <2>2
<1>6. QED
  BY <1>2, <1>4, <1>5 DEF Unfolds, OnPaths, Lists, u

\* What is below a node is a listing of what is below its children.
LEMMA SubIsListing ==
    ASSUME NEW m, NEW c, NEW g, Unfolds(m, c, g), NEW p \in DOMAIN g, g[p].n \in Nat
    PROVE  T!Sub(g, p) = T!Listing(g[p], [i \in 1..g[p].n |-> T!Sub(g, Append(p, i))])
<1> DEFINE n == g[p].n
           t == T!Sub(g, p)
           list == [i \in 1..n |-> T!Sub(g, Append(p, i))]
<1>1. OnPaths(g) /\ p \in Path
  BY DEF Unfolds, OnPaths
<1>2. OnPaths(t) /\ DOMAIN t = {q \in Path : p \o q \in DOMAIN g} /\ \A q \in DOMAIN t : t[q] = g[p \o q]
  BY <1>1, SubFacts
<1> HIDE DEF t
<1>3. ASSUME NEW i \in 1..n
      PROVE  /\ OnPaths(list[i])
             /\ DOMAIN list[i] = {q \in Path : Append(p, i) \o q \in DOMAIN g}
             /\ \A q \in DOMAIN list[i] : list[i][q] = g[Append(p, i) \o q]
  <2>1. i \in Nat
    OBVIOUS
  <2>2. Append(p, i) \in Path
    BY <1>1, <2>1, PathTypes
  <2>3. list[i] = T!Sub(g, Append(p, i))
    OBVIOUS
  <2>4. QED
    BY <1>1, <2>2, <2>3, SubFacts
<1>4. DOMAIN list = 1..n /\ DOMAIN list \subseteq Nat
  OBVIOUS
<1> HIDE DEF list
<1>5. <<>> \in DOMAIN t /\ t[<<>>] = g[p]
  <2>1. <<>> \in Path /\ p \o <<>> = p
    BY <1>1, PathTypes, PathConcat
  <2>2. QED
    BY <1>2, <2>1
<1>6. ASSUME NEW i \in Nat, NEW q \in Path
      PROVE  /\ <<i>> \o q \in DOMAIN t <=> i \in DOMAIN list /\ q \in DOMAIN list[i]
             /\ i \in DOMAIN list /\ q \in DOMAIN list[i] => t[<<i>> \o q] = list[i][q]
  <2>1. <<i>> \in Path /\ Append(p, i) \in Path
    BY <1>1, PathTypes
  <2>2. <<i>> \o q \in Path
    BY <2>1, PathTypes
  <2>3. p \o (<<i>> \o q) = Append(p, i) \o q
    <3>1. p \o (<<i>> \o q) = (p \o <<i>>) \o q
      BY <1>1, <2>1, PathConcat3
    <3>2. p \o <<i>> = Append(p, i)
      BY <1>1, PathConcat
    <3>3. QED
      BY <3>1, <3>2
  <2>4. Append(p, i) \o q \in DOMAIN g => Append(p, i) \in DOMAIN g
    BY <2>1, UnfoldsAbove
  <2>5. Append(p, i) \in DOMAIN g <=> i \in 1..n
    BY <1>1 DEF Unfolds
  <2>6. QED
    BY <1>2, <1>3, <1>4, <2>2, <2>3, <2>4, <2>5
<1>7. t = T!Listing(g[p], list)
  <2>1. \A i \in DOMAIN list : OnPaths(list[i])
    BY <1>3, <1>4
  <2>2. OnPaths(t)
    BY <1>2
  <2> DEFINE x == g[p]
  <2>3. <<>> \in DOMAIN t /\ t[<<>>] = x
    BY <1>5
  <2> HIDE DEF x, n
  <2>4. Parts(t, list)
    BY <1>6 DEF Parts
  <2>5. t = T!Listing(x, list)
    BY <1>4, <2>1, <2>2, <2>3, <2>4, SameListing
  <2>6. QED
    BY <2>5 DEF x
<1>8. QED
  BY <1>7 DEF t, list

-----------------------------------------------------------------------------
(* Forests: an unfolding for each variable. *)

Forest(m, G) ==
    /\ DOMAIN G = Var \cap DOMAIN m
    /\ \A v \in DOMAIN G : Unfolds(m, m[v][1], G[v])

Trees(G) == [v \in DOMAIN G |-> LabelsOf(G[v])]

\* The address of a node: the root is in the variable, a child in the array of
\* its parent.
Where(v, g, p) == IF p = <<>> THEN <<v, 1>>
                  ELSE <<g[SubSeq(p, 1, Len(p) - 1)].data, p[Len(p)]>>

\* The address of a child.
LEMMA WhereChild ==
    ASSUME NEW v, NEW g, NEW p \in Path, NEW j \in Nat
    PROVE  Where(v, g, Append(p, j)) = <<g[p].data, j>>
<1> DEFINE a == Append(p, j)
<1>1. a # <<>> /\ SubSeq(a, 1, Len(a) - 1) = p /\ a[Len(a)] = j
  BY DEF Path
<1> HIDE DEF a
<1>2. Where(v, g, a) = <<g[p].data, j>>
  BY <1>1 DEF Where
<1>3. QED
  BY <1>2 DEF a

\* A cell that counts no children, or has an array of as many.
Backed(m, c) ==
    /\ c \in Cell
    /\ c.n > 0 => c.data \in Block \cap DOMAIN m /\ Len(m[c.data]) = c.n

\* Every cell of the storage is backed, and has no loose array.
LEMMA CellsBacked ==
    ASSUME NEW m, NEW loose, Memory(m), Owned(m, loose), NEW b \in DOMAIN m, NEW i \in DOMAIN m[b]
    PROVE  /\ Backed(m, m[b][i])
           /\ m[b][i].n > 0 => m[b][i].data \notin loose
BY MemoryCells, OneOwner DEF Backed

\* So it is below such a cell.
LEMMA UnfoldsBacked ==
    ASSUME NEW m, NEW loose, Memory(m), Owned(m, loose),
           NEW c, Backed(m, c), NEW g, Unfolds(m, c, g)
    PROVE  \A p \in DOMAIN g :
               /\ Backed(m, g[p])
               /\ g[p].n \in Nat
               /\ p # <<>> /\ g[p].n > 0 => g[p].data \notin loose
<1> DEFINE S == {p \in DOMAIN g : Backed(m, g[p]) /\ (p # <<>> /\ g[p].n > 0 => g[p].data \notin loose)}
<1>1. <<>> \in S
  BY DEF Unfolds
<1>2. ASSUME NEW p \in DOMAIN g, NEW j \in 1..g[p].n, p \in S, j \in Nat PROVE Append(p, j) \in S
  <2>1. p \in Path
    BY DEF Unfolds, OnPaths
  <2>2. Append(p, j) \in DOMAIN g /\ g[Append(p, j)] = m[g[p].data][j]
    BY <1>2, <2>1 DEF Unfolds
  <2>3. g[p].n \in Nat
    BY <1>2, CellFacts DEF Backed
  <2>4. g[p].data \in DOMAIN m /\ Len(m[g[p].data]) = g[p].n
    BY <1>2, <2>3 DEF Backed
  <2>5. j \in DOMAIN m[g[p].data]
    BY <2>4, <2>3 DEF Memory
  <2>6. QED
    BY <2>2, <2>4, <2>5, CellsBacked
<1>3. DOMAIN g \subseteq S
  <2> HIDE DEF S
  <2>1. QED
    BY <1>1, <1>2, UnfoldsInduction
<1>4. QED
  BY <1>3, CellFacts DEF Backed

\* The nodes of a forest are the cells at their addresses.
LEMMA ForestCells ==
    ASSUME NEW m, NEW loose, Memory(m), Owned(m, loose), NEW G, Forest(m, G),
           NEW v \in DOMAIN G, NEW p \in DOMAIN G[v]
    PROVE  /\ v \in Var \cap DOMAIN m /\ p \in Path
           /\ Backed(m, G[v][p])
           /\ G[v][p].n \in Nat
           /\ G[v][p].n > 0 => G[v][p].data \in (Block \cap DOMAIN m) \ loose
           /\ \E b \in DOMAIN m : \E i \in DOMAIN m[b] :
                 /\ Where(v, G[v], p) = <<b, i>> /\ m[b][i] = G[v][p]
                 /\ b \notin loose
                 /\ p # <<>> => b \in Block
<1>1. v \in Var \cap DOMAIN m /\ Unfolds(m, m[v][1], G[v])
  BY DEF Forest
<1>2. p \in Path /\ <<>> \in DOMAIN G[v] /\ G[v][<<>>] = m[v][1]
  BY <1>1 DEF Unfolds, OnPaths
<1>3. 1 \in DOMAIN m[v]
  BY <1>1 DEF Memory
<1>4. Backed(m, m[v][1]) /\ (m[v][1].n > 0 => m[v][1].data \notin loose)
  BY <1>1, <1>3, CellsBacked
<1>5. \A q \in DOMAIN G[v] : /\ Backed(m, G[v][q]) /\ G[v][q].n \in Nat
                             /\ G[v][q].n > 0 => G[v][q].data \notin loose
  <2>1. \A q \in DOMAIN G[v] : /\ Backed(m, G[v][q]) /\ G[v][q].n \in Nat
                               /\ q # <<>> /\ G[v][q].n > 0 => G[v][q].data \notin loose
    BY <1>1, <1>4, UnfoldsBacked
  <2>2. QED
    BY <1>2, <1>4, <2>1
<1>6. \E b \in DOMAIN m : \E i \in DOMAIN m[b] :
         /\ Where(v, G[v], p) = <<b, i>> /\ m[b][i] = G[v][p]
         /\ b \notin loose
         /\ p # <<>> => b \in Block
  <2>1. CASE p = <<>>
    <3>1. Where(v, G[v], p) = <<v, 1>>
      BY <2>1 DEF Where
    <3>2. v \notin loose
      BY <1>1, StorageAssumption DEF Owned
    <3>3. QED
      BY <1>1, <1>2, <1>3, <2>1, <3>1, <3>2
  <2>2. CASE p # <<>>
    <3>1. PICK q \in DOMAIN G[v] : \E j \in 1..G[v][q].n :
             q \in Path /\ j \in Nat /\ p = Append(q, j) /\ G[v][p] = m[G[v][q].data][j]
      BY <1>1, <2>2, UnfoldsChild
    <3>2. PICK j \in 1..G[v][q].n :
             q \in Path /\ j \in Nat /\ p = Append(q, j) /\ G[v][p] = m[G[v][q].data][j]
      BY <3>1
    <3>3. Where(v, G[v], p) = <<G[v][q].data, j>>
      BY <3>2, WhereChild
    <3>4. G[v][q].n \in Nat /\ G[v][q].n > 0
      BY <1>5, <3>2
    <3>5. /\ G[v][q].data \in (Block \cap DOMAIN m) \ loose
          /\ Len(m[G[v][q].data]) = G[v][q].n
      BY <1>5, <3>4 DEF Backed
    <3>6. j \in DOMAIN m[G[v][q].data]
      BY <3>4, <3>5 DEF Memory
    <3>7. QED
      BY <3>2, <3>3, <3>5, <3>6
  <2>3. QED
    BY <2>1, <2>2
<1>7. QED
  BY <1>1, <1>2, <1>5, <1>6 DEF Backed

\* No two nodes have the same address.
LEMMA OneAddress ==
    ASSUME NEW m, NEW loose, Memory(m), Owned(m, loose), NEW G, Forest(m, G),
           NEW v \in DOMAIN G, NEW p \in DOMAIN G[v], NEW w \in DOMAIN G, NEW q \in DOMAIN G[w],
           Where(v, G[v], p) = Where(w, G[w], q)
    PROVE  v = w /\ p = q
<1> DEFINE S == {x \in DOMAIN G[v] : \A y \in DOMAIN G[w] :
                    Where(v, G[v], x) = Where(w, G[w], y) => v = w /\ x = y}
<1>1. Unfolds(m, m[v][1], G[v]) /\ Unfolds(m, m[w][1], G[w]) /\ v \in Var /\ w \in Var
  BY DEF Forest
<1>2. ASSUME NEW y \in DOMAIN G[w], y # <<>>
      PROVE  \E z \in DOMAIN G[w] : \E k \in 1..G[w][z].n :
                /\ z \in Path /\ k \in Nat /\ y = Append(z, k)
                /\ Where(w, G[w], y) = <<G[w][z].data, k>>
                /\ G[w][z].n > 0 /\ G[w][z].data \in Block
  <2>1. PICK z \in DOMAIN G[w] : \E k \in 1..G[w][z].n :
           z \in Path /\ k \in Nat /\ y = Append(z, k) /\ G[w][y] = m[G[w][z].data][k]
    BY <1>1, <1>2, UnfoldsChild
  <2>2. PICK k \in 1..G[w][z].n :
           z \in Path /\ k \in Nat /\ y = Append(z, k) /\ G[w][y] = m[G[w][z].data][k]
    BY <2>1
  <2>3. Where(w, G[w], y) = <<G[w][z].data, k>>
    BY <2>2, WhereChild
  <2>4. G[w][z].n \in Nat /\ (G[w][z].n > 0 => G[w][z].data \in Block)
    BY ForestCells
  <2>5. G[w][z].n > 0
    BY <2>4
  <2>6. QED
    BY <2>2, <2>3, <2>4, <2>5
<1>3. <<>> \in S
  <2>1. <<>> \in DOMAIN G[v] /\ Where(v, G[v], <<>>) = <<v, 1>> /\ Where(w, G[w], <<>>) = <<w, 1>>
    BY <1>1 DEF Unfolds, Where
  <2>2. ASSUME NEW y \in DOMAIN G[w], <<v, 1>> = Where(w, G[w], y)
        PROVE  v = w /\ <<>> = y
    <3>1. CASE y = <<>>
      BY <2>1, <2>2, <3>1
    <3>2. CASE y # <<>>
      <4>1. v \in Block
        BY <1>2, <2>2, <3>2
      <4>2. QED
        BY <1>1, <4>1, StorageAssumption
    <3>3. QED
      BY <3>1, <3>2
  <2>3. QED
    BY <2>1, <2>2
<1>4. ASSUME NEW x \in DOMAIN G[v], NEW j \in 1..G[v][x].n, x \in S, j \in Nat
      PROVE  Append(x, j) \in S
  <2>1. x \in Path /\ Append(x, j) \in DOMAIN G[v]
    BY <1>1, <1>4 DEF Unfolds, OnPaths
  <2>2. Where(v, G[v], Append(x, j)) = <<G[v][x].data, j>>
    BY <1>4, <2>1, WhereChild
  <2>3. G[v][x].n \in Nat /\ G[v][x].n > 0 /\ G[v][x].data \in Block
    BY <1>4, ForestCells
  <2>4. ASSUME NEW y \in DOMAIN G[w], <<G[v][x].data, j>> = Where(w, G[w], y)
        PROVE  v = w /\ Append(x, j) = y
    <3>1. y # <<>>
      <4>1. ASSUME y = <<>> PROVE FALSE
        <5>1. Where(w, G[w], y) = <<w, 1>>
          BY <4>1 DEF Where
        <5>2. G[v][x].data = w
          BY <2>4, <5>1
        <5>3. QED
          BY <1>1, <2>3, <5>2, StorageAssumption
      <4>2. QED
        BY <4>1
    <3>2. PICK z \in DOMAIN G[w] : \E k \in 1..G[w][z].n :
                /\ z \in Path /\ k \in Nat /\ y = Append(z, k)
                /\ Where(w, G[w], y) = <<G[w][z].data, k>>
                /\ G[w][z].n > 0 /\ G[w][z].data \in Block
      BY <1>2, <3>1
    <3>3. PICK k \in 1..G[w][z].n :
                /\ z \in Path /\ k \in Nat /\ y = Append(z, k)
                /\ Where(w, G[w], y) = <<G[w][z].data, k>>
                /\ G[w][z].n > 0
      BY <3>2
    <3>4. G[v][x].data = G[w][z].data /\ j = k
      BY <2>4, <3>3
    <3>5. \E b \in DOMAIN m : \E i \in DOMAIN m[b] : Where(v, G[v], x) = <<b, i>> /\ m[b][i] = G[v][x]
      BY ForestCells
    <3>5a. PICK b \in DOMAIN m : \E i \in DOMAIN m[b] : Where(v, G[v], x) = <<b, i>> /\ m[b][i] = G[v][x]
      BY <3>5
    <3>5b. PICK i \in DOMAIN m[b] : Where(v, G[v], x) = <<b, i>> /\ m[b][i] = G[v][x]
      BY <3>5a
    <3>6. \E c \in DOMAIN m : \E l \in DOMAIN m[c] : Where(w, G[w], z) = <<c, l>> /\ m[c][l] = G[w][z]
      BY ForestCells
    <3>6a. PICK c \in DOMAIN m : \E l \in DOMAIN m[c] : Where(w, G[w], z) = <<c, l>> /\ m[c][l] = G[w][z]
      BY <3>6
    <3>6b. PICK l \in DOMAIN m[c] : Where(w, G[w], z) = <<c, l>> /\ m[c][l] = G[w][z]
      BY <3>6a
    <3>7. b = c /\ i = l
      BY <2>3, <3>3, <3>4, <3>5b, <3>6b DEF Owned
    <3>8. v = w /\ x = z
      BY <1>4, <3>5b, <3>6b, <3>7
    <3>9. QED
      BY <3>3, <3>4, <3>8
  <2>5. QED
    BY <2>1, <2>2, <2>4
<1>5. DOMAIN G[v] \subseteq S
  <2> HIDE DEF S
  <2>1. QED
    BY <1>1, <1>3, <1>4, UnfoldsInduction
<1>6. QED
  BY <1>5

\* No two have the same array.
LEMMA OneArray ==
    ASSUME NEW m, NEW loose, Memory(m), Owned(m, loose), NEW G, Forest(m, G),
           NEW v \in DOMAIN G, NEW p \in DOMAIN G[v], NEW w \in DOMAIN G, NEW q \in DOMAIN G[w],
           G[v][p].n > 0, G[w][q].n > 0, G[v][p].data = G[w][q].data
    PROVE  v = w /\ p = q
<1>1. \E b \in DOMAIN m : \E i \in DOMAIN m[b] : Where(v, G[v], p) = <<b, i>> /\ m[b][i] = G[v][p]
  BY ForestCells
<1>1a. PICK b \in DOMAIN m : \E i \in DOMAIN m[b] : Where(v, G[v], p) = <<b, i>> /\ m[b][i] = G[v][p]
  BY <1>1
<1>1b. PICK i \in DOMAIN m[b] : Where(v, G[v], p) = <<b, i>> /\ m[b][i] = G[v][p]
  BY <1>1a
<1>2. \E c \in DOMAIN m : \E j \in DOMAIN m[c] : Where(w, G[w], q) = <<c, j>> /\ m[c][j] = G[w][q]
  BY ForestCells
<1>2a. PICK c \in DOMAIN m : \E j \in DOMAIN m[c] : Where(w, G[w], q) = <<c, j>> /\ m[c][j] = G[w][q]
  BY <1>2
<1>2b. PICK j \in DOMAIN m[c] : Where(w, G[w], q) = <<c, j>> /\ m[c][j] = G[w][q]
  BY <1>2a
<1>3. b = c /\ i = j
  BY <1>1b, <1>2b DEF Owned
<1>4. QED
  BY <1>1b, <1>2b, <1>3, OneAddress

-----------------------------------------------------------------------------
(* What the client can name is the forest, and the walk that finds the     *)
(* names, which goes as deep as there are arrays, misses nothing.          *)

\* A node with children is not as deep as there are arrays: each node above
\* it has one of its own.
LEMMA DepthBound ==
    ASSUME NEW m, NEW loose, Memory(m), Owned(m, loose), NEW G, Forest(m, G),
           NEW v \in DOMAIN G, NEW p \in DOMAIN G[v], G[v][p].n > 0
    PROVE  Len(p) < Cardinality(Block)
<1> DEFINE g == G[v]
           Above(D, x) == \A d \in D : \E y \in DOMAIN g : Len(y) <= Len(x) /\ g[y].n > 0 /\ g[y].data = d
           S == {x \in DOMAIN g : g[x].n > 0 =>
                    \E D \in SUBSET Block : Cardinality(D) = Len(x) + 1 /\ Above(D, x)}
<1>1. Unfolds(m, m[v][1], g) /\ DOMAIN g \subseteq Path
  BY DEF Forest, Unfolds, OnPaths
<1>2. \A x \in DOMAIN g : g[x].n \in Nat /\ Len(x) \in Nat /\ (g[x].n > 0 => g[x].data \in Block)
  <2>1. \A x \in DOMAIN g : g[x].n \in Nat /\ (g[x].n > 0 => g[x].data \in Block)
    BY ForestCells
  <2>2. \A x \in Path : Len(x) \in Nat
    BY DEF Path
  <2>3. QED
    BY <1>1, <2>1, <2>2
<1>3. \A D \in SUBSET Block : IsFiniteSet(D) /\ Cardinality(D) \in Nat
  BY StorageAssumption, FS_Subset, FS_CardinalityType
<1>4. \A x, y \in DOMAIN g : g[x].n > 0 /\ g[y].n > 0 /\ g[x].data = g[y].data => x = y
  BY OneArray
<1> HIDE DEF g
<1>5. <<>> \in S
  <2>1. <<>> \in DOMAIN g /\ Len(<<>>) = 0
    BY <1>1 DEF Unfolds
  <2>2. ASSUME g[<<>>].n > 0
        PROVE  \E D \in SUBSET Block : Cardinality(D) = Len(<<>>) + 1 /\ Above(D, <<>>)
    <3>1. {g[<<>>].data} \in SUBSET Block /\ Cardinality({g[<<>>].data}) = 1
      BY <1>2, <2>1, <2>2, FS_Singleton
    <3>2. Above({g[<<>>].data}, <<>>)
      BY <2>1, <2>2
    <3>3. QED
      BY <2>1, <3>1, <3>2
  <2>3. QED
    BY <2>1, <2>2
<1>6. ASSUME NEW x \in DOMAIN g, NEW j \in 1..g[x].n, x \in S, j \in Nat PROVE Append(x, j) \in S
  <2> DEFINE z == Append(x, j)
  <2>1. z \in DOMAIN g /\ Len(z) = Len(x) + 1
    <3>1. x \in Path
      BY <1>1
    <3>2. z \in DOMAIN g
      BY <1>1, <1>6, <3>1 DEF Unfolds
    <3>3. Len(z) = Len(x) + 1
      BY <1>6, <3>1, PathTypes
    <3>4. QED
      BY <3>2, <3>3
  <2>2. g[x].n > 0
    BY <1>2
  <2>3. PICK D \in SUBSET Block : Cardinality(D) = Len(x) + 1 /\ Above(D, x)
    BY <1>6, <2>2
  <2> HIDE DEF z
  <2>4. ASSUME g[z].n > 0
        PROVE  \E E \in SUBSET Block : Cardinality(E) = Len(z) + 1 /\ Above(E, z)
    <3> DEFINE E == D \cup {g[z].data}
    <3>1. E \in SUBSET Block
      BY <1>2, <2>1, <2>4
    <3>2. g[z].data \notin D
      <4>1. ASSUME g[z].data \in D PROVE FALSE
        <5>1. PICK y \in DOMAIN g : Len(y) <= Len(x) /\ g[y].n > 0 /\ g[y].data = g[z].data
          BY <2>3, <4>1
        <5>2. y = z
          BY <1>4, <2>1, <2>4, <5>1
        <5>3. QED
          BY <1>2, <2>1, <5>1, <5>2
      <4>2. QED
        BY <4>1
    <3>3. Cardinality(E) = Len(x) + 2
      <4>1. Cardinality(E) = Cardinality(D) + 1
        BY <1>3, <3>2, FS_AddElement
      <4>2. QED
        BY <1>2, <2>3, <4>1
    <3>4. Above(E, z)
      <4>1. ASSUME NEW d \in E
            PROVE  \E y \in DOMAIN g : Len(y) <= Len(z) /\ g[y].n > 0 /\ g[y].data = d
        <5>1. CASE d = g[z].data
          BY <1>2, <2>1, <2>4, <5>1
        <5>2. CASE d \in D
          <6>1. PICK y \in DOMAIN g : Len(y) <= Len(x) /\ g[y].n > 0 /\ g[y].data = d
            BY <2>3, <5>2
          <6>2. Len(y) <= Len(z)
            BY <1>2, <2>1, <6>1
          <6>3. QED
            BY <6>1, <6>2
        <5>3. QED
          BY <5>1, <5>2
      <4>2. QED
        BY <4>1
    <3>5. QED
      BY <1>2, <2>1, <3>1, <3>3, <3>4
  <2>5. QED
    BY <2>1, <2>4 DEF z
<1>7. DOMAIN g \subseteq S
  <2> HIDE DEF S
  <2>1. QED
    BY <1>1, <1>5, <1>6, UnfoldsInduction
<1>8. PICK D \in SUBSET Block : Cardinality(D) = Len(p) + 1
  <2>1. p \in S
    BY <1>7 DEF g
  <2>2. g[p].n > 0
    BY DEF g
  <2>3. QED
    BY <2>1, <2>2
<1>9. Cardinality(D) <= Cardinality(Block) /\ Cardinality(Block) \in Nat
  BY StorageAssumption, FS_Subset, FS_CardinalityType
<1>10. Len(p) \in Nat
  BY <1>2 DEF g
<1>11. QED
  BY <1>8, <1>9, <1>10

\* The name of a node of the forest.
NameAt(G, v, p) == [var |-> v, path |-> p, cell |-> Where(v, G[v], p)]

\* The walk finds the names of the nodes.
LEMMA WalkIsForest ==
    ASSUME Memory(mem), NEW loose, Owned(mem, loose), NEW G, Forest(mem, G), NEW v \in DOMAIN G
    PROVE  \A x : x \in Walk(v) <=> \E p \in DOMAIN G[v] : x = NameAt(G, v, p)
<1> DEFINE g == G[v]
<1>1. Unfolds(mem, mem[v][1], g) /\ DOMAIN g \subseteq Path
  BY DEF Forest, Unfolds, OnPaths
<1>2. \A q \in DOMAIN g : At(mem, Where(v, g, q)) = g[q] /\ g[q].n \in Nat /\ Len(q) \in Nat
  <2>1. ASSUME NEW q \in DOMAIN g PROVE At(mem, Where(v, g, q)) = g[q] /\ g[q].n \in Nat /\ Len(q) \in Nat
    <3>1. g[q].n \in Nat
      BY ForestCells
    <3>2. \E b \in DOMAIN mem : \E i \in DOMAIN mem[b] : Where(v, g, q) = <<b, i>> /\ mem[b][i] = g[q]
      BY ForestCells
    <3>3. At(mem, Where(v, g, q)) = g[q]
      BY <3>2 DEF At
    <3>4. Len(q) \in Nat
      BY <1>1 DEF Path
    <3>5. QED
      BY <3>1, <3>3, <3>4
  <2>2. QED
    BY <2>1
<1>3. PICK N, f : Levels(v, N, f)
  BY LevelFacts
<1>4. \A q \in DOMAIN g : g[q].n > 0 => Len(q) < N
  BY <1>3, DepthBound DEF Levels
<1> DEFINE Lvl(k) == {NameAt(G, v, q) : q \in {r \in DOMAIN g : Len(r) = k}}
<1>5. Lvl(0) = {Root(v)}
  <2>1. <<>> \in DOMAIN g /\ Len(<<>>) = 0 /\ \A r \in Path : Len(r) = 0 => r = <<>>
    BY <1>1 DEF Unfolds, Path
  <2>2. NameAt(G, v, <<>>) = Root(v)
    BY DEF NameAt, Root, Where
  <2>3. QED
    BY <1>1, <2>1, <2>2
<1>6. ASSUME NEW k \in Nat PROVE Lvl(k + 1) = Step(Lvl(k))
  <2>1. ASSUME NEW q \in DOMAIN g, NEW i \in 1..g[q].n
        PROVE  /\ Append(q, i) \in DOMAIN g
               /\ Len(Append(q, i)) = Len(q) + 1
               /\ NameAt(G, v, Append(q, i)) = [var |-> v, path |-> Append(q, i), cell |-> <<g[q].data, i>>]
    <3>1. q \in Path /\ i \in Nat
      BY <1>1
    <3>2. Append(q, i) \in DOMAIN g
      BY <1>1, <3>1 DEF Unfolds
    <3>3. Len(Append(q, i)) = Len(q) + 1
      BY <3>1, PathTypes
    <3>4. Where(v, g, Append(q, i)) = <<g[q].data, i>>
      BY <3>1, WhereChild
    <3>5. QED
      BY <3>2, <3>3, <3>4 DEF NameAt
  <2>2. \A y : y \in Step(Lvl(k)) <=>
           \E x \in Lvl(k) : \E i \in 1..At(mem, x.cell).n :
              y = [var |-> x.var, path |-> Append(x.path, i), cell |-> <<At(mem, x.cell).data, i>>]
    <3> HIDE DEF Lvl
    <3>1. QED
      BY DEF Step
  <2>3. ASSUME NEW q \in DOMAIN g
        PROVE  /\ NameAt(G, v, q).var = v /\ NameAt(G, v, q).path = q
               /\ At(mem, NameAt(G, v, q).cell) = g[q]
    BY <1>2 DEF NameAt
  <2>4. ASSUME NEW y \in Lvl(k + 1) PROVE y \in Step(Lvl(k))
    <3>1. PICK r \in DOMAIN g : Len(r) = k + 1 /\ y = NameAt(G, v, r)
      OBVIOUS
    <3>2. r # <<>>
      BY <3>1
    <3>3. PICK q \in DOMAIN g : \E j \in 1..g[q].n :
             q \in Path /\ j \in Nat /\ r = Append(q, j) /\ g[r] = mem[g[q].data][j]
      BY <1>1, <3>2, UnfoldsChild
    <3>4. PICK j \in 1..g[q].n : r = Append(q, j)
      BY <3>3
    <3>5. Len(q) = k
      BY <1>2, <2>1, <3>1, <3>4
    <3>6. NameAt(G, v, q) \in Lvl(k)
      BY <3>5
    <3> DEFINE x == NameAt(G, v, q)
    <3>7. x.var = v /\ x.path = q /\ At(mem, x.cell) = g[q]
      BY <2>3
    <3>8. y = [var |-> v, path |-> Append(q, j), cell |-> <<g[q].data, j>>]
      BY <2>1, <3>1, <3>4
    <3> HIDE DEF x, Lvl
    <3>9. QED
      BY <2>2, <3>4, <3>6, <3>7, <3>8 DEF x
  <2>5. ASSUME NEW y \in Step(Lvl(k)) PROVE y \in Lvl(k + 1)
    <3>1. PICK x \in Lvl(k) : \E i \in 1..At(mem, x.cell).n :
              y = [var |-> x.var, path |-> Append(x.path, i), cell |-> <<At(mem, x.cell).data, i>>]
      <4> HIDE DEF Lvl
      <4>1. QED
        BY <2>2
    <3>2. PICK q \in DOMAIN g : Len(q) = k /\ x = NameAt(G, v, q)
      OBVIOUS
    <3>3. x.var = v /\ x.path = q /\ At(mem, x.cell) = g[q]
      BY <2>3, <3>2
    <3>4. PICK i \in 1..g[q].n : y = [var |-> v, path |-> Append(q, i), cell |-> <<g[q].data, i>>]
      BY <3>1, <3>3
    <3>5. Append(q, i) \in DOMAIN g /\ Len(Append(q, i)) = k + 1 /\ y = NameAt(G, v, Append(q, i))
      BY <2>1, <3>2, <3>4
    <3>6. QED
      BY <3>5
  <2>6. QED
    BY <2>4, <2>5
<1>7. \A k \in 0..N : f[k] = Lvl(k)
  <2> DEFINE Bad == {k \in 0..N : f[k] # Lvl(k)}
  <2> HIDE DEF Lvl
  <2>1. N \in Nat /\ f[0] = {Root(v)} /\ \A k \in 1..N : f[k] = Step(f[k - 1])
    BY <1>3 DEF Levels
  <2>2. SUFFICES ASSUME Bad # {} PROVE FALSE
    OBVIOUS
  <2>3. Bad \in SUBSET Nat
    BY <2>1
  <2>4. PICK k \in Bad : \A l \in Bad : k <= l
    BY <2>2, <2>3, LeastNatural
  <2>5. k \in 0..N /\ f[k] # Lvl(k)
    OBVIOUS
  <2>6. k # 0
    BY <1>5, <2>1, <2>5
  <2>7. k - 1 \in Nat /\ k - 1 \in 0..N /\ k \in 1..N /\ (k - 1) + 1 = k /\ ~(k <= k - 1)
    BY <2>1, <2>5, <2>6
  <2>8. f[k - 1] = Lvl(k - 1)
    BY <2>4, <2>7
  <2>9. f[k] = Step(Lvl(k - 1))
    BY <2>1, <2>7, <2>8
  <2>10. Lvl(k) = Step(Lvl(k - 1))
    BY <1>6, <2>7
  <2>11. QED
    BY <2>5, <2>9, <2>10
<1>8. \A q \in DOMAIN g : Len(q) \in 0..N
  <2>1. ASSUME NEW q \in DOMAIN g PROVE Len(q) \in 0..N
    <3>0. N \in Nat
      BY <1>3 DEF Levels
    <3>1. CASE q = <<>>
      BY <3>0, <3>1
    <3>2. CASE q # <<>>
      <4>1. PICK r \in DOMAIN g : \E j \in 1..g[r].n :
               r \in Path /\ j \in Nat /\ q = Append(r, j) /\ g[q] = mem[g[r].data][j]
        BY <1>1, <3>2, UnfoldsChild
      <4>2. PICK j \in 1..g[r].n : r \in Path /\ j \in Nat /\ q = Append(r, j)
        BY <4>1
      <4>3. Len(q) = Len(r) + 1
        BY <4>2, PathTypes
      <4>4. g[r].n \in Nat /\ Len(r) \in Nat
        BY <1>2
      <4>5. Len(r) < N
        BY <1>4, <4>4
      <4>6. QED
        BY <3>0, <4>3, <4>4, <4>5
    <3>3. QED
      BY <3>1, <3>2
  <2>2. QED
    BY <2>1
<1>9. \A x : x \in Walk(v) <=> \E k \in 0..N : x \in Lvl(k)
  <2> HIDE DEF Lvl
  <2>1. QED
    BY <1>3, <1>7 DEF Levels
<1>10. \A x : (\E k \in 0..N : x \in Lvl(k)) <=> \E p \in DOMAIN g : x = NameAt(G, v, p)
  BY <1>8
<1>11. QED
  BY <1>9, <1>10

\* The labels on the walk are those of the forest.
LEMMA TreeIsForest ==
    ASSUME Memory(mem), NEW loose, Owned(mem, loose), NEW G, Forest(mem, G), NEW v \in DOMAIN G
    PROVE  TreeOf(v) = LabelsOf(G[v])
<1> DEFINE g == G[v]
           W == Walk(v)
           P == {x.path : x \in W}
           pick(p) == CHOOSE x \in W : x.path = p
<1>1. \A x : x \in W <=> \E p \in DOMAIN g : x = NameAt(G, v, p)
  BY WalkIsForest
<1>2. \A q \in DOMAIN g : At(mem, Where(v, g, q)) = g[q]
  <2>1. ASSUME NEW q \in DOMAIN g PROVE At(mem, Where(v, g, q)) = g[q]
    <3>1. \E b \in DOMAIN mem : \E i \in DOMAIN mem[b] : Where(v, g, q) = <<b, i>> /\ mem[b][i] = g[q]
      BY ForestCells
    <3>2. QED
      BY <3>1 DEF At
  <2>2. QED
    BY <2>1
<1>3. TreeOf(v) = [p \in P |-> At(mem, pick(p).cell).label]
  BY DEF TreeOf
<1>4. \A p : NameAt(G, v, p).path = p /\ NameAt(G, v, p).cell = Where(v, g, p)
  BY DEF NameAt
<1> HIDE DEF W
<1>5. P = DOMAIN g
  <2>1. \A x \in W : x.path \in DOMAIN g
    BY <1>1, <1>4
  <2>2. \A p \in DOMAIN g : NameAt(G, v, p) \in W /\ NameAt(G, v, p).path = p
    BY <1>1, <1>4
  <2>3. QED
    BY <2>1, <2>2
<1>6. ASSUME NEW p \in DOMAIN g PROVE At(mem, pick(p).cell).label = g[p].label
  <2>1. \E x \in W : x.path = p
    BY <1>1, <1>4
  <2>2. pick(p) \in W /\ pick(p).path = p
    BY <2>1
  <2>3. pick(p) = NameAt(G, v, p)
    BY <1>1, <1>4, <2>2
  <2>4. QED
    BY <1>2, <1>4, <2>3
<1> HIDE DEF P, pick
<1>7. QED
  BY <1>3, <1>5, <1>6 DEF LabelsOf

\* The client names the nodes of the forest, where they are.
LEMMA NamedIsForest ==
    ASSUME Memory(mem), NEW loose, Owned(mem, loose), NEW G, Forest(mem, G), NEW x \in Named
    PROVE  /\ x.var \in DOMAIN G /\ x.path \in DOMAIN G[x.var]
           /\ x.cell = Where(x.var, G[x.var], x.path)
           /\ At(mem, x.cell) = G[x.var][x.path]
<1>1. PICK v \in Var \cap DOMAIN mem : x \in Walk(v)
  BY DEF Named
<1>2. v \in DOMAIN G
  BY DEF Forest
<1>3. PICK p \in DOMAIN G[v] : x = NameAt(G, v, p)
  BY <1>1, <1>2, WalkIsForest
<1>4. x.var = v /\ x.path = p /\ x.cell = Where(v, G[v], p)
  BY <1>3 DEF NameAt
<1>5. \E b \in DOMAIN mem : \E i \in DOMAIN mem[b] : Where(v, G[v], p) = <<b, i>> /\ mem[b][i] = G[v][p]
  BY <1>2, ForestCells
<1>6. QED
  BY <1>2, <1>4, <1>5 DEF At

\* The trees that TreeEdits speaks of.
LEMMA TreesOfForest ==
    ASSUME Memory(mem), NEW loose, Owned(mem, loose), NEW G, Forest(mem, G)
    PROVE  [v \in Var \cap DOMAIN mem |-> TreeOf(v)] = Trees(G)
<1>1. DOMAIN G = Var \cap DOMAIN mem
  BY DEF Forest
<1>2. \A v \in DOMAIN G : TreeOf(v) = LabelsOf(G[v])
  BY TreeIsForest
<1>3. QED
  BY <1>1, <1>2 DEF Trees

-----------------------------------------------------------------------------
(* Changes of the storage, as changes of forests. *)

\* At the address a is the node p of v, if there is one, and no other.
Names(G, v, p, a) ==
    \A u \in DOMAIN G : \A q \in DOMAIN G[u] : Where(u, G[u], q) = a <=> u = v /\ q = p

\* The arrays of the nodes are there.
Solid(m, G) == \A u \in DOMAIN G : \A q \in DOMAIN G[u] : Backed(m, G[u][q])

\* The tree h takes the place of what was at p, if there is such a place.
Placed(G, v, p, h) == IF p \in DOMAIN G[v] THEN [G EXCEPT ![v] = T!Graft(@, p, h)] ELSE G

\* Only the tree of v is another.
LEMMA PlacedFacts ==
    ASSUME NEW G, NEW v \in DOMAIN G, NEW p, NEW h
    PROVE  /\ DOMAIN Placed(G, v, p, h) = DOMAIN G
           /\ \A u \in DOMAIN G : u # v \/ p \notin DOMAIN G[v] => Placed(G, v, p, h)[u] = G[u]
           /\ p \in DOMAIN G[v] => Placed(G, v, p, h)[v] = T!Graft(G[v], p, h)
BY DEF Placed

\* So it is with every forest.
LEMMA SolidForest ==
    ASSUME NEW m, NEW loose, Memory(m), Owned(m, loose), NEW G, Forest(m, G)
    PROVE  Solid(m, G)
BY ForestCells DEF Solid

\* The cells that the children of a node are in.
LEMMA SolidCells ==
    ASSUME NEW m, Memory(m), NEW c, Backed(m, c), NEW j \in 1..c.n
    PROVE  c.data \in DOMAIN m /\ j \in DOMAIN m[c.data] /\ j \in Nat /\ c.n > 0
<1>1. c.n \in Nat
  BY CellFacts DEF Backed
<1>2. c.n > 0 /\ j \in Nat
  BY <1>1
<1>3. c.data \in DOMAIN m /\ Len(m[c.data]) = c.n
  BY <1>2 DEF Backed
<1>4. j \in DOMAIN m[c.data]
  BY <1>3 DEF Memory
<1>5. QED
  BY <1>2, <1>3, <1>4

\* Another cell is put where the client's name leads.
LEMMA PutForest ==
    ASSUME NEW m, Memory(m), NEW G, Forest(m, G), Solid(m, G),
           NEW b \in DOMAIN m, NEW i \in DOMAIN m[b], NEW v \in DOMAIN G, NEW p \in Path,
           Names(G, v, p, <<b, i>>), NEW c \in Cell, NEW h,
           p \in DOMAIN G[v] => Unfolds(Put(m, <<b, i>>, c), c, h)
    PROVE  Forest(Put(m, <<b, i>>, c), Placed(G, v, p, h))
<1> DEFINE m2 == Put(m, <<b, i>>, c)
           H == Placed(G, v, p, h)
<1>1. /\ DOMAIN m2 = DOMAIN m
      /\ \A x \in DOMAIN m : \A j \in DOMAIN m[x] :
            m2[x][j] = IF <<x, j>> = <<b, i>> THEN c ELSE m[x][j]
  BY PutFacts
<1>2. /\ DOMAIN H = DOMAIN G
      /\ \A u \in DOMAIN G : u # v \/ p \notin DOMAIN G[v] => H[u] = G[u]
      /\ p \in DOMAIN G[v] => H[v] = T!Graft(G[v], p, h)
  BY PlacedFacts
<1> HIDE DEF m2, H
<1>3. ASSUME NEW u \in DOMAIN G
      PROVE  /\ Unfolds(m, m[u][1], G[u])
             /\ m2[u][1] = IF u = v /\ p = <<>> THEN c ELSE m[u][1]
             /\ \A q \in DOMAIN G[u] : \A j \in 1..G[u][q].n :
                   m2[G[u][q].data][j] = IF u = v /\ Append(q, j) = p THEN c ELSE m[G[u][q].data][j]
  <2>1. Unfolds(m, m[u][1], G[u]) /\ u \in DOMAIN m /\ u \in Var
    BY DEF Forest
  <2>2. 1 \in DOMAIN m[u] /\ <<>> \in DOMAIN G[u] /\ Where(u, G[u], <<>>) = <<u, 1>>
    BY <2>1 DEF Memory, Unfolds, Where
  <2>3. <<u, 1>> = <<b, i>> <=> u = v /\ <<>> = p
    BY <2>2 DEF Names
  <2>4. m2[u][1] = IF u = v /\ p = <<>> THEN c ELSE m[u][1]
    BY <1>1, <2>1, <2>2, <2>3
  <2>5. ASSUME NEW q \in DOMAIN G[u], NEW j \in 1..G[u][q].n
        PROVE  m2[G[u][q].data][j] = IF u = v /\ Append(q, j) = p THEN c ELSE m[G[u][q].data][j]
    <3>1. G[u][q].data \in DOMAIN m /\ j \in DOMAIN m[G[u][q].data] /\ j \in Nat
      BY SolidCells DEF Solid
    <3>2. q \in Path
      BY <2>1 DEF Unfolds, OnPaths
    <3>3. Append(q, j) \in DOMAIN G[u]
      BY <2>1, <3>1, <3>2 DEF Unfolds
    <3>4. Where(u, G[u], Append(q, j)) = <<G[u][q].data, j>>
      BY <3>1, <3>2, WhereChild
    <3>5. <<G[u][q].data, j>> = <<b, i>> <=> u = v /\ Append(q, j) = p
      BY <3>3, <3>4 DEF Names
    <3>6. QED
      BY <1>1, <3>1, <3>5
  <2>6. QED
    BY <2>1, <2>4, <2>5
<1>4. ASSUME NEW u \in DOMAIN G, u # v \/ p \notin DOMAIN G[v]
      PROVE  Unfolds(m2, m2[u][1], H[u])
  <2>1. ASSUME NEW q \in DOMAIN G[u], NEW j \in 1..G[u][q].n
        PROVE  m2[G[u][q].data][j] = m[G[u][q].data][j]
    <3>1. q \in Path /\ j \in Nat
      BY <1>3, SolidCells DEF Solid, Unfolds, OnPaths
    <3>2. Append(q, j) \in DOMAIN G[u]
      BY <1>3, <3>1 DEF Unfolds
    <3>3. ~(u = v /\ Append(q, j) = p)
      BY <1>4, <3>2
    <3>4. QED
      BY <1>3, <3>3
  <2>2. m2[u][1] = m[u][1]
    <3>1. <<>> \in DOMAIN G[u]
      BY <1>3 DEF Unfolds
    <3>2. QED
      BY <1>3, <1>4, <3>1
  <2>3. Unfolds(m2, m[u][1], G[u])
    BY <1>3, <2>1, UnfoldsAgree
  <2>4. QED
    BY <1>2, <1>4, <2>2, <2>3
<1>5. ASSUME p \in DOMAIN G[v]
      PROVE  Unfolds(m2, m2[v][1], H[v])
  <2> DEFINE r == m[v][1]
             g == G[v]
  <2>1. Unfolds(m, r, g) /\ p \in DOMAIN g /\ Unfolds(m2, c, h)
    BY <1>3, <1>5 DEF m2
  <2>2. \A q \in DOMAIN g : \A j \in 1..g[q].n : ~T!IsPrefix(p, q) /\ j \in Nat =>
               m2[g[q].data][j] = IF Append(q, j) = p THEN c ELSE m[g[q].data][j]
    BY <1>3
  <2>3. m2[v][1] = IF p = <<>> THEN c ELSE r
    BY <1>3
  <2>4. H[v] = T!Graft(g, p, h)
    BY <1>2, <1>5
  <2> HIDE DEF r, g
  <2>5. Unfolds(m2, IF p = <<>> THEN c ELSE r, T!Graft(g, p, h))
    BY <2>1, <2>2, UnfoldsGraft
  <2>6. QED
    BY <2>3, <2>4, <2>5
<1>6. \A u \in DOMAIN H : Unfolds(m2, m2[u][1], H[u])
  BY <1>2, <1>4, <1>5
<1>7. QED
  BY <1>1, <1>2, <1>6 DEF Forest, m2, H

\* Another cell is put where no node of the forest is.
LEMMA PutElsewhere ==
    ASSUME NEW m, Memory(m), NEW G, Forest(m, G), Solid(m, G),
           NEW b \in DOMAIN m, NEW i \in DOMAIN m[b], NEW c \in Cell,
           \A u \in DOMAIN G : \A q \in DOMAIN G[u] : Where(u, G[u], q) # <<b, i>>
    PROVE  Forest(Put(m, <<b, i>>, c), G)
<1> DEFINE m2 == Put(m, <<b, i>>, c)
<1>1. /\ DOMAIN m2 = DOMAIN m
      /\ \A x \in DOMAIN m : \A j \in DOMAIN m[x] :
            m2[x][j] = IF <<x, j>> = <<b, i>> THEN c ELSE m[x][j]
  BY PutFacts
<1> HIDE DEF m2
<1>2. ASSUME NEW u \in DOMAIN G PROVE Unfolds(m2, m2[u][1], G[u])
  <2>1. Unfolds(m, m[u][1], G[u]) /\ u \in DOMAIN m /\ u \in Var
    BY DEF Forest
  <2>2. 1 \in DOMAIN m[u] /\ <<>> \in DOMAIN G[u] /\ Where(u, G[u], <<>>) = <<u, 1>>
    BY <2>1 DEF Memory, Unfolds, Where
  <2>3. m2[u][1] = m[u][1]
    BY <1>1, <2>1, <2>2
  <2>4. ASSUME NEW q \in DOMAIN G[u], NEW j \in 1..G[u][q].n
        PROVE  m2[G[u][q].data][j] = m[G[u][q].data][j]
    <3>1. G[u][q].data \in DOMAIN m /\ j \in DOMAIN m[G[u][q].data] /\ j \in Nat
      BY SolidCells DEF Solid
    <3>2. q \in Path
      BY <2>1 DEF Unfolds, OnPaths
    <3>3. Append(q, j) \in DOMAIN G[u]
      BY <2>1, <3>1, <3>2 DEF Unfolds
    <3>4. Where(u, G[u], Append(q, j)) = <<G[u][q].data, j>>
      BY <3>1, <3>2, WhereChild
    <3>5. <<G[u][q].data, j>> # <<b, i>>
      BY <3>3, <3>4
    <3>6. QED
      BY <1>1, <3>1, <3>5
  <2>5. Unfolds(m2, m[u][1], G[u])
    BY <2>1, <2>4, UnfoldsAgree
  <2>6. QED
    BY <2>3, <2>5
<1>3. QED
  BY <1>1, <1>2 DEF Forest, m2

\* The arrays of the nodes are the same.
LEMMA AgreeForest ==
    ASSUME NEW m, NEW G, Forest(m, G), NEW m2, DOMAIN G = Var \cap DOMAIN m2,
           \A v \in DOMAIN G : m2[v] = m[v],
           \A v \in DOMAIN G : \A p \in DOMAIN G[v] : \A j \in 1..G[v][p].n :
               m2[G[v][p].data] = m[G[v][p].data]
    PROVE  Forest(m2, G)
<1>1. ASSUME NEW v \in DOMAIN G PROVE Unfolds(m2, m2[v][1], G[v])
  <2>1. Unfolds(m, m[v][1], G[v])
    BY DEF Forest
  <2>2. QED
    BY <2>1, UnfoldsAgree
<1>2. QED
  BY <1>1 DEF Forest

\* An array is allocated.
LEMMA NewBlockForest ==
    ASSUME NEW m, Memory(m), NEW G, Forest(m, G), Solid(m, G),
           NEW b \in Block \ DOMAIN m, NEW s
    PROVE  Forest(With(m, b, s), G) /\ Solid(With(m, b, s), G)
<1> DEFINE w == With(m, b, s)
<1>1. DOMAIN w = DOMAIN m \cup {b} /\ \A x \in DOMAIN m : w[x] = m[x]
  BY DEF With
<1> HIDE DEF w
<1>2. DOMAIN G = Var \cap DOMAIN w /\ \A v \in DOMAIN G : w[v] = m[v]
  BY <1>1, StorageAssumption DEF Forest
<1>3. ASSUME NEW v \in DOMAIN G, NEW p \in DOMAIN G[v], NEW j \in 1..G[v][p].n
      PROVE  w[G[v][p].data] = m[G[v][p].data]
  <2>1. G[v][p].data \in DOMAIN m
    BY SolidCells DEF Solid
  <2>2. QED
    BY <1>1, <2>1
<1>4. Forest(w, G)
  BY <1>2, <1>3, AgreeForest
<1>5. Solid(w, G)
  BY <1>1 DEF Solid, Backed
<1>6. QED
  BY <1>4, <1>5 DEF w

\* The variable v is added, with the tree h.
Added(G, v, h) == [u \in DOMAIN G \cup {v} |-> IF u = v THEN h ELSE G[u]]

\* A variable is created.
LEMMA NewVarForest ==
    ASSUME NEW m, Memory(m), NEW G, Forest(m, G), Solid(m, G),
           NEW v \in Var \ DOMAIN m, NEW c, NEW h, Unfolds(m, c, h),
           \A p \in DOMAIN h : Backed(m, h[p])
    PROVE  Forest(With(m, v, <<c>>), Added(G, v, h))
<1> DEFINE w == With(m, v, <<c>>)
           H == Added(G, v, h)
<1>1. DOMAIN w = DOMAIN m \cup {v} /\ w[v] = <<c>> /\ \A x \in DOMAIN m : w[x] = m[x]
  BY DEF With
<1>2. DOMAIN H = Var \cap DOMAIN w /\ H[v] = h /\ \A u \in DOMAIN G : u # v /\ H[u] = G[u]
  BY <1>1 DEF Forest, Added
<1> HIDE DEF w, H
<1>3. ASSUME NEW u \in DOMAIN G PROVE Unfolds(w, w[u][1], H[u])
  <2>1. Unfolds(m, m[u][1], G[u]) /\ u \in DOMAIN m
    BY DEF Forest
  <2>2. ASSUME NEW p \in DOMAIN G[u], NEW j \in 1..G[u][p].n
        PROVE  w[G[u][p].data] = m[G[u][p].data]
    <3>1. G[u][p].data \in DOMAIN m
      BY SolidCells DEF Solid
    <3>2. QED
      BY <1>1, <3>1
  <2>3. Unfolds(w, m[u][1], G[u])
    BY <2>1, <2>2, UnfoldsAgree
  <2>4. QED
    BY <1>1, <1>2, <2>1, <2>3
<1>4. Unfolds(w, c, h)
  <2>1. ASSUME NEW p \in DOMAIN h, NEW j \in 1..h[p].n
        PROVE  w[h[p].data] = m[h[p].data]
    <3>1. h[p].data \in DOMAIN m
      BY SolidCells
    <3>2. QED
      BY <1>1, <3>1
  <2>2. QED
    BY <2>1, UnfoldsAgree
<1>5. \A u \in DOMAIN H : u = v \/ u \in DOMAIN G
  BY DEF H, Added
<1>6. \A u \in DOMAIN H : Unfolds(w, w[u][1], H[u])
  BY <1>1, <1>2, <1>3, <1>4, <1>5
<1>7. QED
  BY <1>2, <1>6 DEF Forest, w, H

\* Blocks are freed, but none that a cell has.
LEMMA UnfoldsFreed ==
    ASSUME NEW m, NEW c, NEW g, Unfolds(m, c, g),
           NEW m2, NEW loose, Memory(m2), Owned(m2, loose), \A x \in DOMAIN m2 : m2[x] = m[x],
           Backed(m2, c)
    PROVE  Unfolds(m2, c, g)
<1> DEFINE S == {p \in DOMAIN g : Backed(m2, g[p])}
<1>1. <<>> \in S
  BY DEF Unfolds
<1>2. ASSUME NEW p \in DOMAIN g, NEW j \in 1..g[p].n, p \in S, j \in Nat PROVE Append(p, j) \in S
  <2>1. p \in Path
    BY DEF Unfolds, OnPaths
  <2>2. Append(p, j) \in DOMAIN g /\ g[Append(p, j)] = m[g[p].data][j]
    BY <1>2, <2>1 DEF Unfolds
  <2>3. g[p].data \in DOMAIN m2 /\ j \in DOMAIN m2[g[p].data]
    BY <1>2, SolidCells
  <2>4. Backed(m2, m2[g[p].data][j])
    BY <2>3, CellsBacked
  <2>5. QED
    BY <2>2, <2>3, <2>4
<1>3. DOMAIN g \subseteq S
  <2> HIDE DEF S
  <2>1. QED
    BY <1>1, <1>2, UnfoldsInduction
<1>4. ASSUME NEW p \in DOMAIN g, NEW j \in 1..g[p].n PROVE m2[g[p].data][j] = m[g[p].data][j]
  <2>1. g[p].data \in DOMAIN m2
    BY <1>3, SolidCells
  <2>2. QED
    BY <2>1
<1>5. QED
  BY <1>4, UnfoldsAgree

\* The forest of the variables that are left, when blocks are freed that no cell
\* has.
LEMMA FreedForest ==
    ASSUME NEW m, NEW G, Forest(m, G),
           NEW m2, NEW loose, Memory(m2), Owned(m2, loose),
           DOMAIN m2 \subseteq DOMAIN m, \A x \in DOMAIN m2 : m2[x] = m[x],
           NEW H, DOMAIN H = Var \cap DOMAIN m2, \A v \in DOMAIN H : H[v] = G[v]
    PROVE  Forest(m2, H)
<1>1. ASSUME NEW v \in DOMAIN H PROVE Unfolds(m2, m2[v][1], H[v])
  <2>1. v \in DOMAIN G /\ v \in DOMAIN m2 /\ v \in Var
    BY DEF Forest
  <2>2. Unfolds(m, m2[v][1], G[v])
    BY <2>1 DEF Forest
  <2>3. 1 \in DOMAIN m2[v]
    BY <2>1 DEF Memory
  <2>4. Backed(m2, m2[v][1])
    BY <2>1, <2>3, CellsBacked
  <2>5. Unfolds(m2, m2[v][1], G[v])
    BY <2>2, <2>4, UnfoldsFreed
  <2>6. QED
    BY <2>5
<1>2. QED
  BY <1>1 DEF Forest

-----------------------------------------------------------------------------
(* The argument of a call. *)

\* The label of a node alone.
LEMMA LabelsBare ==
    ASSUME NEW c
    PROVE  LabelsOf(Bare(c)) = Bare(c.label)
BY DEF LabelsOf, Bare

\* The trees when h takes the place of what was at p.
LEMMA TreesPlaced ==
    ASSUME NEW G, NEW v \in DOMAIN G, OnPaths(G[v]), NEW p \in Path, NEW h, OnPaths(h)
    PROVE  Trees(Placed(G, v, p, h)) =
               IF p \in DOMAIN Trees(G)[v]
               THEN [Trees(G) EXCEPT ![v] = T!Graft(@, p, LabelsOf(h))]
               ELSE Trees(G)
<1> DEFINE H == Placed(G, v, p, h)
           A == Trees(H)
           B == Trees(G)
<1>1. /\ DOMAIN H = DOMAIN G
      /\ \A u \in DOMAIN G : u # v \/ p \notin DOMAIN G[v] => H[u] = G[u]
      /\ p \in DOMAIN G[v] => H[v] = T!Graft(G[v], p, h)
  BY PlacedFacts
<1>2. LabelsOf(T!Graft(G[v], p, h)) = T!Graft(LabelsOf(G[v]), p, LabelsOf(h))
  BY LabelsGraft
<1> HIDE DEF H
<1>3. /\ A = [u \in DOMAIN G |-> LabelsOf(H[u])]
      /\ B = [u \in DOMAIN G |-> LabelsOf(G[u])]
  BY <1>1 DEF Trees
<1>4. DOMAIN B[v] = DOMAIN G[v] /\ B[v] = LabelsOf(G[v])
  BY <1>3, LabelsFacts
<1> HIDE DEF A, B
<1>5. CASE p \in DOMAIN G[v]
  <2>1. \A u \in DOMAIN G : A[u] = IF u = v THEN T!Graft(B[v], p, LabelsOf(h)) ELSE B[u]
    BY <1>1, <1>2, <1>3, <1>4, <1>5
  <2>2. A = [B EXCEPT ![v] = T!Graft(@, p, LabelsOf(h))]
    BY <1>3, <2>1
  <2>3. QED
    BY <1>4, <1>5, <2>2 DEF A, B, H
<1>6. CASE p \notin DOMAIN G[v]
  <2>1. \A u \in DOMAIN G : H[u] = G[u]
    BY <1>1, <1>6
  <2>2. A = B
    BY <1>3, <2>1
  <2>3. QED
    BY <1>4, <1>6, <2>2 DEF A, B, H
<1>7. QED
  BY <1>5, <1>6

\* The argument is evaluated: H is the forest after that, and h the tree of the
\* value, of which no node of the forest is a child.
Evaluated(e, G, H, h) ==
    /\ Forest(After(e), H) /\ Solid(After(e), H)
    /\ Unfolds(After(e), Value(e), h)
    /\ \A q \in DOMAIN h : Backed(After(e), h[q])
    /\ DOMAIN H = DOMAIN G
    /\ \A v \in DOMAIN H : DOMAIN H[v] \subseteq DOMAIN G[v]
    /\ \A v \in DOMAIN H : \A p \in DOMAIN H[v] :
          /\ Where(v, H[v], p) = Where(v, G[v], p)
          /\ \A q \in DOMAIN h : \A j \in 1..h[q].n : <<h[q].data, j>> # Where(v, H[v], p)
    /\ Trees(H) = T!AfterArgument(Told(e))
    /\ LabelsOf(h) = T!Argument(Told(e))

\* The value is backed once its argument is evaluated, and all below it.
LEMMA ValueBacked ==
    ASSUME Memory(mem), Owned(mem, {}), NEW e \in Expr, NEW h, Unfolds(After(e), Value(e), h)
    PROVE  \A q \in DOMAIN h : Backed(After(e), h[q])
<1>1. /\ Value(e) \in Cell /\ Memory(After(e)) /\ Owned(After(e), Owning(Value(e)))
      /\ Value(e).n > 0 => Len(After(e)[Value(e).data]) = Value(e).n
  BY ArgumentFacts
<1>2. Value(e).n > 0 => Value(e).data \in Block \cap DOMAIN After(e)
  BY <1>1 DEF Owned, Owning
<1>3. Backed(After(e), Value(e))
  BY <1>1, <1>2 DEF Backed
<1>4. QED
  BY <1>1, <1>3, UnfoldsBacked

\* A new leaf.
LEMMA LeafForest ==
    ASSUME Memory(mem), Owned(mem, {}), NEW G, Forest(mem, G),
           NEW e \in [how : {"leaf"}, label : Label]
    PROVE  \E H, h : Evaluated(e, G, H, h)
<1> DEFINE h == Bare(Leaf(e.label))
<1>1. /\ Value(e) = Leaf(e.label) /\ After(e) = mem /\ e.how = "leaf" /\ e \in Expr
      /\ Told(e) = NewTree(Flat(e.label, 0, Raw))
  BY DEF Value, After, Told, Expr
<1>2. Unfolds(mem, Value(e), h)
  BY <1>1, UnfoldsBare DEF Leaf
<1>3. \A q \in DOMAIN h : Backed(mem, h[q])
  BY <1>1, <1>2, ValueBacked
<1>4. DOMAIN h = {<<>>} /\ h[<<>>] = Leaf(e.label) /\ Leaf(e.label).n = 0
  BY BareFacts DEF Leaf
<1>5. LabelsOf(h) = Flat(e.label, 0, Raw)
  <2>1. LabelsOf(h) = Bare(e.label)
    BY LabelsBare DEF Leaf
  <2>2. {<<i>> : i \in 1..0} = {}
    OBVIOUS
  <2>3. QED
    BY <2>1, <2>2 DEF Bare, Flat
<1>6. /\ T!Argument(Told(e)) = Flat(e.label, 0, Raw)
      /\ T!AfterArgument(Told(e)) = Trees(G)
  <2>1. [v \in Var \cap DOMAIN mem |-> TreeOf(v)] = Trees(G)
    BY TreesOfForest
  <2>2. Told(e).how = "new" /\ Told(e).tree = Flat(e.label, 0, Raw)
    BY <1>1 DEF NewTree
  <2>3. QED
    BY <2>1, <2>2 DEF T!Argument, T!AfterArgument
<1>7. Solid(mem, G)
  BY SolidForest
<1> HIDE DEF h
<1>8. \A q \in DOMAIN h : \A j : j \notin 1..h[q].n
  BY <1>4
<1>9. Evaluated(e, G, G, h)
  BY <1>1, <1>2, <1>3, <1>5, <1>6, <1>7, <1>8 DEF Evaluated
<1>10. QED
  BY <1>9

\* The labels of a node with n children of the same kind.
LEMMA LabelsFlat ==
    ASSUME NEW l, NEW b, NEW n \in Nat, NEW c
    PROVE  LabelsOf(T!Listing(Node(l, n, b), [i \in 1..n |-> Bare(c)])) = Flat(l, n, c)
<1> DEFINE list == [i \in 1..n |-> Bare(c)]
           k == LabelsOfAll(list)
           t == Flat(l, n, c)
<1>1. DOMAIN list = 1..n /\ DOMAIN list \subseteq Nat /\ \A i \in DOMAIN list : OnPaths(list[i]) /\ list[i] = Bare(c)
  BY BareFacts
<1> HIDE DEF list
<1>2. DOMAIN k = 1..n /\ \A i \in DOMAIN k : k[i] = Bare(c.label)
  BY <1>1, LabelsBare DEF LabelsOfAll
<1>3. LabelsOf(T!Listing(Node(l, n, b), list)) = T!Listing(l, k)
  <2>1. Node(l, n, b).label = l
    BY DEF Node
  <2>2. QED
    BY <1>1, <2>1, LabelsListing
<1> HIDE DEF k
<1>4. t = [r \in {<<>>} \cup {<<i>> : i \in 1..n} |-> IF r = <<>> THEN l ELSE c.label]
  BY DEF Flat
<1> HIDE DEF t
<1>5. /\ OnPaths(t) /\ <<>> \in DOMAIN t /\ t[<<>>] = l
      /\ DOMAIN t = {<<>>} \cup {<<i>> : i \in 1..n}
      /\ \A i \in 1..n : t[<<i>>] = c.label
  <2>1. <<>> \in Path /\ \A i \in 1..n : <<i>> \in Path /\ <<i>> # <<>>
    BY DEF Path
  <2>2. QED
    BY <1>4, <2>1 DEF OnPaths
<1>6. Parts(t, k)
  <2>1. ASSUME NEW i \in Nat, NEW q \in Path
        PROVE  /\ <<i>> \o q \in DOMAIN t <=> i \in DOMAIN k /\ q \in DOMAIN k[i]
               /\ i \in DOMAIN k /\ q \in DOMAIN k[i] => t[<<i>> \o q] = k[i][q]
    <3>1. /\ <<i>> \o q # <<>> /\ Head(<<i>> \o q) = i /\ Tail(<<i>> \o q) = q
          /\ <<i>> \o <<>> = <<i>>
      BY PathConcat DEF Path
    <3>2. i \in DOMAIN k => DOMAIN k[i] = {<<>>} /\ k[i][<<>>] = c.label
      BY <1>2, BareFacts
    <3>3. ASSUME NEW x \in 1..n, <<i>> \o q = <<x>> PROVE i = x /\ q = <<>>
      <4>1. Head(<<x>>) = x /\ Tail(<<x>>) = <<>>
        OBVIOUS
      <4>2. QED
        BY <3>1, <3>3, <4>1
    <3>4. <<i>> \o q \in DOMAIN t <=> i \in 1..n /\ q = <<>>
      <4>1. \A r : r \in DOMAIN t <=> r = <<>> \/ \E x \in 1..n : r = <<x>>
        BY <1>5
      <4>2. ASSUME <<i>> \o q \in DOMAIN t PROVE i \in 1..n /\ q = <<>>
        <5> DEFINE r == <<i>> \o q
        <5>1. r # <<>> /\ r \in DOMAIN t
          BY <3>1, <4>2
        <5> HIDE DEF r
        <5>2. PICK x \in 1..n : r = <<x>>
          BY <4>1, <5>1
        <5>3. i = x /\ q = <<>>
          BY <3>3, <5>2 DEF r
        <5>4. QED
          BY <5>3
      <4>3. i \in 1..n /\ q = <<>> => <<i>> \o q \in DOMAIN t
        BY <3>1, <4>1
      <4>4. QED
        BY <4>2, <4>3
    <3>5. QED
      BY <1>2, <1>5, <3>1, <3>2, <3>4
  <2>2. QED
    BY <2>1 DEF Parts
<1>7. \A i \in DOMAIN k : OnPaths(k[i])
  BY <1>2, BareFacts
<1>8. t = T!Listing(l, k)
  <2>1. DOMAIN k \subseteq Nat
    BY <1>2
  <2>2. QED
    BY <1>5, <1>6, <1>7, <2>1, SameListing
<1>9. QED
  BY <1>3, <1>8 DEF t, list

\* A new node with children that have no value, or none of their own.
LEMMA NewNodeForest ==
    ASSUME Memory(mem), Owned(mem, {}), NEW G, Forest(mem, G),
           NEW e \in [how : {"uninitialize", "null_initialize"}, label : Label, n : 1..MaxNew, block : Free]
    PROVE  \E H, h : Evaluated(e, G, H, h)
<1> DEFINE c == IF e.how = "uninitialize" THEN Invalid ELSE Null
           list == [i \in 1..e.n |-> Bare(c)]
           h == T!Listing(Value(e), list)
           m2 == After(e)
<1>1. /\ Value(e) = Node(e.label, e.n, e.block)
      /\ m2 = With(mem, e.block, Filled(e.n, c))
      /\ Told(e) = NewTree(Flat(e.label, e.n, c))
      /\ e \in Expr
      /\ e.n \in Nat /\ e.block \in Block \ DOMAIN mem
  BY BoundsAssumption DEF Value, After, Told, Expr, Free
<1>2. Value(e).n = e.n /\ Value(e).data = e.block /\ c.n = 0
  BY <1>1 DEF Node, Invalid, Null, Leaf
<1>3. m2[e.block] = [i \in 1..e.n |-> c] /\ \A x \in DOMAIN mem : m2[x] = mem[x]
  BY <1>1 DEF With, Filled
<1> HIDE DEF c, m2
<1>4. Forest(m2, G) /\ Solid(m2, G)
  <2>1. Solid(mem, G)
    BY SolidForest
  <2>2. QED
    BY <1>1, <2>1, NewBlockForest
<1>5. Unfolds(m2, Value(e), h)
  <2>1. DOMAIN list = 1..Value(e).n
    BY <1>2
  <2>2. ASSUME NEW j \in 1..Value(e).n PROVE Unfolds(m2, m2[Value(e).data][j], list[j])
    <3>1. m2[Value(e).data][j] = c /\ list[j] = Bare(c)
      BY <1>2, <1>3
    <3>2. Unfolds(m2, c, Bare(c))
      BY <1>2, UnfoldsBare
    <3>3. QED
      BY <3>1, <3>2
  <2> HIDE DEF list
  <2>3. QED
    BY <1>1, <1>2, <2>1, <2>2, UnfoldsListing
<1>6. LabelsOf(h) = Flat(e.label, e.n, c)
  <2> DEFINE l == e.label
             n == e.n
             b == e.block
  <2>1. h = T!Listing(Node(l, n, b), [i \in 1..n |-> Bare(c)])
    BY <1>1
  <2>2. n \in Nat
    BY <1>1
  <2> HIDE DEF l, n, b, h
  <2>3. LabelsOf(T!Listing(Node(l, n, b), [i \in 1..n |-> Bare(c)])) = Flat(l, n, c)
    BY <2>2, LabelsFlat
  <2>4. LabelsOf(h) = Flat(l, n, c)
    BY <2>1, <2>3, Zenon
  <2>5. QED
    BY <2>4 DEF l, n
<1>7. \A q \in DOMAIN h : Backed(m2, h[q])
  <2> HIDE DEF h
  <2>1. QED
    BY <1>1, <1>5, ValueBacked DEF m2
<1>8. /\ T!Argument(Told(e)) = Flat(e.label, e.n, c)
      /\ T!AfterArgument(Told(e)) = Trees(G)
  <2>1. [v \in Var \cap DOMAIN mem |-> TreeOf(v)] = Trees(G)
    BY TreesOfForest
  <2>2. Told(e).how = "new" /\ Told(e).tree = Flat(e.label, e.n, c)
    BY <1>1 DEF NewTree
  <2>3. QED
    BY <2>1, <2>2 DEF T!Argument, T!AfterArgument
<1>9. \A q \in DOMAIN h : h[q].n > 0 => h[q].data = e.block
  <2>1. \A i \in DOMAIN list : DOMAIN list[i] = {<<>>} /\ list[i][<<>>] = c
    BY BareFacts
  <2>2. Lists(h, Value(e), list)
    <3>1. DOMAIN list \subseteq Nat /\ \A i \in DOMAIN list : OnPaths(list[i])
      BY BareFacts
    <3> HIDE DEF list
    <3>2. QED
      BY <3>1, ListingFacts
  <2> HIDE DEF list, h
  <2>3. ASSUME NEW q \in DOMAIN h, q # <<>> PROVE h[q] = c
    <3>1. \E i \in DOMAIN list : \E r \in DOMAIN list[i] : q = <<i>> \o r
      BY <2>2, <2>3 DEF Lists, OnPaths
    <3>2. PICK i \in DOMAIN list : q = <<i>> \o <<>>
      BY <2>1, <3>1
    <3>3. <<>> \in Path
      BY DEF Path
    <3>4. h[<<i>> \o <<>>] = list[i][<<>>]
      BY <2>1, <2>2, <3>3 DEF Lists
    <3>5. QED
      BY <2>1, <3>2, <3>4
  <2>4. h[<<>>] = Value(e)
    BY <2>2 DEF Lists
  <2>5. QED
    BY <1>2, <2>3, <2>4
<1> HIDE DEF h
<1>10. ASSUME NEW v \in DOMAIN G, NEW p \in DOMAIN G[v], NEW q \in DOMAIN h, NEW j \in 1..h[q].n
       PROVE  <<h[q].data, j>> # Where(v, G[v], p)
  <2>1. h[q].data = e.block
    <3>1. h[q].n > 0
      BY <1>1, <1>7, CellFacts DEF Backed
    <3>2. QED
      BY <1>9, <3>1
  <2>2. \E b \in DOMAIN mem : \E i \in DOMAIN mem[b] : Where(v, G[v], p) = <<b, i>>
    BY ForestCells
  <2>3. QED
    BY <1>1, <2>1, <2>2
<1>11. Evaluated(e, G, G, h)
  BY <1>4, <1>5, <1>6, <1>7, <1>8, <1>10 DEF Evaluated, m2
<1>12. QED
  BY <1>11

\* A node that is moved from: its tree is the argument, it keeps its label.
LEMMA MoveForest ==
    ASSUME Memory(mem), Owned(mem, {}), NEW G, Forest(mem, G), NEW e \in [how : {"move"}, from : Valued]
    PROVE  \E H, h : Evaluated(e, G, H, h)
<1> DEFINE v == e.from.var
           p == e.from.path
           a == e.from.cell
           c == At(mem, a)
           l == Leaf(c.label)
           m2 == Emptied(mem, a)
           h == T!Sub(G[v], p)
           H == Placed(G, v, p, Bare(l))
<1>0. \A u \in DOMAIN G : \A r \in DOMAIN G[u] : \A w \in DOMAIN G : \A q \in DOMAIN G[w] :
         Where(u, G[u], r) = Where(w, G[w], q) => u = w /\ r = q
  BY OneAddress
<1>1. /\ Value(e) = c /\ After(e) = m2 /\ e \in Expr /\ e.from \in Named
      /\ Told(e) = [how |-> "move", var |-> v, path |-> p]
  BY DEF Value, After, Told, Expr, From, Valued
<1>2. /\ v \in DOMAIN G /\ p \in DOMAIN G[v] /\ a = Where(v, G[v], p) /\ c = G[v][p]
  BY <1>1, NamedIsForest
<1>3. /\ Unfolds(mem, mem[v][1], G[v]) /\ OnPaths(G[v]) /\ p \in Path
  BY <1>2 DEF Forest, Unfolds, OnPaths
<1>4. \E b \in DOMAIN mem : \E i \in DOMAIN mem[b] : a = <<b, i>> /\ mem[b][i] = c
  BY <1>2, ForestCells
<1>5. PICK b \in DOMAIN mem : \E i \in DOMAIN mem[b] : a = <<b, i>> /\ mem[b][i] = c
  BY <1>4
<1>6. PICK i \in DOMAIN mem[b] : a = <<b, i>> /\ mem[b][i] = c
  BY <1>5
<1>7. c \in Cell /\ l \in Cell /\ l.n = 0 /\ l.label = c.label
  BY <1>6, MemoryCells, CellFacts DEF Leaf
<1>8. m2 = Put(mem, <<b, i>>, l)
  BY <1>6 DEF Emptied
<1>9. Names(G, v, p, <<b, i>>)
  <2> HIDE DEF v, p, a, c
  <2>1. ASSUME NEW u \in DOMAIN G, NEW q \in DOMAIN G[u], Where(u, G[u], q) = <<b, i>>
        PROVE  u = v /\ q = p
    <3>1. Where(u, G[u], q) = Where(v, G[v], p)
      BY <1>2, <1>6, <2>1
    <3>2. QED
      BY <1>0, <1>2, <3>1
  <2>2. QED
    BY <1>2, <1>6, <2>1 DEF Names
<1>10. Solid(mem, G)
  BY SolidForest
<1>11. Memory(After(e)) /\ Owned(After(e), Owning(Value(e)))
  BY <1>1, ArgumentFacts
<1> HIDE DEF v, p, a, c, l, m2, h
<1>12. Forest(m2, H)
  <2>1. Unfolds(Put(mem, <<b, i>>, l), l, Bare(l))
    BY <1>7, UnfoldsBare
  <2>2. Forest(Put(mem, <<b, i>>, l), H)
    BY <1>2, <1>3, <1>7, <1>9, <1>10, <2>1, PutForest
  <2>3. QED
    BY <1>8, <2>2
<1>13. /\ DOMAIN H = DOMAIN G
       /\ \A u \in DOMAIN G : u # v => H[u] = G[u]
       /\ H[v] = T!Graft(G[v], p, Bare(l))
  BY <1>2, PlacedFacts
<1>14. Solid(m2, H)
  BY <1>1, <1>11, <1>12, SolidForest
<1>15. /\ \A r \in DOMAIN H[v] : r \in DOMAIN G[v] /\ (r # p => ~T!IsPrefix(p, r) /\ H[v][r] = G[v][r])
       /\ p \in DOMAIN H[v] /\ H[v][p] = l
  <2>1. OnPaths(Bare(l)) /\ DOMAIN Bare(l) = {<<>>} /\ Bare(l)[<<>>] = l
    BY BareFacts
  <2> DEFINE g == G[v]
             s == Bare(l)
             k == T!Graft(g, p, s)
  <2>2. /\ OnPaths(k)
        /\ \A r \in Path : r \in DOMAIN k <=> \/ r \in DOMAIN g /\ ~T!IsPrefix(p, r)
                                             \/ \E q \in DOMAIN s : r = p \o q
        /\ \A q \in DOMAIN s : k[p \o q] = s[q]
        /\ \A r \in DOMAIN g : ~T!IsPrefix(p, r) => k[r] = g[r]
    <3>1. OnPaths(g) /\ OnPaths(s)
      BY <1>3, <2>1
    <3>2. p \in Path
      BY <1>3
    <3> HIDE DEF g, s
    <3>3. Grafted(k, g, p, s)
      BY <3>1, <3>2, GraftIs
    <3> HIDE DEF k
    <3>4. QED
      BY <3>3 DEF Grafted
  <2>3. p \o <<>> = p
    BY <1>3, PathConcat
  <2> HIDE DEF k
  <2>4. p \in DOMAIN k /\ k[p] = l
    BY <1>3, <2>1, <2>2, <2>3
  <2>5. \A r \in DOMAIN k : r \in Path /\ (r = p \/ (r \in DOMAIN G[v] /\ ~T!IsPrefix(p, r)))
    BY <2>1, <2>2, <2>3 DEF OnPaths
  <2>6. \A r \in DOMAIN k : r \in DOMAIN G[v] /\ (r # p => ~T!IsPrefix(p, r) /\ k[r] = G[v][r])
    BY <1>2, <2>2, <2>5
  <2>7. QED
    BY <1>13, <2>4, <2>6 DEF k
<1> HIDE DEF H
<1>16. ASSUME NEW u \in DOMAIN H, NEW r \in DOMAIN H[u]
       PROVE  r \in DOMAIN G[u] /\ Where(u, H[u], r) = Where(u, G[u], r)
  <2>1. CASE u # v
    BY <1>13, <2>1
  <2>2. CASE u = v
    <3>1. r \in DOMAIN G[u]
      BY <1>15, <2>2
    <3>2. CASE r = <<>>
      BY <3>1, <3>2 DEF Where
    <3>3. CASE r # <<>>
      <4>1. Unfolds(m2, m2[v][1], H[v])
        BY <1>12, <2>2 DEF Forest
      <4>2. PICK q \in DOMAIN H[v] : \E j \in 1..H[v][q].n :
               q \in Path /\ j \in Nat /\ r = Append(q, j) /\ H[v][r] = m2[H[v][q].data][j]
        BY <2>2, <3>3, <4>1, UnfoldsChild
      <4>3. PICK j \in 1..H[v][q].n : q \in Path /\ j \in Nat /\ r = Append(q, j)
        BY <4>2
      <4>4. q # p
        BY <1>7, <1>15, <4>3
      <4>5. H[v][q] = G[v][q]
        BY <1>15, <4>4
      <4>6. Where(v, H[v], r) = <<H[v][q].data, j>>
        BY <4>3, WhereChild
      <4>7. Where(v, G[v], r) = <<G[v][q].data, j>>
        BY <4>3, WhereChild
      <4>8. QED
        BY <2>2, <3>1, <4>5, <4>6, <4>7
    <3>4. QED
      BY <3>2, <3>3
  <2>3. QED
    BY <2>1, <2>2
<1>17. Unfolds(mem, c, h) /\ OnPaths(h) /\ DOMAIN h = {q \in Path : p \o q \in DOMAIN G[v]}
       /\ \A q \in DOMAIN h : h[q] = G[v][p \o q]
  <2>1. Unfolds(mem, c, h)
    BY <1>2, <1>3, UnfoldsSub DEF h
  <2>2. OnPaths(h) /\ DOMAIN h = {q \in Path : p \o q \in DOMAIN G[v]}
        /\ \A q \in DOMAIN h : h[q] = G[v][p \o q]
    BY <1>3, SubFacts DEF h
  <2>3. QED
    BY <2>1, <2>2
<1>18. ASSUME NEW q \in DOMAIN h, NEW j \in 1..h[q].n
       PROVE  /\ j \in Nat /\ Append(p \o q, j) \in DOMAIN G[v]
              /\ <<h[q].data, j>> = Where(v, G[v], Append(p \o q, j))
              /\ Append(p \o q, j) # p /\ T!IsPrefix(p, Append(p \o q, j))
              /\ h[q].data \in DOMAIN mem /\ j \in DOMAIN mem[h[q].data]
  <2>1. q \in Path /\ p \o q \in DOMAIN G[v] /\ h[q] = G[v][p \o q] /\ p \o q \in Path
    BY <1>3, <1>17, PathTypes
  <2>2. Backed(mem, h[q])
    BY <1>2, <2>1, ForestCells
  <2>3. j \in Nat /\ h[q].data \in DOMAIN mem /\ j \in DOMAIN mem[h[q].data]
    BY <2>2, SolidCells
  <2>4. Append(p \o q, j) \in DOMAIN G[v]
    BY <1>3, <2>1, <2>3 DEF Unfolds
  <2>5. <<h[q].data, j>> = Where(v, G[v], Append(p \o q, j))
    BY <2>1, <2>3, WhereChild
  <2>6. Append(p \o q, j) # p
    <3>1. T!IsPrefix(p, p)
      BY <1>3, PrefixSelf
    <3>2. ~T!IsPrefix(Append(p \o q, j), p)
      BY <1>3, <2>1, <2>3, PrefixSelf
    <3>3. QED
      BY <3>1, <3>2
  <2>7. T!IsPrefix(p, Append(p \o q, j))
    <3>1. T!IsPrefix(p, p \o q)
      BY <1>3, <2>1, PrefixFacts
    <3>2. QED
      BY <1>3, <2>1, <2>3, <3>1, PrefixAppend
  <2>8. QED
    BY <2>3, <2>4, <2>5, <2>6, <2>7
<1>19. Unfolds(m2, c, h)
  <2>1. \A x \in DOMAIN mem : \A j \in DOMAIN mem[x] :
            <<x, j>> # <<b, i>> => m2[x][j] = mem[x][j]
    BY <1>7, <1>8, PutFacts
  <2>2. ASSUME NEW q \in DOMAIN h, NEW j \in 1..h[q].n
        PROVE  m2[h[q].data][j] = mem[h[q].data][j]
    <3>1. <<h[q].data, j>> # <<b, i>>
      BY <1>9, <1>2, <1>18 DEF Names
    <3>2. QED
      BY <1>18, <2>1, <3>1
  <2>3. QED
    BY <1>17, <2>2, UnfoldsAgree
<1>20. ASSUME NEW u \in DOMAIN H, NEW r \in DOMAIN H[u], NEW q \in DOMAIN h, NEW j \in 1..h[q].n
       PROVE  <<h[q].data, j>> # Where(u, H[u], r)
  <2>1. ASSUME <<h[q].data, j>> = Where(u, H[u], r) PROVE FALSE
    <3>1. Where(v, G[v], Append(p \o q, j)) = Where(u, G[u], r)
      BY <1>16, <1>18, <2>1
    <3>2. u = v /\ r = Append(p \o q, j)
      <4> DEFINE z == Append(p \o q, j)
      <4>1. v \in DOMAIN G /\ z \in DOMAIN G[v] /\ u \in DOMAIN G /\ r \in DOMAIN G[u]
        BY <1>2, <1>13, <1>16, <1>18
      <4>2. Where(v, G[v], z) = Where(u, G[u], r)
        BY <3>1
      <4> HIDE DEF z
      <4>3. u = v /\ r = z
        BY <1>0, <4>1, <4>2
      <4>4. QED
        BY <4>3 DEF z
    <3>3. QED
      BY <1>15, <1>18, <3>2
  <2>2. QED
    BY <2>1
<1>21. [x \in Var \cap DOMAIN mem |-> TreeOf(x)] = Trees(G)
  BY TreesOfForest
<1>22. DOMAIN LabelsOf(G[v]) = DOMAIN G[v] /\ OnPaths(LabelsOf(G[v])) /\ LabelsOf(G[v])[p] = c.label
  BY <1>2, <1>3, LabelsFacts
<1>23. Trees(G)[v] = LabelsOf(G[v])
  BY <1>2 DEF Trees
<1>24. Trees(H) = T!AfterArgument(Told(e))
  <2>1. Trees(H) = [Trees(G) EXCEPT ![v] = T!Graft(@, p, LabelsOf(Bare(l)))]
    <3>1. OnPaths(Bare(l))
      BY BareFacts
    <3>2. Trees(H) = IF p \in DOMAIN Trees(G)[v]
                     THEN [Trees(G) EXCEPT ![v] = T!Graft(@, p, LabelsOf(Bare(l)))]
                     ELSE Trees(G)
      BY <1>2, <1>3, <3>1, TreesPlaced DEF H
    <3>3. QED
      BY <1>2, <1>22, <1>23, <3>2
  <2>2. LabelsOf(Bare(l)) = Bare(c.label)
    BY <1>7, LabelsBare
  <2>3. T!Cut(LabelsOf(G[v]), p) = T!Graft(LabelsOf(G[v]), p, Bare(c.label))
    BY <1>2, <1>22, CutIsGraft
  <2>4. T!AfterArgument(Told(e)) = [Trees(G) EXCEPT ![v] = T!Cut(@, p)]
    <3> DEFINE tr == [x \in Var \cap DOMAIN mem |-> TreeOf(x)]
    <3>1. Told(e).how = "move" /\ Told(e).var = v /\ Told(e).path = p
      BY <1>1
    <3>2. T!AfterArgument(Told(e)) = [tr EXCEPT ![Told(e).var] = T!Cut(tr[Told(e).var], Told(e).path)]
      BY <3>1, Zenon DEF T!AfterArgument
    <3> HIDE DEF tr
    <3>3. tr = Trees(G)
      BY <1>21 DEF tr
    <3>4. QED
      BY <3>1, <3>2, <3>3, Zenon
  <2>5. QED
    BY <1>2, <1>23, <2>1, <2>2, <2>3, <2>4
<1>25. LabelsOf(h) = T!Argument(Told(e))
  <2>1. LabelsOf(h) = T!Sub(LabelsOf(G[v]), p)
    BY <1>3, LabelsSub DEF h
  <2>2. T!Argument(Told(e)) = T!Sub(Trees(G)[v], p)
    BY <1>1, <1>21 DEF T!Argument
  <2>3. QED
    BY <1>23, <2>1, <2>2
<1>26. \A q \in DOMAIN h : Backed(m2, h[q])
  BY <1>1, <1>19, ValueBacked
<1>27. Evaluated(e, G, H, h)
  BY <1>1, <1>12, <1>13, <1>14, <1>16, <1>19, <1>20, <1>24, <1>25, <1>26 DEF Evaluated
<1>28. QED
  BY <1>27

\* Every argument evaluates to a tree, and leaves a forest.
LEMMA ArgumentForest ==
    ASSUME Memory(mem), Owned(mem, {}), NEW G, Forest(mem, G), NEW e \in Expr
    PROVE  \E H, h : Evaluated(e, G, H, h)
BY LeafForest, NewNodeForest, MoveForest DEF Expr

-----------------------------------------------------------------------------
(* The trees before and after a step. *)

TreesNow == [v \in Var \cap DOMAIN mem |-> TreeOf(v)]

\* They are those of the forest,
LEMMA TreesHere == IInv => \A G : Forest(mem, G) => TreesNow = Trees(G)
<1> SUFFICES ASSUME IInv, NEW G, Forest(mem, G)
             PROVE  TreesNow = Trees(G)
  OBVIOUS
<1>1. Memory(mem) /\ Owned(mem, Begun(calls))
  BY DEF IInv, TypeOK, Building
<1> DEFINE loose == Begun(calls)
<1> HIDE DEF loose
<1>2. Owned(mem, loose)
  BY <1>1 DEF loose
<1>3. QED
  BY <1>1, <1>2, TreesOfForest DEF TreesNow

\* and of the forest after the step.
LEMMA TreesThen ==
    ASSUME IInv', NEW K, Forest(mem', K)
    PROVE  TreesNow' = Trees(K)
<1>1. (IInv => \A G : Forest(mem, G) => TreesNow = Trees(G))'
  BY TreesHere, PTL
<1>2. QED
  BY <1>1

\* Storage that stays the same holds the same trees.
LEMMA SameTrees ==
    ASSUME mem' = mem
    PROVE  TreesNow' = TreesNow
BY DEF TreesNow, TreeOf, Walk, Root, Step, At

\* What TreeEdits says of a step, of these trees.
LEMMA PlaceDone ==
    ASSUME NEW to, NEW a, NEW A, A = T!AfterArgument(a), NEW V, V = T!Argument(a),
           TreesNow' = IF to.var \notin DOMAIN A
                       THEN [v \in DOMAIN A \cup {to.var} |-> IF v = to.var THEN V ELSE A[v]]
                       ELSE IF to.path \in DOMAIN A[to.var]
                            THEN [A EXCEPT ![to.var] = T!Graft(@, to.path, V)]
                            ELSE A
    PROVE  T!Place(to, a)
BY Zenon DEF T!Place, TreesNow

\* The same of insertion,
LEMMA InsertDone ==
    ASSUME NEW to, NEW i, NEW a, NEW A, A = T!AfterArgument(a), NEW V, V = T!Argument(a),
           NEW list, list = T!Children(T!Sub(A[to.var], to.path)),
           to.path \in DOMAIN A[to.var] => i <= Len(list) + 1,
           TreesNow' = IF to.path \in DOMAIN A[to.var]
                       THEN [A EXCEPT ![to.var] =
                                T!Graft(@, to.path, T!Listing(@[to.path], T!InsertAt(list, i, V)))]
                       ELSE A
    PROVE  T!InsertChild(to, i, a)
BY Zenon DEF T!InsertChild, T!Relist, TreesNow

\* of erasing,
LEMMA EraseDone ==
    ASSUME NEW to, NEW i, NEW A, A = TreesNow,
           TreesNow' = [A EXCEPT ![to.var] =
                           T!Graft(@, to.path, T!Listing(@[to.path],
                               T!RemoveAt(T!Children(T!Sub(@, to.path)), i)))]
    PROVE  T!EraseChild(to, i)
BY Zenon DEF T!EraseChild, T!Relist, TreesNow

\* and of the end of a variable's life.
LEMMA DropDone ==
    ASSUME NEW to, NEW A, A = TreesNow,
           TreesNow' = [v \in DOMAIN A \ {to.var} |-> A[v]]
    PROVE  T!Drop(to)
BY Zenon DEF T!Drop, TreesNow

-----------------------------------------------------------------------------
(* Names. *)

\* A name in a forest is one in every forest whose nodes are where its nodes are.
LEMMA NamesInherited ==
    ASSUME NEW m, NEW loose, Memory(m), Owned(m, loose), NEW G, Forest(m, G),
           NEW v \in DOMAIN G, NEW p \in DOMAIN G[v],
           NEW H, DOMAIN H = DOMAIN G,
           \A u \in DOMAIN H : \A q \in DOMAIN H[u] :
               q \in DOMAIN G[u] /\ Where(u, H[u], q) = Where(u, G[u], q)
    PROVE  Names(H, v, p, Where(v, G[v], p))
<1>1. \A u \in DOMAIN G : \A r \in DOMAIN G[u] : \A w \in DOMAIN G : \A q \in DOMAIN G[w] :
         Where(u, G[u], r) = Where(w, G[w], q) => u = w /\ r = q
  BY OneAddress
<1>2. QED
  BY <1>1 DEF Names

\* In particular a node's own address names it.
LEMMA NamesHere ==
    ASSUME NEW m, NEW loose, Memory(m), Owned(m, loose), NEW G, Forest(m, G),
           NEW v \in DOMAIN G, NEW p \in DOMAIN G[v]
    PROVE  Names(G, v, p, Where(v, G[v], p))
BY NamesInherited

\* A node that the client names, with its place, when the argument is evaluated.
LEMMA EvaluatedName ==
    ASSUME Memory(mem), Owned(mem, {}), NEW G, Forest(mem, G), NEW x \in Named,
           NEW e \in Expr, NEW H, NEW h, Evaluated(e, G, H, h)
    PROVE  /\ x.var \in DOMAIN H /\ x.path \in Path /\ x.path \in DOMAIN G[x.var]
           /\ Names(H, x.var, x.path, x.cell)
           /\ x.cell = Where(x.var, G[x.var], x.path)
           /\ \E b \in DOMAIN mem : \E i \in DOMAIN mem[b] :
                 /\ x.cell = <<b, i>> /\ mem[b][i] = G[x.var][x.path]
                 /\ b \in DOMAIN After(e) /\ i \in DOMAIN After(e)[b]
<1> DEFINE v == x.var
           p == x.path
           a == x.cell
<1>1. v \in DOMAIN G /\ p \in DOMAIN G[v] /\ a = Where(v, G[v], p)
  BY NamedIsForest
<1> HIDE DEF v, p, a
<1>2. p \in Path
  BY <1>1 DEF Forest, Unfolds, OnPaths
<1>3. DOMAIN H = DOMAIN G
  BY DEF Evaluated
<1>4. Names(H, v, p, Where(v, G[v], p))
  <2>1. \A u \in DOMAIN H : \A q \in DOMAIN H[u] :
               q \in DOMAIN G[u] /\ Where(u, H[u], q) = Where(u, G[u], q)
    BY DEF Evaluated
  <2>2. QED
    BY <1>1, <1>3, <2>1, NamesInherited
<1>5. PICK b \in DOMAIN mem : \E i \in DOMAIN mem[b] : a = <<b, i>> /\ mem[b][i] = G[v][p]
  BY <1>1, ForestCells
<1>6. DOMAIN mem \subseteq DOMAIN After(e) /\ DOMAIN After(e)[b] = DOMAIN mem[b]
  BY ArgumentFacts
<1>7. QED
  BY <1>1, <1>2, <1>3, <1>4, <1>5, <1>6 DEF v, p, a

-----------------------------------------------------------------------------
(* Variables, initialization and assignment. *)

\* A variable is constructed.
LEMMA VarTrees ==
    ASSUME NEW H, NEW v, NEW h
    PROVE  Trees(Added(H, v, h)) = Added(Trees(H), v, LabelsOf(h))
BY DEF Trees, Added

\* Construct places its argument.
LEMMA ConstructForest ==
    ASSUME IInv, calls = <<>>, NEW G, Forest(mem, G), IInv', NEW v \in Var, NEW e \in Expr, Construct(v, e)
    PROVE  (\E K : Forest(mem', K)) /\ T!Do(call')
<1>1. Memory(mem) /\ Owned(mem, {})
  BY NoCalls DEF IInv, TypeOK, Building
<1>2. PICK H, h : Evaluated(e, G, H, h)
  BY <1>1, ArgumentForest
<1> DEFINE K == Added(H, v, h)
<1>3. v \notin DOMAIN mem /\ mem' = With(After(e), v, <<Value(e)>>)
      /\ call' = [op |-> "place", to |-> NameOf(Root(v)), i |-> 0, arg |-> Told(e)]
  BY DEF Construct, Calls
<1>4. v \notin DOMAIN After(e) /\ Memory(After(e))
  <2>1. /\ Value(e) \in Cell /\ Memory(After(e))
        /\ DOMAIN After(e) \subseteq DOMAIN mem \cup Owning(Value(e))
    BY <1>1, ArgumentFacts
  <2>2. Owning(Value(e)) \subseteq Block
    BY <2>1, CellFacts DEF Owning
  <2>3. QED
    BY <1>3, <2>1, <2>2, StorageAssumption
<1>5. Forest(mem', K)
  <2>1. /\ Forest(After(e), H) /\ Solid(After(e), H) /\ Unfolds(After(e), Value(e), h)
        /\ \A q \in DOMAIN h : Backed(After(e), h[q])
    BY <1>2 DEF Evaluated
  <2>2. v \in Var \ DOMAIN After(e)
    BY <1>4
  <2>3. Forest(With(After(e), v, <<Value(e)>>), K)
    BY <1>4, <2>1, <2>2, NewVarForest
  <2>4. QED
    BY <1>3, <2>3
<1> DEFINE A == Trees(H)
           V == LabelsOf(h)
<1>6. TreesNow' = Trees(K)
  BY <1>5, TreesThen
<1>7. A = T!AfterArgument(Told(e)) /\ V = T!Argument(Told(e))
  BY <1>2 DEF Evaluated
<1>8. Trees(K) = Added(A, v, V)
  BY VarTrees
<1>9. v \notin DOMAIN A
  BY <1>2, <1>4 DEF Evaluated, Forest, Trees
<1>10. NameOf(Root(v)).var = v
  BY DEF NameOf, Root
<1> HIDE DEF K, A, V
<1>11. T!Place(NameOf(Root(v)), Told(e))
  <2> DEFINE to == NameOf(Root(v))
             a == Told(e)
  <2>1. to.var = v
    BY <1>10
  <2>2. A = T!AfterArgument(a) /\ V = T!Argument(a)
    BY <1>7
  <2> HIDE DEF to, a
  <2>3. TreesNow' = IF to.var \notin DOMAIN A
                    THEN [u \in DOMAIN A \cup {to.var} |-> IF u = to.var THEN V ELSE A[u]]
                    ELSE IF to.path \in DOMAIN A[to.var]
                         THEN [A EXCEPT ![to.var] = T!Graft(@, to.path, V)]
                         ELSE A
    BY <1>6, <1>8, <1>9, <2>1 DEF Added
  <2>4. T!Place(to, a)
    BY <2>2, <2>3, PlaceDone
  <2>5. QED
    BY <2>4 DEF to, a
<1>12. QED
  BY <1>3, <1>5, <1>11 DEF T!Do

\* So does ConstructUninitialized, with a node that has no value.
LEMMA ConstructUninitializedForest ==
    ASSUME IInv, calls = <<>>, NEW G, Forest(mem, G), IInv', NEW v \in Var, ConstructUninitialized(v)
    PROVE  (\E K : Forest(mem', K)) /\ T!Do(call')
<1>1. Memory(mem) /\ Owned(mem, {})
  BY NoCalls DEF IInv, TypeOK, Building
<1> DEFINE h == Bare(Invalid)
           K == Added(G, v, h)
           F == Flat("invalid", 0, Raw)
<1>2. v \notin DOMAIN mem /\ mem' = With(mem, v, <<Invalid>>)
      /\ call' = [op |-> "place", to |-> NameOf(Root(v)), i |-> 0, arg |-> NewTree(F)]
  BY DEF ConstructUninitialized, Calls
<1>3. Invalid \in Cell /\ Invalid.n = 0 /\ Invalid.label = "invalid"
  BY NewCells DEF Labels, Invalid, Leaf
<1>4. Forest(mem', K)
  <2>1. Unfolds(mem, Invalid, h)
    BY <1>3, UnfoldsBare
  <2>2. \A q \in DOMAIN h : Backed(mem, h[q])
    BY <1>3, BareFacts DEF Backed
  <2>3. Solid(mem, G)
    BY <1>1, SolidForest
  <2>4. v \in Var \ DOMAIN mem
    BY <1>2
  <2> HIDE DEF h
  <2>5. Forest(With(mem, v, <<Invalid>>), K)
    BY <1>1, <2>1, <2>2, <2>3, <2>4, NewVarForest
  <2>6. QED
    BY <1>2, <2>5
<1> DEFINE A == Trees(G)
           V == LabelsOf(h)
           to == NameOf(Root(v))
           a == NewTree(F)
<1>5. TreesNow' = Added(A, v, V)
  <2>1. Trees(K) = Added(A, v, V)
    BY VarTrees
  <2>2. TreesNow' = Trees(K)
    BY <1>4, TreesThen
  <2>3. QED
    BY <2>1, <2>2
<1>6. A = T!AfterArgument(a) /\ V = T!Argument(a)
  <2>1. a.how = "new" /\ a.tree = F
    BY DEF NewTree
  <2>2. V = Bare("invalid")
    BY <1>3, LabelsBare
  <2>3. F = Bare("invalid")
    <3>1. {<<i>> : i \in 1..0} = {}
      OBVIOUS
    <3>2. QED
      BY <3>1 DEF Flat, Bare
  <2>4. TreesNow = A
    BY TreesHere
  <2>5. T!AfterArgument(a) = TreesNow
    BY <2>1 DEF T!AfterArgument, TreesNow
  <2>6. T!Argument(a) = F
    BY <2>1 DEF T!Argument
  <2>7. QED
    BY <2>2, <2>3, <2>4, <2>5, <2>6
<1>7. to.var = v /\ v \notin DOMAIN A
  BY <1>2 DEF NameOf, Root, Forest, Trees
<1>8. T!Place(to, a)
  <2> HIDE DEF to, a, A, V
  <2>1. TreesNow' = IF to.var \notin DOMAIN A
                    THEN [u \in DOMAIN A \cup {to.var} |-> IF u = to.var THEN V ELSE A[u]]
                    ELSE IF to.path \in DOMAIN A[to.var]
                         THEN [A EXCEPT ![to.var] = T!Graft(@, to.path, V)]
                         ELSE A
    BY <1>5, <1>7 DEF Added
  <2>2. QED
    BY <1>6, <2>1, PlaceDone
<1>9. QED
  BY <1>2, <1>4, <1>8 DEF T!Do

\* The value of the argument is put where the client's name leads.
LEMMA ValuePlaced ==
    ASSUME Memory(mem), Owned(mem, {}), NEW G, Forest(mem, G), NEW x \in Named,
           NEW e \in Expr, NEW H, NEW h, Evaluated(e, G, H, h)
    PROVE  /\ Forest(Put(After(e), x.cell, Value(e)), Placed(H, x.var, x.path, h))
           /\ Trees(Placed(H, x.var, x.path, h)) =
                 IF x.path \in DOMAIN Trees(H)[x.var]
                 THEN [Trees(H) EXCEPT ![x.var] = T!Graft(@, x.path, LabelsOf(h))]
                 ELSE Trees(H)
<1> DEFINE v == x.var
           p == x.path
           a == x.cell
           m == After(e)
           c == Value(e)
<1>1. /\ v \in DOMAIN H /\ p \in Path
      /\ Names(H, v, p, a)
  BY EvaluatedName
<1>2. \E b \in DOMAIN mem : \E i \in DOMAIN mem[b] : a = <<b, i>> /\ b \in DOMAIN m /\ i \in DOMAIN m[b]
  BY EvaluatedName
<1>3. PICK b \in DOMAIN m : \E i \in DOMAIN m[b] : a = <<b, i>>
  BY <1>2
<1>4. PICK i \in DOMAIN m[b] : a = <<b, i>>
  BY <1>3
<1>5. /\ Forest(m, H) /\ Solid(m, H) /\ Unfolds(m, c, h)
      /\ \A q \in DOMAIN h : Backed(m, h[q])
      /\ \A u \in DOMAIN H : \A r \in DOMAIN H[u] :
            \A q \in DOMAIN h : \A j \in 1..h[q].n : <<h[q].data, j>> # Where(u, H[u], r)
  BY DEF Evaluated
<1>6. c \in Cell /\ Memory(m)
  BY ArgumentFacts
<1> HIDE DEF v, p, a, m, c
<1>7. ASSUME p \in DOMAIN H[v] PROVE Unfolds(Put(m, <<b, i>>, c), c, h)
  <2>1. Where(v, H[v], p) = <<b, i>>
    BY <1>1, <1>4, <1>7 DEF Names
  <2>2. ASSUME NEW q \in DOMAIN h, NEW j \in 1..h[q].n
        PROVE  Put(m, <<b, i>>, c)[h[q].data][j] = m[h[q].data][j]
    <3>1. <<h[q].data, j>> # <<b, i>>
      BY <1>1, <1>5, <1>7, <2>1
    <3>2. h[q].data \in DOMAIN m /\ j \in DOMAIN m[h[q].data]
      BY <1>5, <1>6, SolidCells
    <3>3. QED
      BY <1>6, <3>1, <3>2, PutFacts
  <2>3. QED
    BY <1>5, <2>2, UnfoldsAgree
<1>8. Forest(Put(m, <<b, i>>, c), Placed(H, v, p, h))
  <2>1. Names(H, v, p, <<b, i>>)
    BY <1>1, <1>4
  <2>2. QED
    BY <1>1, <1>5, <1>6, <1>7, <2>1, PutForest
<1>9. OnPaths(H[v]) /\ OnPaths(h)
  BY <1>1, <1>5 DEF Forest, Unfolds
<1>10. Trees(Placed(H, v, p, h)) =
                 IF p \in DOMAIN Trees(H)[v]
                 THEN [Trees(H) EXCEPT ![v] = T!Graft(@, p, LabelsOf(h))]
                 ELSE Trees(H)
  BY <1>1, <1>9, TreesPlaced
<1>11. QED
  BY <1>4, <1>8, <1>10 DEF v, p, a, m, c

\* A step after which the trees are such that the argument is placed.
LEMMA PlacedDone ==
    ASSUME IInv', NEW to, NEW a, NEW H, NEW h, to.var \in DOMAIN Trees(H),
           Trees(H) = T!AfterArgument(a), LabelsOf(h) = T!Argument(a),
           NEW K, Forest(mem', K),
           Trees(K) = IF to.path \in DOMAIN Trees(H)[to.var]
                      THEN [Trees(H) EXCEPT ![to.var] = T!Graft(@, to.path, LabelsOf(h))]
                      ELSE Trees(H)
    PROVE  T!Place(to, a)
<1>1. TreesNow' = Trees(K)
  BY TreesThen
<1> DEFINE A == Trees(H)
           V == LabelsOf(h)
<1>2. /\ A = T!AfterArgument(a) /\ V = T!Argument(a) /\ to.var \in DOMAIN A
      /\ Trees(K) = IF to.path \in DOMAIN A[to.var]
                    THEN [A EXCEPT ![to.var] = T!Graft(@, to.path, V)]
                    ELSE A
  OBVIOUS
<1> HIDE DEF A, V
<1>3. TreesNow' = IF to.var \notin DOMAIN A
                  THEN [v \in DOMAIN A \cup {to.var} |-> IF v = to.var THEN V ELSE A[v]]
                  ELSE IF to.path \in DOMAIN A[to.var]
                       THEN [A EXCEPT ![to.var] = T!Graft(@, to.path, V)]
                       ELSE A
  BY <1>1, <1>2
<1>4. QED
  BY <1>2, <1>3, PlaceDone

\* Initialize places its argument.
LEMMA InitializeForest ==
    ASSUME IInv, calls = <<>>, NEW G, Forest(mem, G), IInv',
           NEW x \in Named, NEW e \in Expr, Initialize(x, e)
    PROVE  (\E K : Forest(mem', K)) /\ T!Do(call')
<1>1. Memory(mem) /\ Owned(mem, {})
  BY NoCalls DEF IInv, TypeOK, Building
<1>2. PICK H, h : Evaluated(e, G, H, h)
  BY <1>1, ArgumentForest
<1> DEFINE K == Placed(H, x.var, x.path, h)
           to == NameOf(x)
           a == Told(e)
<1>3. mem' = Put(After(e), x.cell, Value(e))
      /\ call' = [op |-> "place", to |-> to, i |-> 0, arg |-> a]
  BY DEF Initialize, Calls
<1>4. /\ Forest(mem', K)
      /\ Trees(K) = IF x.path \in DOMAIN Trees(H)[x.var]
                    THEN [Trees(H) EXCEPT ![x.var] = T!Graft(@, x.path, LabelsOf(h))]
                    ELSE Trees(H)
  BY <1>1, <1>2, <1>3, ValuePlaced
<1>5. x.var \in DOMAIN H
  BY <1>1, <1>2, EvaluatedName
<1>6. to.var = x.var /\ to.path = x.path /\ x.var \in DOMAIN Trees(H)
  BY <1>5 DEF NameOf, Trees
<1>7. Trees(H) = T!AfterArgument(a) /\ LabelsOf(h) = T!Argument(a)
  BY <1>2 DEF Evaluated
<1> HIDE DEF K, to, a
<1>8. T!Place(to, a)
  BY <1>4, <1>6, <1>7, PlacedDone
<1>9. QED
  BY <1>3, <1>4, <1>8 DEF T!Do

\* A step that changes no storage changes no tree.
LEMMA StutterForest ==
    ASSUME NEW G, Forest(mem, G), mem' = mem
    PROVE  (\E K : Forest(mem', K)) /\ TreesNow' = TreesNow
<1>1. Forest(mem', G)
  OBVIOUS
<1>2. QED
  BY <1>1, SameTrees

\* Assign places the node that is moved from, or reads freed storage.
LEMMA AssignForest ==
    ASSUME IInv, calls = <<>>, NEW G, Forest(mem, G), IInv',
           NEW x \in Valued, NEW y \in Valued, Assign(x, y)
    PROVE  (\E K : Forest(mem', K)) /\ (T!Do(call') \/ TreesNow' = TreesNow)
<1>1. Memory(mem) /\ Owned(mem, {})
  BY NoCalls DEF IInv, TypeOK, Building
<1>2. CASE mem' = mem
  BY <1>2, StutterForest
<1>3. CASE mem' # mem
  <2> DEFINE e == [how |-> "move", from |-> y]
             to == NameOf(x)
             a == Told(e)
             m == Emptied(mem, y.cell)
             S == Under(m, At(m, x.cell))
  <2>1. /\ e \in Expr /\ a = From("move", y)
        /\ Value(e) = At(mem, y.cell) /\ After(e) = m
    BY DEF Expr, Told, Value, After
  <2>2. x \in Named
    BY DEF Valued
  <2>3. /\ mem' = Put(Without(m, S), x.cell, At(mem, y.cell))
        /\ call' = [op |-> "place", to |-> to, i |-> 0, arg |-> a]
    BY <1>3, <2>1 DEF Assign, Calls, Died
  <2> HIDE DEF e, to, a, m
  <2>4. PICK H, h : Evaluated(e, G, H, h)
    BY <1>1, <2>1, ArgumentForest
  <2> DEFINE K == Placed(H, x.var, x.path, h)
             m2 == Put(m, x.cell, At(mem, y.cell))
  <2>5. /\ Forest(m2, K)
        /\ Trees(K) = IF x.path \in DOMAIN Trees(H)[x.var]
                      THEN [Trees(H) EXCEPT ![x.var] = T!Graft(@, x.path, LabelsOf(h))]
                      ELSE Trees(H)
    BY <1>1, <2>1, <2>2, <2>4, ValuePlaced
  <2>6. x.var \in DOMAIN H /\ \E b \in DOMAIN m : \E i \in DOMAIN m[b] : x.cell = <<b, i>>
    BY <1>1, <2>1, <2>2, <2>4, EvaluatedName
  <2>7. S \subseteq Block
    <3>1. Memory(m)
      BY <1>1, <2>1, ArgumentFacts
    <3>2. At(m, x.cell) \in Cell
      BY <2>6, <3>1, MemoryCells DEF At
    <3>3. QED
      BY <3>1, <3>2, UnderFacts
  <2> HIDE DEF S
  <2>8. /\ DOMAIN mem' = DOMAIN m2 \ S /\ DOMAIN m2 = DOMAIN m
        /\ \A z \in DOMAIN mem' : mem'[z] = m2[z]
    <3> DEFINE p == x.cell
               c == At(mem, y.cell)
    <3>1. mem' = Put(Without(m, S), p, c) /\ m2 = Put(m, p, c)
      BY <2>3
    <3> HIDE DEF p, c, m2
    <3>2. /\ DOMAIN Put(Without(m, S), p, c) = DOMAIN m \ S
          /\ DOMAIN Put(m, p, c) = DOMAIN m
          /\ \A z \in DOMAIN m \ S : Put(Without(m, S), p, c)[z] = Put(m, p, c)[z]
      BY DEF Put, Without
    <3>3. QED
      BY <3>1, <3>2
  <2> HIDE DEF m2, K
  <2>9. Forest(mem', K)
    <3>1. DOMAIN K = Var \cap DOMAIN mem'
      BY <2>5, <2>7, <2>8, StorageAssumption DEF Forest
    <3>2. Memory(mem')
      BY DEF IInv, TypeOK
    <3>3. Owned(mem', {})
      <4>1. calls' = <<>>
        BY DEF Assign
      <4>2. Building(mem', <<>>)
        BY <4>1 DEF IInv
      <4>3. QED
        BY <4>2, NoCalls
    <3>4. QED
      BY <2>5, <2>8, <3>1, <3>2, <3>3, FreedForest
  <2>10. to.var = x.var /\ to.path = x.path /\ x.var \in DOMAIN Trees(H)
    BY <2>6 DEF NameOf, Trees, to
  <2>11. Trees(H) = T!AfterArgument(a) /\ LabelsOf(h) = T!Argument(a)
    BY <2>4 DEF Evaluated, a
  <2>12. T!Place(to, a)
    BY <2>5, <2>9, <2>10, <2>11, PlacedDone DEF K
  <2>13. QED
    BY <2>3, <2>9, <2>12 DEF T!Do
<1>4. QED
  BY <1>2, <1>3

\* The end of a variable's life is that of its tree.
LEMMA DestroyForest ==
    ASSUME IInv, calls = <<>>, NEW G, Forest(mem, G), IInv', NEW v \in Var, Destroy(v)
    PROVE  (\E K : Forest(mem', K)) /\ T!Do(call')
<1>1. Memory(mem) /\ Owned(mem, {})
  BY NoCalls DEF IInv, TypeOK, Building
<1>2. Memory(mem') /\ Owned(mem', {})
  <2>1. calls' = <<>>
    BY DEF Destroy
  <2>2. Building(mem', <<>>) /\ Memory(mem')
    BY <2>1 DEF IInv, TypeOK
  <2>3. QED
    BY <2>2, NoCalls
<1> DEFINE S == Under(mem, mem[v][1])
           to == NameOf(Root(v))
           K == [u \in DOMAIN G \ {v} |-> G[u]]
<1>3. /\ v \in DOMAIN mem /\ mem' = Without(Without(mem, S), {v})
      /\ call' = [op |-> "drop", to |-> to, i |-> 0, arg |-> NoArg]
  BY DEF Destroy, Calls, Died
<1>4. S \subseteq Block
  <2>1. 1 \in DOMAIN mem[v]
    BY <1>1, <1>3 DEF Memory
  <2>2. mem[v][1] \in Cell
    BY <1>1, <1>3, <2>1, MemoryCells
  <2>3. QED
    BY <1>1, <2>2, UnderFacts
<1> HIDE DEF S, to
<1>5. /\ DOMAIN mem' = DOMAIN mem \ (S \cup {v}) /\ DOMAIN mem' \subseteq DOMAIN mem
      /\ \A z \in DOMAIN mem' : mem'[z] = mem[z]
  BY <1>3 DEF Without
<1>6. DOMAIN K = Var \cap DOMAIN mem' /\ \A u \in DOMAIN K : K[u] = G[u]
  BY <1>4, <1>5, StorageAssumption DEF Forest
<1> HIDE DEF K
<1>7. Forest(mem', K)
  <2> DEFINE w == mem'
  <2>1. /\ Memory(w) /\ Owned(w, {}) /\ DOMAIN w \subseteq DOMAIN mem
        /\ \A z \in DOMAIN w : w[z] = mem[z]
        /\ DOMAIN K = Var \cap DOMAIN w /\ \A u \in DOMAIN K : K[u] = G[u]
    BY <1>2, <1>5, <1>6
  <2>0. \A m2, X : /\ Memory(m2) /\ Owned(m2, {}) /\ DOMAIN m2 \subseteq DOMAIN mem
                   /\ \A z \in DOMAIN m2 : m2[z] = mem[z]
                   /\ DOMAIN X = Var \cap DOMAIN m2 /\ \A u \in DOMAIN X : X[u] = G[u]
                   => Forest(m2, X)
    BY FreedForest
  <2> HIDE DEF w
  <2>2. Forest(w, K)
    BY <2>0, <2>1
  <2>3. QED
    BY <2>2 DEF w
<1>8. TreesNow = Trees(G) /\ TreesNow' = Trees(K)
  BY <1>7, TreesHere, TreesThen
<1>9. Trees(K) = [u \in DOMAIN Trees(G) \ {v} |-> Trees(G)[u]]
  BY DEF Trees, K
<1>10. to.var = v
  BY DEF to, NameOf, Root
<1>11. T!Drop(to)
  BY <1>8, <1>9, <1>10, DropDone
<1>12. QED
  BY <1>3, <1>7, <1>11 DEF T!Do

-----------------------------------------------------------------------------
(* Lists of children. *)

\* The trees below the children of a node.
Kids(g, p) == [i \in 1..g[p].n |-> T!Sub(g, Append(p, i))]

\* They are a list, the children that TreeEdits speaks of.
LEMMA KidsFacts ==
    ASSUME NEW m, NEW c, NEW g, Unfolds(m, c, g), NEW p \in DOMAIN g, g[p].n \in Nat
    PROVE  /\ DOMAIN Kids(g, p) = 1..g[p].n /\ Len(Kids(g, p)) = g[p].n
           /\ \A i \in 1..g[p].n : OnPaths(Kids(g, p)[i])
           /\ T!Children(T!Sub(LabelsOf(g), p)) = LabelsOfAll(Kids(g, p))
<1>1. OnPaths(g) /\ p \in Path
  BY DEF Unfolds, OnPaths
<1>2. ASSUME NEW i \in 1..g[p].n PROVE OnPaths(T!Sub(g, Append(p, i)))
  <2>1. i \in Nat
    OBVIOUS
  <2>2. Append(p, i) \in Path
    BY <1>1, <2>1, PathTypes
  <2>3. QED
    BY <1>1, <2>2, SubFacts
<1>3. T!Children(T!Sub(LabelsOf(g), p)) = [i \in 1..g[p].n |-> LabelsOf(T!Sub(g, Append(p, i)))]
  BY ChildrenFacts
<1>4. LabelsOfAll(Kids(g, p)) = [i \in 1..g[p].n |-> LabelsOf(T!Sub(g, Append(p, i)))]
  BY DEF LabelsOfAll, Kids
<1>5. QED
  BY <1>2, <1>3, <1>4 DEF Kids

\* A list s of n elements with x as its k-th.
Inserted(y, s, n, k, x) ==
    /\ Len(y) = n + 1 /\ DOMAIN y = 1..(n + 1) /\ y[k] = x
    /\ \A j \in 1..(n + 1) : j < k => y[j] = s[j]
    /\ \A j \in 1..(n + 1) : j > k => y[j] = s[j - 1]

\* InsertAt makes this list.
LEMMA InsertIs ==
    ASSUME NEW S, NEW s \in Seq(S), NEW k \in 1..(Len(s) + 1), NEW x \in S
    PROVE  InsertAt(s, k, x) \in Seq(S) /\ Inserted(InsertAt(s, k, x), s, Len(s), k, x)
<1> DEFINE y == InsertAt(s, k, x)
<1>1. /\ y \in Seq(S) /\ Len(y) = Len(s) + 1 /\ y[k] = x
      /\ \A j \in 1..(Len(s) + 1) : j < k => y[j] = s[j]
      /\ \A j \in 1..(Len(s) + 1) : j > k => y[j] = s[j - 1]
  BY InsertAtFacts
<1> HIDE DEF y
<1>2. y \in Seq(S) /\ Inserted(y, s, Len(s), k, x)
  BY <1>1 DEF Inserted
<1>3. QED
  BY <1>2 DEF y

\* A list s of n elements without its k-th.
Removed(y, s, n, k) ==
    /\ Len(y) = n - 1 /\ DOMAIN y = 1..(n - 1)
    /\ \A j \in 1..(n - 1) : y[j] = IF j < k THEN s[j] ELSE s[j + 1]

\* RemoveAt makes this list.
LEMMA RemoveIs ==
    ASSUME NEW S, NEW s \in Seq(S), NEW k \in 1..Len(s)
    PROVE  RemoveAt(s, k) \in Seq(S) /\ Removed(RemoveAt(s, k), s, Len(s), k)
<1> DEFINE y == RemoveAt(s, k)
<1>1. /\ y \in Seq(S) /\ Len(y) = Len(s) - 1
      /\ \A j \in 1..(Len(s) - 1) : y[j] = IF j < k THEN s[j] ELSE s[j + 1]
  BY RemoveAtFacts
<1> HIDE DEF y
<1>2. y \in Seq(S) /\ Removed(y, s, Len(s), k)
  BY <1>1 DEF Removed
<1>3. QED
  BY <1>2 DEF y

\* The labels of a list with another tree in it,
LEMMA LabelsInsert ==
    ASSUME NEW S, NEW s \in Seq(S), NEW i \in 1..(Len(s) + 1), NEW h \in S
    PROVE  LabelsOfAll(InsertAt(s, i, h)) = T!InsertAt(LabelsOfAll(s), i, LabelsOf(h))
<1> DEFINE k == LabelsOfAll(s)
           R == {LabelsOf(x) : x \in S}
           a == LabelsOfAll(InsertAt(s, i, h))
           b == InsertAt(k, i, LabelsOf(h))
<1>1. k \in Seq(R) /\ Len(k) = Len(s) /\ \A j \in 1..Len(s) : k[j] = LabelsOf(s[j])
  BY DEF LabelsOfAll
<1>2. Len(s) \in Nat /\ LabelsOf(h) \in R
  OBVIOUS
<1> DEFINE y == InsertAt(s, i, h)
<1>3. /\ y \in Seq(S) /\ Len(y) = Len(s) + 1 /\ y[i] = h
      /\ \A j \in 1..(Len(s) + 1) : j < i => y[j] = s[j]
      /\ \A j \in 1..(Len(s) + 1) : j > i => y[j] = s[j - 1]
  BY InsertAtFacts
<1>4. a \in Seq(R) /\ Len(a) = Len(s) + 1 /\ \A j \in 1..(Len(s) + 1) : a[j] = LabelsOf(y[j])
  <2> HIDE DEF y
  <2>1. QED
    BY <1>3 DEF LabelsOfAll, y
<1> HIDE DEF k, R, a, y
<1>5. /\ b \in Seq(R) /\ Len(b) = Len(s) + 1 /\ b[i] = LabelsOf(h)
      /\ \A j \in 1..(Len(s) + 1) : j < i => b[j] = k[j]
      /\ \A j \in 1..(Len(s) + 1) : j > i => b[j] = k[j - 1]
  <2> DEFINE l == LabelsOf(h)
  <2>1. l \in R /\ i \in 1..(Len(k) + 1)
    BY <1>1, <1>2
  <2> HIDE DEF l, b
  <2>2. /\ InsertAt(k, i, l) \in Seq(R)
        /\ Len(InsertAt(k, i, l)) = Len(k) + 1
        /\ InsertAt(k, i, l)[i] = l
        /\ \A j \in 1..(Len(k) + 1) : j < i => InsertAt(k, i, l)[j] = k[j]
        /\ \A j \in 1..(Len(k) + 1) : j > i => InsertAt(k, i, l)[j] = k[j - 1]
    <3>1. InsertAt(k, i, l) \in Seq(R) /\ Inserted(InsertAt(k, i, l), k, Len(k), i, l)
      BY <1>1, <2>1, InsertIs
    <3>2. QED
      BY <3>1 DEF Inserted
  <2>3. QED
    BY <1>1, <2>2 DEF l, b
<1> HIDE DEF b
<1>6. ASSUME NEW j \in 1..(Len(s) + 1) PROVE a[j] = b[j]
  <2>1. CASE j < i
    <3>1. j \in 1..Len(s)
      BY <1>2, <2>1
    <3>2. QED
      BY <1>1, <1>3, <1>4, <1>5, <2>1, <3>1
  <2>2. CASE j = i
    BY <1>3, <1>4, <1>5, <2>2
  <2>3. CASE j > i
    <3>1. j - 1 \in 1..Len(s)
      BY <1>2, <2>3
    <3>2. QED
      BY <1>1, <1>3, <1>4, <1>5, <2>3, <3>1
  <2>4. QED
    BY <1>2, <2>1, <2>2, <2>3
<1>7. a = b
  BY <1>4, <1>5, <1>6, SeqEqual
<1>8. b = T!InsertAt(k, i, LabelsOf(h))
  BY DEF T!InsertAt, InsertAt, b
<1>9. QED
  BY <1>7, <1>8 DEF a, y, k

\* and with one less.
LEMMA LabelsRemove ==
    ASSUME NEW S, NEW s \in Seq(S), NEW i \in 1..Len(s)
    PROVE  LabelsOfAll(RemoveAt(s, i)) = T!RemoveAt(LabelsOfAll(s), i)
<1> DEFINE k == LabelsOfAll(s)
           R == {LabelsOf(x) : x \in S}
           a == LabelsOfAll(RemoveAt(s, i))
           b == RemoveAt(k, i)
<1>1. k \in Seq(R) /\ Len(k) = Len(s) /\ \A j \in 1..Len(s) : k[j] = LabelsOf(s[j])
  BY DEF LabelsOfAll
<1>2. Len(s) \in Nat /\ Len(s) - 1 \in Nat
  OBVIOUS
<1> DEFINE y == RemoveAt(s, i)
<1>3. /\ y \in Seq(S) /\ Len(y) = Len(s) - 1
      /\ \A j \in 1..(Len(s) - 1) : y[j] = IF j < i THEN s[j] ELSE s[j + 1]
  BY RemoveAtFacts
<1>4. a \in Seq(R) /\ Len(a) = Len(s) - 1 /\ \A j \in 1..(Len(s) - 1) : a[j] = LabelsOf(y[j])
  <2> HIDE DEF y
  <2>1. a = [j \in 1..(Len(s) - 1) |-> LabelsOf(y[j])]
    BY <1>2, <1>3 DEF LabelsOfAll, y
  <2>2. \A j \in 1..(Len(s) - 1) : y[j] \in S
    BY <1>3
  <2> HIDE DEF a
  <2>3. QED
    BY <1>2, <2>1, <2>2
<1> HIDE DEF k, R, a, y
<1>5. /\ b \in Seq(R) /\ Len(b) = Len(s) - 1
      /\ \A j \in 1..(Len(s) - 1) : b[j] = IF j < i THEN k[j] ELSE k[j + 1]
  <2>1. i \in 1..Len(k)
    BY <1>1
  <2>2. /\ RemoveAt(k, i) \in Seq(R)
        /\ Len(RemoveAt(k, i)) = Len(k) - 1
        /\ \A j \in 1..(Len(k) - 1) : RemoveAt(k, i)[j] = IF j < i THEN k[j] ELSE k[j + 1]
    BY <1>1, <2>1, RemoveAtFacts
  <2>3. QED
    BY <1>1, <2>2
<1> HIDE DEF b
<1>6. ASSUME NEW j \in 1..(Len(s) - 1) PROVE a[j] = b[j]
  <2>1. j \in 1..Len(s) /\ j + 1 \in 1..Len(s)
    BY <1>2
  <2>2. CASE j < i
    BY <1>1, <1>3, <1>4, <1>5, <2>1, <2>2
  <2>3. CASE ~(j < i)
    BY <1>1, <1>3, <1>4, <1>5, <2>1, <2>3
  <2>4. QED
    BY <2>2, <2>3
<1>7. a = b
  BY <1>4, <1>5, <1>6, SeqEqual
<1>8. b = T!RemoveAt(k, i)
  BY DEF T!RemoveAt, RemoveAt, b
<1>9. QED
  BY <1>7, <1>8 DEF a, y, k

\* The trees below the children of a node are the same when another cell takes
\* its place.
LEMMA KidsStay ==
    ASSUME NEW m, Memory(m), NEW G, Forest(m, G), Solid(m, G),
           NEW b \in DOMAIN m, NEW i \in DOMAIN m[b], NEW v \in DOMAIN G, NEW p \in DOMAIN G[v],
           Names(G, v, p, <<b, i>>), NEW c \in Cell, NEW j \in 1..G[v][p].n
    PROVE  Unfolds(Put(m, <<b, i>>, c), m[G[v][p].data][j], Kids(G[v], p)[j])
<1> DEFINE g == G[v]
           r == Append(p, j)
           s == T!Sub(g, r)
           m2 == Put(m, <<b, i>>, c)
<1>1. Unfolds(m, m[v][1], g) /\ p \in DOMAIN g /\ p \in Path /\ OnPaths(g)
  BY DEF Forest, Unfolds, OnPaths
<1>2. j \in Nat /\ j \in 1..g[p].n
  BY SolidCells DEF Solid
<1>3. \A q \in DOMAIN g : Backed(m, g[q])
  BY DEF Solid
<1>4. \A q \in DOMAIN g : Where(v, g, q) = <<b, i>> => q = p
  BY DEF Names
<1>5. Kids(g, p)[j] = s
  BY <1>2 DEF Kids
<1> HIDE DEF g
<1>6. r \in DOMAIN g /\ r \in Path /\ g[r] = m[g[p].data][j]
  <2>1. r \in DOMAIN g /\ g[r] = m[g[p].data][j]
    BY <1>1, <1>2 DEF Unfolds
  <2>2. QED
    BY <1>1, <2>1 DEF OnPaths
<1>7. r = p \o <<j>> /\ <<j>> \in Path
  BY <1>1, <1>2, PathConcat, PathTypes
<1> HIDE DEF r
<1>8. Unfolds(m, g[r], s)
  BY <1>1, <1>6, UnfoldsSub
<1>9. /\ DOMAIN s = {q \in Path : r \o q \in DOMAIN g}
      /\ \A q \in DOMAIN s : s[q] = g[r \o q]
  BY <1>1, <1>6, SubFacts
<1> HIDE DEF s
<1>10. ASSUME NEW q \in DOMAIN s, NEW k \in 1..s[q].n
       PROVE  m2[s[q].data][k] = m[s[q].data][k]
  <2> DEFINE x == r \o q
             z == Append(x, k)
  <2>1. q \in Path /\ x \in DOMAIN g /\ s[q] = g[x] /\ x \in Path
    BY <1>1, <1>9 DEF OnPaths
  <2>2. x = p \o (<<j>> \o q) /\ <<j>> \o q \in Path
    <3>1. <<j>> \o q \in Path
      BY <1>7, <2>1, PathTypes
    <3>2. p \o (<<j>> \o q) = (p \o <<j>>) \o q
      BY <1>1, <1>7, <2>1, PathConcat3
    <3>3. QED
      BY <1>7, <3>1, <3>2
  <2> HIDE DEF x
  <2>3. k \in Nat /\ s[q].data \in DOMAIN m /\ k \in DOMAIN m[s[q].data]
    BY <1>3, <2>1, SolidCells
  <2>4. z \in DOMAIN g
    BY <1>1, <2>1, <2>3 DEF Unfolds
  <2>5. Where(v, g, z) = <<s[q].data, k>>
    BY <2>1, <2>3, WhereChild
  <2>6. z # p
    <3>1. T!IsPrefix(p, p) /\ \A y \in Path, l \in Nat : ~T!IsPrefix(Append(p \o y, l), p)
      BY <1>1, PrefixSelf
    <3>2. ~T!IsPrefix(z, p)
      BY <2>2, <2>3, <3>1
    <3>3. QED
      BY <3>1, <3>2
  <2> HIDE DEF z
  <2>7. <<s[q].data, k>> # <<b, i>>
    BY <1>4, <2>4, <2>5, <2>6
  <2>8. QED
    BY <2>3, <2>7, PutFacts
<1> HIDE DEF m2
<1>11. Unfolds(m2, g[r], s)
  BY <1>8, <1>10, UnfoldsAgree
<1>12. QED
  BY <1>5, <1>6, <1>11 DEF m2, g, r

\* A list of trees, for the children of c.
UnfoldsAll(m, c, list) ==
    /\ DOMAIN list = 1..c.n
    /\ \A j \in 1..c.n : Unfolds(m, m[c.data][j], list[j])

\* The trees A, with another list of children at p.
Relisted(A, v, p, list) == [A EXCEPT ![v] = T!Graft(@, p, T!Listing(@[p], list))]

\* The storage with another cell at one place.
Changed(m2, m, b, i, c) ==
    /\ DOMAIN m2 = DOMAIN m
    /\ \A x \in DOMAIN m \ {b} : m2[x] = m[x]
    /\ DOMAIN m2[b] = DOMAIN m[b] /\ m2[b][i] = c
    /\ \A j \in DOMAIN m[b] \ {i} : m2[b][j] = m[b][j]

\* Put makes this storage.
LEMMA PutIs ==
    ASSUME NEW m, Memory(m), NEW b \in DOMAIN m, NEW i \in DOMAIN m[b], NEW c \in Cell
    PROVE  Changed(Put(m, <<b, i>>, c), m, b, i, c)
<1> DEFINE m2 == Put(m, <<b, i>>, c)
<1>1. /\ DOMAIN m2 = DOMAIN m
      /\ \A x \in DOMAIN m \ {b} : m2[x] = m[x]
      /\ DOMAIN m2[b] = DOMAIN m[b]
      /\ m2[b][i] = c
      /\ \A j \in DOMAIN m[b] \ {i} : m2[b][j] = m[b][j]
  BY PutFacts
<1> HIDE DEF m2
<1>2. Changed(m2, m, b, i, c)
  BY <1>1 DEF Changed
<1>3. QED
  BY <1>2 DEF m2

\* A node gets another list of children.
LEMMA RelistedForest ==
    ASSUME NEW m, Memory(m), NEW H, Forest(m, H), Solid(m, H),
           NEW b \in DOMAIN m, NEW i \in DOMAIN m[b], NEW v \in DOMAIN H, NEW p \in DOMAIN H[v],
           Names(H, v, p, <<b, i>>), NEW c \in Cell, c.label = H[v][p].label,
           NEW list, UnfoldsAll(Put(m, <<b, i>>, c), c, list)
    PROVE  \E K : /\ Forest(Put(m, <<b, i>>, c), K)
                  /\ Trees(K) = Relisted(Trees(H), v, p, LabelsOfAll(list))
<1> DEFINE h == T!Listing(c, list)
           K == Placed(H, v, p, h)
           m2 == Put(m, <<b, i>>, c)
           L == LabelsOfAll(list)
<1>1. Unfolds(m, m[v][1], H[v]) /\ OnPaths(H[v]) /\ p \in Path
  BY DEF Forest, Unfolds, OnPaths
<1>2. Unfolds(m2, c, h)
  <2>1. c.n \in Nat
    BY CellFacts
  <2> HIDE DEF m2
  <2>2. DOMAIN list = 1..c.n /\ \A j \in 1..c.n : Unfolds(m2, m2[c.data][j], list[j])
    BY DEF m2, UnfoldsAll
  <2>3. QED
    BY <2>1, <2>2, UnfoldsListing
<1>3. Forest(m2, K)
  <2> HIDE DEF h
  <2>1. QED
    BY <1>1, <1>2, PutForest
<1>4. LabelsOf(h) = T!Listing(c.label, L)
  <2>1. DOMAIN list \subseteq Nat
    BY CellFacts DEF UnfoldsAll
  <2>2. \A j \in DOMAIN list : OnPaths(list[j])
    BY DEF Unfolds, UnfoldsAll
  <2>3. QED
    BY <2>1, <2>2, LabelsListing
<1>5. OnPaths(h)
  BY <1>2 DEF Unfolds
<1> HIDE DEF h, m2, L
<1>6. Trees(K) = IF p \in DOMAIN Trees(H)[v]
                 THEN [Trees(H) EXCEPT ![v] = T!Graft(@, p, LabelsOf(h))]
                 ELSE Trees(H)
  BY <1>1, <1>5, TreesPlaced
<1>7. Trees(H)[v] = LabelsOf(H[v]) /\ p \in DOMAIN Trees(H)[v] /\ Trees(H)[v][p] = c.label /\ v \in DOMAIN Trees(H)
  BY <1>1, LabelsFacts DEF Trees
<1> HIDE DEF K
<1>8. Trees(K) = Relisted(Trees(H), v, p, L)
  <2> DEFINE A == Trees(H)
  <2>1. A[v][p] = c.label /\ v \in DOMAIN A
    BY <1>7
  <2>2. Trees(K) = [A EXCEPT ![v] = T!Graft(A[v], p, T!Listing(c.label, L))]
    BY <1>4, <1>6, <1>7
  <2> HIDE DEF A
  <2>3. Trees(K) = [A EXCEPT ![v] = T!Graft(A[v], p, T!Listing(A[v][p], L))]
    BY <2>1, <2>2
  <2>4. QED
    BY <2>3 DEF A, Relisted
<1>9. QED
  BY <1>3, <1>8 DEF L, m2

\* None of the nodes of h but its root is at the address a.
Avoids(h, a) == \A q \in DOMAIN h : \A j \in 1..h[q].n : <<h[q].data, j>> # a

\* The arrays of the nodes of h are there.
AllBacked(m, h) == \A q \in DOMAIN h : Backed(m, h[q])

\* The children of c.
Lined(m, c, old) == old \in Seq(Cell) /\ Len(old) = c.n /\ \A j \in 1..c.n : old[j] = m[c.data][j]

\* A tree h is inserted as the k-th child of a node, whose list moves to the
\* array b.
LEMMA InsertedForest ==
    ASSUME NEW w, Memory(w), NEW H, Forest(w, H), Solid(w, H),
           NEW t \in DOMAIN w, NEW i \in DOMAIN w[t], NEW v \in DOMAIN H, NEW p \in DOMAIN H[v],
           Names(H, v, p, <<t, i>>), NEW n \in Nat, H[v][p].n = n, n + 1 <= MaxKids,
           NEW h, NEW c \in Cell, Unfolds(w, c, h), AllBacked(w, h), Avoids(h, <<t, i>>),
           NEW b \in Block \ DOMAIN w, NEW old, Lined(w, H[v][p], old), NEW k \in 1..(n + 1)
    PROVE  \E K : /\ Forest(Put(With(w, b, InsertAt(old, k, c)), <<t, i>>,
                                Node(H[v][p].label, n + 1, b)), K)
                  /\ Trees(K) = Relisted(Trees(H), v, p,
                                    T!InsertAt(LabelsOfAll(Kids(H[v], p)), k, LabelsOf(h)))
<1> DEFINE g == H[v]
           grown == InsertAt(old, k, c)
           c2 == Node(g[p].label, n + 1, b)
           m1 == With(w, b, grown)
           m2 == Put(m1, <<t, i>>, c2)
           kids == Kids(g, p)
           S == {kids[j] : j \in 1..n} \cup {h}
           list == InsertAt(kids, k, h)
<1>0. /\ \A q \in DOMAIN h : Backed(w, h[q])
      /\ \A q \in DOMAIN h : \A j \in 1..h[q].n : <<h[q].data, j>> # <<t, i>>
      /\ old \in Seq(Cell) /\ Len(old) = n /\ \A j \in 1..n : old[j] = w[H[v][p].data][j]
  BY DEF AllBacked, Avoids, Lined
<1>1. Unfolds(w, w[v][1], g) /\ p \in DOMAIN g /\ g[p].n = n
  BY DEF Forest
<1>2. /\ DOMAIN kids = 1..n /\ Len(kids) = n
      /\ T!Children(T!Sub(LabelsOf(g), p)) = LabelsOfAll(kids)
  <2> HIDE DEF g
  <2>1. QED
    BY <1>1, KidsFacts
<1>3. kids \in Seq(S) /\ h \in S
  BY <1>1 DEF Kids
<1>4. grown \in Seq(Cell) /\ Inserted(grown, old, n, k, c)
  BY <1>0, InsertIs
<1>5. list \in Seq(S) /\ Inserted(list, kids, n, k, h)
  <2> HIDE DEF kids, S
  <2>1. QED
    BY <1>2, <1>3, InsertIs
<1>6. LabelsOfAll(list) = T!InsertAt(LabelsOfAll(kids), k, LabelsOf(h))
  <2> HIDE DEF kids, S
  <2>1. QED
    BY <1>2, <1>3, LabelsInsert
<1>7. /\ c2 \in Cell /\ c2.n = n + 1 /\ c2.data = b /\ c2.label = g[p].label
  <2>1. g[p].label \in Labels
    BY CellFacts DEF Solid, Backed
  <2>2. n + 1 \in 1..MaxKids
    BY BoundsAssumption
  <2>3. QED
    BY <2>1, <2>2, NewCells DEF Node
<1>8. /\ Memory(m1) /\ DOMAIN m1 = DOMAIN w \cup {b} /\ m1[b] = grown
      /\ \A x \in DOMAIN w : m1[x] = w[x]
  <2>1. b \in (Var \cup Block) \ DOMAIN w /\ b \notin Var
    BY StorageAssumption
  <2> HIDE DEF grown
  <2>2. Memory(m1) /\ DOMAIN m1 = DOMAIN w \cup {b}
    BY <1>4, <2>1, WithFacts
  <2>3. QED
    BY <2>1, <2>2, WithCells
<1>9. Forest(m1, H) /\ Solid(m1, H)
  BY NewBlockForest
<1> HIDE DEF grown, list, kids, S, c2, m1
<1>10. /\ t \in DOMAIN m1 /\ i \in DOMAIN m1[t] /\ t # b
  BY <1>8
<1>11. /\ m2[b] = grown
       /\ \A x \in DOMAIN m1 : \A j \in DOMAIN m1[x] : <<x, j>> # <<t, i>> => m2[x][j] = m1[x][j]
  <2>1. Changed(m2, m1, t, i, c2)
    BY <1>7, <1>8, <1>10, PutIs
  <2> HIDE DEF m2
  <2>2. QED
    BY <1>8, <1>10, <2>1 DEF Changed
<1>12. ASSUME NEW j \in 1..n PROVE Unfolds(m2, old[j], kids[j])
  <2>1. j \in 1..g[p].n
    BY <1>1
  <2>2. Unfolds(m2, m1[g[p].data][j], kids[j])
    BY <1>7, <1>8, <1>9, <1>10, <2>1, KidsStay DEF kids, g
  <2>3. g[p].data \in DOMAIN w
    BY <1>1, <2>1, SolidCells DEF Solid
  <2>4. QED
    BY <1>0, <1>8, <2>2, <2>3 DEF g
<1>13. Unfolds(m2, c, h)
  <2>1. ASSUME NEW q \in DOMAIN h, NEW j \in 1..h[q].n PROVE m2[h[q].data][j] = w[h[q].data][j]
    <3>1. h[q].data \in DOMAIN w /\ j \in DOMAIN w[h[q].data]
      BY <1>0, SolidCells
    <3>2. <<h[q].data, j>> # <<t, i>>
      BY <1>0
    <3>3. h[q].data \in DOMAIN m1 /\ m1[h[q].data] = w[h[q].data]
      BY <1>8, <3>1
    <3> HIDE DEF m2
    <3>4. QED
      BY <1>11, <3>1, <3>2, <3>3
  <2>2. QED
    BY <2>1, UnfoldsAgree
<1>14. ASSUME NEW j \in 1..c2.n PROVE Unfolds(m2, m2[c2.data][j], list[j])
  <2>1. m2[c2.data][j] = grown[j] /\ j \in 1..(n + 1)
    BY <1>7, <1>11
  <2> USE DEF Inserted
  <2>2. CASE j = k
    BY <1>4, <1>5, <1>13, <2>1, <2>2
  <2>3. CASE j < k
    <3>1. j \in 1..n
      BY <2>1, <2>3
    <3>2. QED
      BY <1>4, <1>5, <1>12, <2>1, <2>3, <3>1
  <2>4. CASE j > k
    <3>1. j - 1 \in 1..n
      BY <2>1, <2>4
    <3>2. QED
      BY <1>4, <1>5, <1>12, <2>1, <2>4, <3>1
  <2>5. QED
    BY <2>1, <2>2, <2>3, <2>4
<1>15. UnfoldsAll(m2, c2, list)
  BY <1>5, <1>7, <1>14 DEF UnfoldsAll, Inserted
<1>16. \E K : Forest(m2, K) /\ Trees(K) = Relisted(Trees(H), v, p, LabelsOfAll(list))
  <2>1. c2 \in Cell /\ c2.label = H[v][p].label
    BY <1>7
  <2>2. QED
    BY <1>8, <1>9, <1>10, <1>15, <2>1, RelistedForest
<1>17. QED
  BY <1>6, <1>16 DEF grown, c2, m1, kids

\* What a step of insert finds: unless its argument is moved from the very node
\* whose list it goes into, that node is as it was.
LEMMA InsertFinds ==
    ASSUME Memory(mem), Owned(mem, {}), NEW x \in Named, NEW e \in Expr,
           NEW t \in DOMAIN mem, NEW i \in DOMAIN mem[t], x.cell = <<t, i>>,
           NEW old, old = Siblings(After(e), At(mem, x.cell)),
           ~(e.how = "move" /\ e.from.cell = x.cell /\ Len(old) + 1 > 1)
    PROVE  /\ mem[t][i] \in Cell /\ mem[t][i].n \in Nat
           /\ After(e)[t][i] = mem[t][i]
           /\ old \in Seq(Cell) /\ Len(old) = mem[t][i].n
           /\ \A j \in 1..mem[t][i].n : old[j] = After(e)[mem[t][i].data][j]
           /\ mem[t][i].n > 0 => mem[t][i].data \in DOMAIN mem
           /\ mem[t][i].n = 0 => mem[t][i].data = NoBlock
<1> DEFINE c == mem[t][i]
           w == After(e)
<1>1. c \in Cell /\ c.n \in Nat /\ (c.n = 0 => c.data = NoBlock)
  BY MemoryCells, CellFacts
<1>2. At(mem, x.cell) = c
  BY DEF At
<1>3. /\ Memory(w) /\ DOMAIN mem \subseteq DOMAIN w
      /\ \A b \in DOMAIN mem : DOMAIN w[b] = DOMAIN mem[b]
      /\ w[t][i] = c \/ (e.how = "move" /\ e.from.cell = <<t, i>>)
  BY ArgumentFacts
<1>4. c.n > 0 => c.data \in DOMAIN mem /\ Len(mem[c.data]) = c.n
  BY OneOwner
<1>5. old = Siblings(w, c)
  BY <1>2
<1>6. (e.how = "move" /\ e.from.cell = <<t, i>>) => w = Emptied(mem, <<t, i>>)
  BY DEF After
<1>7. Emptied(mem, <<t, i>>)[t][i] = Leaf(c.label)
  BY EmptiedFacts
<1> HIDE DEF w, c
<1>8. /\ old \in Seq(Cell) /\ Len(old) = c.n
      /\ \A j \in 1..c.n : old[j] = w[c.data][j]
  <2>1. CASE c.n = 0
    <3>1. old = <<>>
      BY <1>5, <2>1 DEF Siblings
    <3>2. 1..c.n = {}
      BY <2>1
    <3>3. QED
      BY <2>1, <3>1, <3>2
  <2>2. CASE c.n # 0
    <3>1. c.n > 0 /\ old = w[c.data]
      BY <1>1, <1>5, <2>2 DEF Siblings
    <3>2. /\ c.data \in DOMAIN w /\ DOMAIN w[c.data] = DOMAIN mem[c.data]
          /\ w[c.data] \in Seq(Cell) /\ mem[c.data] \in Seq(Cell)
      BY <1>3, <1>4, <3>1 DEF Memory
    <3>3. Len(w[c.data]) = Len(mem[c.data])
      BY <3>2
    <3>4. QED
      BY <1>4, <3>1, <3>2, <3>3
  <2>3. QED
    BY <2>1, <2>2
<1>9. w[t][i] = c
  <2>1. CASE e.how = "move" /\ e.from.cell = <<t, i>>
    <3>1. c.n = 0
      BY <1>1, <1>8, <2>1
    <3>2. c = Leaf(c.label)
      BY <1>1, <3>1, BoundsAssumption DEF Cell, Leaf
    <3>3. QED
      BY <1>6, <1>7, <2>1, <3>2
  <2>2. QED
    BY <1>3, <2>1
<1>10. QED
  BY <1>1, <1>4, <1>8, <1>9 DEF w, c

\* Insert makes its argument a child, or meets undefined behaviour.
LEMMA InsertForest ==
    ASSUME IInv, calls = <<>>, NEW G, Forest(mem, G), IInv',
           NEW x \in Valued, NEW e \in Expr, NEW b \in Free, NEW at \in 0..At(mem, x.cell).n,
           b # Value(e).data, Insert(x, at, e, b)
    PROVE  (\E K : Forest(mem', K)) /\ (T!Do(call') \/ TreesNow' = TreesNow)
<1>1. Memory(mem) /\ Owned(mem, {})
  BY NoCalls DEF IInv, TypeOK, Building
<1>2. CASE mem' = mem
  BY <1>2, StutterForest
<1>3. CASE mem' # mem
  <2> DEFINE w == After(e)
             c0 == At(mem, x.cell)
             old == Siblings(w, c0)
             n == c0.n
             k == at + 1
             d == c0.data
             to == NameOf(x)
             a == Told(e)
             c == Value(e)
             v == x.var
             p == x.path
             grown == InsertAt(old, k, c)
  <2>1. /\ ~(e.how = "move" /\ e.from.cell = x.cell /\ Len(old) + 1 > 1)
        /\ Len(old) + 1 <= MaxKids
        /\ mem' = Put(With(Without(w, {d}), b, grown), x.cell, Node(c0.label, Len(old) + 1, b))
        /\ call' = [op |-> "insert", to |-> to, i |-> k, arg |-> a]
    BY <1>3 DEF Insert, Calls
  <2>2. x \in Named
    BY DEF Valued
  <2>3. PICK H, h : Evaluated(e, G, H, h)
    BY <1>1, ArgumentForest
  <2>4. /\ v \in DOMAIN H /\ p \in Path
        /\ Names(H, v, p, x.cell)
        /\ \E t \in DOMAIN mem : \E i \in DOMAIN mem[t] :
              x.cell = <<t, i>> /\ t \in DOMAIN w /\ i \in DOMAIN w[t]
    BY <1>1, <2>2, <2>3, EvaluatedName
  <2>5. PICK t \in DOMAIN mem : \E i \in DOMAIN mem[t] :
              x.cell = <<t, i>> /\ t \in DOMAIN w /\ i \in DOMAIN w[t]
    BY <2>4
  <2>6. PICK i \in DOMAIN mem[t] : x.cell = <<t, i>> /\ t \in DOMAIN w /\ i \in DOMAIN w[t]
    BY <2>5
  <2>7. c0 = mem[t][i]
    BY <2>6 DEF At
  <2>8. /\ c0 \in Cell /\ n \in Nat /\ w[t][i] = c0
        /\ old \in Seq(Cell) /\ Len(old) = n
        /\ \A j \in 1..n : old[j] = w[d][j]
        /\ n > 0 => d \in DOMAIN mem
        /\ n = 0 => d = NoBlock
    <3> HIDE DEF old
    <3>1. old = Siblings(After(e), At(mem, x.cell))
      BY DEF old
    <3>2. QED
      BY <1>1, <2>1, <2>2, <2>6, <2>7, <3>1, InsertFinds
  <2>9. /\ Memory(w) /\ c \in Cell /\ Owned(w, Owning(c))
        /\ DOMAIN w \subseteq DOMAIN mem \cup Owning(c)
    BY <1>1, ArgumentFacts
  <2>10. b \in Block \ DOMAIN w /\ b # d
    <3>1. b \in Block /\ b \notin DOMAIN mem /\ b \notin Owning(c)
      BY DEF Free, Owning
    <3>2. b # d
      BY <2>8, <3>1, StorageAssumption
    <3>3. QED
      BY <2>9, <3>1, <3>2
  <2>11. /\ Forest(w, H) /\ Solid(w, H) /\ Unfolds(w, c, h)
         /\ \A q \in DOMAIN h : Backed(w, h[q])
         /\ \A u \in DOMAIN H : \A r \in DOMAIN H[u] :
               \A q \in DOMAIN h : \A j \in 1..h[q].n : <<h[q].data, j>> # Where(u, H[u], r)
         /\ Trees(H) = T!AfterArgument(a) /\ LabelsOf(h) = T!Argument(a)
    BY <2>3 DEF Evaluated
  <2>12. at \in 0..n /\ k \in 1..(n + 1) /\ n + 1 <= MaxKids
    BY <2>1, <2>8
  <2> DEFINE c2 == Node(c0.label, n + 1, b)
             m2 == Put(With(w, b, grown), <<t, i>>, c2)
             list == Kids(H[v], p)
             A == Trees(H)
             V == LabelsOf(h)
             l2 == T!InsertAt(LabelsOfAll(list), k, V)
  <2>13. mem' = Put(With(Without(w, {d}), b, grown), <<t, i>>, c2)
    BY <2>1, <2>6, <2>8
  <2>14. to.var = v /\ to.path = p
    BY DEF NameOf
  <2>15. v \in DOMAIN A /\ A[v] = LabelsOf(H[v]) /\ DOMAIN A[v] = DOMAIN H[v]
    <3>1. OnPaths(H[v])
      BY <2>4, <2>11 DEF Forest, Unfolds
    <3>2. DOMAIN LabelsOf(H[v]) = DOMAIN H[v]
      BY <3>1, LabelsFacts
    <3>3. QED
      BY <2>4, <3>2 DEF Trees
  <2> HIDE DEF w, c0, old, n, k, d, to, a, c, v, p
  <2>16. ASSUME NEW K, Forest(m2, K) PROVE Forest(mem', K)
    <3>1. DOMAIN mem' = DOMAIN m2 \ {d} /\ \A z \in DOMAIN mem' : mem'[z] = m2[z]
      BY <2>10, <2>13 DEF Put, With, Without
    <3>2. DOMAIN m2 = DOMAIN w \cup {b}
      BY DEF Put, With
    <3> HIDE DEF m2
    <3>3. Memory(mem') /\ Owned(mem', {})
      <4>1. calls' = <<>>
        BY DEF Insert
      <4>2. Building(mem', <<>>) /\ Memory(mem')
        BY <4>1 DEF IInv, TypeOK
      <4>3. QED
        BY <4>2, NoCalls
    <3>4. d \notin Var
      BY <2>8, StorageAssumption, CellFacts DEF n, d
    <3>5. DOMAIN K = Var \cap DOMAIN mem'
      BY <2>16, <3>1, <3>4 DEF Forest
    <3>6. QED
      BY <2>16, <3>1, <3>3, <3>5, FreedForest
  <2>17. CASE p \in DOMAIN H[v]
    <3>1. H[v][p] = c0
      <4>1. \E y \in DOMAIN w : \E j \in DOMAIN w[y] : Where(v, H[v], p) = <<y, j>> /\ w[y][j] = H[v][p]
        BY <2>4, <2>9, <2>11, <2>17, ForestCells
      <4>2. Where(v, H[v], p) = <<t, i>>
        BY <2>4, <2>6, <2>17 DEF Names
      <4>3. QED
        BY <2>8, <4>1, <4>2
    <3>2. Avoids(h, <<t, i>>)
      BY <2>4, <2>6, <2>11, <2>17 DEF Names, Avoids
    <3>3. \E K : Forest(m2, K) /\ Trees(K) = Relisted(A, v, p, l2)
      <4>1. /\ Names(H, v, p, <<t, i>>) /\ H[v][p].n = n
            /\ Lined(w, H[v][p], old)
            /\ c2 = Node(H[v][p].label, n + 1, b)
        BY <2>4, <2>6, <2>8, <3>1 DEF n, d, Lined
      <4>2. /\ Memory(w) /\ Forest(w, H) /\ Solid(w, H)
            /\ t \in DOMAIN w /\ i \in DOMAIN w[t] /\ v \in DOMAIN H /\ p \in DOMAIN H[v]
            /\ n \in Nat /\ n + 1 <= MaxKids /\ c \in Cell /\ Unfolds(w, c, h)
            /\ b \in Block \ DOMAIN w /\ k \in 1..(n + 1)
        BY <2>4, <2>6, <2>8, <2>9, <2>10, <2>11, <2>12, <2>17
      <4>3. AllBacked(w, h)
        BY <2>11 DEF AllBacked
      <4>4. \E K : /\ Forest(Put(With(w, b, InsertAt(old, k, c)), <<t, i>>, Node(H[v][p].label, n + 1, b)), K)
                   /\ Trees(K) = Relisted(Trees(H), v, p, T!InsertAt(LabelsOfAll(Kids(H[v], p)), k, LabelsOf(h)))
        BY <3>2, <4>1, <4>2, <4>3, InsertedForest
      <4>5. QED
        BY <4>1, <4>4
    <3>4. PICK K : Forest(m2, K) /\ Trees(K) = Relisted(A, v, p, l2)
      BY <3>3
    <3>5. Forest(mem', K)
      BY <2>16, <3>4
    <3>6. TreesNow' = Relisted(A, v, p, l2)
      BY <3>4, <3>5, TreesThen
    <3> DEFINE L == LabelsOfAll(list)
    <3>7. L = T!Children(T!Sub(A[v], p)) /\ Len(L) = n
      <4>1. Unfolds(w, w[v][1], H[v]) /\ H[v][p].n = n
        BY <2>4, <2>11, <3>1 DEF Forest, n
      <4>2. T!Children(T!Sub(LabelsOf(H[v]), p)) = L /\ DOMAIN list = 1..n
        BY <2>8, <2>17, <4>1, KidsFacts
      <4>3. Len(L) = n
        BY <2>8, <4>2 DEF LabelsOfAll
      <4>4. QED
        BY <2>15, <4>2, <4>3
    <3> HIDE DEF A, V, L, list
    <3>8. T!InsertChild(to, k, a)
      <4>1. k <= Len(L) + 1
        BY <2>8, <2>12, <3>7
      <4>2. TreesNow' = [A EXCEPT ![v] = T!Graft(@, p, T!Listing(@[p], T!InsertAt(L, k, V)))]
        BY <3>6 DEF Relisted, L
      <4>3. TreesNow' = IF to.path \in DOMAIN A[to.var]
                        THEN [A EXCEPT ![to.var] =
                                T!Graft(@, to.path, T!Listing(@[to.path], T!InsertAt(L, k, V)))]
                        ELSE A
        BY <2>14, <2>15, <2>17, <4>2
      <4>4. A = T!AfterArgument(a) /\ V = T!Argument(a) /\ L = T!Children(T!Sub(A[to.var], to.path))
        BY <2>11, <2>14, <3>7 DEF A, V
      <4>5. QED
        BY <4>1, <4>3, <4>4, InsertDone
    <3>9. QED
      BY <2>1, <3>5, <3>8 DEF T!Do
  <2>18. CASE p \notin DOMAIN H[v]
    <3>1. Forest(m2, H)
      <4> DEFINE m1 == With(w, b, grown)
      <4>1. Forest(m1, H) /\ Solid(m1, H)
        BY <2>9, <2>10, <2>11, NewBlockForest
      <4>2. grown \in Seq(Cell)
        BY <2>8, <2>9, <2>12, InsertIs
      <4>3. Memory(m1) /\ DOMAIN m1 = DOMAIN w \cup {b} /\ m1[t] = w[t]
        <5>1. b \in (Var \cup Block) \ DOMAIN w /\ b \notin Var
          BY <2>10, StorageAssumption
        <5> HIDE DEF grown
        <5>2. Memory(m1) /\ DOMAIN m1 = DOMAIN w \cup {b}
          BY <2>9, <4>2, <5>1, WithFacts
        <5>3. m1[t] = w[t]
          BY <2>6, <2>10, WithCells
        <5>4. QED
          BY <5>2, <5>3
      <4>4. c2 \in Cell
        <5>1. c0.label \in Labels /\ n + 1 \in 1..MaxKids
          BY <2>8, <2>12, CellFacts, BoundsAssumption
        <5>2. QED
          BY <2>10, <5>1, NewCells
      <4> HIDE DEF m1, c2
      <4>5. \A u \in DOMAIN H : \A q \in DOMAIN H[u] : Where(u, H[u], q) # <<t, i>>
        BY <2>4, <2>6, <2>18 DEF Names
      <4>6. t \in DOMAIN m1 /\ i \in DOMAIN m1[t]
        BY <2>6, <4>3
      <4>7. Forest(Put(m1, <<t, i>>, c2), H)
        BY <4>1, <4>3, <4>4, <4>5, <4>6, PutElsewhere
      <4>8. QED
        BY <4>7 DEF m1
    <3>2. Forest(mem', H)
      BY <2>16, <3>1
    <3>3. TreesNow' = A
      BY <3>2, TreesThen
    <3>4. T!InsertChild(to, k, a)
      <4> DEFINE L == T!Children(T!Sub(A[to.var], to.path))
      <4>1. to.path \notin DOMAIN A[to.var]
        BY <2>14, <2>15, <2>18
      <4>2. A = T!AfterArgument(a) /\ V = T!Argument(a)
        BY <2>11
      <4> HIDE DEF A, V
      <4>3. L = T!Children(T!Sub(A[to.var], to.path))
        OBVIOUS
      <4> HIDE DEF L
      <4>4. TreesNow' = IF to.path \in DOMAIN A[to.var]
                        THEN [A EXCEPT ![to.var] =
                                T!Graft(@, to.path, T!Listing(@[to.path], T!InsertAt(L, k, V)))]
                        ELSE A
        BY <3>3, <4>1 DEF A
      <4>5. QED
        BY <4>1, <4>2, <4>3, <4>4, InsertDone
    <3>5. QED
      BY <2>1, <3>2, <3>4 DEF T!Do
  <2>19. QED
    BY <2>17, <2>18
<1>4. QED
  BY <1>2, <1>3

\* The children of c2 are those of c, but for the k-th.
Shortened(m2, c2, m, c, k) ==
    \A j \in 1..c2.n : m2[c2.data][j] = m[c.data][IF j < k THEN j ELSE j + 1]

\* A node loses its k-th child.
LEMMA ErasedForest ==
    ASSUME NEW m, Memory(m), NEW H, Forest(m, H), Solid(m, H),
           NEW t \in DOMAIN m, NEW i \in DOMAIN m[t], NEW v \in DOMAIN H, NEW p \in DOMAIN H[v],
           Names(H, v, p, <<t, i>>), NEW n \in Nat, H[v][p].n = n, NEW k \in 1..n,
           NEW c \in Cell, c.label = H[v][p].label, c.n = n - 1,
           Shortened(Put(m, <<t, i>>, c), c, m, H[v][p], k)
    PROVE  \E K : /\ Forest(Put(m, <<t, i>>, c), K)
                  /\ Trees(K) = Relisted(Trees(H), v, p, T!RemoveAt(LabelsOfAll(Kids(H[v], p)), k))
<1> DEFINE m2 == Put(m, <<t, i>>, c)
           kids == Kids(H[v], p)
           S == {kids[j] : j \in 1..n}
           list == RemoveAt(kids, k)
<1>1. Unfolds(m, m[v][1], H[v])
  BY DEF Forest
<1>2. DOMAIN kids = 1..n /\ Len(kids) = n /\ kids \in Seq(S)
  <2>1. DOMAIN kids = 1..n /\ Len(kids) = n
    BY <1>1, KidsFacts
  <2>2. QED
    BY <2>1 DEF Kids
<1>3. ASSUME NEW j \in 1..n PROVE Unfolds(m2, m[H[v][p].data][j], kids[j])
  BY KidsStay
<1> HIDE DEF kids, S, m2
<1>4. Removed(list, kids, n, k) /\ LabelsOfAll(list) = T!RemoveAt(LabelsOfAll(kids), k)
  <2>1. RemoveAt(kids, k) \in Seq(S) /\ Removed(RemoveAt(kids, k), kids, n, k)
    BY <1>2, RemoveIs
  <2>2. QED
    BY <1>2, <2>1, LabelsRemove
<1> HIDE DEF list
<1>5. ASSUME NEW j \in 1..c.n PROVE Unfolds(m2, m2[c.data][j], list[j])
  <2> DEFINE z == IF j < k THEN j ELSE j + 1
  <2>1. z \in 1..n /\ j \in 1..(n - 1)
    OBVIOUS
  <2>2. list[j] = kids[z]
    BY <1>4, <2>1 DEF Removed
  <2>3. m2[c.data][j] = m[H[v][p].data][z]
    BY DEF Shortened, m2
  <2> HIDE DEF z
  <2>4. QED
    BY <1>3, <2>1, <2>2, <2>3
<1>6. UnfoldsAll(m2, c, list)
  BY <1>4, <1>5 DEF UnfoldsAll, Removed
<1>7. \E K : Forest(m2, K) /\ Trees(K) = Relisted(Trees(H), v, p, LabelsOfAll(list))
  BY <1>6, RelistedForest DEF m2
<1>8. QED
  BY <1>4, <1>7 DEF m2, kids

\* A node that the client names, and its place.
LEMMA NamedPlace ==
    ASSUME Memory(mem), Owned(mem, {}), NEW G, Forest(mem, G), NEW x \in Named
    PROVE  /\ x.var \in DOMAIN G /\ x.path \in DOMAIN G[x.var] /\ x.path \in Path
           /\ Names(G, x.var, x.path, x.cell)
           /\ \E b \in DOMAIN mem : \E i \in DOMAIN mem[b] :
                 x.cell = <<b, i>> /\ mem[b][i] = G[x.var][x.path]
<1>1. x.var \in DOMAIN G /\ x.path \in DOMAIN G[x.var] /\ x.cell = Where(x.var, G[x.var], x.path)
  BY NamedIsForest
<1>2. x.path \in Path
  BY <1>1 DEF Forest, Unfolds, OnPaths
<1>3. Names(G, x.var, x.path, x.cell)
  BY <1>1, NamesHere
<1>4. QED
  BY <1>1, <1>2, <1>3, ForestCells

\* Blocks are freed, but none that the forest is in.
Kept(w, loose, m, K) ==
    /\ Memory(w) /\ Owned(w, loose) /\ DOMAIN w \subseteq DOMAIN m
    /\ \A z \in DOMAIN w : w[z] = m[z]
    /\ DOMAIN K = Var \cap DOMAIN w

\* The forest stays.
LEMMA KeptForest ==
    ASSUME NEW m, NEW K, Forest(m, K), NEW w, NEW loose, Kept(w, loose, m, K)
    PROVE  Forest(w, K)
BY FreedForest DEF Kept

\* Erase erases a child.
LEMMA EraseForest ==
    ASSUME IInv, calls = <<>>, NEW G, Forest(mem, G), IInv',
           NEW x \in Valued, NEW b \in Free, NEW k \in 1..At(mem, x.cell).n, Erase(x, k, b)
    PROVE  (\E K : Forest(mem', K)) /\ T!Do(call')
<1>1. Memory(mem) /\ Owned(mem, {}) /\ Solid(mem, G)
  <2>1. Memory(mem) /\ Owned(mem, {})
    BY NoCalls DEF IInv, TypeOK, Building
  <2>2. QED
    BY <2>1, SolidForest
<1>2. Memory(mem') /\ Owned(mem', {})
  <2>1. calls' = <<>>
    BY DEF Erase
  <2>2. Building(mem', <<>>) /\ Memory(mem')
    BY <2>1 DEF IInv, TypeOK
  <2>3. QED
    BY <2>2, NoCalls
<1> DEFINE v == x.var
           p == x.path
           to == NameOf(x)
           c0 == At(mem, x.cell)
           d == c0.data
           n == c0.n
           old == Siblings(mem, c0)
           U == Under(mem, old[k])
           c == IF n - 1 = 0 THEN Leaf(c0.label) ELSE Node(c0.label, n - 1, b)
           m1 == IF n - 1 = 0 THEN mem ELSE With(mem, b, Shrunk(old, k))
<1>3. /\ v \in DOMAIN G /\ p \in DOMAIN G[v] /\ p \in Path
      /\ Names(G, v, p, x.cell)
      /\ \E t \in DOMAIN mem : \E i \in DOMAIN mem[t] :
                 x.cell = <<t, i>> /\ mem[t][i] = G[v][p]
  <2>1. x \in Named
    BY DEF Valued
  <2>2. QED
    BY <1>1, <2>1, NamedPlace
<1>4. PICK t \in DOMAIN mem : \E i \in DOMAIN mem[t] : x.cell = <<t, i>> /\ mem[t][i] = G[v][p]
  BY <1>3
<1>5. PICK i \in DOMAIN mem[t] : x.cell = <<t, i>> /\ mem[t][i] = G[v][p]
  BY <1>4
<1>6. c0 = mem[t][i] /\ c0 = G[v][p] /\ c0 \in Cell /\ n \in Nat /\ n > 0 /\ n <= MaxKids /\ c0.label \in Labels
  <2>1. c0 = mem[t][i] /\ c0 = G[v][p]
    BY <1>5 DEF At
  <2>2. c0 \in Cell
    <3>1. mem[t][i] \in Cell
      BY <1>1, MemoryCells
    <3> HIDE DEF c0
    <3>2. QED
      BY <2>1, <3>1
  <2>3. n \in Nat /\ n <= MaxKids /\ c0.label \in Labels
    BY <2>2, CellFacts, BoundsAssumption
  <2>4. k \in 1..n
    OBVIOUS
  <2>5. QED
    BY <2>1, <2>2, <2>3, <2>4
<1>7. /\ d \in DOMAIN mem /\ d \in Block /\ old = mem[d] /\ old \in Seq(Cell) /\ Len(old) = n
  <2>1. d \in DOMAIN mem /\ Len(mem[d]) = n
    <3> HIDE DEF c0
    <3>1. mem[t][i].n > 0
      BY <1>6
    <3>2. mem[t][i].data \in DOMAIN mem /\ Len(mem[mem[t][i].data]) = mem[t][i].n
      BY <1>1, <3>1, OneOwner
    <3>3. QED
      BY <1>6, <3>2
  <2>2. d \in Block
    BY <1>6, CellFacts
  <2>3. old = mem[d]
    BY <1>6 DEF Siblings
  <2>4. QED
    BY <1>1, <2>1, <2>2, <2>3 DEF Memory
<1>8. k \in 1..n /\ old[k] \in Cell
  <2>1. k \in 1..n
    OBVIOUS
  <2> HIDE DEF old, n
  <2>2. QED
    BY <1>7, <2>1
<1>9. U \subseteq Block
  BY <1>1, <1>8, UnderFacts
<1>10. b \in Block \ DOMAIN mem
  BY DEF Free
<1>11. /\ mem' = IF n - 1 = 0
                 THEN Put(Without(Without(mem, U), {d}), <<t, i>>, Leaf(c0.label))
                 ELSE Put(With(Without(Without(mem, U), {d}), b, Shrunk(old, k)), <<t, i>>,
                          Node(c0.label, n - 1, b))
       /\ call' = [op |-> "erase", to |-> to, i |-> k, arg |-> NoArg]
  BY <1>5 DEF Erase, Calls, Died
<1> HIDE DEF v, p, to, c0, d, n, old, U
<1>12. c \in Cell /\ c.label = c0.label /\ c.n = n - 1 /\ (n - 1 # 0 => c.data = b)
  <2>1. CASE n - 1 = 0
    BY <1>6, <2>1, NewCells DEF Leaf
  <2>2. CASE n - 1 # 0
    <3>1. n - 1 \in 1..MaxKids
      BY <1>6, <2>2, BoundsAssumption
    <3>2. QED
      BY <1>6, <1>10, <2>2, <3>1, NewCells DEF Node
  <2>3. QED
    BY <2>1, <2>2
<1> DEFINE s == Shrunk(old, k)
<1>13. s \in Seq(Cell) /\ Removed(s, old, n, k)
  BY <1>7, <1>8, RemoveIs DEF Shrunk
<1> HIDE DEF s
<1>14. /\ Memory(m1) /\ Forest(m1, G) /\ Solid(m1, G)
       /\ DOMAIN mem \subseteq DOMAIN m1 /\ DOMAIN m1 \subseteq DOMAIN mem \cup {b}
       /\ \A z \in DOMAIN mem : m1[z] = mem[z]
       /\ n - 1 # 0 => m1[b] = s
  <2>1. CASE n - 1 = 0
    BY <1>1, <2>1
  <2>2. CASE n - 1 # 0
    <3>1. m1 = With(mem, b, s)
      BY <2>2 DEF s
    <3>2. b \in (Var \cup Block) \ DOMAIN mem /\ b \notin Var
      BY <1>10, StorageAssumption
    <3> DEFINE w == With(mem, b, s)
    <3>3. Memory(w) /\ DOMAIN w = DOMAIN mem \cup {b} /\ w[b] = s /\ \A z \in DOMAIN mem \ {b} : w[z] = mem[z]
      <4>1. Memory(w) /\ DOMAIN w = DOMAIN mem \cup {b}
        BY <1>1, <1>13, <3>2, WithFacts
      <4>2. QED
        BY <4>1, WithCells
    <3>4. Forest(w, G) /\ Solid(w, G)
      BY <1>1, <1>10, NewBlockForest
    <3> HIDE DEF w
    <3>5. QED
      BY <1>10, <3>1, <3>3, <3>4 DEF w
  <2>3. QED
    BY <2>1, <2>2
<1> DEFINE m2 == Put(m1, <<t, i>>, c)
<1>15. /\ DOMAIN mem' \subseteq DOMAIN m2 /\ \A z \in DOMAIN mem' : mem'[z] = m2[z]
       /\ DOMAIN m2 \ (U \cup {d, b}) \subseteq DOMAIN mem'
       /\ DOMAIN m2 = DOMAIN m1
  <2>1. CASE n - 1 = 0
    BY <1>11, <2>1 DEF Put, Without
  <2>2. CASE n - 1 # 0
    <3>1. t # b
      BY <1>10
    <3>2. /\ mem' = Put(With(Without(Without(mem, U), {d}), b, s), <<t, i>>, c)
          /\ m2 = Put(With(mem, b, s), <<t, i>>, c)
      BY <1>11, <2>2 DEF s
    <3> HIDE DEF m2, c, m1
    <3> DEFINE A == With(Without(Without(mem, U), {d}), b, s)
               B == With(mem, b, s)
    <3>3. /\ DOMAIN A \subseteq DOMAIN B /\ \A z \in DOMAIN A : A[z] = B[z]
          /\ DOMAIN B \ (U \cup {d, b}) \subseteq DOMAIN A
      BY DEF With, Without
    <3>4. mem' = Put(A, <<t, i>>, c) /\ m2 = Put(B, <<t, i>>, c) /\ DOMAIN B = DOMAIN m1
      BY <2>2, <3>2 DEF m1, s
    <3> HIDE DEF A, B
    <3>5. QED
      BY <3>3, <3>4 DEF Put
  <2>3. QED
    BY <2>1, <2>2
<1> HIDE DEF c, m1
<1>16. t \in DOMAIN m1 /\ i \in DOMAIN m1[t]
  BY <1>14
<1>17. Shortened(m2, c, m1, G[v][p], k)
  <2> SUFFICES ASSUME NEW j \in 1..c.n
               PROVE  m2[c.data][j] = m1[G[v][p].data][IF j < k THEN j ELSE j + 1]
    BY DEF Shortened
  <2>1. n - 1 # 0 /\ j \in 1..(n - 1) /\ c.data = b
    BY <1>6, <1>12
  <2>2. t # b
    BY <1>10
  <2>3. Changed(m2, m1, t, i, c)
    BY <1>12, <1>14, <1>16, PutIs
  <2>4. b \in DOMAIN m1
    BY <2>1 DEF m1, With
  <2> HIDE DEF m2
  <2>5. m2[b] = s
    BY <1>14, <2>1, <2>2, <2>3, <2>4 DEF Changed
  <2>6. s[j] = IF j < k THEN old[j] ELSE old[j + 1]
    BY <1>13, <2>1 DEF Removed
  <2>7. m1[G[v][p].data] = old
    BY <1>6, <1>7, <1>14 DEF d
  <2>8. QED
    BY <2>1, <2>5, <2>6, <2>7
<1> DEFINE A == Trees(G)
           L == LabelsOfAll(Kids(G[v], p))
<1>18. \E K : Forest(m2, K) /\ Trees(K) = Relisted(A, v, p, T!RemoveAt(L, k))
  <2>1. Names(G, v, p, <<t, i>>) /\ G[v][p].n = n /\ c.label = G[v][p].label
    BY <1>3, <1>5, <1>6, <1>12 DEF n
  <2>2. QED
    BY <1>3, <1>6, <1>8, <1>12, <1>14, <1>16, <1>17, <2>1, ErasedForest
<1>19. PICK K : Forest(m2, K) /\ Trees(K) = Relisted(A, v, p, T!RemoveAt(L, k))
  BY <1>18
<1> HIDE DEF m2, A, L
<1>20. Forest(mem', K)
  <2>1. DOMAIN K = Var \cap DOMAIN mem'
    <3>1. DOMAIN K = Var \cap DOMAIN m2
      BY <1>19 DEF Forest
    <3>2. d \notin Var /\ b \notin Var /\ U \cap Var = {}
      BY <1>7, <1>9, <1>10, StorageAssumption
    <3>3. QED
      BY <1>15, <3>1, <3>2
  <2> DEFINE w == mem'
  <2>2. Kept(w, {}, m2, K)
    BY <1>2, <1>15, <2>1 DEF Kept
  <2>3. Forest(m2, K)
    BY <1>19
  <2> HIDE DEF w
  <2>4. Forest(w, K)
    BY <2>2, <2>3, KeptForest
  <2>5. QED
    BY <2>4 DEF w
<1>21. TreesNow = A /\ TreesNow' = Relisted(A, v, p, T!RemoveAt(L, k))
  BY <1>19, <1>20, TreesHere, TreesThen DEF A
<1>22. L = T!Children(T!Sub(A[v], p))
  <2>1. Unfolds(mem, mem[v][1], G[v]) /\ G[v][p].n \in Nat
    BY <1>3, <1>6 DEF Forest, n
  <2>2. T!Children(T!Sub(LabelsOf(G[v]), p)) = L
    BY <1>3, <2>1, KidsFacts DEF L
  <2>3. A[v] = LabelsOf(G[v])
    BY <1>3 DEF A, Trees
  <2>4. QED
    BY <2>2, <2>3
<1>23. to.var = v /\ to.path = p
  BY DEF NameOf, to, v, p
<1>24. T!EraseChild(to, k)
  <2>1. TreesNow' = [A EXCEPT ![v] = T!Graft(@, p, T!Listing(@[p], T!RemoveAt(T!Children(T!Sub(@, p)), k)))]
    BY <1>21, <1>22 DEF Relisted
  <2>2. TreesNow' = [A EXCEPT ![to.var] =
                           T!Graft(@, to.path, T!Listing(@[to.path],
                               T!RemoveAt(T!Children(T!Sub(@, to.path)), k)))]
    BY <1>23, <2>1
  <2>3. QED
    BY <1>21, <2>2, EraseDone
<1>25. QED
  BY <1>11, <1>20, <1>24 DEF T!Do

-----------------------------------------------------------------------------
(* Trees that are copied. *)

\* The first n cells of the array b hold copies of the first n children of the
\* node q of s.
Copied(m, b, s, q, n) ==
    \A i \in 1..n : \E h : Unfolds(m, m[b][i], h) /\ LabelsOf(h) = LabelsOf(T!Sub(s, Append(q, i)))

\* Once all of them are there, a cell with this array holds a copy of the node.
LEMMA CopiedWhole ==
    ASSUME NEW m, NEW r, NEW s, Unfolds(m, r, s), NEW q \in DOMAIN s, s[q].n \in Nat,
           NEW w, NEW c, c.n = s[q].n, c.label = s[q].label, Copied(w, c.data, s, q, c.n)
    PROVE  \E h : Unfolds(w, c, h) /\ LabelsOf(h) = LabelsOf(T!Sub(s, q))
<1> DEFINE n == s[q].n
           L == [i \in 1..n |-> LabelsOf(T!Sub(s, Append(q, i)))]
           list == [i \in 1..n |-> CHOOSE h : Unfolds(w, w[c.data][i], h) /\ LabelsOf(h) = L[i]]
           kids == Kids(s, q)
<1>1. ASSUME NEW i \in 1..n PROVE Unfolds(w, w[c.data][i], list[i]) /\ LabelsOf(list[i]) = L[i]
  <2>1. \E h : Unfolds(w, w[c.data][i], h) /\ LabelsOf(h) = L[i]
    BY DEF Copied
  <2> HIDE DEF L
  <2>2. QED
    BY <2>1
<1>2. DOMAIN list = 1..n /\ n \in Nat
  OBVIOUS
<1>3. LabelsOfAll(kids) = L
  BY DEF LabelsOfAll, Kids
<1>4. DOMAIN L = 1..n
  OBVIOUS
<1> HIDE DEF list
<1>5. LabelsOfAll(list) = L
  <2>1. \A i \in 1..n : LabelsOf(list[i]) = L[i]
    BY <1>1
  <2>2. L = [i \in 1..n |-> L[i]]
    OBVIOUS
  <2> HIDE DEF L, n
  <2>3. QED
    BY <1>2, <2>1, <2>2 DEF LabelsOfAll
<1> HIDE DEF L
<1>6. Unfolds(w, c, T!Listing(c, list))
  BY <1>1, <1>2, UnfoldsListing
<1>7. LabelsOf(T!Listing(c, list)) = T!Listing(c.label, L)
  <2>1. \A i \in DOMAIN list : OnPaths(list[i])
    BY <1>1, <1>2 DEF Unfolds
  <2>2. DOMAIN list \subseteq Nat
    BY <1>2
  <2>3. LabelsOf(T!Listing(c, list)) = T!Listing(c.label, LabelsOfAll(list))
    BY <2>1, <2>2, LabelsListing
  <2>4. QED
    BY <1>5, <2>3
<1>8. T!Sub(s, q) = T!Listing(s[q], kids)
  BY SubIsListing DEF Kids
<1>9. LabelsOf(T!Listing(s[q], kids)) = T!Listing(s[q].label, L)
  <2>1. DOMAIN kids = 1..n /\ \A i \in 1..n : OnPaths(kids[i])
    BY KidsFacts
  <2> HIDE DEF kids
  <2>2. DOMAIN kids \subseteq Nat
    BY <2>1
  <2>3. LabelsOf(T!Listing(s[q], kids)) = T!Listing(s[q].label, LabelsOfAll(kids))
    BY <2>1, <2>2, LabelsListing
  <2>4. QED
    BY <1>3, <2>3
<1>10. QED
  BY <1>6, <1>7, <1>8, <1>9

\* Only variables and arrays that are loose are changed, and no variable comes
\* or goes.
Stay(w, m, loose) ==
    /\ Var \cap DOMAIN w = Var \cap DOMAIN m
    /\ \A x \in DOMAIN m \ loose : x \in DOMAIN w /\ w[x] = m[x]

\* What is not reached from loose arrays stays the same: the forest,
LEMMA StayForest ==
    ASSUME NEW m, NEW loose, Memory(m), Owned(m, loose), NEW G, Forest(m, G),
           NEW w, Stay(w, m, loose)
    PROVE  Forest(w, G)
<1>1. DOMAIN G = Var \cap DOMAIN w
  BY DEF Forest, Stay
<1>2. ASSUME NEW v \in DOMAIN G PROVE w[v] = m[v]
  <2>1. v \in DOMAIN m /\ v \in Var
    BY DEF Forest
  <2>2. v \notin loose
    BY <2>1, StorageAssumption DEF Owned
  <2>3. QED
    BY <2>1, <2>2 DEF Stay
<1>3. ASSUME NEW v \in DOMAIN G, NEW p \in DOMAIN G[v], NEW j \in 1..G[v][p].n
      PROVE  w[G[v][p].data] = m[G[v][p].data]
  <2>1. G[v][p].n \in Nat /\ (G[v][p].n > 0 => G[v][p].data \in (Block \cap DOMAIN m) \ loose)
    BY ForestCells
  <2>2. G[v][p].n > 0
    BY <2>1
  <2>3. QED
    BY <2>1, <2>2 DEF Stay
<1>4. QED
  BY <1>1, <1>2, <1>3, AgreeForest

\* The first n cells of an array stay.
Intact(w, m, b, n) == b \in DOMAIN m /\ n \in Nat /\ n <= Len(m[b]) /\ \A i \in 1..n : w[b][i] = m[b][i]

\* and what an array holds of whose first cells none is changed.
LEMMA CopiedStays ==
    ASSUME NEW m, NEW loose, Memory(m), Owned(m, loose), NEW w, Stay(w, m, loose),
           NEW b, NEW n, Intact(w, m, b, n), NEW s, NEW q, Copied(m, b, s, q, n)
    PROVE  Copied(w, b, s, q, n)
<1> USE DEF Intact
<1> SUFFICES ASSUME NEW i \in 1..n
             PROVE  \E h : Unfolds(w, w[b][i], h) /\ LabelsOf(h) = LabelsOf(T!Sub(s, Append(q, i)))
  BY DEF Copied
<1>1. PICK h : Unfolds(m, m[b][i], h) /\ LabelsOf(h) = LabelsOf(T!Sub(s, Append(q, i)))
  BY DEF Copied
<1>2. i \in DOMAIN m[b]
  <2>1. m[b] \in Seq(Cell)
    BY DEF Memory
  <2> DEFINE x == m[b]
  <2> HIDE DEF x
  <2>2. x \in Seq(Cell) /\ n <= Len(x)
    BY <2>1 DEF x
  <2>3. i \in DOMAIN x
    BY <2>2
  <2>4. QED
    BY <2>3 DEF x
<1> DEFINE c == m[b][i]
<1>3. Backed(m, c) /\ (c.n > 0 => c.data \notin loose)
  BY <1>2, CellsBacked
<1> HIDE DEF c
<1>4. Unfolds(m, c, h)
  BY <1>1 DEF c
<1>5. ASSUME NEW p \in DOMAIN h, NEW j \in 1..h[p].n PROVE w[h[p].data] = m[h[p].data]
  <2>1. /\ Backed(m, h[p]) /\ h[p].n \in Nat
        /\ p # <<>> /\ h[p].n > 0 => h[p].data \notin loose
    BY <1>3, <1>4, UnfoldsBacked
  <2>2. h[p].n > 0
    BY <2>1
  <2>3. p = <<>> => h[p] = c
    BY <1>4 DEF Unfolds
  <2>4. h[p].data \in DOMAIN m \ loose
    BY <1>3, <2>1, <2>2, <2>3 DEF Backed
  <2>5. QED
    BY <2>4 DEF Stay
<1>6. Unfolds(w, c, h)
  BY <1>4, <1>5, UnfoldsAgree
<1>7. QED
  BY <1>1, <1>6 DEF c

\* The same when blocks are freed that no cell has.
LEMMA CopiedFreed ==
    ASSUME NEW m, NEW w, NEW loose, Memory(w), Owned(w, loose), \A x \in DOMAIN w : w[x] = m[x],
           NEW b \in DOMAIN w, NEW n \in Nat, n <= Len(w[b]),
           NEW s, NEW q, Copied(m, b, s, q, n)
    PROVE  Copied(w, b, s, q, n)
<1> SUFFICES ASSUME NEW i \in 1..n
             PROVE  \E h : Unfolds(w, w[b][i], h) /\ LabelsOf(h) = LabelsOf(T!Sub(s, Append(q, i)))
  BY DEF Copied
<1>1. PICK h : Unfolds(m, m[b][i], h) /\ LabelsOf(h) = LabelsOf(T!Sub(s, Append(q, i)))
  BY DEF Copied
<1>2. i \in DOMAIN w[b]
  <2>1. w[b] \in Seq(Cell)
    BY DEF Memory
  <2> DEFINE x == w[b]
  <2> HIDE DEF x
  <2>2. x \in Seq(Cell) /\ n <= Len(x)
    BY <2>1 DEF x
  <2>3. i \in DOMAIN x
    BY <2>2
  <2>4. QED
    BY <2>3 DEF x
<1> DEFINE c == w[b][i]
<1>3. Backed(w, c)
  BY <1>2, CellsBacked
<1>4. c = m[b][i]
  OBVIOUS
<1> HIDE DEF c
<1>5. Unfolds(m, c, h)
  BY <1>1, <1>4
<1>6. Unfolds(w, c, h)
  BY <1>3, <1>5, UnfoldsFreed
<1>7. QED
  BY <1>1, <1>6 DEF c

-----------------------------------------------------------------------------
(* The calls that copy. *)

\* The k-th call copies the node qs[k] of the tree s of fv: it has copied as
\* many children as it says, and the call above it copies the next.
Framed(m, ks, s, fv, fp, qs, k) ==
    /\ qs[k] \in DOMAIN s
    /\ Where(fv, s, qs[k]) = ks[k].from
    /\ Copied(m, ks[k].block, s, qs[k], ks[k].done)
    /\ IF k = Len(ks) THEN qs[k] = fp ELSE qs[k] = Append(qs[k + 1], ks[k + 1].done + 1)

\* They copy what the client asked for, to where it is asked for.
Copying(m, ks, cl, G, qs) ==
    /\ cl.op = "place" /\ cl.arg.how = "copy"
    /\ cl.to.var \in DOMAIN G /\ cl.arg.var \in DOMAIN G
    /\ cl.to.path \in DOMAIN G[cl.to.var]
    /\ Where(cl.to.var, G[cl.to.var], cl.to.path) = ks[Len(ks)].to
    /\ \A k \in DOMAIN ks : Framed(m, ks, G[cl.arg.var], cl.arg.var, cl.arg.path, qs, k)

\* What a call has copied is all that the storage has to do with it.
LEMMA CopyingStays ==
    ASSUME NEW m, NEW ks \in Seq(Frame), NEW cl, NEW G, NEW qs, Copying(m, ks, cl, G, qs), NEW w,
           \A k \in DOMAIN ks : \A s, q :
               Copied(m, ks[k].block, s, q, ks[k].done) => Copied(w, ks[k].block, s, q, ks[k].done)
    PROVE  Copying(w, ks, cl, G, qs)
BY DEF Copying, Framed

\* The innermost call has returned or is left.
LEMMA CopyingTail ==
    ASSUME NEW m, NEW ks \in Seq(Frame), ks # <<>>, Tail(ks) # <<>>,
           NEW cl, NEW G, NEW qs, Copying(m, ks, cl, G, qs)
    PROVE  /\ \E rs : Copying(m, Tail(ks), cl, G, rs) /\ rs[1] = qs[2]
           /\ 1 \in DOMAIN ks /\ 2 \in DOMAIN ks /\ 1 # Len(ks)
<1> DEFINE t == Tail(ks)
           rs == [k \in DOMAIN t |-> qs[k + 1]]
<1>1. /\ t \in Seq(Frame) /\ Len(ks) \in Nat \ {0} /\ Len(t) = Len(ks) - 1
      /\ DOMAIN ks = 1..Len(ks) /\ DOMAIN t = 1..(Len(ks) - 1)
      /\ \A k \in DOMAIN t : k + 1 \in DOMAIN ks /\ t[k] = ks[k + 1]
  BY TailFacts
<1>2. Len(t) > 0
  BY <1>1
<1> HIDE DEF t
<1>3. Len(t) \in DOMAIN t /\ t[Len(t)] = ks[Len(ks)] /\ 1 \in DOMAIN t /\ 2 \in DOMAIN ks /\ 1 # Len(ks)
  BY <1>1, <1>2
<1>4. \A k \in DOMAIN t : rs[k] = qs[k + 1]
  OBVIOUS
<1> HIDE DEF rs
<1>5. ASSUME NEW k \in DOMAIN t, NEW s, NEW fv, NEW fp, Framed(m, ks, s, fv, fp, qs, k + 1)
      PROVE  Framed(m, t, s, fv, fp, rs, k)
  <2>1. k = Len(t) <=> k + 1 = Len(ks)
    BY <1>1
  <2>2. k # Len(t) => k + 1 \in DOMAIN t
    BY <1>1
  <2>3. t[k] = ks[k + 1] /\ rs[k] = qs[k + 1]
    BY <1>1, <1>4
  <2>4. k # Len(t) => t[k + 1] = ks[k + 1 + 1] /\ rs[k + 1] = qs[k + 1 + 1]
    BY <1>1, <1>4, <2>2
  <2> DEFINE l == k + 1
  <2> HIDE DEF l
  <2>5. t[k] = ks[l] /\ rs[k] = qs[l] /\ Framed(m, ks, s, fv, fp, qs, l)
    BY <1>5, <2>3 DEF l
  <2>6. IF k = Len(t) THEN rs[k] = fp ELSE rs[k] = Append(rs[l], t[l].done + 1)
    <3>1. k = Len(t) <=> l = Len(ks)
      BY <2>1 DEF l
    <3>2. k # Len(t) => t[l] = ks[l + 1] /\ rs[l] = qs[l + 1]
      BY <2>4 DEF l
    <3>3. IF l = Len(ks) THEN qs[l] = fp ELSE qs[l] = Append(qs[l + 1], ks[l + 1].done + 1)
      BY <2>5 DEF Framed
    <3>4. QED
      BY <2>5, <3>1, <3>2, <3>3
  <2>7. QED
    BY <2>5, <2>6 DEF Framed, l
<1>6. Copying(m, t, cl, G, rs)
  BY <1>1, <1>3, <1>5 DEF Copying
<1>7. rs[1] = qs[2]
  BY <1>3, <1>4
<1>8. QED
  BY <1>1, <1>3, <1>6, <1>7 DEF t

\* One more child is there.
LEMMA CopyingMore ==
    ASSUME NEW m, NEW ks \in Seq(Frame), ks # <<>>, NEW cl, NEW G, NEW qs, Copying(m, ks, cl, G, qs),
           Copied(m, ks[1].block, G[cl.arg.var], qs[1], ks[1].done + 1)
    PROVE  Copying(m, Returned(ks), cl, G, qs)
<1> DEFINE r == Returned(ks)
<1>1. /\ Len(r) = Len(ks) /\ DOMAIN r = DOMAIN ks
      /\ \A k \in DOMAIN ks : /\ r[k].block = ks[k].block
                              /\ r[k].to = ks[k].to
                              /\ r[k].from = ks[k].from
                              /\ r[k].done = IF k = 1 THEN ks[1].done + 1 ELSE ks[k].done
  BY ReturnedFacts
<1>2. Len(ks) \in DOMAIN ks /\ DOMAIN ks = 1..Len(ks) /\ Len(ks) \in Nat
  BY TailFacts
<1> HIDE DEF r
<1>3. ASSUME NEW k \in DOMAIN ks, NEW s, NEW fv, NEW fp, Framed(m, ks, s, fv, fp, qs, k),
             Copied(m, ks[1].block, s, qs[1], ks[1].done + 1)
      PROVE  Framed(m, r, s, fv, fp, qs, k)
  <2>1. Copied(m, r[k].block, s, qs[k], r[k].done)
    BY <1>1, <1>3 DEF Framed
  <2>2. k # Len(r) => k + 1 \in DOMAIN ks /\ k + 1 # 1
    BY <1>1, <1>2
  <2>3. k # Len(r) => r[k + 1].done = ks[k + 1].done
    BY <1>1, <2>2
  <2>4. r[k].from = ks[k].from
    BY <1>1
  <2>5. QED
    BY <1>1, <1>3, <2>1, <2>3, <2>4 DEF Framed
<1>4. r[Len(r)].to = ks[Len(ks)].to
  BY <1>1, <1>2
<1>5. Copying(m, r, cl, G, qs)
  BY <1>1, <1>3, <1>4 DEF Copying
<1>6. QED
  BY <1>5 DEF r

\* The next child gets a call of its own.
LEMMA CopyingPush ==
    ASSUME NEW m, NEW ks \in Seq(Frame), ks # <<>>, NEW cl, NEW G, NEW qs, Copying(m, ks, cl, G, qs),
           NEW f \in Frame, f.done = 0, NEW q, q = Append(qs[1], ks[1].done + 1),
           q \in DOMAIN G[cl.arg.var], Where(cl.arg.var, G[cl.arg.var], q) = f.from
    PROVE  \E rs : Copying(m, <<f>> \o ks, cl, G, rs)
<1> DEFINE t == <<f>> \o ks
           rs == [k \in DOMAIN t |-> IF k = 1 THEN q ELSE qs[k - 1]]
<1>1. /\ Len(ks) \in Nat /\ Len(t) = Len(ks) + 1
      /\ DOMAIN ks = 1..Len(ks) /\ DOMAIN t = 1..(Len(ks) + 1)
      /\ t[1] = f
      /\ \A k \in DOMAIN t \ {1} : k - 1 \in DOMAIN ks /\ t[k] = ks[k - 1]
  BY PushFacts
<1>2. Len(ks) > 0
  BY TailFacts
<1> HIDE DEF t
<1>3. rs[1] = q /\ \A k \in DOMAIN t \ {1} : rs[k] = qs[k - 1]
  BY <1>1
<1> HIDE DEF rs
<1>4. Len(t) \in DOMAIN t /\ t[Len(t)] = ks[Len(ks)]
  <2>1. Len(t) \in DOMAIN t \ {1} /\ Len(t) - 1 = Len(ks)
    BY <1>1, <1>2
  <2>2. QED
    BY <1>1, <2>1
<1> DEFINE s == G[cl.arg.var]
           fv == cl.arg.var
           fp == cl.arg.path
<1>5. Framed(m, t, s, fv, fp, rs, 1)
  <2>1. Copied(m, t[1].block, s, rs[1], t[1].done)
    BY <1>1 DEF Copied
  <2>2. 1 # Len(t) /\ 2 \in DOMAIN t \ {1} /\ 2 - 1 = 1
    BY <1>1, <1>2
  <2>3. rs[2] = qs[1] /\ t[2] = ks[1]
    BY <1>1, <1>3, <2>2
  <2>4. rs[1] = Append(rs[2], t[2].done + 1)
    BY <1>3, <2>3
  <2>5. 1 + 1 = 2
    OBVIOUS
  <2>6. QED
    BY <1>1, <1>3, <2>1, <2>2, <2>4, <2>5 DEF Framed
<1>6. ASSUME NEW k \in DOMAIN t \ {1} PROVE Framed(m, t, s, fv, fp, rs, k)
  <2> DEFINE l == k - 1
  <2>1. l \in DOMAIN ks /\ t[k] = ks[l] /\ rs[k] = qs[l]
    BY <1>1, <1>3
  <2>2. k = Len(t) <=> l = Len(ks)
    BY <1>1
  <2>3. k # Len(t) => k + 1 \in DOMAIN t \ {1} /\ k + 1 - 1 = l + 1
    BY <1>1
  <2>4. k # Len(t) => t[k + 1] = ks[l + 1] /\ rs[k + 1] = qs[l + 1]
    BY <1>1, <1>3, <2>3
  <2> HIDE DEF l, s, fv, fp
  <2>5. Framed(m, ks, s, fv, fp, qs, l)
    BY <2>1 DEF Copying, s, fv, fp
  <2>6. QED
    BY <2>1, <2>2, <2>4, <2>5 DEF Framed
<1>7. Copying(m, t, cl, G, rs)
  BY <1>4, <1>5, <1>6 DEF Copying
<1>8. QED
  BY <1>7 DEF t

\* The first call of a copy.
LEMMA CopyingBegun ==
    ASSUME NEW m, NEW cl, NEW G, NEW f \in Frame, f.done = 0,
           cl.op = "place", cl.arg.how = "copy", cl.to.var \in DOMAIN G, cl.arg.var \in DOMAIN G,
           cl.to.path \in DOMAIN G[cl.to.var], cl.arg.path \in DOMAIN G[cl.arg.var],
           Where(cl.to.var, G[cl.to.var], cl.to.path) = f.to,
           Where(cl.arg.var, G[cl.arg.var], cl.arg.path) = f.from
    PROVE  \E qs : Copying(m, <<f>> \o <<>>, cl, G, qs)
<1> DEFINE t == <<f>> \o <<>>
           qs == [k \in {1} |-> cl.arg.path]
<1>1. Len(t) = 1 /\ DOMAIN t = {1} /\ t[1] = f
  <2>1. t = <<f>>
    OBVIOUS
  <2>2. QED
    BY <2>1
<1>2. qs[1] = cl.arg.path
  OBVIOUS
<1> HIDE DEF t, qs
<1>3. Framed(m, t, G[cl.arg.var], cl.arg.var, cl.arg.path, qs, 1)
  <2>1. Copied(m, t[1].block, G[cl.arg.var], qs[1], t[1].done)
    BY <1>1 DEF Copied
  <2>2. QED
    BY <1>1, <1>2, <2>1 DEF Framed
<1>4. Copying(m, t, cl, G, qs)
  BY <1>1, <1>3 DEF Copying
<1>5. QED
  BY <1>4 DEF t

-----------------------------------------------------------------------------
(* What the calls do to the storage. *)

\* An array is allocated.
LEMMA StayWith ==
    ASSUME NEW m, NEW b \in Block \ DOMAIN m, NEW s, NEW loose
    PROVE  Stay(With(m, b, s), m, loose)
BY StorageAssumption DEF Stay, With

\* A cell of a loose array is set.
LEMMA StayPut ==
    ASSUME NEW m, NEW loose, NEW b \in loose, NEW i, NEW c
    PROVE  Stay(Put(m, <<b, i>>, c), m, loose)
BY DEF Stay, Put

\* A child is stored: no tree of the client changes, and the call has one more.
LEMMA StoredCopying ==
    ASSUME NEW m, Memory(m), NEW loose, Owned(m, loose), NEW ks \in Seq(Frame), ks # <<>>,
           Begun(ks) \subseteq loose, \A k \in DOMAIN ks : FrameInv(m, ks, k),
           ks[1].done < Len(m[ks[1].block]),
           NEW cl, NEW G, Forest(m, G), NEW qs, Copying(m, ks, cl, G, qs),
           NEW c \in Cell, NEW w, w = Put(m, <<ks[1].block, ks[1].done + 1>>, c),
           NEW h, Unfolds(w, c, h),
           LabelsOf(h) = LabelsOf(T!Sub(G[cl.arg.var], Append(qs[1], ks[1].done + 1)))
    PROVE  Forest(w, G) /\ Copying(w, Returned(ks), cl, G, qs)
<1> DEFINE b == ks[1].block
           j == ks[1].done + 1
           s == G[cl.arg.var]
<1>1. 1 \in DOMAIN ks /\ ks[1] \in Frame /\ DOMAIN ks = 1..Len(ks)
  BY TailFacts
<1>2. ks[1].done \in Nat
  BY <1>1 DEF Frame
<1>3. b \in loose /\ b \in DOMAIN m
  <2>1. b \in Begun(ks)
    BY <1>1 DEF Begun
  <2>2. QED
    BY <2>1 DEF Owned
<1>4. j \in DOMAIN m[b]
  <2>1. m[b] \in Seq(Cell)
    BY <1>3 DEF Memory
  <2> DEFINE y == m[b]
  <2>2. Len(y) \in Nat /\ DOMAIN y = 1..Len(y)
    BY <2>1
  <2> HIDE DEF y
  <2>3. ks[1].done < Len(y)
    BY DEF y
  <2>4. QED
    BY <1>2, <2>2, <2>3 DEF y
<1>5. w = Put(m, <<b, j>>, c)
  OBVIOUS
<1>6. Changed(w, m, b, j, c)
  <2> HIDE DEF b, j
  <2>1. QED
    BY <1>3, <1>4, <1>5, PutIs
<1>7. Stay(w, m, loose)
  <2> HIDE DEF b, j
  <2>1. QED
    BY <1>3, <1>5, StayPut
<1>8. Forest(w, G)
  BY <1>7, StayForest
<1>9. ASSUME NEW k \in DOMAIN ks, NEW t, NEW q, Copied(m, ks[k].block, t, q, ks[k].done)
      PROVE  Copied(w, ks[k].block, t, q, ks[k].done)
  <2> DEFINE d == ks[k].block
             n == ks[k].done
  <2>1. d \in loose /\ d \in DOMAIN m
    <3>1. d \in Begun(ks)
      BY DEF Begun
    <3>2. QED
      BY <3>1 DEF Owned
  <2>2. n \in Nat /\ n <= Len(m[d])
    <3>1. FrameInv(m, ks, k)
      OBVIOUS
    <3>2. ks[k] \in Frame
      BY <1>1
    <3>3. QED
      BY <3>1, <3>2 DEF FrameInv, Frame
  <2>3. \A i \in 1..n : w[d][i] = m[d][i]
    <3>1. CASE d # b
      BY <1>6, <2>1, <3>1 DEF Changed
    <3>2. CASE d = b
      <4>1. k = 1
        <5>1. FrameInv(m, ks, 1)
          BY <1>1
        <5>2. QED
          BY <3>2, <5>1 DEF FrameInv
      <4>2. \A i \in 1..n : i # j
        BY <1>2, <4>1
      <4>3. \A i \in 1..n : i \in DOMAIN m[b]
        <5>1. m[b] \in Seq(Cell)
          BY <1>3 DEF Memory
        <5> DEFINE y == m[b]
        <5>2. Len(y) \in Nat /\ DOMAIN y = 1..Len(y)
          BY <5>1
        <5> HIDE DEF y
        <5>3. n <= Len(y)
          BY <2>2, <3>2 DEF y
        <5>4. QED
          BY <2>2, <5>2, <5>3 DEF y
      <4> HIDE DEF b, j, d, n
      <4>4. QED
        BY <1>6, <3>2, <4>2, <4>3 DEF Changed
    <3>3. QED
      BY <3>1, <3>2
  <2> HIDE DEF d, n
  <2>4. Copied(m, d, t, q, n)
    BY <1>9 DEF d, n
  <2>5. Intact(w, m, d, n)
    BY <2>1, <2>2, <2>3 DEF Intact
  <2>6. Copied(w, d, t, q, n)
    BY <1>7, <2>4, <2>5, CopiedStays
  <2>7. QED
    BY <2>6 DEF d, n
<1>10. Copying(w, ks, cl, G, qs)
  BY <1>9, CopyingStays
<1>11. Copied(w, ks[1].block, G[cl.arg.var], qs[1], ks[1].done + 1)
  <2>1. Copied(w, b, s, qs[1], ks[1].done)
    BY <1>1, <1>10 DEF Copying, Framed
  <2>2. w[b][j] = c
    BY <1>6 DEF Changed
  <2>3. ASSUME NEW i \in 1..j
        PROVE  \E g : Unfolds(w, w[b][i], g) /\ LabelsOf(g) = LabelsOf(T!Sub(s, Append(qs[1], i)))
    <3>1. CASE i = j
      BY <2>2, <3>1
    <3>2. CASE i # j
      <4>1. i \in 1..ks[1].done
        BY <1>2, <3>2
      <4>2. QED
        BY <2>1, <4>1 DEF Copied
    <3>3. QED
      BY <3>1, <3>2
  <2>4. QED
    BY <2>3 DEF Copied
<1>12. QED
  BY <1>8, <1>10, <1>11, CopyingMore

\* What is below a cell whose array is in S, out of which no node leads.
LEMMA UnfoldsWithin ==
    ASSUME NEW m, NEW loose, Memory(m), Owned(m, loose), NEW S, OwnsWithin(m, S),
           NEW c, Backed(m, c), c.n > 0 => c.data \in S, NEW g, Unfolds(m, c, g)
    PROVE  \A p \in DOMAIN g : g[p].n > 0 => g[p].data \in S
<1> DEFINE Q == {p \in DOMAIN g : g[p].n > 0 => g[p].data \in S}
<1>1. \A p \in DOMAIN g : Backed(m, g[p])
  BY UnfoldsBacked
<1>2. <<>> \in Q
  BY DEF Unfolds
<1>3. ASSUME NEW p \in DOMAIN g, NEW j \in 1..g[p].n, p \in Q, j \in Nat PROVE Append(p, j) \in Q
  <2>1. p \in Path
    BY DEF Unfolds, OnPaths
  <2>2. Append(p, j) \in DOMAIN g /\ g[Append(p, j)] = m[g[p].data][j]
    BY <1>3, <2>1 DEF Unfolds
  <2>3. g[p].data \in DOMAIN m /\ j \in DOMAIN m[g[p].data] /\ g[p].n > 0
    BY <1>1, SolidCells
  <2>4. Arrays(m, g[p].data) \subseteq S
    BY <1>3, <2>3 DEF OwnsWithin
  <2>5. m[g[p].data][j].n > 0 => m[g[p].data][j].data \in S
    BY <2>3, <2>4 DEF Arrays
  <2>6. QED
    BY <2>2, <2>5
<1>4. DOMAIN g \subseteq Q
  <2> HIDE DEF Q
  <2>1. QED
    BY <1>2, <1>3, UnfoldsInduction
<1>5. QED
  BY <1>4

\* An array in S keeps its copies while only what is out of S changes.
LEMMA CopiedWithin ==
    ASSUME NEW m, NEW loose, Memory(m), Owned(m, loose), NEW S, OwnsWithin(m, S),
           NEW w, \A x \in S \cap DOMAIN m : w[x] = m[x],
           NEW b \in S \cap DOMAIN m, NEW n \in Nat, n <= Len(m[b]),
           NEW s, NEW q, Copied(m, b, s, q, n)
    PROVE  Copied(w, b, s, q, n)
<1> SUFFICES ASSUME NEW i \in 1..n
             PROVE  \E h : Unfolds(w, w[b][i], h) /\ LabelsOf(h) = LabelsOf(T!Sub(s, Append(q, i)))
  BY DEF Copied
<1>1. PICK h : Unfolds(m, m[b][i], h) /\ LabelsOf(h) = LabelsOf(T!Sub(s, Append(q, i)))
  BY DEF Copied
<1>2. i \in DOMAIN m[b]
  <2>1. m[b] \in Seq(Cell)
    BY DEF Memory
  <2> DEFINE x == m[b]
  <2> HIDE DEF x
  <2>2. x \in Seq(Cell) /\ n <= Len(x)
    BY <2>1 DEF x
  <2>3. i \in DOMAIN x
    BY <2>2
  <2>4. QED
    BY <2>3 DEF x
<1> DEFINE c == m[b][i]
<1>3. Backed(m, c) /\ (c.n > 0 => c.data \in S) /\ c = w[b][i]
  <2>1. Backed(m, c)
    BY <1>2, CellsBacked
  <2>2. c.n > 0 => c.data \in S
    BY <1>2 DEF OwnsWithin, Arrays
  <2>3. QED
    BY <2>1, <2>2
<1> HIDE DEF c
<1>4. Unfolds(m, c, h)
  BY <1>1 DEF c
<1>5. ASSUME NEW p \in DOMAIN h, NEW j \in 1..h[p].n PROVE w[h[p].data] = m[h[p].data]
  <2>1. Backed(m, h[p]) /\ (h[p].n > 0 => h[p].data \in S)
    BY <1>3, <1>4, UnfoldsBacked, UnfoldsWithin
  <2>2. h[p].data \in DOMAIN m /\ h[p].n > 0
    BY <2>1, SolidCells
  <2>3. QED
    BY <2>1, <2>2
<1>6. Unfolds(w, c, h)
  BY <1>4, <1>5, UnfoldsAgree
<1>7. QED
  BY <1>1, <1>3, <1>6

-----------------------------------------------------------------------------
(* The steps of the calls. *)

\* The last step of a copy: the node gets the array with the copies.
LEMMA PlaceCopy ==
    ASSUME IInv, NEW loose, Memory(mem), Owned(mem, loose), NEW G, Forest(mem, G), IInv',
           NEW to, to.var \in DOMAIN G, to.path \in DOMAIN G[to.var],
           NEW a, a.how = "copy", a.var \in DOMAIN G, a.path \in DOMAIN G[a.var],
           NEW at, at = Where(to.var, G[to.var], to.path),
           NEW c \in Cell, c.n = G[a.var][a.path].n, c.label = G[a.var][a.path].label,
           NEW w, w = Put(mem, at, c), Copied(w, c.data, G[a.var], a.path, c.n), mem' = w
    PROVE  (\E K : Forest(mem', K)) /\ T!Place(to, a)
<1> DEFINE v == to.var
           p == to.path
           fv == a.var
           fp == a.path
<1>1. PICK b \in DOMAIN mem : \E i \in DOMAIN mem[b] : at = <<b, i>>
  BY ForestCells
<1>2. PICK i \in DOMAIN mem[b] : at = <<b, i>>
  BY <1>1
<1>3. Names(G, v, p, <<b, i>>) /\ Solid(mem, G)
  BY <1>2, NamesHere, SolidForest
<1>4. OnPaths(G[v]) /\ p \in Path /\ OnPaths(G[fv]) /\ fp \in Path /\ Unfolds(mem, mem[fv][1], G[fv])
  BY DEF Forest, Unfolds, OnPaths
<1>5. G[fv][fp].n \in Nat
  BY ForestCells
<1>6. PICK h : Unfolds(w, c, h) /\ LabelsOf(h) = LabelsOf(T!Sub(G[fv], fp))
  <2> HIDE DEF fv, fp
  <2>1. /\ Unfolds(mem, mem[fv][1], G[fv]) /\ fp \in DOMAIN G[fv] /\ G[fv][fp].n \in Nat
        /\ c.n = G[fv][fp].n /\ c.label = G[fv][fp].label /\ Copied(w, c.data, G[fv], fp, c.n)
    BY <1>4, <1>5 DEF fv, fp
  <2>2. QED
    BY <2>1, CopiedWhole
<1> DEFINE K == Placed(G, v, p, h)
<1>7. Forest(w, K)
  <2>1. w = Put(mem, <<b, i>>, c)
    BY <1>2
  <2>2. Unfolds(Put(mem, <<b, i>>, c), c, h)
    BY <1>6, <2>1
  <2> HIDE DEF v, p
  <2>3. Forest(Put(mem, <<b, i>>, c), K)
    BY <1>3, <1>4, <2>2, PutForest DEF v, p
  <2>4. QED
    BY <2>1, <2>3
<1>8. Trees(K) = IF p \in DOMAIN Trees(G)[v]
                 THEN [Trees(G) EXCEPT ![v] = T!Graft(@, p, LabelsOf(h))]
                 ELSE Trees(G)
  <2>1. OnPaths(h)
    BY <1>6 DEF Unfolds
  <2>2. QED
    BY <1>4, <2>1, TreesPlaced
<1> HIDE DEF K
<1>9. Forest(mem', K)
  BY <1>7
<1>10. TreesNow = Trees(G)
  BY TreesHere
<1>11. Trees(G) = T!AfterArgument(a)
  <2>1. T!AfterArgument(a) = TreesNow
    BY DEF T!AfterArgument, TreesNow
  <2>2. QED
    BY <1>10, <2>1
<1>12. LabelsOf(h) = T!Argument(a)
  <2>1. T!Argument(a) = T!Sub(TreesNow[fv], fp)
    BY DEF T!Argument, TreesNow
  <2>2. TreesNow[fv] = LabelsOf(G[fv])
    BY <1>10 DEF Trees
  <2>3. LabelsOf(T!Sub(G[fv], fp)) = T!Sub(LabelsOf(G[fv]), fp)
    BY <1>4, LabelsSub
  <2>4. QED
    BY <1>6, <2>1, <2>2, <2>3
<1>13. v \in DOMAIN Trees(G)
  BY DEF Trees
<1>14. T!Place(to, a)
  BY <1>8, <1>9, <1>11, <1>12, <1>13, PlacedDone
<1>15. QED
  BY <1>9, <1>14

\* A call of transform_initialize or deserialize begins: a node without
\* children is copied at once, for another an array is allocated.
LEMMA BeginForest ==
    ASSUME IInv, calls = <<>>, NEW G, Forest(mem, G), IInv', NEW to \in Named, NEW from \in Named,
           BeginCopy(to, from) \/ BeginDeserialize(to, from)
    PROVE  /\ \E K : Forest(mem', K) /\ (calls' # <<>> => \E qs : Copying(mem', calls', call', K, qs))
           /\ T!Do(call') \/ TreesNow' = TreesNow
<1> DEFINE x == NameOf(to)
           a == From("copy", from)
           c == At(mem, from.cell)
<1>1. Memory(mem) /\ Owned(mem, {})
  BY NoCalls DEF IInv, TypeOK, Building
<1>2. call' = [op |-> "place", to |-> x, i |-> 0, arg |-> a]
  BY DEF BeginCopy, BeginDeserialize, Calls
<1>3. PICK kind \in {"copy", "load"} : Enter(kind, to.cell, from.cell, mem, <<>>)
  BY DEF BeginCopy, BeginDeserialize
<1>4. /\ x.var \in DOMAIN G /\ x.path \in DOMAIN G[x.var]
      /\ to.cell = Where(x.var, G[x.var], x.path)
  BY <1>1, NamedIsForest DEF NameOf
<1>5. /\ a.how = "copy" /\ a.var \in DOMAIN G /\ a.path \in DOMAIN G[a.var]
      /\ from.cell = Where(a.var, G[a.var], a.path) /\ c = G[a.var][a.path]
  BY <1>1, NamedIsForest DEF From
<1>6. c \in Cell /\ c.n \in Nat
  BY <1>1, <1>5, ForestCells DEF Backed
<1>7. CASE c.n = 0
  <2>1. mem' = Put(mem, to.cell, c) /\ calls' = Returned(<<>>)
    BY <1>3, <1>7 DEF Enter
  <2>2. calls' = <<>>
    BY <2>1 DEF Returned
  <2>3. Copied(mem', c.data, G[a.var], a.path, c.n)
    BY <1>7 DEF Copied
  <2> DEFINE w == mem'
  <2> HIDE DEF x, a, c
  <2>4. w = Put(mem, to.cell, c) /\ mem' = w /\ Copied(w, c.data, G[a.var], a.path, c.n)
    BY <2>1, <2>3
  <2>5. c.n = G[a.var][a.path].n /\ c.label = G[a.var][a.path].label
    BY <1>5
  <2>6. (\E K : Forest(mem', K)) /\ T!Place(x, a)
    <3> HIDE DEF w
    <3>1. QED
      BY <1>1, <1>4, <1>5, <1>6, <2>4, <2>5, PlaceCopy
  <2>7. QED
    BY <1>2, <2>2, <2>6 DEF T!Do
<1>8. CASE c.n # 0
  <2>1. PICK b \in Free :
            /\ mem' = With(mem, b, Cells(kind, c.n))
            /\ calls' = <<[kind |-> kind, to |-> to.cell, from |-> from.cell, block |-> b,
                           done |-> 0]>> \o <<>>
    BY <1>3, <1>8 DEF Enter
  <2> DEFINE f == [kind |-> kind, to |-> to.cell, from |-> from.cell, block |-> b, done |-> 0]
  <2>2. b \in Block \ DOMAIN mem
    BY DEF Free
  <2>3. f \in Frame
    <3>1. calls' \in Seq(Frame)
      BY DEF IInv, TypeOK
    <3>2. calls' = <<f>>
      BY <2>1
    <3> DEFINE ks == calls'
    <3> HIDE DEF f
    <3>3. ks \in Seq(Frame) /\ ks = <<f>>
      BY <3>1, <3>2
    <3> HIDE DEF ks
    <3>4. ks[1] = f /\ Len(ks) = 1
      BY <3>3
    <3>5. QED
      BY <3>3, <3>4
  <2>4. f.done = 0 /\ f.to = to.cell /\ f.from = from.cell
    OBVIOUS
  <2> DEFINE cl == call'
             w == mem'
  <2>5. /\ cl.op = "place" /\ cl.to = x /\ cl.arg = a
    BY <1>2
  <2>6. calls' = <<f>> \o <<>> /\ w = With(mem, b, Cells(kind, c.n))
    BY <2>1
  <2> HIDE DEF f, x, a, c, cl
  <2>7. Forest(w, G)
    <3>1. Stay(With(mem, b, Cells(kind, c.n)), mem, {})
      BY <2>2, StayWith
    <3>2. Forest(With(mem, b, Cells(kind, c.n)), G)
      BY <1>1, <3>1, StayForest
    <3>3. QED
      BY <2>6, <3>2
  <2> HIDE DEF w
  <2>8. \E qs : Copying(w, <<f>> \o <<>>, cl, G, qs)
    BY <1>4, <1>5, <2>3, <2>4, <2>5, CopyingBegun
  <2>9. TreesNow' = TreesNow
    <3>1. Forest(mem', G)
      BY <2>7 DEF w
    <3>2. QED
      BY <3>1, TreesHere, TreesThen
  <2>10. QED
    BY <2>6, <2>7, <2>8, <2>9 DEF w, cl
<1>9. QED
  BY <1>7, <1>8

\* The innermost call: the node it copies, and its array.
LEMMA TopFacts ==
    ASSUME IInv, calls # <<>>, NEW G, Forest(mem, G), NEW qs, Copying(mem, calls, call, G, qs)
    PROVE  /\ Memory(mem) /\ calls \in Seq(Frame) /\ Building(mem, calls) /\ Owned(mem, Begun(calls))
           /\ Top = calls[1] /\ 1 \in DOMAIN calls /\ calls[1] \in Frame
           /\ call.arg.var \in DOMAIN G /\ qs[1] \in DOMAIN G[call.arg.var]
           /\ At(mem, calls[1].from) = G[call.arg.var][qs[1]]
           /\ G[call.arg.var][qs[1]] \in Cell /\ G[call.arg.var][qs[1]].n \in Nat
           /\ calls[1].done <= Len(mem[calls[1].block]) /\ calls[1].done \in Nat
           /\ Len(mem[calls[1].block]) = G[call.arg.var][qs[1]].n
           /\ Copied(mem, calls[1].block, G[call.arg.var], qs[1], calls[1].done)
<1>1. Memory(mem) /\ calls \in Seq(Frame) /\ Building(mem, calls) /\ Owned(mem, Begun(calls))
  BY DEF IInv, TypeOK, Building
<1>2. Top = calls[1] /\ 1 \in DOMAIN calls /\ calls[1] \in Frame
  BY <1>1, TailFacts DEF Top
<1> DEFINE fv == call.arg.var
           s == G[fv]
           q == qs[1]
<1>3. fv \in DOMAIN G /\ Framed(mem, calls, s, fv, call.arg.path, qs, 1)
  BY <1>2 DEF Copying
<1>4. q \in DOMAIN s /\ Where(fv, s, q) = calls[1].from /\ Copied(mem, calls[1].block, s, q, calls[1].done)
  BY <1>3 DEF Framed
<1>5. /\ Backed(mem, s[q]) /\ s[q].n \in Nat
      /\ \E b \in DOMAIN mem : \E i \in DOMAIN mem[b] : Where(fv, s, q) = <<b, i>> /\ mem[b][i] = s[q]
  BY <1>1, <1>3, <1>4, ForestCells
<1>6. At(mem, calls[1].from) = s[q]
  BY <1>4, <1>5 DEF At
<1>7. FrameInv(mem, calls, 1)
  BY <1>1, <1>2 DEF Building
<1>8. calls[1].done <= Len(mem[calls[1].block]) /\ Len(mem[calls[1].block]) = s[q].n
  BY <1>6, <1>7 DEF FrameInv
<1>9. calls[1].done \in Nat
  BY <1>2 DEF Frame
<1>10. QED
  BY <1>1, <1>2, <1>3, <1>4, <1>5, <1>6, <1>8, <1>9 DEF Backed

\* The array of a call is loose, and holds no less than what it has copied.
LEMMA CallArray ==
    ASSUME NEW m, NEW ks \in Seq(Frame), Building(m, ks), NEW k \in DOMAIN ks
    PROVE  /\ ks[k].block \in Begun(ks) /\ ks[k].block \in DOMAIN m /\ ks[k].block \in Block
           /\ ks[k].done \in Nat /\ ks[k].done <= Len(m[ks[k].block])
<1>1. ks[k].block \in Begun(ks)
  BY DEF Begun
<1>2. ks[k] \in Frame /\ FrameInv(m, ks, k)
  BY DEF Building
<1>3. QED
  BY <1>1, <1>2 DEF Building, Owned, Frame, FrameInv

\* Descend copies a child that has no children, or begins to copy it.
LEMMA DescendForest ==
    ASSUME IInv, calls # <<>>, NEW G, Forest(mem, G), NEW qs, Copying(mem, calls, call, G, qs),
           IInv', Descend
    PROVE  /\ \E K : Forest(mem', K) /\ (calls' # <<>> => \E rs : Copying(mem', calls', call', K, rs))
           /\ TreesNow' = TreesNow
<1> DEFINE fv == call.arg.var
           s == G[fv]
           q == qs[1]
           b1 == calls[1].block
           j == calls[1].done + 1
           r == Append(q, j)
           from == <<At(mem, calls[1].from).data, j>>
           c == At(mem, from)
           loose == Begun(calls)
<1>1. /\ Memory(mem) /\ calls \in Seq(Frame) /\ Building(mem, calls) /\ Owned(mem, loose)
      /\ Top = calls[1] /\ 1 \in DOMAIN calls /\ calls[1] \in Frame
      /\ fv \in DOMAIN G /\ q \in DOMAIN s
      /\ At(mem, calls[1].from) = s[q] /\ s[q] \in Cell /\ s[q].n \in Nat
      /\ calls[1].done \in Nat /\ Len(mem[b1]) = s[q].n
      /\ Copied(mem, b1, s, q, calls[1].done)
  BY TopFacts
<1>2. Enter(calls[1].kind, <<b1, j>>, from, mem, calls) /\ calls[1].done < s[q].n /\ call' = call
  BY <1>1 DEF Descend
<1>3. Unfolds(mem, mem[fv][1], s) /\ q \in Path
  BY <1>1 DEF Forest, Unfolds, OnPaths
<1>4. j \in 1..s[q].n /\ j \in Nat
  BY <1>1, <1>2
<1>5. r \in DOMAIN s /\ s[r] = mem[s[q].data][j] /\ Where(fv, s, r) = from
  <2>1. r \in DOMAIN s /\ s[r] = mem[s[q].data][j]
    BY <1>1, <1>3, <1>4 DEF Unfolds
  <2>2. Where(fv, s, r) = <<s[q].data, j>>
    BY <1>3, <1>4, WhereChild
  <2>3. QED
    BY <1>1, <2>1, <2>2
<1>6. c = s[r] /\ c \in Cell /\ c.n \in Nat
  <2>1. c = s[r]
    BY <1>1, <1>5 DEF At
  <2> HIDE DEF r, s, fv, loose, c
  <2>2. Backed(mem, s[r]) /\ s[r].n \in Nat
    BY <1>1, <1>5, ForestCells DEF s
  <2>3. QED
    BY <2>1, <2>2 DEF Backed
<1>7. b1 \in loose /\ b1 \in DOMAIN mem
  BY <1>1, CallArray
<1> HIDE DEF c, loose, r, from
<1> DEFINE w == mem'
<1>8. CASE c.n = 0
  <2>1. mem' = Put(mem, <<b1, j>>, c) /\ calls' = Returned(calls)
    BY <1>2, <1>8 DEF Enter, c
  <2>2. PICK h : Unfolds(w, c, h) /\ LabelsOf(h) = LabelsOf(T!Sub(s, r))
    <3> HIDE DEF w, s
    <3>1. Copied(w, c.data, s, r, c.n)
      BY <1>8 DEF Copied
    <3>2. c.n = s[r].n /\ c.label = s[r].label /\ s[r].n \in Nat
      BY <1>6
    <3>3. QED
      BY <1>3, <1>5, <3>1, <3>2, CopiedWhole
  <2>3. /\ w = Put(mem, <<calls[1].block, calls[1].done + 1>>, c)
        /\ LabelsOf(h) = LabelsOf(T!Sub(G[call.arg.var], Append(qs[1], calls[1].done + 1)))
    BY <2>1, <2>2 DEF r
  <2>4. /\ Begun(calls) \subseteq loose /\ \A k \in DOMAIN calls : FrameInv(mem, calls, k)
        /\ calls[1].done < Len(mem[calls[1].block])
    BY <1>1, <1>2 DEF Building, loose
  <2> DEFINE cl == call
             ks == calls
  <2> HIDE DEF w, cl, ks, fv, s, q, b1, j
  <2>5. /\ ks \in Seq(Frame) /\ ks # <<>> /\ Begun(ks) \subseteq loose
        /\ \A k \in DOMAIN ks : FrameInv(mem, ks, k)
        /\ ks[1].done < Len(mem[ks[1].block])
        /\ Copying(mem, ks, cl, G, qs)
        /\ w = Put(mem, <<ks[1].block, ks[1].done + 1>>, c)
        /\ LabelsOf(h) = LabelsOf(T!Sub(G[cl.arg.var], Append(qs[1], ks[1].done + 1)))
    BY <1>1, <2>3, <2>4 DEF cl, ks
  <2>6. Forest(w, G) /\ Copying(w, Returned(ks), cl, G, qs)
    BY <1>1, <1>6, <2>2, <2>5, StoredCopying
  <2>7. Forest(mem', G) /\ Copying(mem', calls', call', G, qs)
    BY <1>2, <2>1, <2>6 DEF w, cl, ks
  <2>8. TreesNow' = TreesNow
    BY <2>7, TreesHere, TreesThen
  <2>9. QED
    BY <2>7, <2>8
<1>9. CASE c.n # 0
  <2>1. PICK b \in Free :
            /\ mem' = With(mem, b, Cells(calls[1].kind, c.n))
            /\ calls' = <<[kind |-> calls[1].kind, to |-> <<b1, j>>, from |-> from, block |-> b,
                           done |-> 0]>> \o calls
    BY <1>2, <1>9 DEF Enter, c
  <2> DEFINE f == [kind |-> calls[1].kind, to |-> <<b1, j>>, from |-> from, block |-> b, done |-> 0]
             cells == Cells(calls[1].kind, c.n)
  <2>2. b \in Block \ DOMAIN mem
    BY DEF Free
  <2>3. f.done = 0 /\ f.from = from
    OBVIOUS
  <2>4. calls' = <<f>> \o calls /\ w = With(mem, b, cells)
    BY <2>1
  <2> HIDE DEF f, cells
  <2>5. f \in Frame
    <3>1. calls' \in Seq(Frame)
      BY DEF IInv, TypeOK
    <3> DEFINE ks == calls'
               ls == calls
    <3>2. ks \in Seq(Frame) /\ ks = <<f>> \o ls /\ ls \in Seq(Frame)
      BY <1>1, <2>4, <3>1
    <3> HIDE DEF ks, ls
    <3>3. ks[1] = f /\ Len(ks) = Len(ls) + 1 /\ Len(ls) \in Nat
      BY <3>2
    <3>4. 1 \in 1..Len(ks)
      BY <3>3
    <3>5. QED
      BY <3>2, <3>3, <3>4
  <2>6. Stay(w, mem, loose)
    BY <2>2, <2>4, StayWith
  <2> HIDE DEF w
  <2>7. Forest(w, G)
    BY <1>1, <2>6, StayForest
  <2>8. Copying(w, calls, call, G, qs)
    <3>1. ASSUME NEW k \in DOMAIN calls, NEW t, NEW y,
                 Copied(mem, calls[k].block, t, y, calls[k].done)
          PROVE  Copied(w, calls[k].block, t, y, calls[k].done)
      <4> DEFINE d == calls[k].block
                 n == calls[k].done
      <4>1. d \in DOMAIN mem /\ n \in Nat /\ n <= Len(mem[d])
        BY <1>1, CallArray
      <4>2. w[d] = mem[d]
        BY <2>2, <2>4, <4>1 DEF With
      <4>3. Intact(w, mem, d, n)
        BY <4>1, <4>2 DEF Intact
      <4> HIDE DEF d, n
      <4>4. Copied(mem, d, t, y, n)
        BY <3>1 DEF d, n
      <4>5. Copied(w, d, t, y, n)
        BY <1>1, <2>6, <4>3, <4>4, CopiedStays
      <4>6. QED
        BY <4>5 DEF d, n
    <3> DEFINE cl == call
               ks == calls
    <3>2. /\ ks \in Seq(Frame) /\ Copying(mem, ks, cl, G, qs)
          /\ \A k \in DOMAIN ks : \A t, y :
                Copied(mem, ks[k].block, t, y, ks[k].done) => Copied(w, ks[k].block, t, y, ks[k].done)
      BY <1>1, <3>1
    <3> HIDE DEF cl, ks
    <3>3. Copying(w, ks, cl, G, qs)
      BY <3>2, CopyingStays
    <3>4. QED
      BY <3>3 DEF cl, ks
  <2>9. \E rs : Copying(w, <<f>> \o calls, call, G, rs)
    <3> DEFINE cl == call
               ks == calls
    <3>1. /\ ks \in Seq(Frame) /\ ks # <<>> /\ Copying(w, ks, cl, G, qs)
          /\ r = Append(qs[1], ks[1].done + 1)
          /\ r \in DOMAIN G[cl.arg.var] /\ Where(cl.arg.var, G[cl.arg.var], r) = f.from
      BY <1>1, <1>5, <2>3, <2>8 DEF r
    <3> HIDE DEF cl, ks
    <3>2. \E rs : Copying(w, <<f>> \o ks, cl, G, rs)
      BY <2>3, <2>5, <3>1, CopyingPush
    <3>3. QED
      BY <3>2 DEF cl, ks
  <2>10. Forest(mem', G) /\ \E rs : Copying(mem', calls', call', G, rs)
    BY <1>2, <2>4, <2>7, <2>9 DEF w
  <2>11. TreesNow' = TreesNow
    BY <2>10, TreesHere, TreesThen
  <2>12. QED
    BY <2>10, <2>11
<1>10. QED
  BY <1>8, <1>9

\* Finish stores the array in the node: of the copy, or of the tree that the
\* client called for.
LEMMA FinishForest ==
    ASSUME IInv, calls # <<>>, NEW G, Forest(mem, G), NEW qs, Copying(mem, calls, call, G, qs),
           IInv', Finish
    PROVE  /\ \E K : Forest(mem', K) /\ (calls' # <<>> => \E rs : Copying(mem', calls', call', K, rs))
           /\ T!Do(call') \/ TreesNow' = TreesNow
<1> DEFINE fv == call.arg.var
           s == G[fv]
           q == qs[1]
           b1 == calls[1].block
           c0 == s[q]
           n == c0.n
           c == Node(c0.label, n, b1)
           loose == Begun(calls)
           to == calls[1].to
           w == mem'
           t == Tail(calls)
<1>1. /\ Memory(mem) /\ calls \in Seq(Frame) /\ Building(mem, calls) /\ Owned(mem, loose)
      /\ Top = calls[1] /\ 1 \in DOMAIN calls /\ calls[1] \in Frame
      /\ fv \in DOMAIN G /\ q \in DOMAIN s
      /\ At(mem, calls[1].from) = c0 /\ c0 \in Cell /\ n \in Nat
      /\ calls[1].done \in Nat /\ Len(mem[b1]) = n
      /\ Copied(mem, b1, s, q, calls[1].done)
  BY TopFacts
<1>2. calls[1].done = n /\ w = Put(mem, to, c) /\ calls' = Returned(t) /\ call' = call
  BY <1>1 DEF Finish
<1>3. b1 \in loose /\ b1 \in DOMAIN mem /\ b1 \in Block
  BY <1>1, CallArray
<1>4. PICK source \in SUBSET (Block \cap DOMAIN mem), made \in SUBSET (Block \cap DOMAIN mem) :
         Apart(mem, calls, source, made)
  BY <1>1 DEF Building
<1>5. c0.n > 0 /\ FrameInv(mem, calls, 1)
  BY <1>1, <1>4 DEF Apart, Building
<1>6. c \in Cell /\ c.n = n /\ c.label = c0.label /\ c.data = b1
  <2>1. c0.label \in Labels /\ n \in 1..MaxKids
    BY <1>1, <1>5, CellFacts, BoundsAssumption DEF Cell
  <2>2. QED
    BY <1>3, <2>1, NewCells DEF Node
<1>7. Unfolds(mem, mem[fv][1], s)
  BY <1>1 DEF Forest
<1>8. CASE t # <<>>
  <2>1. PICK rs : Copying(mem, t, call, G, rs) /\ rs[1] = qs[2]
    <3> DEFINE cl == call
               ks == calls
               m == mem
    <3>1. /\ ks \in Seq(Frame) /\ ks # <<>> /\ Tail(ks) # <<>> /\ Copying(m, ks, cl, G, qs)
          /\ t = Tail(ks)
      BY <1>1, <1>8
    <3> HIDE DEF cl, ks, m, t
    <3>2. \E rs : Copying(m, Tail(ks), cl, G, rs) /\ rs[1] = qs[2]
      BY <3>1, CopyingTail
    <3>3. QED
      BY <3>1, <3>2 DEF cl, m
  <2>2. /\ t \in Seq(Frame) /\ Begun(t) \subseteq loose /\ 1 \in DOMAIN t /\ t[1] = calls[2]
        /\ 1 < Len(calls) /\ 2 \in DOMAIN calls
    <3>1. /\ t \in Seq(Frame) /\ Len(calls) \in Nat /\ Begun(calls) = Begun(t) \cup {calls[1].block}
          /\ DOMAIN calls = 1..Len(calls) /\ DOMAIN t = 1..(Len(calls) - 1)
          /\ \A k \in DOMAIN t : k + 1 \in DOMAIN calls /\ t[k] = calls[k + 1]
      BY <1>1, TailFacts
    <3> HIDE DEF t
    <3>2. 1 \in DOMAIN t
      BY <1>8, <3>1, TailFacts
    <3>3. QED
      BY <3>1, <3>2
  <2>3. to = <<t[1].block, t[1].done + 1>> /\ q = Append(rs[1], t[1].done + 1)
    <3>1. to = <<calls[1 + 1].block, calls[1 + 1].done + 1>>
      BY <1>5, <2>2 DEF FrameInv
    <3>2. Framed(mem, calls, s, fv, call.arg.path, qs, 1)
      BY <1>1 DEF Copying
    <3>3. q = Append(qs[1 + 1], calls[1 + 1].done + 1)
      BY <2>2, <3>2 DEF Framed
    <3>4. 1 + 1 = 2
      OBVIOUS
    <3> HIDE DEF to, q, t
    <3>5. QED
      BY <2>1, <2>2, <3>1, <3>3, <3>4
  <2>4. t[1].block # b1 /\ t[1].block \in loose
    <3>1. t[1].block \in Begun(t)
      BY <2>2 DEF Begun
    <3>2. calls[2].block # calls[1].block
      BY <1>5, <2>2 DEF FrameInv
    <3>3. QED
      BY <2>2, <3>1, <3>2
  <2>5. /\ \A k \in DOMAIN t : FrameInv(mem, t, k)
        /\ t[1].done < Len(mem[t[1].block])
    BY <1>1, <1>8, TailFrames DEF Building
  <2> HIDE DEF t, c0, n, c, to, q, s, fv, b1, loose, w
  <2>6. Copied(w, b1, s, q, n)
    <3>1. Stay(w, mem, loose)
      BY <1>2, <2>3, <2>4, StayPut
    <3>2. w[b1] = mem[b1]
      BY <1>2, <1>3, <2>3, <2>4 DEF Put
    <3>3. Intact(w, mem, b1, n)
      BY <1>1, <1>3, <3>2 DEF Intact
    <3>4. Copied(mem, b1, s, q, n)
      BY <1>1, <1>2
    <3>5. QED
      BY <1>1, <3>1, <3>3, <3>4, CopiedStays
  <2>7. PICK h : Unfolds(w, c, h) /\ LabelsOf(h) = LabelsOf(T!Sub(s, q))
    <3>1. c.n = s[q].n /\ c.label = s[q].label /\ s[q].n \in Nat /\ Copied(w, c.data, s, q, c.n)
      BY <1>1, <1>6, <2>6 DEF c0, n
    <3>2. QED
      BY <1>1, <1>7, <3>1, CopiedWhole
  <2> DEFINE cl == call
  <2>8. /\ Copying(mem, t, cl, G, rs)
        /\ w = Put(mem, <<t[1].block, t[1].done + 1>>, c)
        /\ LabelsOf(h) = LabelsOf(T!Sub(G[cl.arg.var], Append(rs[1], t[1].done + 1)))
    BY <1>2, <2>1, <2>3, <2>7 DEF s, fv
  <2> HIDE DEF cl
  <2>9. Forest(w, G) /\ Copying(w, Returned(t), cl, G, rs)
    BY <1>1, <1>6, <1>8, <2>2, <2>5, <2>7, <2>8, StoredCopying
  <2>10. Forest(mem', G) /\ Copying(mem', calls', call', G, rs)
    BY <1>2, <2>9 DEF w, cl
  <2>11. TreesNow' = TreesNow
    BY <2>10, TreesHere, TreesThen
  <2>12. QED
    BY <2>10, <2>11
<1>9. CASE t = <<>>
  <2>1. calls' = <<>>
    BY <1>2, <1>9 DEF Returned
  <2>2. Len(calls) = 1
    <3>1. Len(calls) \in Nat \ {0} /\ Len(t) = Len(calls) - 1
      BY <1>1, TailFacts
    <3> HIDE DEF t
    <3>2. Len(t) = 0
      BY <1>9
    <3>3. QED
      BY <3>1, <3>2
  <2> DEFINE x == call.to
             a == call.arg
  <2>3. /\ call.op = "place" /\ a.how = "copy" /\ x.var \in DOMAIN G /\ a.var \in DOMAIN G
        /\ x.path \in DOMAIN G[x.var] /\ Where(x.var, G[x.var], x.path) = to
        /\ q = a.path
    <3>1. Framed(mem, calls, s, fv, call.arg.path, qs, 1)
      BY <1>1 DEF Copying
    <3>2. q = a.path
      BY <2>2, <3>1 DEF Framed
    <3>3. QED
      BY <2>2, <3>2 DEF Copying
  <2>4. to[1] \notin made /\ b1 \in made /\ OwnsWithin(mem, made)
    BY <1>1, <1>3, <1>4, <2>2 DEF Apart, OwnsWithin
  <2> HIDE DEF t, c0, n, c, to, q, s, fv, b1, loose, w
  <2>5. Copied(w, b1, s, q, n)
    <3>1. \A y \in made \cap DOMAIN mem : w[y] = mem[y]
      BY <1>2, <2>4 DEF Put
    <3>2. b1 \in made \cap DOMAIN mem /\ n <= Len(mem[b1]) /\ Copied(mem, b1, s, q, n)
      BY <1>1, <1>2, <1>3, <2>4
    <3>3. QED
      BY <1>1, <2>4, <3>1, <3>2, CopiedWithin
  <2> HIDE DEF x, a
  <2>6. /\ c.n = G[a.var][a.path].n /\ c.label = G[a.var][a.path].label
        /\ Copied(w, c.data, G[a.var], a.path, c.n) /\ a.path \in DOMAIN G[a.var]
    BY <1>1, <1>6, <2>3, <2>5 DEF s, fv, c0, n, a
  <2>7. to = Where(x.var, G[x.var], x.path) /\ w = Put(mem, to, c) /\ mem' = w
    BY <1>2, <2>3 DEF w
  <2>8. (\E K : Forest(mem', K)) /\ T!Place(x, a)
    BY <1>1, <1>6, <2>3, <2>6, <2>7, PlaceCopy
  <2>9. T!Do(call')
    BY <1>2, <2>3, <2>8 DEF T!Do, x, a
  <2>10. QED
    BY <2>1, <2>8, <2>9
<1>10. QED
  BY <1>8, <1>9

\* The handler: what the innermost call has copied goes, and no tree changes.
LEMMA UnwindForest ==
    ASSUME IInv, calls # <<>>, NEW G, Forest(mem, G), NEW qs, Copying(mem, calls, call, G, qs),
           IInv', Unwind
    PROVE  /\ \E K : Forest(mem', K) /\ (calls' # <<>> => \E rs : Copying(mem', calls', call', K, rs))
           /\ TreesNow' = TreesNow
<1> DEFINE t == Tail(calls)
           X == (UNION {Under(mem, c) : c \in Built(Top)}) \cup {Top.block}
           w == mem'
<1>1. /\ Memory(mem) /\ calls \in Seq(Frame) /\ Building(mem, calls)
      /\ Top = calls[1] /\ 1 \in DOMAIN calls
  BY TopFacts
<1>2. \A c \in Built(Top) : HasValue(c) /\ Destructible(mem, c)
  BY <1>1, UnwoundFacts DEF Built
<1>3. mem' = Without(mem, X) /\ calls' = t /\ call' = call
  BY <1>2 DEF Unwind
<1>4. X \cap Var = {}
  <2>1. Top.block \in Block
    BY <1>1, CallArray
  <2>2. \A c : Under(mem, c) \subseteq Block
    BY DEF Under
  <2>3. QED
    BY <2>1, <2>2, StorageAssumption
<1> HIDE DEF X
<1>5. DOMAIN mem' = DOMAIN mem \ X /\ \A y \in DOMAIN mem' : mem'[y] = mem[y]
  BY <1>3 DEF Without
<1>6. Memory(w) /\ Building(w, t) /\ t \in Seq(Frame)
  <2>1. Memory(mem') /\ Building(mem', calls') /\ calls' \in Seq(Frame)
    BY DEF IInv, TypeOK
  <2>2. QED
    BY <1>3, <2>1
<1>7. Owned(w, Begun(t))
  BY <1>6 DEF Building
<1> HIDE DEF w, t
<1>8. Forest(w, G)
  <2> DEFINE loose == Begun(t)
  <2>1. Kept(w, loose, mem, G)
    BY <1>4, <1>5, <1>6, <1>7 DEF Kept, Forest, w
  <2> HIDE DEF loose
  <2>2. QED
    BY <2>1, KeptForest
<1>9. ASSUME t # <<>> PROVE \E rs : Copying(w, t, call, G, rs)
  <2>1. PICK rs : Copying(mem, t, call, G, rs)
    BY <1>1, <1>9, CopyingTail DEF t
  <2>2. ASSUME NEW k \in DOMAIN t, NEW s, NEW q, Copied(mem, t[k].block, s, q, t[k].done)
        PROVE  Copied(w, t[k].block, s, q, t[k].done)
    <3> DEFINE d == t[k].block
               n == t[k].done
               loose == Begun(t)
    <3>1. d \in DOMAIN w /\ n \in Nat /\ n <= Len(w[d])
      BY <1>6, CallArray
    <3>2. \A x \in DOMAIN w : w[x] = mem[x]
      BY <1>5 DEF w
    <3>3. Copied(mem, d, s, q, n) /\ Memory(w) /\ Owned(w, loose)
      BY <1>6, <1>7, <2>2
    <3> HIDE DEF d, n, loose
    <3>4. Copied(w, d, s, q, n)
      BY <3>1, <3>2, <3>3, CopiedFreed
    <3>5. QED
      BY <3>4 DEF d, n
  <2> DEFINE cl == call
  <2>3. Copying(mem, t, cl, G, rs)
    BY <2>1
  <2> HIDE DEF cl
  <2>4. Copying(w, t, cl, G, rs)
    BY <1>6, <2>2, <2>3, CopyingStays
  <2>5. QED
    BY <2>4 DEF cl
<1>10. Forest(mem', G) /\ (calls' # <<>> => \E rs : Copying(mem', calls', call', G, rs))
  BY <1>3, <1>8, <1>9 DEF w
<1>11. TreesNow' = TreesNow
  BY <1>10, TreesHere, TreesThen
<1>12. QED
  BY <1>10, <1>11

\* An exception begins, or a child that is loaded fails: no storage changes.
LEMMA ThrowForest ==
    ASSUME calls # <<>>, NEW G, Forest(mem, G), NEW qs, Copying(mem, calls, call, G, qs),
           Throw \/ LoadThrow
    PROVE  /\ \E K : Forest(mem', K) /\ (calls' # <<>> => \E rs : Copying(mem', calls', call', K, rs))
           /\ TreesNow' = TreesNow
<1>1. mem' = mem /\ calls' = calls /\ call' = call
  BY DEF Throw, LoadThrow
<1>2. Forest(mem', G) /\ Copying(mem', calls', call', G, qs)
  BY <1>1
<1>3. QED
  BY <1>1, <1>2, SameTrees

-----------------------------------------------------------------------------
(* AstNodes implements TreeEdits. *)

\* The nodes of the client's variables are trees, and what is being copied is
\* a copy so far.
RInv ==
    /\ IInv
    /\ \E G : Forest(mem, G) /\ (calls # <<>> => \E qs : Copying(mem, calls, call, G, qs))

\* There are no trees at first.
LEMMA InitTrees == Init => RInv /\ T!Init
<1> SUFFICES ASSUME Init PROVE RInv /\ T!Init
  OBVIOUS
<1>1. IInv
  BY InitIInv
<1>2. DOMAIN mem = {} /\ calls = <<>>
  BY DEF Init
<1> DEFINE G == [v \in {} |-> v]
<1>3. Forest(mem, G)
  BY <1>2 DEF Forest
<1>4. RInv
  BY <1>1, <1>2, <1>3 DEF RInv
<1>5. T!Init
  BY <1>2 DEF T!Init
<1>6. QED
  BY <1>4, <1>5

\* A call of the client does to the trees what it says.
LEMMA ClientTrees ==
    ASSUME IInv, calls = <<>>, NEW G, Forest(mem, G), IInv', Edit
    PROVE  /\ \E K : Forest(mem', K) /\ (calls' # <<>> => \E qs : Copying(mem', calls', call', K, qs))
           /\ T!Do(call') \/ TreesNow' = TreesNow
<1>1. ASSUME NEW e \in Expr, NEW v \in Var, Construct(v, e)
      PROVE  (\E K : Forest(mem', K)) /\ T!Do(call') /\ calls' = <<>>
  BY <1>1, ConstructForest DEF Construct
<1>2. ASSUME NEW e \in Expr, NEW x \in Named, Initialize(x, e)
      PROVE  (\E K : Forest(mem', K)) /\ T!Do(call') /\ calls' = <<>>
  BY <1>2, InitializeForest DEF Initialize
<1>3. ASSUME NEW e \in Expr, NEW x \in Valued, NEW b \in Free, NEW at \in 0..At(mem, x.cell).n,
             b # Value(e).data, Insert(x, at, e, b)
      PROVE  (\E K : Forest(mem', K)) /\ (T!Do(call') \/ TreesNow' = TreesNow) /\ calls' = <<>>
  BY <1>3, InsertForest DEF Insert
<1>4. ASSUME NEW v \in Var, ConstructUninitialized(v) \/ Destroy(v)
      PROVE  (\E K : Forest(mem', K)) /\ T!Do(call') /\ calls' = <<>>
  BY <1>4, ConstructUninitializedForest, DestroyForest DEF ConstructUninitialized, Destroy
<1>5. ASSUME NEW x \in Valued, NEW y \in Valued, Assign(x, y)
      PROVE  (\E K : Forest(mem', K)) /\ (T!Do(call') \/ TreesNow' = TreesNow) /\ calls' = <<>>
  BY <1>5, AssignForest DEF Assign
<1>6. ASSUME NEW x \in Valued, SetData(x)
      PROVE  (\E K : Forest(mem', K)) /\ TreesNow' = TreesNow /\ calls' = <<>>
  BY <1>6, StutterForest DEF SetData
<1>7. ASSUME NEW x \in Valued, NEW b \in Free, NEW i \in 1..At(mem, x.cell).n, Erase(x, i, b)
      PROVE  (\E K : Forest(mem', K)) /\ T!Do(call') /\ calls' = <<>>
  BY <1>7, EraseForest DEF Erase
<1>8. ASSUME NEW to \in Named, NEW from \in Named, BeginCopy(to, from) \/ BeginDeserialize(to, from)
      PROVE  /\ \E K : Forest(mem', K) /\ (calls' # <<>> => \E qs : Copying(mem', calls', call', K, qs))
             /\ T!Do(call') \/ TreesNow' = TreesNow
  BY <1>8, BeginForest
<1>9. \/ \E e \in Expr :
          \/ \E v \in Var : Construct(v, e)
          \/ \E x \in Named : Initialize(x, e)
          \/ \E x \in Valued, b \in Free : \E at \in 0..At(mem, x.cell).n :
              b # Value(e).data /\ Insert(x, at, e, b)
      \/ \E v \in Var : ConstructUninitialized(v) \/ Destroy(v)
      \/ \E x, y \in Valued : Assign(x, y)
      \/ \E x \in Valued : SetData(x)
      \/ \E x \in Valued, b \in Free : \E i \in 1..At(mem, x.cell).n : Erase(x, i, b)
      \/ \E to \in Named, from \in Named : BeginCopy(to, from) \/ BeginDeserialize(to, from)
  BY DEF Edit, Valued
<1>10. QED
  BY <1>1, <1>2, <1>3, <1>4, <1>5, <1>6, <1>7, <1>8, <1>9

\* Every step does to the trees what the client's last call says, or nothing.
LEMMA NextTrees ==
    ASSUME RInv, [Next]_vars, IInv'
    PROVE  RInv' /\ (T!Do(call') \/ TreesNow' = TreesNow)
<1>1. PICK G : Forest(mem, G) /\ (calls # <<>> => \E qs : Copying(mem, calls, call, G, qs))
  BY DEF RInv
<1>2. IInv
  BY DEF RInv
<1>3. CASE UNCHANGED vars
  <2>1. mem' = mem /\ calls' = calls /\ call' = call
    BY <1>3 DEF vars
  <2>2. Forest(mem', G) /\ (calls' # <<>> => \E qs : Copying(mem', calls', call', G, qs))
    BY <1>1, <2>1
  <2>3. QED
    BY <2>1, <2>2, SameTrees DEF RInv
<1>4. CASE calls = <<>> /\ Edit
  BY <1>1, <1>2, <1>4, ClientTrees DEF RInv
<1>5. CASE calls # <<>> /\ Build
  <2>1. PICK qs : Copying(mem, calls, call, G, qs)
    BY <1>1, <1>5
  <2>2. CASE Descend
    BY <1>1, <1>2, <1>5, <2>1, <2>2, DescendForest DEF RInv
  <2>3. CASE Finish
    BY <1>1, <1>2, <1>5, <2>1, <2>3, FinishForest DEF RInv
  <2>4. CASE Unwind
    BY <1>1, <1>2, <1>5, <2>1, <2>4, UnwindForest DEF RInv
  <2>5. CASE Throw \/ LoadThrow
    BY <1>1, <1>2, <1>5, <2>1, <2>5, ThrowForest DEF RInv
  <2>6. QED
    BY <1>5, <2>2, <2>3, <2>4, <2>5 DEF Build
<1>6. QED
  BY <1>3, <1>4, <1>5 DEF Next

\* Whatever is moved, inserted, erased, copied or loaded, and whatever fails
\* meanwhile, each variable holds a tree of its own and a call changes the
\* trees as it says.
THEOREM NodesImplementTrees == Spec => TreeEditsSpec
<1>1. Init => RInv /\ T!Init
  BY InitTrees
<1>2. RInv /\ IInv' /\ [Next]_vars => RInv'
  BY NextTrees
<1>3. RInv /\ IInv' /\ [Next]_vars => T!Do(call') \/ TreesNow' = TreesNow
  BY NextTrees
<1>4. RInv /\ IInv' /\ [Next]_vars => [T!Do(call')]_[v \in Var \cap DOMAIN mem |-> TreeOf(v)]
  BY <1>3 DEF TreesNow
<1>5. Spec => []IInv
  BY Invariance
<1>6. QED
  BY <1>1, <1>2, <1>4, <1>5, PTL DEF Spec, TreeEditsSpec, T!Spec

=============================================================================
