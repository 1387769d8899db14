--------------------------- MODULE AstNodesProofs ---------------------------
(***************************************************************************)
(* Proofs about AstNodes, for any number of variables, arrays and labels   *)
(* and trees of every size.                                                *)
(*                                                                         *)
(* What a call does to the storage is taken apart into small changes: a    *)
(* node loses its children (Take), which are loose then; a node gets loose *)
(* children (Give); an array is allocated (Allocate), refilled (Refill),   *)
(* destroyed with all below it (Die), or freed (Free).  Each has a lemma.  *)
(***************************************************************************)
EXTENDS AstNodes, FiniteSetTheorems, SequenceTheorems, ArithmeticLemmas, TLAPS

-----------------------------------------------------------------------------
(* Cells and storage. *)

\* A cell counts no children and has a null pointer, or counts some and points
\* to an array.
LEMMA CellFacts ==
    ASSUME NEW c \in Cell
    PROVE  /\ c.n \in Nat
           /\ c.n = 0 => c.data = NoBlock
           /\ c.n > 0 => c.data \in Block /\ c.n <= MaxKids
           /\ c.label \in Labels
           /\ Leaf(c.label) \in Cell
  BY BoundsAssumption DEF Cell, Leaf

\* Cells that are made.
LEMMA NewCells ==
    ASSUME NEW l \in Labels
    PROVE  /\ Leaf(l) \in Cell
           /\ \A n \in 1..MaxKids, b \in Block : Node(l, n, b) \in Cell
           /\ Raw \in Cell /\ Invalid \in Cell /\ Null \in Cell
           /\ Raw.n = 0 /\ Invalid.n = 0 /\ Null.n = 0
  BY BoundsAssumption DEF Cell, Leaf, Node, Raw, Invalid, Null, Labels

\* The cells of a storage.
LEMMA MemoryCells ==
    ASSUME NEW m, Memory(m), NEW b \in DOMAIN m, NEW i \in DOMAIN m[b]
    PROVE  /\ m[b][i] \in Cell
           /\ b \in Var \cup Block
           /\ i \in Nat \ {0}
           /\ DOMAIN m[b] = 1..Len(m[b])
           /\ Len(m[b]) \in Nat
  BY DEF Memory

\* The arrays that the cells of a block own.
LEMMA ArraysFacts ==
    ASSUME NEW m, Memory(m), NEW b \in DOMAIN m
    PROVE  /\ Arrays(m, b) \subseteq Block
           /\ \A d : d \in Arrays(m, b) <=> \E i \in DOMAIN m[b] : m[b][i].n > 0 /\ m[b][i].data = d
<1>1. \A d : d \in Arrays(m, b) <=> \E i \in DOMAIN m[b] : m[b][i].n > 0 /\ m[b][i].data = d
  BY DEF Arrays
<1>2. \A i \in DOMAIN m[b] : m[b][i].n > 0 => m[b][i].data \in Block
  BY MemoryCells, CellFacts
<1>3. QED
  BY <1>1, <1>2

\* Putting a cell changes one cell.
LEMMA PutFacts ==
    ASSUME NEW m, Memory(m), NEW b \in DOMAIN m, NEW i \in DOMAIN m[b], NEW c \in Cell
    PROVE  /\ Memory(Put(m, <<b, i>>, c))
           /\ DOMAIN Put(m, <<b, i>>, c) = DOMAIN m
           /\ \A x \in DOMAIN m \ {b} : Put(m, <<b, i>>, c)[x] = m[x]
           /\ DOMAIN Put(m, <<b, i>>, c)[b] = DOMAIN m[b]
           /\ Len(Put(m, <<b, i>>, c)[b]) = Len(m[b])
           /\ Put(m, <<b, i>>, c)[b][i] = c
           /\ \A j \in DOMAIN m[b] \ {i} : Put(m, <<b, i>>, c)[b][j] = m[b][j]
<1> DEFINE p == Put(m, <<b, i>>, c)
<1> DEFINE s == [m[b] EXCEPT ![i] = c]
<1>1. p = [m EXCEPT ![b] = s]
  BY DEF Put
<1>2. m[b] \in Seq(Cell)
  BY DEF Memory
<1>3. s \in Seq(Cell) /\ Len(s) = Len(m[b]) /\ DOMAIN s = DOMAIN m[b]
  BY <1>2
<1>4. s[i] = c /\ \A j \in DOMAIN m[b] \ {i} : s[j] = m[b][j]
  BY <1>2
<1> HIDE DEF s
<1>5. DOMAIN p = DOMAIN m /\ p[b] = s /\ \A x \in DOMAIN m \ {b} : p[x] = m[x]
  BY <1>1
<1> HIDE DEF p
<1>6. Memory(p)
  <2>1. p \in [DOMAIN p -> Seq(Cell)]
    BY <1>1, <1>3 DEF Memory, p
  <2>2. QED
    BY <1>3, <1>5, <2>1 DEF Memory
<1>7. QED
  BY <1>3, <1>4, <1>5, <1>6 DEF p

\* A block is added to the storage.
LEMMA WithFacts ==
    ASSUME NEW m, Memory(m), NEW b \in (Var \cup Block) \ DOMAIN m, NEW s \in Seq(Cell),
           b \in Var => Len(s) = 1
    PROVE  /\ Memory(With(m, b, s))
           /\ DOMAIN With(m, b, s) = DOMAIN m \cup {b}
<1>1. /\ DOMAIN With(m, b, s) = DOMAIN m \cup {b}
      /\ With(m, b, s)[b] = s
      /\ \A x \in DOMAIN m : With(m, b, s)[x] = m[x]
  BY DEF With
<1>2. Memory(With(m, b, s))
  <2>1. With(m, b, s) \in [DOMAIN With(m, b, s) -> Seq(Cell)]
    BY <1>1 DEF Memory, With
  <2>2. QED
    BY <1>1, <2>1 DEF Memory
<1>3. QED
  BY <1>1, <1>2

\* The added block has its cells, the others keep theirs.
LEMMA WithCells ==
    ASSUME NEW m, NEW b, NEW s
    PROVE  /\ With(m, b, s)[b] = s
           /\ \A x \in DOMAIN m \ {b} : With(m, b, s)[x] = m[x]
  BY DEF With

\* Blocks are taken away.
LEMMA WithoutFacts ==
    ASSUME NEW m, Memory(m), NEW S
    PROVE  /\ Memory(Without(m, S))
           /\ DOMAIN Without(m, S) = DOMAIN m \ S
           /\ \A x \in DOMAIN m \ S : Without(m, S)[x] = m[x]
<1>1. /\ DOMAIN Without(m, S) = DOMAIN m \ S
      /\ \A x \in DOMAIN m \ S : Without(m, S)[x] = m[x]
  BY DEF Without
<1>2. Memory(Without(m, S))
  <2>1. Without(m, S) \in [DOMAIN Without(m, S) -> Seq(Cell)]
    BY <1>1 DEF Memory, Without
  <2>2. QED
    BY <1>1, <2>1 DEF Memory
<1>3. QED
  BY <1>1, <1>2

\* Nothing is taken away.
LEMMA WithoutNothing ==
    ASSUME NEW m, Memory(m), NEW S, S \cap DOMAIN m = {}
    PROVE  Without(m, S) = m
<1>1. DOMAIN m \ S = DOMAIN m
  OBVIOUS
<1>2. Without(m, S) = [x \in DOMAIN m |-> m[x]]
  BY <1>1 DEF Without
<1>3. QED
  BY <1>2 DEF Memory

-----------------------------------------------------------------------------
(* The arrays below a node. *)

\* They are arrays, closed under what their nodes own.
LEMMA UnderFacts ==
    ASSUME NEW m, Memory(m), NEW c \in Cell
    PROVE  /\ Under(m, c) \subseteq Block
           /\ c.n = 0 => Under(m, c) = {}
           /\ c.n > 0 => c.data \in Under(m, c)
           /\ OwnsWithin(m, Under(m, c))
<1>1. Under(m, c) \subseteq Block
  BY DEF Under
<1>2. c.n = 0 => Under(m, c) = {}
  BY DEF Under
<1>3. c.n > 0 => c.data \in Under(m, c)
  BY CellFacts DEF Under
<1>4. ASSUME NEW b \in Under(m, c) \cap DOMAIN m, NEW d \in Arrays(m, b)
      PROVE  d \in Under(m, c)
  <2>1. d \in Block
    BY <1>4, ArraysFacts
  <2>2. c.n > 0
    BY <1>4 DEF Under
  <2>3. ASSUME NEW S \in SUBSET Block, c.data \in S, OwnsWithin(m, S)
        PROVE  d \in S
    <3>1. b \in S
      BY <1>4, <2>3 DEF Under
    <3>2. QED
      BY <1>4, <2>3, <3>1 DEF OwnsWithin
  <2>4. QED
    BY <2>1, <2>2, <2>3 DEF Under
<1>5. QED
  BY <1>1, <1>2, <1>3, <1>4 DEF OwnsWithin

\* They are the fewest such.
LEMMA UnderLeast ==
    ASSUME NEW m, NEW c, NEW S \in SUBSET Block, c.n > 0 => c.data \in S, OwnsWithin(m, S)
    PROVE  Under(m, c) \subseteq S
  BY DEF Under

\* Each of them, except the node's own, is owned by a node in another.
LEMMA UnderOwned ==
    ASSUME NEW m, Memory(m), NEW c \in Cell, NEW d \in Under(m, c), d # c.data
    PROVE  \E b \in Under(m, c) \cap DOMAIN m : d \in Arrays(m, b)
<1> DEFINE S == Under(m, c) \ {d}
<1>1. SUFFICES ASSUME \A b \in Under(m, c) \cap DOMAIN m : d \notin Arrays(m, b)
               PROVE  FALSE
  OBVIOUS
<1>2. S \in SUBSET Block /\ (c.n > 0 => c.data \in S)
  BY UnderFacts
<1>3. OwnsWithin(m, S)
  BY <1>1, UnderFacts DEF OwnsWithin
<1> HIDE DEF S
<1>4. Under(m, c) \subseteq S
  BY <1>2, <1>3, UnderLeast
<1>5. QED
  BY <1>4 DEF S

\* Where no array below a node has come to own more, none has come below it.
LEMMA UnderShrinks ==
    ASSUME NEW m, Memory(m), NEW m2, NEW c \in Cell,
           \A b \in Under(m, c) \cap DOMAIN m2 : b \in DOMAIN m /\ Arrays(m2, b) \subseteq Arrays(m, b)
    PROVE  Under(m2, c) \subseteq Under(m, c)
<1>1. OwnsWithin(m2, Under(m, c))
  BY UnderFacts DEF OwnsWithin
<1>2. QED
  BY <1>1, UnderFacts, UnderLeast

\* Storage that differs only elsewhere has the same arrays below a node.
LEMMA UnderSame ==
    ASSUME NEW m, Memory(m), NEW m2, Memory(m2), NEW c \in Cell,
           \A b \in Under(m, c) : /\ b \in DOMAIN m2 <=> b \in DOMAIN m
                                  /\ b \in DOMAIN m => m2[b] = m[b]
    PROVE  Under(m2, c) = Under(m, c)
<1>1. \A b \in Under(m, c) : b \in DOMAIN m => Arrays(m2, b) = Arrays(m, b)
  BY DEF Arrays
<1>2. Under(m2, c) \subseteq Under(m, c)
  BY <1>1, UnderShrinks
<1>3. Under(m, c) \subseteq Under(m2, c)
  BY <1>1, <1>2, UnderShrinks
<1>4. QED
  BY <1>2, <1>3

-----------------------------------------------------------------------------
(* The small changes of the storage. *)

\* Whoever owns an array is its only owner.
LEMMA OneOwner ==
    ASSUME NEW m, NEW loose, Memory(m), Owned(m, loose),
           NEW b \in DOMAIN m, NEW i \in DOMAIN m[b], m[b][i].n > 0
    PROVE  /\ m[b][i].data \in (Block \cap DOMAIN m) \ loose
           /\ Len(m[m[b][i].data]) = m[b][i].n
           /\ m[b][i].data \in Arrays(m, b)
           /\ \A c \in DOMAIN m : m[b][i].data \in Arrays(m, c) => c = b
           /\ \A j \in DOMAIN m[b] : m[b][j].n > 0 /\ m[b][j].data = m[b][i].data => j = i
<1>1. m[b][i] \in Cell
  BY MemoryCells
<1>2. m[b][i].data \in (Block \cap DOMAIN m) \ loose /\ Len(m[m[b][i].data]) = m[b][i].n
  BY <1>1, CellFacts DEF Owned
<1>3. m[b][i].data \in Arrays(m, b)
  BY ArraysFacts
<1>4. ASSUME NEW c \in DOMAIN m, m[b][i].data \in Arrays(m, c)
      PROVE  c = b
  <2>1. PICK j \in DOMAIN m[c] : m[c][j].n > 0 /\ m[c][j].data = m[b][i].data
    BY <1>4, ArraysFacts
  <2>2. QED
    BY <2>1 DEF Owned
<1>5. \A j \in DOMAIN m[b] : m[b][j].n > 0 /\ m[b][j].data = m[b][i].data => j = i
  BY DEF Owned
<1>6. QED
  BY <1>2, <1>3, <1>4, <1>5

\* Take: the array of a node that counts no children any more is loose.
LEMMA TakeOwned ==
    ASSUME NEW m, NEW loose, Memory(m), Owned(m, loose),
           NEW b \in DOMAIN m, NEW i \in DOMAIN m[b], m[b][i].n > 0
    PROVE  /\ Memory(Emptied(m, <<b, i>>))
           /\ Owned(Emptied(m, <<b, i>>), loose \cup {m[b][i].data})
<1> DEFINE c == m[b][i]
<1> DEFINE e == Emptied(m, <<b, i>>)
<1> DEFINE l == Leaf(c.label)
<1>1. c \in Cell /\ l \in Cell /\ l.n = 0
  BY MemoryCells, CellFacts DEF Leaf, l
<1>2. e = Put(m, <<b, i>>, l)
  BY DEF Emptied, At, e, l
<1> HIDE DEF e, l
<1>3. /\ Memory(e)
      /\ DOMAIN e = DOMAIN m
      /\ \A x \in DOMAIN m \ {b} : e[x] = m[x]
      /\ DOMAIN e[b] = DOMAIN m[b]
      /\ Len(e[b]) = Len(m[b])
      /\ e[b][i] = l
      /\ \A j \in DOMAIN m[b] \ {i} : e[b][j] = m[b][j]
  BY <1>1, <1>2, PutFacts
<1>4. c.data \in (Block \cap DOMAIN m) \ loose
  BY OneOwner
<1>5. ASSUME NEW x \in DOMAIN e, NEW j \in DOMAIN e[x], e[x][j].n > 0
      PROVE  x \in DOMAIN m /\ j \in DOMAIN m[x] /\ e[x][j] = m[x][j] /\ (x # b \/ j # i)
  BY <1>1, <1>3, <1>5
<1>6. \A x \in DOMAIN e : DOMAIN e[x] = DOMAIN m[x] /\ Len(e[x]) = Len(m[x])
  BY <1>3
<1>7. ASSUME NEW x \in DOMAIN e, NEW j \in DOMAIN e[x], e[x][j].n > 0
      PROVE  /\ e[x][j].data \in DOMAIN e \ (loose \cup {c.data})
             /\ Len(e[e[x][j].data]) = e[x][j].n
  BY <1>3, <1>5, <1>6, <1>7 DEF Owned
<1>8. ASSUME NEW x \in DOMAIN e, NEW y \in DOMAIN e, NEW j \in DOMAIN e[x], NEW k \in DOMAIN e[y],
             e[x][j].n > 0 /\ e[y][k].n > 0 /\ e[x][j].data = e[y][k].data
      PROVE  x = y /\ j = k
  BY <1>5, <1>8 DEF Owned
<1>9. ASSUME NEW d \in (Block \cap DOMAIN e) \ (loose \cup {c.data})
      PROVE  \E x \in DOMAIN e : d \in Arrays(e, x)
  <2>1. PICK x \in DOMAIN m : d \in Arrays(m, x)
    BY <1>3 DEF Owned
  <2>2. PICK j \in DOMAIN m[x] : m[x][j].n > 0 /\ m[x][j].data = d
    BY <2>1, ArraysFacts
  <2>3. x # b \/ j # i
    BY <2>2
  <2>4. j \in DOMAIN e[x] /\ e[x][j] = m[x][j]
    BY <1>3, <2>2, <2>3
  <2>5. d \in Arrays(e, x)
    BY <1>3, <2>2, <2>4, ArraysFacts
  <2>6. QED
    BY <1>3, <2>5
<1>10. Owned(e, loose \cup {c.data})
  BY <1>3, <1>4, <1>7, <1>8, <1>9 DEF Owned
<1>11. QED
  BY <1>3, <1>10 DEF e

\* Give: a node without children gets a loose array.
LEMMA GiveOwned ==
    ASSUME NEW m, NEW loose, Memory(m), Owned(m, loose),
           NEW b \in DOMAIN m, NEW i \in DOMAIN m[b], m[b][i].n = 0,
           NEW c \in Cell, c.n > 0 => c.data \in loose /\ Len(m[c.data]) = c.n
    PROVE  /\ Memory(Put(m, <<b, i>>, c))
           /\ Owned(Put(m, <<b, i>>, c), loose \ {c.data})
<1> DEFINE p == Put(m, <<b, i>>, c)
<1> HIDE DEF p
<1>1. /\ Memory(p)
      /\ DOMAIN p = DOMAIN m
      /\ \A x \in DOMAIN m \ {b} : p[x] = m[x]
      /\ DOMAIN p[b] = DOMAIN m[b]
      /\ Len(p[b]) = Len(m[b])
      /\ p[b][i] = c
      /\ \A j \in DOMAIN m[b] \ {i} : p[b][j] = m[b][j]
  BY PutFacts DEF p
<1>2. \A x \in DOMAIN p : DOMAIN p[x] = DOMAIN m[x] /\ Len(p[x]) = Len(m[x])
  BY <1>1
<1>3. ASSUME NEW x \in DOMAIN p, NEW j \in DOMAIN p[x]
      PROVE  \/ x = b /\ j = i /\ p[x][j] = c
             \/ x \in DOMAIN m /\ j \in DOMAIN m[x] /\ p[x][j] = m[x][j]
  BY <1>1, <1>3
<1>4. c.n = 0 => c.data \notin loose
  BY CellFacts, StorageAssumption DEF Owned
<1>5. ASSUME NEW x \in DOMAIN p, NEW j \in DOMAIN p[x], p[x][j].n > 0
      PROVE  /\ p[x][j].data \in DOMAIN p \ (loose \ {c.data})
             /\ Len(p[p[x][j].data]) = p[x][j].n
  <2>1. CASE p[x][j] = c
    <3>1. c.data \in loose /\ loose \subseteq DOMAIN m
      BY <1>5, <2>1 DEF Owned
    <3>2. QED
      BY <1>1, <1>2, <1>5, <2>1, <3>1
  <2>2. CASE x \in DOMAIN m /\ j \in DOMAIN m[x] /\ p[x][j] = m[x][j]
    BY <1>1, <1>2, <1>5, <2>2 DEF Owned
  <2>3. QED
    BY <1>3, <2>1, <2>2
<1>6. ASSUME NEW x \in DOMAIN p, NEW y \in DOMAIN p, NEW j \in DOMAIN p[x], NEW k \in DOMAIN p[y],
             p[x][j].n > 0 /\ p[y][k].n > 0 /\ p[x][j].data = p[y][k].data
      PROVE  x = y /\ j = k
  <2>1. \A z \in DOMAIN m : \A l \in DOMAIN m[z] : m[z][l].n > 0 => m[z][l].data \notin loose
    BY DEF Owned
  <2>2. QED
    BY <1>3, <1>6, <2>1 DEF Owned
<1>7. ASSUME NEW d \in (Block \cap DOMAIN p) \ (loose \ {c.data})
      PROVE  \E x \in DOMAIN p : d \in Arrays(p, x)
  <2>1. CASE d \in loose
    <3>1. d = c.data /\ c.n > 0
      BY <1>4, <2>1, CellFacts
    <3>2. d \in Arrays(p, b)
      BY <1>1, <3>1, ArraysFacts
    <3>3. QED
      BY <1>1, <3>2
  <2>2. CASE d \notin loose
    <3>1. PICK x \in DOMAIN m : d \in Arrays(m, x)
      BY <1>1, <2>2 DEF Owned
    <3>2. PICK j \in DOMAIN m[x] : m[x][j].n > 0 /\ m[x][j].data = d
      BY <3>1, ArraysFacts
    <3>3. j \in DOMAIN p[x] /\ p[x][j] = m[x][j]
      BY <1>1, <3>2
    <3>4. d \in Arrays(p, x)
      BY <1>1, <3>2, <3>3, ArraysFacts
    <3>5. QED
      BY <1>1, <3>4
  <2>3. QED
    BY <2>1, <2>2
<1>8. loose \ {c.data} \subseteq Block \cap DOMAIN p
  BY <1>1 DEF Owned
<1>9. Owned(p, loose \ {c.data})
  BY <1>5, <1>6, <1>7, <1>8 DEF Owned
<1>10. QED
  BY <1>1, <1>9 DEF p

\* Allocate: a new block whose cells count no children is loose, or a variable.
LEMMA AllocateOwned ==
    ASSUME NEW m, NEW loose, Memory(m), Owned(m, loose),
           NEW b \in (Var \cup Block) \ DOMAIN m, NEW s \in Seq(Cell), b \in Var => Len(s) = 1,
           \A i \in DOMAIN s : s[i].n = 0
    PROVE  /\ Memory(With(m, b, s))
           /\ Owned(With(m, b, s), loose \cup ({b} \cap Block))
<1> DEFINE w == With(m, b, s)
<1> HIDE DEF w
<1>1. /\ Memory(w)
      /\ DOMAIN w = DOMAIN m \cup {b}
      /\ w[b] = s
      /\ \A x \in DOMAIN m : w[x] = m[x]
  <2>1. Memory(w) /\ DOMAIN w = DOMAIN m \cup {b}
    BY WithFacts DEF w
  <2>2. w[b] = s /\ \A x \in DOMAIN m : w[x] = m[x]
    BY WithCells DEF w
  <2>3. QED
    BY <2>1, <2>2
<1>2. ASSUME NEW x \in DOMAIN w, NEW j \in DOMAIN w[x], w[x][j].n > 0
      PROVE  x \in DOMAIN m /\ j \in DOMAIN m[x] /\ w[x][j] = m[x][j]
  BY <1>1, <1>2
<1>3. ASSUME NEW x \in DOMAIN w, NEW j \in DOMAIN w[x], w[x][j].n > 0
      PROVE  /\ w[x][j].data \in DOMAIN w \ (loose \cup {b})
             /\ Len(w[w[x][j].data]) = w[x][j].n
  <2>1. x \in DOMAIN m /\ j \in DOMAIN m[x] /\ w[x][j] = m[x][j]
    BY <1>2, <1>3
  <2>2. m[x][j].data \in DOMAIN m \ loose /\ Len(m[m[x][j].data]) = m[x][j].n
    BY <1>3, <2>1 DEF Owned
  <2>3. QED
    BY <1>1, <2>1, <2>2
<1>4. ASSUME NEW x \in DOMAIN w, NEW y \in DOMAIN w, NEW j \in DOMAIN w[x], NEW k \in DOMAIN w[y],
             w[x][j].n > 0 /\ w[y][k].n > 0 /\ w[x][j].data = w[y][k].data
      PROVE  x = y /\ j = k
  BY <1>2, <1>4 DEF Owned
<1>5. ASSUME NEW d \in (Block \cap DOMAIN w) \ (loose \cup ({b} \cap Block))
      PROVE  \E x \in DOMAIN w : d \in Arrays(w, x)
  <2>1. PICK x \in DOMAIN m : d \in Arrays(m, x)
    BY <1>1 DEF Owned
  <2>2. d \in Arrays(w, x)
    BY <1>1, <2>1 DEF Arrays
  <2>3. QED
    BY <1>1, <2>2
<1>6. loose \cup ({b} \cap Block) \subseteq Block \cap DOMAIN w
  BY <1>1 DEF Owned
<1>7. Owned(w, loose \cup ({b} \cap Block))
  BY <1>3, <1>4, <1>5, <1>6 DEF Owned
<1>8. QED
  BY <1>1, <1>7 DEF w

\* Free: blocks go that nobody else owns, and that own each other at most.
LEMMA FreeOwned ==
    ASSUME NEW m, NEW loose, Memory(m), Owned(m, loose), NEW S,
           OwnsWithin(m, S),
           \A b \in DOMAIN m \ S : Arrays(m, b) \cap S = {}
    PROVE  /\ Memory(Without(m, S))
           /\ Owned(Without(m, S), loose \ S)
<1> DEFINE w == Without(m, S)
<1> HIDE DEF w
<1>1. /\ Memory(w)
      /\ DOMAIN w = DOMAIN m \ S
      /\ \A x \in DOMAIN m \ S : w[x] = m[x]
  BY WithoutFacts DEF w
<1>2. ASSUME NEW x \in DOMAIN w, NEW j \in DOMAIN w[x], w[x][j].n > 0
      PROVE  /\ w[x][j].data \in DOMAIN w \ (loose \ S)
             /\ Len(w[w[x][j].data]) = w[x][j].n
  <2>1. /\ x \in DOMAIN m \ S /\ j \in DOMAIN m[x] /\ w[x][j] = m[x][j]
        /\ w[x][j].data \in DOMAIN m \ loose
        /\ Len(m[m[x][j].data]) = m[x][j].n
    BY <1>1, <1>2 DEF Owned
  <2>2. w[x][j].data \in Arrays(m, x)
    BY <1>2, <2>1, ArraysFacts
  <2>3. QED
    BY <1>1, <2>1, <2>2
<1>3. ASSUME NEW x \in DOMAIN w, NEW y \in DOMAIN w, NEW j \in DOMAIN w[x], NEW k \in DOMAIN w[y],
             w[x][j].n > 0 /\ w[y][k].n > 0 /\ w[x][j].data = w[y][k].data
      PROVE  x = y /\ j = k
  BY <1>1, <1>3 DEF Owned
<1>4. ASSUME NEW d \in (Block \cap DOMAIN w) \ (loose \ S)
      PROVE  \E x \in DOMAIN w : d \in Arrays(w, x)
  <2>1. PICK x \in DOMAIN m : d \in Arrays(m, x)
    BY <1>1 DEF Owned
  <2>2. x \notin S
    BY <1>1, <2>1 DEF OwnsWithin
  <2>3. d \in Arrays(w, x)
    BY <1>1, <2>1, <2>2 DEF Arrays
  <2>4. QED
    BY <1>1, <2>2, <2>3
<1>5. loose \ S \subseteq Block \cap DOMAIN w
  BY <1>1 DEF Owned
<1>6. Owned(w, loose \ S)
  BY <1>2, <1>3, <1>4, <1>5 DEF Owned
<1>7. QED
  BY <1>1, <1>6 DEF w

\* What is below a node that was taken out has no owner elsewhere.
LEMMA UnderApart ==
    ASSUME NEW m, NEW loose, Memory(m), Owned(m, loose),
           NEW c \in Cell, c.n > 0 => c.data \in loose
    PROVE  /\ \A b \in DOMAIN m \ Under(m, c) : Arrays(m, b) \cap Under(m, c) = {}
           /\ Under(m, c) \cap loose \subseteq {c.data}
           /\ Under(m, c) \subseteq DOMAIN m
<1>1. ASSUME NEW d \in Under(m, c), d # c.data
      PROVE  d \in DOMAIN m \ loose /\ \A b \in DOMAIN m : d \in Arrays(m, b) => b \in Under(m, c)
  <2>1. PICK b \in Under(m, c) \cap DOMAIN m : d \in Arrays(m, b)
    BY <1>1, UnderOwned
  <2>2. PICK i \in DOMAIN m[b] : m[b][i].n > 0 /\ m[b][i].data = d
    BY <2>1, ArraysFacts
  <2>3. QED
    BY <2>1, <2>2, OneOwner
<1>2. ASSUME c.data \in Under(m, c)
      PROVE  c.data \in DOMAIN m /\ \A b \in DOMAIN m : c.data \notin Arrays(m, b)
  <2>1. c.n # 0
    BY <1>2, UnderFacts
  <2>2. c.data \in loose
    BY <2>1, CellFacts
  <2>3. \A b \in DOMAIN m : c.data \notin Arrays(m, b)
    BY <2>2, ArraysFacts DEF Owned
  <2>4. QED
    BY <2>2, <2>3 DEF Owned
<1>3. QED
  BY <1>1, <1>2

\* Die: a node that was taken out is destroyed with all below it.
LEMMA DieOwned ==
    ASSUME NEW m, NEW loose, Memory(m), Owned(m, loose),
           NEW c \in Cell, c.n > 0 => c.data \in loose
    PROVE  /\ Memory(Died(m, c))
           /\ Owned(Died(m, c), loose \ {c.data})
<1>1. OwnsWithin(m, Under(m, c))
  BY UnderFacts
<1>2. Memory(Died(m, c)) /\ Owned(Died(m, c), loose \ Under(m, c))
  BY <1>1, UnderApart, FreeOwned DEF Died
<1>3. loose \ Under(m, c) = loose \ {c.data}
  <2>1. c.data \in loose => c.n > 0
    BY CellFacts, StorageAssumption DEF Owned
  <2>2. QED
    BY <2>1, UnderFacts, UnderApart
<1>4. QED
  BY <1>2, <1>3

\* A new block for one node, that gets loose children.
LEMMA PlaceOwned ==
    ASSUME NEW m, NEW loose, Memory(m), Owned(m, loose),
           NEW b \in (Var \cup Block) \ DOMAIN m,
           NEW c \in Cell, c.n > 0 => c.data \in loose /\ Len(m[c.data]) = c.n
    PROVE  /\ Memory(With(m, b, <<c>>))
           /\ Owned(With(m, b, <<c>>), (loose \ {c.data}) \cup ({b} \cap Block))
<1> DEFINE w == With(m, b, <<Raw>>)
<1> DEFINE l == loose \cup ({b} \cap Block)
<1>1. Raw \in Cell /\ Raw.n = 0
  BY NewCells DEF Labels
<1>2. <<Raw>> \in Seq(Cell) /\ Len(<<Raw>>) = 1 /\ DOMAIN <<Raw>> = {1} /\ <<Raw>>[1] = Raw
  BY <1>1
<1>3. Memory(w) /\ Owned(w, l)
  <2>1. \A i \in DOMAIN <<Raw>> : <<Raw>>[i].n = 0
    BY <1>1, <1>2
  <2>2. QED
    BY <1>2, <2>1, AllocateOwned
<1> DEFINE r == <<Raw>>
<1> HIDE DEF r, w
<1>4. /\ DOMAIN w = DOMAIN m \cup {b}
      /\ w[b] = <<Raw>>
      /\ \A x \in DOMAIN m : w[x] = m[x]
  <2>1. r \in Seq(Cell) /\ (b \in Var => Len(r) = 1)
    BY <1>2 DEF r
  <2>2. w = With(m, b, r)
    BY DEF r, w
  <2>3. DOMAIN w = DOMAIN m \cup {b}
    BY <2>1, <2>2, WithFacts
  <2>4. w[b] = r /\ \A x \in DOMAIN m : w[x] = m[x]
    BY <2>2, WithCells
  <2>5. QED
    BY <2>3, <2>4 DEF r
<1>5. c.n > 0 => c.data \in l /\ Len(w[c.data]) = c.n
  BY <1>4 DEF Owned
<1>6. b \in DOMAIN w /\ 1 \in DOMAIN w[b] /\ w[b][1].n = 0
  BY <1>1, <1>2, <1>4
<1> HIDE DEF l
<1>7. Memory(Put(w, <<b, 1>>, c)) /\ Owned(Put(w, <<b, 1>>, c), l \ {c.data})
  BY <1>3, <1>5, <1>6, GiveOwned
<1>8. Put(w, <<b, 1>>, c) = With(m, b, <<c>>)
  <2>1. [<<Raw>> EXCEPT ![1] = c] = <<c>>
    OBVIOUS
  <2>2. Put(w, <<b, 1>>, c) = [w EXCEPT ![b] = <<c>>]
    BY <1>4, <2>1 DEF Put
  <2>3. QED
    BY <1>4, <2>2 DEF With, w
<1>9. b # c.data \/ b \notin Block
  <2>1. c.n = 0 => c.data \notin Block
    BY CellFacts, StorageAssumption
  <2>2. QED
    BY <2>1, CellFacts DEF Owned
<1>10. l \ {c.data} = (loose \ {c.data}) \cup ({b} \cap Block)
  BY <1>9 DEF l
<1>11. QED
  BY <1>7, <1>8, <1>10

\* Refill: the nodes of a loose array, perhaps with one more that gets loose
\* children, move to a new array, and the old one is freed.
LEMMA RefillOwned ==
    ASSUME NEW m, NEW loose, Memory(m), Owned(m, loose),
           NEW d \in loose, NEW b \in Block \ DOMAIN m, NEW s \in Seq(Cell),
           NEW c \in Cell, c.n > 0 => c.data \in loose \ {d} /\ Len(m[c.data]) = c.n,
           \A i \in DOMAIN s : s[i].n > 0 => s[i] = c \/ \E j \in DOMAIN m[d] : s[i] = m[d][j],
           \A i, k \in DOMAIN s : s[i].n > 0 /\ s[k].n > 0 /\ s[i].data = s[k].data => i = k,
           \A j \in DOMAIN m[d] : m[d][j].n > 0 => \E i \in DOMAIN s : s[i] = m[d][j],
           c.n > 0 => \E i \in DOMAIN s : s[i] = c
    PROVE  /\ Memory(With(Without(m, {d}), b, s))
           /\ Owned(With(Without(m, {d}), b, s), (loose \ {d, c.data}) \cup {b})
<1> DEFINE o == Without(m, {d})
<1> DEFINE w == With(o, b, s)
<1> HIDE DEF o, w
<1>1. /\ Memory(o)
      /\ DOMAIN o = DOMAIN m \ {d}
      /\ \A x \in DOMAIN m \ {d} : o[x] = m[x]
  BY WithoutFacts DEF o
<1>2. /\ Memory(w)
      /\ DOMAIN w = (DOMAIN m \ {d}) \cup {b}
      /\ w[b] = s
      /\ \A x \in DOMAIN m \ {d} : w[x] = m[x]
  <2>1. b \in (Var \cup Block) \ DOMAIN o /\ b \notin Var
    BY <1>1, StorageAssumption
  <2>2. /\ Memory(w)
        /\ DOMAIN w = DOMAIN o \cup {b}
        /\ w[b] = s
        /\ \A x \in DOMAIN o : w[x] = o[x]
    <3>1. b \in Var => Len(s) = 1
      BY <2>1
    <3>2. b \in (Var \cup Block) \ DOMAIN o
      BY <2>1
    <3>3. Memory(o)
      BY <1>1
    <3>4. Memory(w) /\ DOMAIN w = DOMAIN o \cup {b}
      BY <3>1, <3>2, <3>3, WithFacts DEF w
    <3>5. w[b] = s /\ \A x \in DOMAIN o : w[x] = o[x]
      BY <3>2, WithCells DEF w
    <3>6. QED
      BY <3>4, <3>5
  <2>3. QED
    BY <1>1, <2>2
<1>3. d \in Block \cap DOMAIN m /\ \A x \in DOMAIN m : d \notin Arrays(m, x)
  BY ArraysFacts DEF Owned
<1>4. ASSUME NEW x \in DOMAIN m, NEW j \in DOMAIN m[x], m[x][j].n > 0
      PROVE  /\ m[x][j].data \in DOMAIN w \ (loose \cup {b})
             /\ Len(w[m[x][j].data]) = m[x][j].n
  <2>1. m[x][j].data \in DOMAIN m \ loose /\ Len(m[m[x][j].data]) = m[x][j].n
    BY <1>4 DEF Owned
  <2>2. QED
    BY <1>2, <2>1
<1>5. c.n > 0 => /\ c.data \in DOMAIN w \ {b}
                 /\ c.data \in loose
                 /\ Len(w[c.data]) = c.n
  BY <1>2 DEF Owned
\* Where a node of the new storage comes from.
<1>6. ASSUME NEW x \in DOMAIN w, NEW j \in DOMAIN w[x], w[x][j].n > 0
      PROVE  \/ x = b /\ w[x][j] = c
             \/ \E i \in DOMAIN m[d] : x = b /\ w[x][j] = m[d][i]
             \/ x \in DOMAIN m \ {d} /\ x # b /\ j \in DOMAIN m[x] /\ w[x][j] = m[x][j]
  BY <1>2, <1>6
<1>7. ASSUME NEW x \in DOMAIN w, NEW j \in DOMAIN w[x], w[x][j].n > 0
      PROVE  /\ w[x][j].data \in DOMAIN w \ ((loose \ {d, c.data}) \cup {b})
             /\ Len(w[w[x][j].data]) = w[x][j].n
  <2>1. CASE x = b /\ w[x][j] = c
    BY <1>5, <1>7, <2>1
  <2>2. CASE \E i \in DOMAIN m[d] : x = b /\ w[x][j] = m[d][i]
    BY <1>3, <1>4, <1>7, <2>2
  <2>3. CASE x \in DOMAIN m \ {d} /\ x # b /\ j \in DOMAIN m[x] /\ w[x][j] = m[x][j]
    BY <1>4, <1>7, <2>3
  <2>4. QED
    BY <1>6, <1>7, <2>1, <2>2, <2>3
<1>8. ASSUME NEW x \in DOMAIN w, NEW y \in DOMAIN w, NEW j \in DOMAIN w[x], NEW k \in DOMAIN w[y],
             w[x][j].n > 0 /\ w[y][k].n > 0 /\ w[x][j].data = w[y][k].data
      PROVE  x = y /\ j = k
  <2>1. CASE x = b /\ y = b
    BY <1>2, <1>8, <2>1
  <2>2. ASSUME NEW u \in DOMAIN w, NEW v \in DOMAIN w, NEW g \in DOMAIN w[u], NEW h \in DOMAIN w[v],
               u = b, v # b, w[u][g].n > 0 /\ w[v][h].n > 0
        PROVE  w[u][g].data # w[v][h].data
    <3>1. v \in DOMAIN m \ {d} /\ h \in DOMAIN m[v] /\ w[v][h] = m[v][h]
      BY <1>2, <2>2
    <3>2. CASE w[u][g] = c
      BY <1>4, <1>5, <2>2, <3>1, <3>2
    <3>3. CASE \E i \in DOMAIN m[d] : w[u][g] = m[d][i]
      BY <1>3, <2>2, <3>1, <3>3 DEF Owned
    <3>4. QED
      BY <1>6, <2>2, <3>2, <3>3
  <2>3. CASE x # b /\ y # b
    <3>1. /\ x \in DOMAIN m /\ j \in DOMAIN m[x] /\ w[x][j] = m[x][j]
          /\ y \in DOMAIN m /\ k \in DOMAIN m[y] /\ w[y][k] = m[y][k]
      BY <1>2, <2>3
    <3>2. QED
      BY <1>8, <3>1 DEF Owned
  <2>4. QED
    BY <1>8, <2>1, <2>2, <2>3
<1>9. ASSUME NEW e \in (Block \cap DOMAIN w) \ ((loose \ {d, c.data}) \cup {b})
      PROVE  \E x \in DOMAIN w : e \in Arrays(w, x)
  <2>1. e \in DOMAIN m \ {d}
    BY <1>2
  <2>2. CASE e \in loose
    <3>1. e = c.data /\ c.n > 0
      BY <2>1, <2>2, CellFacts, StorageAssumption
    <3>2. PICK i \in DOMAIN s : s[i] = c
      BY <3>1
    <3>3. e \in Arrays(w, b)
      BY <1>2, <3>1, <3>2, ArraysFacts
    <3>4. QED
      BY <1>2, <3>3
  <2>3. CASE e \notin loose
    <3>1. PICK x \in DOMAIN m : e \in Arrays(m, x)
      BY <2>1, <2>3 DEF Owned
    <3>2. CASE x = d
      <4>1. PICK j \in DOMAIN m[d] : m[d][j].n > 0 /\ m[d][j].data = e
        BY <3>1, <3>2, ArraysFacts
      <4>2. PICK i \in DOMAIN s : s[i] = m[d][j]
        BY <4>1
      <4>3. e \in Arrays(w, b)
        BY <1>2, <4>1, <4>2, ArraysFacts
      <4>4. QED
        BY <1>2, <4>3
    <3>3. CASE x # d
      <4>1. e \in Arrays(w, x) /\ x \in DOMAIN w
        BY <1>2, <3>1, <3>3 DEF Arrays
      <4>2. QED
        BY <4>1
    <3>4. QED
      BY <3>2, <3>3
  <2>4. QED
    BY <2>2, <2>3
<1>10. (loose \ {d, c.data}) \cup {b} \subseteq Block \cap DOMAIN w
  BY <1>2 DEF Owned
<1>11. Owned(w, (loose \ {d, c.data}) \cup {b})
  BY <1>7, <1>8, <1>9, <1>10 DEF Owned
<1>12. QED
  BY <1>2, <1>11 DEF w, o

-----------------------------------------------------------------------------
(* Lists of children. *)

\* What InsertAt makes of a list.
LEMMA InsertAtFacts ==
    ASSUME NEW S, NEW s \in Seq(S), NEW i \in 1..(Len(s) + 1), NEW e \in S
    PROVE  /\ InsertAt(s, i, e) \in Seq(S)
           /\ Len(InsertAt(s, i, e)) = Len(s) + 1
           /\ InsertAt(s, i, e)[i] = e
           /\ \A k \in 1..(Len(s) + 1) : k < i => InsertAt(s, i, e)[k] = s[k]
           /\ \A k \in 1..(Len(s) + 1) : k > i => InsertAt(s, i, e)[k] = s[k - 1]
<1> DEFINE p == SubSeq(s, 1, i - 1)
<1> DEFINE q == SubSeq(s, i, Len(s))
<1>1. p \in Seq(S) /\ Len(p) = i - 1 /\ \A k \in 1..(i - 1) : p[k] = s[k]
  OBVIOUS
<1>2. q \in Seq(S) /\ Len(q) = Len(s) + 1 - i /\ \A k \in 1..(Len(s) + 1 - i) : q[k] = s[i + k - 1]
  OBVIOUS
<1>3. InsertAt(s, i, e) = (p \o <<e>>) \o q
  BY DEF InsertAt
<1> HIDE DEF p, q
<1> DEFINE r == p \o <<e>>
<1>4. r \in Seq(S) /\ Len(r) = i /\ r[i] = e /\ \A k \in 1..(i - 1) : r[k] = p[k]
  BY <1>1
<1> HIDE DEF r
<1>5. /\ r \o q \in Seq(S)
      /\ Len(r \o q) = Len(s) + 1
      /\ \A k \in 1..(Len(s) + 1) : (r \o q)[k] = IF k <= i THEN r[k] ELSE q[k - i]
  BY <1>2, <1>4
<1>6. \A k \in 1..(Len(s) + 1) : k > i => (r \o q)[k] = s[k - 1]
  BY <1>2, <1>5
<1>7. \A k \in 1..(Len(s) + 1) : k < i => (r \o q)[k] = s[k]
  BY <1>1, <1>4, <1>5
<1>8. InsertAt(s, i, e) = r \o q
  BY <1>3 DEF r
<1>9. QED
  BY <1>4, <1>5, <1>6, <1>7, <1>8

\* What RemoveAt makes of a list.
LEMMA RemoveAtFacts ==
    ASSUME NEW S, NEW s \in Seq(S), NEW i \in 1..Len(s)
    PROVE  /\ RemoveAt(s, i) \in Seq(S)
           /\ Len(RemoveAt(s, i)) = Len(s) - 1
           /\ \A k \in 1..(Len(s) - 1) : RemoveAt(s, i)[k] = IF k < i THEN s[k] ELSE s[k + 1]
<1> DEFINE p == SubSeq(s, 1, i - 1)
<1> DEFINE q == SubSeq(s, i + 1, Len(s))
<1>1. p \in Seq(S) /\ Len(p) = i - 1 /\ \A k \in 1..(i - 1) : p[k] = s[k]
  OBVIOUS
<1>2. q \in Seq(S) /\ Len(q) = Len(s) - i /\ \A k \in 1..(Len(s) - i) : q[k] = s[i + k]
  OBVIOUS
<1>3. RemoveAt(s, i) = p \o q
  BY DEF RemoveAt
<1> HIDE DEF p, q
<1>4. /\ p \o q \in Seq(S)
      /\ Len(p \o q) = Len(s) - 1
      /\ \A k \in 1..(Len(s) - 1) : (p \o q)[k] = IF k < i THEN p[k] ELSE q[k - (i - 1)]
  <2>0. p \in Seq(S) /\ q \in Seq(S)
    BY <1>1, <1>2
  <2>1. p \o q \in Seq(S) /\ Len(p \o q) = Len(p) + Len(q)
    BY <2>0, ConcatProperties
  <2>2. \A k \in 1..(Len(p) + Len(q)) : (p \o q)[k] = IF k <= Len(p) THEN p[k] ELSE q[k - Len(p)]
    BY <2>0, ConcatProperties
  <2>3. Len(p) = i - 1 /\ Len(p) + Len(q) = Len(s) - 1
    BY <1>1, <1>2
  <2>4. \A k \in 1..(Len(s) - 1) : k <= i - 1 <=> k < i
    OBVIOUS
  <2>5. QED
    BY <2>1, <2>2, <2>3, <2>4
<1>5. \A k \in 1..(Len(s) - 1) : (p \o q)[k] = IF k < i THEN s[k] ELSE s[k + 1]
  BY <1>1, <1>2, <1>4
<1>6. QED
  BY <1>3, <1>4, <1>5

-----------------------------------------------------------------------------
(* The nodes that the client can name. *)

\* The levels of the walk through a tree exist.
LEMMA LevelsExist ==
    ASSUME NEW v, NEW n \in Nat
    PROVE  \E f : f = [k \in 0..n |-> IF k = 0 THEN {Root(v)} ELSE Step(f[k - 1])]
<1> DEFINE L(i) == \E f : f = [k \in 0..i |-> IF k = 0 THEN {Root(v)} ELSE Step(f[k - 1])]
<1> DEFINE T == {i \in Nat : ~L(i)}
<1>1. SUFFICES ASSUME T # {} PROVE FALSE
  BY Zenon
<1>2. PICK m \in T : \A i \in T : m <= i
  BY <1>1, LeastNatural
<1>3. m # 0
  <2>1. SUFFICES ASSUME m = 0 PROVE L(0)
    BY <1>2
  <2> DEFINE f == [k \in 0..0 |-> {Root(v)}]
  <2>2. f = [k \in 0..0 |-> IF k = 0 THEN {Root(v)} ELSE Step(f[k - 1])]
    OBVIOUS
  <2>3. QED
    BY <2>2, Zenon
<1>4. m - 1 \in Nat /\ m \in Nat
  BY <1>3
<1>5. m - 1 \notin T
  <2> HIDE DEF L
  <2>1. QED
    BY <1>2, <1>4
<1>6. PICK f : f = [k \in 0..(m - 1) |-> IF k = 0 THEN {Root(v)} ELSE Step(f[k - 1])]
  BY <1>4, <1>5, Zenon
<1> DEFINE g == [k \in 0..m |-> IF k = m THEN Step(f[m - 1]) ELSE f[k]]
<1>7. g = [k \in 0..m |-> IF k = 0 THEN {Root(v)} ELSE Step(g[k - 1])]
  <2>1. ASSUME NEW k \in 0..m
        PROVE  g[k] = IF k = 0 THEN {Root(v)} ELSE Step(g[k - 1])
    <3>1. CASE k = m
      <4>1. g[k] = Step(f[m - 1])
        BY <3>1
      <4>2. g[k - 1] = f[m - 1]
        BY <1>4, <3>1
      <4>3. QED
        BY <1>3, <3>1, <4>1, <4>2
    <3>2. CASE k # m
      <4>1. k \in 0..(m - 1)
        BY <1>4, <3>2
      <4>2. g[k] = f[k]
        BY <3>2
      <4>3. f[k] = IF k = 0 THEN {Root(v)} ELSE Step(f[k - 1])
        BY <1>6, <4>1
      <4>4. CASE k = 0
        BY <4>2, <4>3, <4>4
      <4>5. CASE k # 0
        <5>1. k - 1 \in 0..m /\ k - 1 # m
          BY <1>4, <4>1, <4>5
        <5>2. g[k - 1] = f[k - 1]
          BY <5>1
        <5>3. QED
          BY <4>2, <4>3, <4>5, <5>2
      <4>6. QED
        BY <4>4, <4>5
    <3>3. QED
      BY <3>1, <3>2
  <2> DEFINE h == [k \in 0..m |-> IF k = 0 THEN {Root(v)} ELSE Step(g[k - 1])]
  <2>2. DOMAIN g = 0..m /\ DOMAIN h = 0..m
    OBVIOUS
  <2>3. \A k \in 0..m : g[k] = h[k]
    BY <2>1
  <2>4. g = [k \in 0..m |-> g[k]] /\ h = [k \in 0..m |-> h[k]]
    OBVIOUS
  <2> HIDE DEF g, h
  <2>5. g = h
    BY <2>3, <2>4
  <2>6. QED
    BY <2>5 DEF h
<1>8. L(m)
  <2> HIDE DEF g
  <2>1. QED
    BY <1>7, Zenon
<1>9. QED
  BY <1>2, <1>8

\* The walk is the union of its levels.
LEMMA WalkLevels ==
    ASSUME NEW v
    PROVE  \E f : /\ f = [k \in 0..Cardinality(Block) |-> IF k = 0 THEN {Root(v)} ELSE Step(f[k - 1])]
                  /\ Walk(v) = UNION {f[k] : k \in DOMAIN f}
<1>1. Cardinality(Block) \in Nat
  BY StorageAssumption, FS_CardinalityType
<1>2. \E f : f = [k \in 0..Cardinality(Block) |-> IF k = 0 THEN {Root(v)} ELSE Step(f[k - 1])]
  BY <1>1, LevelsExist
<1>3. QED
  BY <1>2, Zenon DEF Walk

\* The root is the first level, and each level steps down from the one before.
Levels(v, N, f) ==
    /\ N \in Nat /\ N = Cardinality(Block)
    /\ f[0] = {Root(v)}
    /\ \A k \in 1..N : f[k] = Step(f[k - 1])
    /\ \A x : x \in Walk(v) <=> \E k \in 0..N : x \in f[k]

\* A walk has such levels.
LEMMA LevelFacts ==
    ASSUME NEW v
    PROVE  \E N, f : Levels(v, N, f)
<1> DEFINE N == Cardinality(Block)
<1>1. PICK f : /\ f = [k \in 0..N |-> IF k = 0 THEN {Root(v)} ELSE Step(f[k - 1])]
               /\ Walk(v) = UNION {f[k] : k \in DOMAIN f}
  BY WalkLevels
<1>2. N \in Nat
  BY StorageAssumption, FS_CardinalityType
<1> HIDE DEF N
<1>3. /\ DOMAIN f = 0..N
      /\ f[0] = {Root(v)}
      /\ \A k \in 1..N : f[k] = Step(f[k - 1])
  <2> DEFINE E(k) == IF k = 0 THEN {Root(v)} ELSE Step(f[k - 1])
  <2>1. f = [k \in 0..N |-> E(k)]
    BY <1>1
  <2> HIDE DEF E
  <2>2. DOMAIN f = 0..N /\ \A k \in 0..N : f[k] = E(k)
    BY <2>1
  <2>3. 0 \in 0..N /\ E(0) = {Root(v)}
    BY <1>2 DEF E
  <2>4. \A k \in 1..N : k \in 0..N /\ E(k) = Step(f[k - 1])
    BY <1>2 DEF E
  <2>5. QED
    BY <2>2, <2>3, <2>4
<1>4. \A x : x \in Walk(v) <=> \E k \in 0..N : x \in f[k]
  BY <1>1, <1>3
<1>5. QED
  BY <1>2, <1>3, <1>4 DEF Levels, N

\* A set of arrays that owns itself: whoever owns one of them lies in one.
OwnedWithin(m, S) == \A b \in DOMAIN m : Arrays(m, b) \cap S # {} => b \in S

\* A node with a name has a place, and it lies in no arrays that own themselves.
LEMMA NamedFacts ==
    ASSUME Memory(mem), NEW loose, Owned(mem, loose), NEW x \in Named
    PROVE  \E b \in DOMAIN mem : \E i \in DOMAIN mem[b] :
             /\ x.cell = <<b, i>>
             /\ \A S \in SUBSET Block : OwnedWithin(mem, S) => b \notin S
<1> DEFINE Good(y) == \E b \in DOMAIN mem : \E i \in DOMAIN mem[b] :
                        /\ y.cell = <<b, i>>
                        /\ \A S \in SUBSET Block : OwnedWithin(mem, S) => b \notin S
<1>1. PICK v \in Var \cap DOMAIN mem : x \in Walk(v)
  BY DEF Named
<1>2. Good(Root(v))
  <2>1. Root(v).cell = <<v, 1>>
    BY DEF Root
  <2>2. 1 \in DOMAIN mem[v]
    BY DEF Memory
  <2>3. v \notin Block
    BY StorageAssumption
  <2>4. QED
    BY <2>1, <2>2, <2>3
<1>3. ASSUME NEW names, \A y \in names : Good(y), NEW z \in Step(names)
      PROVE  Good(z)
  <2>1. PICK y \in names : \E i \in 1..At(mem, y.cell).n :
               z = [var |-> y.var, path |-> Append(y.path, i), cell |-> <<At(mem, y.cell).data, i>>]
    BY <1>3 DEF Step
  <2>2. PICK b \in DOMAIN mem : \E i \in DOMAIN mem[b] :
               /\ y.cell = <<b, i>>
               /\ \A S \in SUBSET Block : OwnedWithin(mem, S) => b \notin S
    BY <1>3
  <2>0. PICK i \in DOMAIN mem[b] : y.cell = <<b, i>>
    BY <2>2
  <2> DEFINE c == mem[b][i]
  <2>3. At(mem, y.cell) = c /\ c \in Cell
    BY <2>0, MemoryCells DEF At
  <2>4. PICK k \in 1..c.n : z.cell = <<c.data, k>>
    BY <2>1, <2>3
  <2>5. c.n > 0
    BY <2>3, <2>4, CellFacts
  <2>6. c.data \in DOMAIN mem /\ Len(mem[c.data]) = c.n /\ c.data \in Arrays(mem, b)
    BY <2>5, OneOwner
  <2>7. k \in DOMAIN mem[c.data]
    BY <2>4, <2>6, MemoryCells
  <2>8. \A S \in SUBSET Block : OwnedWithin(mem, S) => c.data \notin S
    BY <2>2, <2>6 DEF OwnedWithin
  <2> HIDE DEF c
  <2>9. QED
    BY <2>4, <2>6, <2>7, <2>8
<1>4. PICK N, f : Levels(v, N, f)
  BY LevelFacts
<1>5. /\ N \in Nat
      /\ f[0] = {Root(v)}
      /\ \A k \in 1..N : f[k] = Step(f[k - 1])
      /\ \A y : y \in Walk(v) <=> \E k \in 0..N : y \in f[k]
  BY <1>4 DEF Levels
<1> HIDE DEF Good
<1> DEFINE T == {k \in 0..N : \E y \in f[k] : ~Good(y)}
<1>6. T = {}
  <2>1. SUFFICES ASSUME T # {} PROVE FALSE
    OBVIOUS
  <2>2. PICK k \in T : \A i \in T : k <= i
    <3>1. T \in SUBSET Nat
      OBVIOUS
    <3>2. QED
      BY <2>1, <3>1, LeastNatural
  <2>3. k # 0
    BY <1>2, <1>5, <2>2
  <2>4. k \in 1..N /\ k - 1 \in 0..N /\ k - 1 \notin T
    <3>1. k \in 0..N
      OBVIOUS
    <3>2. k \in 1..N /\ k - 1 \in 0..N
      BY <1>5, <2>3, <3>1
    <3> HIDE DEF T
    <3>3. k - 1 \notin T
      BY <2>2, <3>2
    <3>4. QED
      BY <3>2, <3>3
  <2>5. \A y \in f[k - 1] : Good(y)
    BY <2>4
  <2>6. f[k] = Step(f[k - 1])
    BY <1>5, <2>4
  <2>7. QED
    BY <1>3, <2>2, <2>5, <2>6
<1>7. PICK k \in 0..N : x \in f[k]
  BY <1>1, <1>5
<1>8. Good(x)
  BY <1>6, <1>7
<1>9. QED
  BY <1>8 DEF Good

\* Who owns an array below a node is a node below it, or the node itself.
LEMMA UnderBackward ==
    ASSUME NEW m, NEW loose, Memory(m), Owned(m, loose),
           NEW b \in DOMAIN m, NEW i \in DOMAIN m[b]
    PROVE  \A x \in DOMAIN m : Arrays(m, x) \cap Under(m, m[b][i]) # {} =>
               x \in Under(m, m[b][i]) \/ x = b
<1> DEFINE c == m[b][i]
<1>1. c \in Cell
  BY MemoryCells
<1>2. ASSUME NEW x \in DOMAIN m, NEW d \in Arrays(m, x), d \in Under(m, c)
      PROVE  x \in Under(m, c) \/ x = b
  <2>1. c.n # 0
    BY <1>1, <1>2, UnderFacts
  <2>2. c.n > 0
    BY <1>1, <2>1, CellFacts
  <2>3. CASE d = c.data
    BY <1>2, <2>2, <2>3, OneOwner
  <2>4. CASE d # c.data
    <3>1. PICK y \in Under(m, c) \cap DOMAIN m : d \in Arrays(m, y)
      BY <1>1, <1>2, <2>4, UnderOwned
    <3>2. PICK j \in DOMAIN m[y] : m[y][j].n > 0 /\ m[y][j].data = d
      BY <3>1, ArraysFacts
    <3>3. x = y
      BY <1>2, <3>1, <3>2, OneOwner
    <3>4. QED
      BY <3>1, <3>3
  <2>5. QED
    BY <2>3, <2>4
<1>3. QED
  BY <1>2

\* A node that the client can name is not below itself.
LEMMA NotBelowItself ==
    ASSUME Memory(mem), NEW loose, Owned(mem, loose), NEW x \in Named
    PROVE  \E b \in DOMAIN mem : \E i \in DOMAIN mem[b] :
             /\ x.cell = <<b, i>>
             /\ At(mem, x.cell) = mem[b][i]
             /\ mem[b][i] \in Cell
             /\ b \notin Under(mem, mem[b][i])
<1>1. PICK b \in DOMAIN mem : \E i \in DOMAIN mem[b] :
             /\ x.cell = <<b, i>>
             /\ \A S \in SUBSET Block : OwnedWithin(mem, S) => b \notin S
  BY NamedFacts
<1>2. PICK i \in DOMAIN mem[b] : x.cell = <<b, i>>
  BY <1>1
<1> DEFINE U == Under(mem, mem[b][i])
<1>3. mem[b][i] \in Cell
  BY MemoryCells
<1>4. U \in SUBSET Block
  BY <1>3, UnderFacts
<1>5. b \in U => OwnedWithin(mem, U)
  BY UnderBackward DEF OwnedWithin
<1> HIDE DEF U
<1>6. b \notin U
  BY <1>1, <1>4, <1>5
<1>7. QED
  BY <1>2, <1>3, <1>6 DEF U, At

-----------------------------------------------------------------------------
(* The arguments that a node is made from. *)

\* The array that a cell owns.
Owning(c) == IF c.n > 0 THEN {c.data} ELSE {}

\* Take, of a node with or without children.
LEMMA EmptiedOwned ==
    ASSUME NEW m, NEW loose, Memory(m), Owned(m, loose),
           NEW b \in DOMAIN m, NEW i \in DOMAIN m[b]
    PROVE  /\ Memory(Emptied(m, <<b, i>>))
           /\ Owned(Emptied(m, <<b, i>>), loose \cup Owning(m[b][i]))
           /\ Owning(m[b][i]) \cap loose = {}
<1> DEFINE c == m[b][i]
<1>1. c \in Cell
  BY MemoryCells
<1>2. CASE c.n > 0
  <2>1. Owning(c) = {c.data} /\ c.data \notin loose
    BY <1>2, OneOwner DEF Owning
  <2>2. QED
    BY <1>2, <2>1, TakeOwned
<1>3. CASE c.n = 0
  <2> DEFINE l == Leaf(c.label)
  <2>1. l \in Cell /\ l.n = 0 /\ l.data = NoBlock
    BY <1>1, CellFacts DEF Leaf
  <2>2. Emptied(m, <<b, i>>) = Put(m, <<b, i>>, l)
    BY DEF Emptied, At
  <2> HIDE DEF l
  <2>3. Memory(Put(m, <<b, i>>, l)) /\ Owned(Put(m, <<b, i>>, l), loose \ {l.data})
    <3>1. m[b][i].n = 0 /\ l \in Cell
      BY <1>3, <2>1
    <3>2. l.n > 0 => l.data \in loose /\ Len(m[l.data]) = l.n
      BY <2>1
    <3>3. QED
      BY <3>1, <3>2, GiveOwned
  <2>4. loose \ {l.data} = loose /\ Owning(c) = {}
    BY <1>3, <2>1, StorageAssumption DEF Owned, Owning
  <2>5. QED
    BY <2>2, <2>3, <2>4
<1>4. QED
  BY <1>1, <1>2, <1>3, CellFacts

\* It changes one cell.
LEMMA EmptiedFacts ==
    ASSUME NEW m, Memory(m), NEW b \in DOMAIN m, NEW i \in DOMAIN m[b]
    PROVE  /\ DOMAIN Emptied(m, <<b, i>>) = DOMAIN m
           /\ \A x \in DOMAIN m : /\ DOMAIN Emptied(m, <<b, i>>)[x] = DOMAIN m[x]
                                  /\ Len(Emptied(m, <<b, i>>)[x]) = Len(m[x])
           /\ \A x \in DOMAIN m \ {b} : Emptied(m, <<b, i>>)[x] = m[x]
           /\ Emptied(m, <<b, i>>)[b][i] = Leaf(m[b][i].label)
           /\ \A j \in DOMAIN m[b] \ {i} : Emptied(m, <<b, i>>)[b][j] = m[b][j]
           /\ \A x \in DOMAIN m : Arrays(Emptied(m, <<b, i>>), x) \subseteq Arrays(m, x)
<1> DEFINE l == Leaf(m[b][i].label)
<1> DEFINE e == Put(m, <<b, i>>, l)
<1>1. Emptied(m, <<b, i>>) = e
  BY DEF Emptied, At
<1>2. l \in Cell /\ l.n = 0
  BY MemoryCells, CellFacts DEF Leaf
<1> HIDE DEF l, e
<1>3. /\ DOMAIN e = DOMAIN m
      /\ \A x \in DOMAIN m \ {b} : e[x] = m[x]
      /\ DOMAIN e[b] = DOMAIN m[b]
      /\ Len(e[b]) = Len(m[b])
      /\ e[b][i] = l
      /\ \A j \in DOMAIN m[b] \ {i} : e[b][j] = m[b][j]
  BY <1>2, PutFacts DEF e
<1>4. ASSUME NEW x \in DOMAIN m, NEW d \in Arrays(e, x)
      PROVE  d \in Arrays(m, x)
  <2>1. PICK j \in DOMAIN e[x] : e[x][j].n > 0 /\ e[x][j].data = d
    BY <1>4 DEF Arrays
  <2>2. j \in DOMAIN m[x] /\ e[x][j] = m[x][j]
    BY <1>2, <1>3, <2>1
  <2>3. QED
    BY <2>1, <2>2 DEF Arrays
<1>5. \A x \in DOMAIN m : DOMAIN e[x] = DOMAIN m[x] /\ Len(e[x]) = Len(m[x])
  BY <1>3
<1>6. QED
  BY <1>1, <1>3, <1>4, <1>5 DEF l

\* Filled cells.
LEMMA FilledFacts ==
    ASSUME NEW n \in Nat, NEW c \in Cell, c.n = 0
    PROVE  /\ Filled(n, c) \in Seq(Cell)
           /\ Len(Filled(n, c)) = n
           /\ \A i \in DOMAIN Filled(n, c) : Filled(n, c)[i].n = 0
           /\ \A i \in DOMAIN Filled(n, c) : Filled(n, c)[i] = c
  BY DEF Filled

\* Once an argument is evaluated and moved from, the arrays of the node that it
\* stands for are loose; the cells that were there are as they were, but for
\* the node that was moved from.
LEMMA ArgumentFacts ==
    ASSUME Memory(mem), Owned(mem, {}), NEW e \in Expr
    PROVE  /\ Value(e) \in Cell
           /\ Memory(After(e))
           /\ Owned(After(e), Owning(Value(e)))
           /\ Value(e).n > 0 => Len(After(e)[Value(e).data]) = Value(e).n
           /\ DOMAIN mem \subseteq DOMAIN After(e)
           /\ DOMAIN After(e) \subseteq DOMAIN mem \cup Owning(Value(e))
           /\ \A b \in DOMAIN mem : DOMAIN After(e)[b] = DOMAIN mem[b]
           /\ \A b \in DOMAIN mem : \A i \in DOMAIN mem[b] :
                 After(e)[b][i] = mem[b][i] \/ (e.how = "move" /\ e.from.cell = <<b, i>>)
           /\ e.how = "move" => /\ HasValue(At(mem, e.from.cell))
                                /\ After(e)[e.from.cell[1]][e.from.cell[2]].n = 0
<1>1. CASE e \in [how : {"leaf"}, label : Label]
  <2>1. Value(e) = Leaf(e.label) /\ After(e) = mem /\ e.how # "move" /\ e.label \in Label
    BY <1>1 DEF Value, After
  <2>2. Value(e) \in Cell /\ Value(e).n = 0
    BY <2>1, NewCells DEF Labels, Leaf
  <2>3. Owning(Value(e)) = {}
    BY <2>2 DEF Owning
  <2>4. QED
    BY <2>1, <2>2, <2>3
<1>2. CASE e \in [how : {"uninitialize", "null_initialize"}, label : Label, n : 1..MaxNew, block : Free]
  <2> DEFINE c == IF e.how = "uninitialize" THEN Invalid ELSE Null
  <2> DEFINE s == Filled(e.n, c)
  <2>1. /\ Value(e) = Node(e.label, e.n, e.block)
        /\ After(e) = With(mem, e.block, s)
        /\ e.how # "move"
        /\ e.label \in Label /\ e.n \in 1..MaxNew /\ e.block \in Block \ DOMAIN mem
    BY <1>2 DEF Value, After, Free
  <2>2. c \in Cell /\ c.n = 0
    BY NewCells DEF Labels
  <2>3. s \in Seq(Cell) /\ Len(s) = e.n /\ \A i \in DOMAIN s : s[i].n = 0
    BY <2>1, <2>2, BoundsAssumption, FilledFacts
  <2> HIDE DEF s
  <2>4. Value(e) \in Cell /\ Value(e).n = e.n /\ Value(e).data = e.block
    BY <2>1, NewCells, BoundsAssumption DEF Labels, Node
  <2>5. Owning(Value(e)) = {e.block}
    BY <2>1, <2>4 DEF Owning
  <2>6. e.block \in (Var \cup Block) \ DOMAIN mem /\ e.block \notin Var /\ {e.block} \cap Block = {e.block}
    BY <2>1, StorageAssumption
  <2>7. Memory(After(e)) /\ Owned(After(e), {e.block})
    <3>1. Memory(With(mem, e.block, s)) /\ Owned(With(mem, e.block, s), {} \cup ({e.block} \cap Block))
      BY <2>3, <2>6, AllocateOwned
    <3>2. QED
      BY <2>1, <2>6, <3>1
  <2>8. /\ DOMAIN After(e) = DOMAIN mem \cup {e.block}
        /\ After(e)[e.block] = s
        /\ \A x \in DOMAIN mem : After(e)[x] = mem[x]
    BY <2>1 DEF With
  <2>9. QED
    BY <2>1, <2>3, <2>4, <2>5, <2>7, <2>8
<1>3. CASE e \in [how : {"move"}, from : Valued]
  <2>1. /\ e.how = "move" /\ e.from \in Named /\ HasValue(At(mem, e.from.cell))
        /\ Value(e) = At(mem, e.from.cell)
        /\ After(e) = Emptied(mem, e.from.cell)
    BY <1>3 DEF Value, After, Valued
  <2>2. PICK b \in DOMAIN mem : \E i \in DOMAIN mem[b] :
               /\ e.from.cell = <<b, i>>
               /\ At(mem, e.from.cell) = mem[b][i]
               /\ mem[b][i] \in Cell
    BY <2>1, NotBelowItself
  <2>3. PICK i \in DOMAIN mem[b] :
               /\ e.from.cell = <<b, i>>
               /\ At(mem, e.from.cell) = mem[b][i]
               /\ mem[b][i] \in Cell
    BY <2>2
  <2> DEFINE t == Emptied(mem, <<b, i>>)
  <2>4. After(e) = t /\ Value(e) = mem[b][i]
    BY <2>1, <2>3
  <2>5. Memory(t) /\ Owned(t, Owning(mem[b][i]))
    BY EmptiedOwned
  <2>6. /\ DOMAIN t = DOMAIN mem
        /\ \A x \in DOMAIN mem : /\ DOMAIN t[x] = DOMAIN mem[x]
                                 /\ Len(t[x]) = Len(mem[x])
        /\ \A x \in DOMAIN mem \ {b} : t[x] = mem[x]
        /\ t[b][i] = Leaf(mem[b][i].label)
        /\ \A j \in DOMAIN mem[b] \ {i} : t[b][j] = mem[b][j]
    BY EmptiedFacts
  <2> HIDE DEF t
  <2>7. mem[b][i].n > 0 => mem[b][i].data \in DOMAIN mem /\ Len(t[mem[b][i].data]) = mem[b][i].n
    BY <2>6, OneOwner
  <2>8. t[b][i].n = 0
    BY <2>6 DEF Leaf
  <2>9. \A x \in DOMAIN mem : \A j \in DOMAIN mem[x] : t[x][j] = mem[x][j] \/ e.from.cell = <<x, j>>
    BY <2>3, <2>6
  <2>10. e.from.cell[1] = b /\ e.from.cell[2] = i
    BY <2>3
  <2>11. QED
    BY <2>1, <2>3, <2>4, <2>5, <2>6, <2>7, <2>8, <2>9, <2>10
<1>4. QED
  BY <1>1, <1>2, <1>3 DEF Expr

-----------------------------------------------------------------------------
(* What the client calls. *)

\* Putting a cell makes equal what differed there only.
LEMMA PutAgrees ==
    ASSUME NEW m, Memory(m), NEW m2, Memory(m2), DOMAIN m2 = DOMAIN m,
           NEW b \in DOMAIN m, NEW i \in DOMAIN m[b],
           \A x \in DOMAIN m \ {b} : m2[x] = m[x],
           DOMAIN m2[b] = DOMAIN m[b],
           \A j \in DOMAIN m[b] \ {i} : m2[b][j] = m[b][j],
           NEW c \in Cell
    PROVE  Put(m2, <<b, i>>, c) = Put(m, <<b, i>>, c)
<1> DEFINE s == [m[b] EXCEPT ![i] = c]
<1> DEFINE t == [m2[b] EXCEPT ![i] = c]
<1>1. s = t
  <2>1. s = [j \in DOMAIN m[b] |-> IF j = i THEN c ELSE m[b][j]]
    BY DEF Memory
  <2>2. t = [j \in DOMAIN m[b] |-> IF j = i THEN c ELSE m2[b][j]]
    BY DEF Memory
  <2>3. QED
    BY <2>1, <2>2
<1>2. Put(m, <<b, i>>, c) = [m EXCEPT ![b] = s] /\ Put(m2, <<b, i>>, c) = [m2 EXCEPT ![b] = t]
  BY DEF Put
<1> HIDE DEF s, t
<1>3. [m EXCEPT ![b] = s] = [x \in DOMAIN m |-> IF x = b THEN s ELSE m[x]]
  BY DEF Memory
<1>4. [m2 EXCEPT ![b] = t] = [x \in DOMAIN m |-> IF x = b THEN t ELSE m2[x]]
  BY DEF Memory
<1>5. QED
  BY <1>1, <1>2, <1>3, <1>4

\* A new variable.
LEMMA ConstructOwned ==
    ASSUME Memory(mem), Owned(mem, {}), NEW v \in Var, NEW e \in Expr, Construct(v, e)
    PROVE  Memory(mem') /\ Owned(mem', {})
<1> DEFINE c == Value(e)
<1> DEFINE a == After(e)
<1>1. /\ c \in Cell /\ Memory(a) /\ Owned(a, Owning(c))
      /\ c.n > 0 => Len(a[c.data]) = c.n
      /\ DOMAIN a \subseteq DOMAIN mem \cup Owning(c)
  BY ArgumentFacts
<1>2. v \notin DOMAIN mem /\ mem' = With(a, v, <<c>>)
  BY DEF Construct
<1> HIDE DEF c, a
<1>3. v \notin Block /\ v # NoBlock
  BY StorageAssumption
<1>4. Owning(c) \subseteq Block /\ (c.n > 0 => c.data \in Owning(c)) /\ Owning(c) \ {c.data} = {}
  BY <1>1, CellFacts DEF Owning
<1>5. v \in (Var \cup Block) \ DOMAIN a
  BY <1>1, <1>2, <1>3, <1>4
<1>6. Memory(With(a, v, <<c>>)) /\ Owned(With(a, v, <<c>>), (Owning(c) \ {c.data}) \cup ({v} \cap Block))
  BY <1>1, <1>4, <1>5, PlaceOwned
<1>7. (Owning(c) \ {c.data}) \cup ({v} \cap Block) = {}
  BY <1>3, <1>4
<1>8. QED
  BY <1>2, <1>6, <1>7

\* A new variable without a value.
LEMMA ConstructUninitializedOwned ==
    ASSUME Memory(mem), Owned(mem, {}), NEW v \in Var, ConstructUninitialized(v)
    PROVE  Memory(mem') /\ Owned(mem', {})
<1>1. v \in (Var \cup Block) \ DOMAIN mem /\ mem' = With(mem, v, <<Invalid>>)
  BY DEF ConstructUninitialized
<1>2. Invalid \in Cell /\ Invalid.n = 0
  BY NewCells DEF Labels
<1>3. /\ Memory(With(mem, v, <<Invalid>>))
      /\ Owned(With(mem, v, <<Invalid>>), ({} \ {Invalid.data}) \cup ({v} \cap Block))
  BY <1>1, <1>2, PlaceOwned
<1>4. ({} \ {Invalid.data}) \cup ({v} \cap Block) = {}
  BY StorageAssumption
<1>5. QED
  BY <1>1, <1>3, <1>4

\* The end of a variable.
LEMMA DestroyOwned ==
    ASSUME Memory(mem), Owned(mem, {}), NEW v \in Var, Destroy(v)
    PROVE  Memory(mem') /\ Owned(mem', {})
<1> DEFINE c == mem[v][1]
<1> DEFINE U == Under(mem, c)
<1> DEFINE S == U \cup {v}
<1>1. v \in DOMAIN mem /\ mem' = Without(Died(mem, c), {v})
  BY DEF Destroy
<1>2. DOMAIN mem[v] = {1} /\ v \notin Block
  BY <1>1, StorageAssumption DEF Memory
<1>3. c \in Cell
  BY <1>1, <1>2, MemoryCells
<1>4. /\ U \subseteq Block /\ OwnsWithin(mem, U) /\ (c.n > 0 => c.data \in U)
      /\ \A x \in DOMAIN mem : Arrays(mem, x) \cap U # {} => x \in U \/ x = v
  BY <1>1, <1>2, <1>3, UnderFacts, UnderBackward
<1> HIDE DEF U
<1>5. Arrays(mem, v) \subseteq U
  BY <1>1, <1>2, <1>4, ArraysFacts
<1>6. OwnsWithin(mem, S)
  BY <1>1, <1>4, <1>5 DEF OwnsWithin
<1>7. \A x \in DOMAIN mem \ S : Arrays(mem, x) \cap S = {}
  BY <1>2, <1>4, ArraysFacts
<1> HIDE DEF S
<1>8. Memory(Without(mem, S)) /\ Owned(Without(mem, S), {} \ S)
  BY <1>6, <1>7, FreeOwned
<1>9. mem' = Without(mem, S)
  <2>1. Died(mem, c) = [x \in DOMAIN mem \ U |-> mem[x]]
    BY DEF Died, Without, U
  <2>2. Without(Died(mem, c), {v}) = [x \in (DOMAIN mem \ U) \ {v} |-> mem[x]]
    BY <2>1 DEF Without
  <2>3. (DOMAIN mem \ U) \ {v} = DOMAIN mem \ S
    BY DEF S
  <2>4. QED
    BY <1>1, <2>2, <2>3 DEF Without
<1>10. QED
  BY <1>8, <1>9

\* A node gets its first value.
LEMMA InitializeOwned ==
    ASSUME Memory(mem), Owned(mem, {}), NEW x \in Named, NEW e \in Expr, Initialize(x, e)
    PROVE  Memory(mem') /\ Owned(mem', {})
<1> DEFINE c == Value(e)
<1> DEFINE a == After(e)
<1>1. PICK b \in DOMAIN mem : \E i \in DOMAIN mem[b] : x.cell = <<b, i>>
  BY NamedFacts
<1>2. PICK i \in DOMAIN mem[b] : x.cell = <<b, i>>
  BY <1>1
<1>3. mem[b][i] = Invalid /\ mem' = Put(a, <<b, i>>, c)
  BY <1>2 DEF Initialize, At
<1>4. ~(e.how = "move" /\ e.from.cell = <<b, i>>)
  <2>1. ~HasValue(mem[b][i])
    BY <1>3 DEF HasValue, Invalid, Leaf
  <2>2. e.how = "move" => HasValue(At(mem, e.from.cell))
    BY ArgumentFacts
  <2>3. QED
    BY <2>1, <2>2 DEF At
<1>5. b \in DOMAIN a /\ i \in DOMAIN a[b] /\ a[b][i] = Invalid
  BY <1>3, <1>4, ArgumentFacts
<1>6. /\ c \in Cell /\ Memory(a) /\ Owned(a, Owning(c))
      /\ c.n > 0 => Len(a[c.data]) = c.n
  BY ArgumentFacts
<1> HIDE DEF c, a
<1>7. a[b][i].n = 0
  BY <1>5 DEF Invalid, Leaf
<1>8. (c.n > 0 => c.data \in Owning(c)) /\ Owning(c) \ {c.data} = {}
  BY <1>6, CellFacts DEF Owning
<1>9. Memory(Put(a, <<b, i>>, c)) /\ Owned(Put(a, <<b, i>>, c), Owning(c) \ {c.data})
  BY <1>5, <1>6, <1>7, <1>8, GiveOwned
<1>10. QED
  BY <1>3, <1>8, <1>9

\* Assignment.
LEMMA AssignOwned ==
    ASSUME Memory(mem), Owned(mem, {}), NEW x \in Named, NEW y \in Named, Assign(x, y)
    PROVE  Memory(mem') /\ Owned(mem', {})
<1>1. CASE AssignReadsFreed(x.cell, y.cell)
  BY <1>1 DEF Assign
<1>2. CASE ~AssignReadsFreed(x.cell, y.cell)
  <2>1. PICK b \in DOMAIN mem : \E i \in DOMAIN mem[b] :
             /\ x.cell = <<b, i>>
             /\ At(mem, x.cell) = mem[b][i]
             /\ mem[b][i] \in Cell
             /\ b \notin Under(mem, mem[b][i])
    BY NotBelowItself
  <2>2. PICK i \in DOMAIN mem[b] :
             /\ x.cell = <<b, i>>
             /\ mem[b][i] \in Cell
             /\ b \notin Under(mem, mem[b][i])
    BY <2>1
  <2>3. PICK d \in DOMAIN mem : \E j \in DOMAIN mem[d] :
             /\ y.cell = <<d, j>>
             /\ At(mem, y.cell) = mem[d][j]
             /\ mem[d][j] \in Cell
    BY NotBelowItself
  <2>4. PICK j \in DOMAIN mem[d] :
             /\ y.cell = <<d, j>>
             /\ At(mem, y.cell) = mem[d][j]
             /\ mem[d][j] \in Cell
    BY <2>3
  <2> DEFINE v == mem[d][j]
  <2> DEFINE m == Emptied(mem, <<d, j>>)
  <2> DEFINE c == m[b][i]
  <2> DEFINE o == Emptied(m, <<b, i>>)
  <2> DEFINE U == Under(m, c)
  <2>5. mem' = Put(Without(m, U), <<b, i>>, v)
    BY <1>2, <2>2, <2>4 DEF Assign, Died, At
  <2>6. /\ Memory(m) /\ Owned(m, Owning(v))
        /\ DOMAIN m = DOMAIN mem
        /\ \A z \in DOMAIN mem : DOMAIN m[z] = DOMAIN mem[z] /\ Len(m[z]) = Len(mem[z])
        /\ m[d][j] = Leaf(v.label)
        /\ \A z \in DOMAIN mem : \A k \in DOMAIN mem[z] : z # d \/ k # j => m[z][k] = mem[z][k]
        /\ \A z \in DOMAIN mem : Arrays(m, z) \subseteq Arrays(mem, z)
    <3>1. Memory(m) /\ Owned(m, {} \cup Owning(v))
      BY EmptiedOwned
    <3>2. {} \cup Owning(v) = Owning(v)
      OBVIOUS
    <3>3. QED
      BY <3>1, <3>2, EmptiedFacts
  <2> HIDE DEF m
  <2>7. b \in DOMAIN m /\ i \in DOMAIN m[b] /\ c \in Cell
    BY <2>6, MemoryCells
  <2>8. b \notin U
    <3>1. CASE b = d /\ i = j
      <4>1. c.n = 0
        BY <2>6, <3>1 DEF Leaf
      <4>2. QED
        BY <2>6, <2>7, <4>1, UnderFacts
    <3>2. CASE ~(b = d /\ i = j)
      <4>1. c = mem[b][i]
        BY <2>6, <3>2
      <4>2. U \subseteq Under(mem, mem[b][i])
        BY <2>2, <2>6, <4>1, UnderShrinks
      <4>3. QED
        BY <2>2, <4>2
    <3>3. QED
      BY <3>1, <3>2
  <2>9. /\ Memory(o) /\ Owned(o, Owning(v) \cup Owning(c)) /\ Owning(c) \cap Owning(v) = {}
        /\ DOMAIN o = DOMAIN m
        /\ \A z \in DOMAIN m : DOMAIN o[z] = DOMAIN m[z] /\ Len(o[z]) = Len(m[z])
        /\ \A z \in DOMAIN m \ {b} : o[z] = m[z]
        /\ o[b][i] = Leaf(c.label)
        /\ \A k \in DOMAIN m[b] \ {i} : o[b][k] = m[b][k]
    <3>1. Memory(o) /\ Owned(o, Owning(v) \cup Owning(c)) /\ Owning(c) \cap Owning(v) = {}
      BY <2>6, <2>7, EmptiedOwned
    <3>2. /\ DOMAIN o = DOMAIN m
          /\ \A z \in DOMAIN m : DOMAIN o[z] = DOMAIN m[z] /\ Len(o[z]) = Len(m[z])
          /\ \A z \in DOMAIN m \ {b} : o[z] = m[z]
          /\ o[b][i] = Leaf(c.label)
          /\ \A k \in DOMAIN m[b] \ {i} : o[b][k] = m[b][k]
      <4>1. Memory(m) /\ b \in DOMAIN m /\ i \in DOMAIN m[b]
        BY <2>6, <2>7
      <4>2. QED
        BY <4>1, EmptiedFacts
    <3>3. QED
      BY <3>1, <3>2
  <2> HIDE DEF o, c
  <2>10. Under(o, c) = U
    <3>1. \A z \in U : z \in DOMAIN o <=> z \in DOMAIN m
      BY <2>9
    <3>2. \A z \in U : z \in DOMAIN m => o[z] = m[z]
      BY <2>8, <2>9
    <3>3. QED
      BY <2>6, <2>7, <2>9, <3>1, <3>2, UnderSame
  <2>11. Memory(Without(o, U)) /\ Owned(Without(o, U), Owning(v))
    <3>1. c.n > 0 => c.data \in Owning(v) \cup Owning(c)
      BY DEF Owning
    <3>2. Memory(Died(o, c)) /\ Owned(Died(o, c), (Owning(v) \cup Owning(c)) \ {c.data})
      BY <2>7, <2>9, <3>1, DieOwned
    <3>3. c.n = 0 => c.data \notin Owning(v)
      <4>1. c.n = 0 => c.data \notin Block
        BY <2>7, CellFacts, StorageAssumption
      <4>2. Owning(v) \subseteq Block
        BY <2>4, CellFacts DEF Owning
      <4>3. QED
        BY <4>1, <4>2
    <3>4. (Owning(v) \cup Owning(c)) \ {c.data} = Owning(v)
      BY <2>7, <2>9, <3>3, CellFacts DEF Owning
    <3>5. QED
      BY <2>10, <3>2, <3>4 DEF Died
  <2> DEFINE w == Without(o, U)
  <2>12. DOMAIN w = DOMAIN o \ U /\ \A z \in DOMAIN o \ U : w[z] = o[z]
    BY DEF Without
  <2> HIDE DEF w, U
  <2>13. b \in DOMAIN w /\ i \in DOMAIN w[b] /\ w[b][i].n = 0
    BY <2>7, <2>8, <2>9, <2>12 DEF Leaf
  <2>14. v.n > 0 => v.data \in Owning(v) /\ Len(w[v.data]) = v.n
    <3>1. v.n > 0 => v.data \in DOMAIN mem /\ Len(mem[v.data]) = v.n
      BY OneOwner
    <3>2. v.n > 0 => v.data \in Owning(v)
      BY DEF Owning
    <3>3. Owning(v) \subseteq DOMAIN w
      BY <2>11 DEF Owned, w
    <3>4. QED
      BY <2>6, <2>9, <2>12, <3>1, <3>2, <3>3
  <2>15. Memory(Put(w, <<b, i>>, v)) /\ Owned(Put(w, <<b, i>>, v), Owning(v) \ {v.data})
    BY <2>4, <2>11, <2>13, <2>14, GiveOwned DEF w
  <2>16. Owning(v) \ {v.data} = {}
    BY DEF Owning
  <2>17. Put(w, <<b, i>>, v) = Put(Without(m, U), <<b, i>>, v)
    <3> DEFINE n == Without(m, U)
    <3>1. DOMAIN n = DOMAIN m \ U /\ \A z \in DOMAIN m \ U : n[z] = m[z]
      BY DEF Without
    <3>2. Memory(n) /\ Memory(w)
      BY <2>6, <2>11, WithoutFacts DEF w
    <3> HIDE DEF n
    <3>3. b \in DOMAIN n /\ i \in DOMAIN n[b] /\ DOMAIN w = DOMAIN n
      BY <2>7, <2>8, <2>9, <2>12, <3>1
    <3>4. \A z \in DOMAIN n \ {b} : w[z] = n[z]
      BY <2>9, <2>12, <3>1
    <3>5. DOMAIN w[b] = DOMAIN n[b] /\ \A k \in DOMAIN n[b] \ {i} : w[b][k] = n[b][k]
      BY <2>7, <2>8, <2>9, <2>12, <3>1
    <3>6. Put(w, <<b, i>>, v) = Put(n, <<b, i>>, v)
      BY <2>4, <3>2, <3>3, <3>4, <3>5, PutAgrees
    <3>7. QED
      BY <3>6 DEF n
  <2>18. QED
    BY <2>5, <2>15, <2>16, <2>17
<1>3. QED
  BY <1>1, <1>2

\* insert and emplace, into a list without children.
LEMMA InsertFirstOwned ==
    ASSUME Memory(mem), Owned(mem, {}), NEW x \in Named, NEW e \in Expr, NEW b \in Free,
           NEW at \in 0..At(mem, x.cell).n, b # Value(e).data, Insert(x, at, e, b),
           At(mem, x.cell).n = 0
    PROVE  Memory(mem') /\ Owned(mem', {})
<1> DEFINE v == Value(e)
<1> DEFINE a == After(e)
<1>1. PICK p \in DOMAIN mem : \E q \in DOMAIN mem[p] : x.cell = <<p, q>>
  BY NamedFacts
<1>2. PICK q \in DOMAIN mem[p] : x.cell = <<p, q>>
  BY <1>1
<1> DEFINE c == mem[p][q]
<1>3. At(mem, x.cell) = c /\ c \in Cell /\ c.n = 0 /\ c.data = NoBlock /\ at = 0
  BY <1>2, MemoryCells, CellFacts DEF At
<1>4. /\ v \in Cell /\ Memory(a) /\ Owned(a, Owning(v))
      /\ v.n > 0 => Len(a[v.data]) = v.n
      /\ DOMAIN mem \subseteq DOMAIN a
      /\ DOMAIN a \subseteq DOMAIN mem \cup Owning(v)
      /\ DOMAIN a[p] = DOMAIN mem[p]
  BY ArgumentFacts
<1>5. a[p][q].n = 0
  <2>1. CASE e.how = "move" /\ e.from.cell = <<p, q>>
    BY <2>1, ArgumentFacts
  <2>2. CASE ~(e.how = "move" /\ e.from.cell = <<p, q>>)
    BY <1>3, <2>2, ArgumentFacts
  <2>3. QED
    BY <2>1, <2>2
<1>6. mem' = Put(With(a, b, <<v>>), <<p, q>>, Node(c.label, 1, b)) \/ mem' = mem
  <2>1. Siblings(a, c) = <<>>
    BY <1>3 DEF Siblings
  <2>2. InsertAt(<<>>, 1, v) = <<v>>
    <3> DEFINE t == <<>>
    <3> DEFINE k == 1
    <3>1. t \in Seq(Cell) /\ Len(t) = 0 /\ k \in 1..(Len(t) + 1) /\ v \in Cell
      BY <1>4
    <3> HIDE DEF t, k, v
    <3>2. t \in Seq(Cell) /\ k \in 1..(Len(t) + 1) /\ v \in Cell
      BY <3>1
    <3>3. InsertAt(t, k, v) \in Seq(Cell) /\ Len(InsertAt(t, k, v)) = Len(t) + 1
      BY ONLY <3>2, InsertAtFacts
    <3>4. InsertAt(t, k, v)[k] = v
      BY ONLY <3>2, InsertAtFacts
    <3> DEFINE s == InsertAt(t, k, v)
    <3> HIDE DEF s
    <3>5. s \in Seq(Cell) /\ Len(s) = 1 /\ s[1] = v
      BY <3>1, <3>3, <3>4 DEF s, k
    <3>6. s = <<v>>
      BY <3>5
    <3>7. QED
      BY <3>6 DEF s, t, k
  <2>3. Without(a, {c.data}) = a
    <3>1. {c.data} \cap DOMAIN a = {}
      BY <1>3, <1>4, StorageAssumption DEF Memory
    <3>2. QED
      BY <1>4, <3>1, WithoutNothing
  <2>4. Len(<<>>) + 1 = 1 /\ at + 1 = 1
    BY <1>3
  <2>5. QED
    BY <1>2, <1>3, <2>1, <2>2, <2>3, <2>4 DEF Insert
<1> HIDE DEF v, a, c
<1> DEFINE w == With(a, b, <<v>>)
<1>7. b \in (Var \cup Block) \ DOMAIN a
  <2>1. b \in Block \ DOMAIN mem
    BY DEF Free
  <2>2. b \notin Owning(v)
    BY DEF Owning, v
  <2>3. QED
    BY <1>4, <2>1, <2>2
<1>8. Memory(w) /\ Owned(w, {b})
  <2>1. v.n > 0 => v.data \in Owning(v) /\ Len(a[v.data]) = v.n
    BY <1>4 DEF Owning
  <2>2. Memory(w) /\ Owned(w, (Owning(v) \ {v.data}) \cup ({b} \cap Block))
    BY <1>4, <1>7, <2>1, PlaceOwned
  <2>3. (Owning(v) \ {v.data}) \cup ({b} \cap Block) = {b}
    BY DEF Owning, Free
  <2>4. QED
    BY <2>2, <2>3
<1>9. DOMAIN w = DOMAIN a \cup {b} /\ w[b] = <<v>> /\ \A z \in DOMAIN a \ {b} : w[z] = a[z]
  BY DEF With
<1>10. p \in DOMAIN w /\ q \in DOMAIN w[p] /\ w[p][q].n = 0 /\ Len(w[b]) = 1
  BY <1>4, <1>5, <1>7, <1>9
<1> HIDE DEF w
<1> DEFINE d == Node(c.label, 1, b)
<1>11. d \in Cell /\ d.n = 1 /\ d.data = b
  <2>1. 1 <= MaxKids
    BY <1>3 DEF Insert, Siblings
  <2>2. 1 \in 1..MaxKids /\ b \in Block /\ c.label \in Labels
    BY <1>3, <2>1, BoundsAssumption, CellFacts DEF Free
  <2>3. QED
    BY <2>2, NewCells DEF Node
<1> HIDE DEF d
<1>12. Memory(Put(w, <<p, q>>, d)) /\ Owned(Put(w, <<p, q>>, d), {b} \ {d.data})
  BY <1>8, <1>10, <1>11, GiveOwned
<1>13. QED
  BY <1>6, <1>11, <1>12 DEF w, d

\* insert and emplace, into a list with children: they and the new one move to
\* a new array.
LEMMA InsertAmongOwned ==
    ASSUME Memory(mem), Owned(mem, {}), NEW x \in Named, NEW e \in Expr, NEW b \in Free,
           NEW at \in 0..At(mem, x.cell).n, b # Value(e).data, Insert(x, at, e, b),
           At(mem, x.cell).n > 0
    PROVE  Memory(mem') /\ Owned(mem', {})
<1> DEFINE v == Value(e)
<1> DEFINE a == After(e)
<1>1. PICK p \in DOMAIN mem : \E q \in DOMAIN mem[p] :
             /\ x.cell = <<p, q>>
             /\ At(mem, x.cell) = mem[p][q]
             /\ mem[p][q] \in Cell
             /\ p \notin Under(mem, mem[p][q])
  BY NotBelowItself
<1>2. PICK q \in DOMAIN mem[p] :
             /\ x.cell = <<p, q>>
             /\ At(mem, x.cell) = mem[p][q]
             /\ mem[p][q] \in Cell
             /\ p \notin Under(mem, mem[p][q])
  BY <1>1
<1> DEFINE c == mem[p][q]
<1> DEFINE d == c.data
<1>3. c.n > 0 /\ c \in Cell /\ d \in DOMAIN mem /\ Len(mem[d]) = c.n /\ p # d /\ d \in Block
  BY <1>2, UnderFacts, OneOwner
<1>4. /\ v \in Cell /\ Memory(a) /\ Owned(a, Owning(v))
      /\ v.n > 0 => Len(a[v.data]) = v.n
      /\ DOMAIN mem \subseteq DOMAIN a
      /\ DOMAIN a \subseteq DOMAIN mem \cup Owning(v)
      /\ \A y \in DOMAIN mem : DOMAIN a[y] = DOMAIN mem[y]
  BY ArgumentFacts
<1> DEFINE s == InsertAt(a[d], at + 1, v)
<1>5. CASE e.how = "move" /\ e.from.cell = <<p, q>>
  <2>1. Siblings(a, c) = a[d]
    BY <1>3 DEF Siblings
  <2>2. Len(a[d]) + 1 > 1
    BY <1>3, <1>4, MemoryCells
  <2>3. mem' = mem
    BY <1>2, <1>5, <2>1, <2>2 DEF Insert
  <2>4. QED
    BY <2>3
<1>6. CASE ~(e.how = "move" /\ e.from.cell = <<p, q>>)
  <2>1. /\ Len(a[d]) + 1 <= MaxKids
        /\ mem' = Put(With(Without(a, {d}), b, s), <<p, q>>, Node(c.label, Len(a[d]) + 1, b))
    <3>1. Siblings(a, c) = a[d]
      BY <1>3 DEF Siblings
    <3>2. QED
      BY <1>2, <1>6, <3>1 DEF Insert
  <2>2. a[p][q] = c
    BY <1>6, ArgumentFacts
  <2>3. b \in Block \ DOMAIN a
    BY <1>4 DEF Free, Owning
  <2>4. at + 1 \in 1..(Len(a[d]) + 1) /\ a[d] \in Seq(Cell) /\ d \in DOMAIN a /\ p \in DOMAIN a
        /\ q \in DOMAIN a[p]
    <3>1. a[d] \in Seq(Cell) /\ mem[d] \in Seq(Cell)
      BY <1>3, <1>4 DEF Memory
    <3>2. Len(a[d]) = Len(mem[d])
      BY <1>3, <1>4, <3>1
    <3>3. at \in 0..c.n
      BY <1>2
    <3>4. QED
      BY <1>3, <1>4, <3>1, <3>2, <3>3
  <2> HIDE DEF a, v, c
  <2> DEFINE m == Emptied(a, <<p, q>>)
  <2>5. Memory(m) /\ Owned(m, Owning(v) \cup {d}) /\ d \notin Owning(v)
    <3>1. Owning(c) = {d}
      BY <1>3 DEF Owning
    <3>2. QED
      BY <1>4, <2>2, <2>4, <3>1, EmptiedOwned
  <2>6. /\ DOMAIN m = DOMAIN a
        /\ \A y \in DOMAIN a : DOMAIN m[y] = DOMAIN a[y] /\ Len(m[y]) = Len(a[y])
        /\ \A y \in DOMAIN a \ {p} : m[y] = a[y]
        /\ m[p][q] = Leaf(a[p][q].label)
        /\ \A k \in DOMAIN a[p] \ {q} : m[p][k] = a[p][k]
    <3>1. Memory(a) /\ p \in DOMAIN a /\ q \in DOMAIN a[p]
      BY <1>4, <2>4
    <3>2. QED
      BY <3>1, EmptiedFacts
  <2> HIDE DEF m
  <2>7. m[d] = a[d]
    BY <1>3, <2>4, <2>6
  <2>8. /\ s \in Seq(Cell) /\ Len(s) = Len(m[d]) + 1 /\ s[at + 1] = v
        /\ \A k \in 1..(Len(m[d]) + 1) : k < at + 1 => s[k] = m[d][k]
        /\ \A k \in 1..(Len(m[d]) + 1) : k > at + 1 => s[k] = m[d][k - 1]
    <3>1. a[d] \in Seq(Cell) /\ at + 1 \in 1..(Len(a[d]) + 1) /\ v \in Cell
      BY <1>4, <2>4
    <3> DEFINE t == a[d]
    <3> DEFINE i == at + 1
    <3> HIDE DEF t, i
    <3>2. t \in Seq(Cell) /\ i \in 1..(Len(t) + 1) /\ v \in Cell
      BY <3>1 DEF t, i
    <3>3. InsertAt(t, i, v) \in Seq(Cell) /\ Len(InsertAt(t, i, v)) = Len(t) + 1
      BY <3>2, InsertAtFacts
    <3>4. InsertAt(t, i, v)[i] = v
      BY <3>2, InsertAtFacts
    <3>5. \A k \in 1..(Len(t) + 1) : k < i => InsertAt(t, i, v)[k] = t[k]
      BY <3>2, InsertAtFacts
    <3>6. \A k \in 1..(Len(t) + 1) : k > i => InsertAt(t, i, v)[k] = t[k - 1]
      BY <3>2, InsertAtFacts
    <3>7. s = InsertAt(t, i, v) /\ t = m[d] /\ i = at + 1
      BY <2>7 DEF t, i
    <3> HIDE DEF s
    <3>8. QED
      BY <3>3, <3>4, <3>5, <3>6, <3>7
  <2> HIDE DEF s
  <2>9. m[d] \in Seq(Cell) /\ Len(m[d]) \in Nat /\ DOMAIN m[d] = 1..Len(m[d]) /\ at \in Nat
        /\ DOMAIN s = 1..(Len(m[d]) + 1) /\ at <= Len(m[d])
    BY <2>4, <2>7, <2>8
  <2> DEFINE o == With(Without(m, {d}), b, s)
  <2>10. Memory(o) /\ Owned(o, {b})
    <3> DEFINE l == Owning(v) \cup {d}
    <3>1. d \in l /\ b \in Block \ DOMAIN m
      BY <2>3, <2>6
    <3>2. v.n > 0 => v.data \in l \ {d} /\ Len(m[v.data]) = v.n
      <4>1. v.n > 0 => v.data \in Owning(v)
        BY DEF Owning
      <4>2. Owning(v) \subseteq DOMAIN a
        BY <1>4 DEF Owned
      <4>3. QED
        BY <1>4, <2>5, <2>6, <4>1, <4>2
    <3>3. ASSUME NEW i \in DOMAIN s
          PROVE  s[i] = v \/ \E j \in DOMAIN m[d] : s[i] = m[d][j]
      <4>1. CASE i < at + 1
        BY <2>8, <2>9, <4>1
      <4>2. CASE i = at + 1
        BY <2>8, <4>2
      <4>3. CASE i > at + 1
        <5>1. s[i] = m[d][i - 1] /\ i - 1 \in DOMAIN m[d]
          BY <2>8, <2>9, <4>3
        <5>2. QED
          BY <5>1
      <4>4. QED
        BY <2>9, <4>1, <4>2, <4>3
    <3>4. \A j \in DOMAIN m[d] : m[d][j].n > 0 => m[d][j].data \notin l
      BY <2>4, <2>5, <2>6, OneOwner
    <3>5. \A j, k \in DOMAIN m[d] :
            m[d][j].n > 0 /\ m[d][k].n > 0 /\ m[d][j].data = m[d][k].data => j = k
      BY <2>4, <2>5, <2>6 DEF Owned
    <3>6. ASSUME NEW i \in DOMAIN s, NEW k \in DOMAIN s,
                 s[i].n > 0 /\ s[k].n > 0 /\ s[i].data = s[k].data
          PROVE  i = k
      <4> DEFINE old(y) == IF y < at + 1 THEN y ELSE y - 1
      <4>1. \A y \in DOMAIN s : y # at + 1 => old(y) \in DOMAIN m[d] /\ s[y] = m[d][old(y)]
        BY <2>8, <2>9
      <4>2. \A y \in DOMAIN s : s[y].n > 0 => (s[y].data \in l <=> y = at + 1)
        BY <2>8, <3>2, <3>4, <4>1
      <4>3. CASE i = at + 1
        BY <3>6, <4>2, <4>3
      <4>4. CASE i # at + 1
        <5>1. k # at + 1
          BY <3>6, <4>2, <4>4
        <5>2. old(i) = old(k)
          BY <3>5, <3>6, <4>1, <4>4, <5>1
        <5>3. QED
          BY <2>9, <4>4, <5>1, <5>2
      <4>5. QED
        BY <4>3, <4>4
    <3>7. ASSUME NEW j \in DOMAIN m[d]
          PROVE  \E i \in DOMAIN s : s[i] = m[d][j]
      <4>1. CASE j < at + 1
        BY <2>8, <2>9, <4>1
      <4>2. CASE j >= at + 1
        <5>1. j + 1 \in DOMAIN s /\ s[j + 1] = m[d][j + 1 - 1] /\ j + 1 - 1 = j
          BY <2>8, <2>9, <4>2
        <5>2. QED
          BY <5>1
      <4>3. QED
        BY <2>9, <4>1, <4>2
    <3>8. \E i \in DOMAIN s : s[i] = v
      BY <2>8, <2>9
    <3>9. Memory(o) /\ Owned(o, (l \ {d, v.data}) \cup {b})
      <4> HIDE DEF o, l
      <4>1. s \in Seq(Cell) /\ v \in Cell /\ Memory(m) /\ Owned(m, l)
        BY <1>4, <2>5, <2>8 DEF l
      <4>2. QED
        BY <3>1, <3>2, <3>3, <3>6, <3>7, <3>8, <4>1, RefillOwned DEF o
    <3>10. (l \ {d, v.data}) \cup {b} = {b}
      BY DEF Owning
    <3>11. QED
      BY <3>9, <3>10
  <2>11. DOMAIN o = (DOMAIN m \ {d}) \cup {b} /\ o[b] = s /\ \A y \in DOMAIN m \ {d, b} : o[y] = m[y]
    BY DEF With, Without
  <2> HIDE DEF o
  <2>12. p \in DOMAIN o /\ q \in DOMAIN o[p] /\ o[p][q].n = 0 /\ p # b
    BY <1>3, <2>3, <2>4, <2>6, <2>11 DEF Leaf
  <2> DEFINE n == Node(c.label, Len(a[d]) + 1, b)
  <2>13. n \in Cell /\ n.n = Len(s) /\ n.data = b
    <3>1. Len(a[d]) + 1 \in 1..MaxKids /\ b \in Block /\ c.label \in Labels
      BY <1>3, <2>1, <2>3, <2>7, <2>9, BoundsAssumption, CellFacts
    <3>2. n \in Cell
      BY <3>1, NewCells
    <3>3. QED
      BY <2>7, <2>8, <3>2 DEF Node
  <2> HIDE DEF n
  <2>14. Memory(Put(o, <<p, q>>, n)) /\ Owned(Put(o, <<p, q>>, n), {b} \ {n.data})
    BY <2>10, <2>11, <2>12, <2>13, GiveOwned
  <2> DEFINE r == With(Without(a, {d}), b, s)
  <2>15. Put(o, <<p, q>>, n) = Put(r, <<p, q>>, n)
    <3>1. DOMAIN r = (DOMAIN a \ {d}) \cup {b} /\ r[b] = s /\ \A y \in DOMAIN a \ {d, b} : r[y] = a[y]
      BY DEF With, Without
    <3>2. Memory(r)
      <4>1. Memory(Without(a, {d})) /\ DOMAIN Without(a, {d}) = DOMAIN a \ {d}
        BY <1>4, WithoutFacts
      <4>2. b \in (Var \cup Block) \ DOMAIN Without(a, {d}) /\ (b \in Var => Len(s) = 1)
        BY <2>3, <4>1, StorageAssumption
      <4>3. s \in Seq(Cell)
        BY <2>8
      <4>4. QED
        BY <4>1, <4>2, <4>3, WithFacts
    <3> HIDE DEF r
    <3>3. DOMAIN o = DOMAIN r /\ p \in DOMAIN r /\ q \in DOMAIN r[p]
      BY <1>3, <2>4, <2>6, <2>11, <2>12, <3>1
    <3>4. \A y \in DOMAIN r \ {p} : o[y] = r[y]
      BY <2>6, <2>11, <3>1
    <3>5. DOMAIN o[p] = DOMAIN r[p] /\ \A k \in DOMAIN r[p] \ {q} : o[p][k] = r[p][k]
      BY <1>3, <2>4, <2>6, <2>11, <2>12, <3>1
    <3>6. QED
      BY <2>10, <2>13, <3>2, <3>3, <3>4, <3>5, PutAgrees
  <2>16. {b} \ {n.data} = {}
    BY <2>13
  <2>17. QED
    BY <2>1, <2>14, <2>15, <2>16 DEF n
<1>7. QED
  BY <1>5, <1>6

\* erase: the child dies, the others move to a smaller array.
LEMMA EraseOwned ==
    ASSUME Memory(mem), Owned(mem, {}), NEW x \in Named, NEW b \in Free,
           NEW i \in 1..At(mem, x.cell).n, Erase(x, i, b)
    PROVE  Memory(mem') /\ Owned(mem', {})
<1>1. PICK p \in DOMAIN mem : \E q \in DOMAIN mem[p] :
             /\ x.cell = <<p, q>>
             /\ At(mem, x.cell) = mem[p][q]
             /\ mem[p][q] \in Cell
             /\ p \notin Under(mem, mem[p][q])
  BY NotBelowItself
<1>2. PICK q \in DOMAIN mem[p] :
             /\ x.cell = <<p, q>>
             /\ At(mem, x.cell) = mem[p][q]
             /\ mem[p][q] \in Cell
             /\ p \notin Under(mem, mem[p][q])
  BY <1>1
<1> DEFINE c == mem[p][q]
<1> DEFINE d == c.data
<1>3. c.n > 0 /\ c.n \in Nat /\ i \in 1..c.n
  BY <1>2, CellFacts
<1>4. /\ d \in DOMAIN mem /\ d \in Block /\ Len(mem[d]) = c.n /\ d \in Arrays(mem, p)
      /\ d \in Under(mem, c)
  BY <1>2, <1>3, OneOwner, UnderFacts
<1>5. p # d /\ i \in DOMAIN mem[d]
  BY <1>2, <1>3, <1>4, MemoryCells
<1> DEFINE k == mem[d][i]
<1> DEFINE U == Under(mem, k)
<1> DEFINE m == Without(Without(mem, U), {d})
<1>6. mem' = IF c.n - 1 = 0 THEN Put(m, <<p, q>>, Leaf(c.label))
             ELSE Put(With(m, b, Shrunk(mem[d], i)), <<p, q>>, Node(c.label, c.n - 1, b))
  <2>1. Siblings(mem, c) = mem[d]
    BY <1>3 DEF Siblings
  <2>2. QED
    BY <1>2, <2>1 DEF Erase, Died
<1>7. k \in Cell
  BY <1>4, <1>5, MemoryCells
<1>8. p \notin U /\ d \notin U
  <2>1. OwnsWithin(mem, Under(mem, c)) /\ Under(mem, c) \in SUBSET Block
    BY <1>2, UnderFacts
  <2>2. k.n > 0 => k.data \in Under(mem, c)
    <3>1. k.n > 0 => k.data \in Arrays(mem, d)
      BY <1>4, <1>5, OneOwner
    <3>2. QED
      BY <1>4, <2>1, <3>1 DEF OwnsWithin
  <2>3. U \subseteq Under(mem, c)
    BY <2>1, <2>2, UnderLeast
  <2>4. d \in U => p \in U \/ p = d
    BY <1>4, <1>5, UnderBackward
  <2>5. QED
    BY <1>2, <1>5, <2>3, <2>4
<1> HIDE DEF c
\* The node and the child are taken out.
<1> DEFINE m1 == Emptied(mem, <<p, q>>)
<1>9. Memory(m1) /\ Owned(m1, {d})
  <2>1. Memory(m1) /\ Owned(m1, {} \cup Owning(c))
    BY EmptiedOwned DEF c
  <2>2. {} \cup Owning(c) = {d}
    BY <1>3 DEF Owning
  <2>3. QED
    BY <2>1, <2>2
<1>10. /\ DOMAIN m1 = DOMAIN mem
       /\ \A y \in DOMAIN mem : DOMAIN m1[y] = DOMAIN mem[y] /\ Len(m1[y]) = Len(mem[y])
       /\ \A y \in DOMAIN mem \ {p} : m1[y] = mem[y]
       /\ m1[p][q] = Leaf(mem[p][q].label)
       /\ \A j \in DOMAIN mem[p] \ {q} : m1[p][j] = mem[p][j]
  BY EmptiedFacts
<1> HIDE DEF m1
<1>11. d \in DOMAIN m1 /\ i \in DOMAIN m1[d] /\ m1[d][i] = k
  BY <1>4, <1>5, <1>10
<1> DEFINE m2 == Emptied(m1, <<d, i>>)
<1>12. Memory(m2) /\ Owned(m2, {d} \cup Owning(k)) /\ Owning(k) \cap {d} = {}
  BY <1>9, <1>11, EmptiedOwned
<1>13. /\ DOMAIN m2 = DOMAIN m1
       /\ \A y \in DOMAIN m1 : DOMAIN m2[y] = DOMAIN m1[y] /\ Len(m2[y]) = Len(m1[y])
       /\ \A y \in DOMAIN m1 \ {d} : m2[y] = m1[y]
       /\ m2[d][i] = Leaf(m1[d][i].label)
       /\ \A j \in DOMAIN m1[d] \ {i} : m2[d][j] = m1[d][j]
  <2>1. Memory(m1) /\ d \in DOMAIN m1 /\ i \in DOMAIN m1[d]
    BY <1>9, <1>11
  <2> HIDE DEF d, k, U, m
  <2>2. QED
    BY ONLY <2>1, EmptiedFacts DEF m2
<1> HIDE DEF m2, k
<1>14. /\ DOMAIN m2 = DOMAIN mem
       /\ \A y \in DOMAIN mem \ {p, d} : m2[y] = mem[y]
       /\ DOMAIN m2[p] = DOMAIN mem[p]
       /\ DOMAIN m2[d] = DOMAIN mem[d] /\ Len(m2[d]) = c.n
       /\ m2[p][q].n = 0
       /\ m2[d][i].n = 0
       /\ \A j \in DOMAIN mem[p] \ {q} : m2[p][j] = mem[p][j]
       /\ \A j \in DOMAIN mem[d] \ {i} : m2[d][j] = mem[d][j]
  BY <1>4, <1>5, <1>10, <1>13 DEF Leaf
\* The child dies.
<1>15. Under(m2, k) = U
  <2>1. \A z \in U : (z \in DOMAIN m2 <=> z \in DOMAIN mem) /\ (z \in DOMAIN mem => m2[z] = mem[z])
    BY <1>8, <1>14
  <2>2. QED
    BY <1>7, <1>12, <2>1, UnderSame
<1> DEFINE m3 == Without(m2, U)
<1>16. Memory(m3) /\ Owned(m3, {d})
  <2>1. k.n > 0 => k.data \in {d} \cup Owning(k)
    BY DEF Owning
  <2>2. Memory(Died(m2, k)) /\ Owned(Died(m2, k), ({d} \cup Owning(k)) \ {k.data})
    BY <1>7, <1>12, <2>1, DieOwned
  <2>3. k.data # d
    <3>1. k.n = 0 => k.data = NoBlock
      BY <1>7, CellFacts
    <3>2. k.n > 0 => k.data # d
      BY <1>12 DEF Owning
    <3>3. QED
      BY <1>4, <1>7, <3>1, <3>2, CellFacts, StorageAssumption
  <2>4. ({d} \cup Owning(k)) \ {k.data} = {d}
    BY <2>3 DEF Owning
  <2>5. QED
    BY <1>15, <2>2, <2>4 DEF Died
<1>17. DOMAIN m3 = DOMAIN mem \ U /\ \A y \in DOMAIN mem \ U : m3[y] = m2[y]
  BY <1>14 DEF Without
<1> HIDE DEF m3, U
<1>18. DOMAIN m = (DOMAIN mem \ U) \ {d} /\ \A y \in (DOMAIN mem \ U) \ {d} : m[y] = mem[y]
  BY DEF Without
<1>19. Memory(m)
  <2>1. Memory(Without(mem, U))
    BY WithoutFacts
  <2>2. QED
    BY <2>1, WithoutFacts
<1> HIDE DEF m
<1>20. /\ p \in DOMAIN m /\ q \in DOMAIN m[p] /\ c.label \in Labels
       /\ p \in DOMAIN m3 /\ DOMAIN m3[p] = DOMAIN m[p] /\ m3[p][q].n = 0
       /\ \A j \in DOMAIN m[p] \ {q} : m3[p][j] = m[p][j]
       /\ \A y \in DOMAIN m \ {p} : m3[y] = m[y]
  <2>1. p \in DOMAIN m /\ p \in DOMAIN m3 /\ m[p] = mem[p] /\ m3[p] = m2[p]
    BY <1>5, <1>8, <1>17, <1>18
  <2>2. \A y \in DOMAIN m \ {p} : m3[y] = m[y]
    BY <1>14, <1>17, <1>18
  <2>3. c.label \in Labels
    BY <1>2, CellFacts DEF c
  <2>4. QED
    BY <1>14, <2>1, <2>2, <2>3
<1>21. CASE c.n - 1 = 0
  <2> DEFINE m4 == Without(m3, {d})
  <2>1. Memory(m4) /\ Owned(m4, {d} \ {d})
    <3>1. DOMAIN m3[d] = {i} /\ m3[d][i].n = 0 /\ d \in DOMAIN m3
      <4>1. DOMAIN mem[d] = 1..c.n
        BY <1>4, MemoryCells
      <4>2. DOMAIN mem[d] = {i}
        BY <1>3, <1>21, <4>1
      <4>3. QED
        BY <1>4, <1>8, <1>14, <1>17, <4>2
    <3>2. OwnsWithin(m3, {d})
      BY <1>16, <3>1 DEF OwnsWithin, Arrays
    <3>3. \A y \in DOMAIN m3 \ {d} : Arrays(m3, y) \cap {d} = {}
      BY <1>16, ArraysFacts DEF Owned
    <3>4. QED
      BY <1>16, <3>2, <3>3, FreeOwned
  <2>2. DOMAIN m4 = DOMAIN m3 \ {d} /\ \A y \in DOMAIN m3 \ {d} : m4[y] = m3[y]
    BY DEF Without
  <2> HIDE DEF m4
  <2> DEFINE l == Leaf(c.label)
  <2>3. l \in Cell /\ l.n = 0
    BY <1>20, NewCells DEF Leaf
  <2> HIDE DEF l
  <2>4. p \in DOMAIN m4 /\ q \in DOMAIN m4[p] /\ m4[p][q].n = 0
    BY <1>5, <1>20, <2>2
  <2>5. Memory(Put(m4, <<p, q>>, l)) /\ Owned(Put(m4, <<p, q>>, l), ({d} \ {d}) \ {l.data})
    <3>1. l.n > 0 => l.data \in {d} \ {d} /\ Len(m4[l.data]) = l.n
      BY <2>3
    <3>2. QED
      BY <2>1, <2>3, <2>4, <3>1, GiveOwned
  <2>6. Put(m4, <<p, q>>, l) = Put(m, <<p, q>>, l)
    <3>1. DOMAIN m4 = DOMAIN m
      BY <1>17, <1>18, <2>2
    <3>2. \A y \in DOMAIN m \ {p} : m4[y] = m[y]
      BY <1>20, <2>2, <3>1
    <3>3. DOMAIN m4[p] = DOMAIN m[p] /\ \A j \in DOMAIN m[p] \ {q} : m4[p][j] = m[p][j]
      BY <1>20, <2>2, <2>4
    <3>4. QED
      BY <1>19, <1>20, <2>1, <2>3, <3>1, <3>2, <3>3, PutAgrees
  <2>7. QED
    BY <1>6, <1>21, <2>5, <2>6 DEF l
<1>22. CASE c.n - 1 # 0
  <2> DEFINE s == Shrunk(mem[d], i)
  <2>1. /\ s \in Seq(Cell)
        /\ Len(s) = c.n - 1
        /\ \A j \in 1..(c.n - 1) : s[j] = IF j < i THEN mem[d][j] ELSE mem[d][j + 1]
    <3> DEFINE t == mem[d]
    <3>1. t \in Seq(Cell) /\ i \in 1..Len(t)
      BY <1>3, <1>4 DEF Memory
    <3> HIDE DEF t
    <3>2. RemoveAt(t, i) \in Seq(Cell) /\ Len(RemoveAt(t, i)) = Len(t) - 1
      BY ONLY <3>1, RemoveAtFacts
    <3>3. \A j \in 1..(Len(t) - 1) : RemoveAt(t, i)[j] = IF j < i THEN t[j] ELSE t[j + 1]
      BY ONLY <3>1, RemoveAtFacts
    <3>4. Len(t) = c.n /\ s = RemoveAt(t, i)
      BY <1>4 DEF Shrunk, t
    <3> HIDE DEF s
    <3>5. QED
      BY <3>2, <3>3, <3>4 DEF t
  <2> HIDE DEF s
  <2>2. /\ DOMAIN s = 1..(c.n - 1) /\ DOMAIN m3[d] = 1..c.n /\ d \in DOMAIN m3
        /\ m3[d][i].n = 0
        /\ \A j \in (1..c.n) \ {i} : m3[d][j] = mem[d][j]
    <3>1. DOMAIN mem[d] = 1..c.n
      BY <1>4, MemoryCells
    <3>2. DOMAIN s = 1..(c.n - 1)
      BY <1>3, <2>1
    <3>3. QED
      BY <1>4, <1>8, <1>14, <1>17, <3>1, <3>2
  <2> DEFINE old(j) == IF j < i THEN j ELSE j + 1
  <2>3. \A j \in DOMAIN s : old(j) \in DOMAIN m3[d] /\ s[j] = m3[d][old(j)]
    BY <1>3, <2>1, <2>2
  <2>4. b \in Block \ DOMAIN m3
    BY <1>17 DEF Free
  <2> DEFINE o == With(Without(m3, {d}), b, s)
  <2>5. Memory(o) /\ Owned(o, {b})
    <3>1. Raw \in Cell /\ Raw.n = 0 /\ Raw.data = NoBlock
      BY NewCells DEF Labels, Raw, Leaf
    <3> DEFINE r == Raw
    <3> HIDE DEF r, old
    <3>2. r \in Cell /\ ~(r.n > 0) /\ r.data = NoBlock
      BY <3>1 DEF r
    <3>3. \A j \in DOMAIN s : \E h \in DOMAIN m3[d] : s[j] = m3[d][h]
      BY <2>3
    <3>4. ASSUME NEW j \in DOMAIN s, NEW h \in DOMAIN s,
                 s[j].n > 0 /\ s[h].n > 0 /\ s[j].data = s[h].data
          PROVE  j = h
      <4>0. d \in DOMAIN m3 /\ Owned(m3, {d})
        BY <1>16, <2>2
      <4>1. \A u, v \in DOMAIN m3[d] :
              m3[d][u].n > 0 /\ m3[d][v].n > 0 /\ m3[d][u].data = m3[d][v].data => u = v
        <5> HIDE DEF m3, d
        <5>1. QED
          BY ONLY <4>0 DEF Owned
      <4>2. old(j) = old(h)
        BY <2>3, <3>4, <4>1
      <4>3. QED
        BY <1>3, <2>2, <4>2 DEF old
    <3>5. ASSUME NEW h \in DOMAIN m3[d], m3[d][h].n > 0
          PROVE  \E j \in DOMAIN s : s[j] = m3[d][h]
      <4>1. h # i
        BY <2>2, <3>5
      <4>2. CASE h < i
        <5>1. h \in DOMAIN s /\ old(h) = h
          BY <1>3, <2>2, <4>2 DEF old
        <5>2. QED
          BY <2>3, <5>1
      <4>3. CASE h > i
        <5>1. h - 1 \in DOMAIN s /\ old(h - 1) = h
          BY <1>3, <2>2, <4>3 DEF old
        <5>2. QED
          BY <2>3, <5>1
      <4>4. QED
        BY <1>3, <2>2, <4>1, <4>2, <4>3
    <3>6. Memory(o) /\ Owned(o, ({d} \ {d, r.data}) \cup {b})
      <4> HIDE DEF o
      <4>1. s \in Seq(Cell) /\ Memory(m3) /\ Owned(m3, {d}) /\ d \in {d}
        BY <1>16, <2>1
      <4>2. QED
        BY <2>4, <3>2, <3>3, <3>4, <3>5, <4>1, RefillOwned DEF o
    <3>7. QED
      BY <3>6
  <2>6. DOMAIN o = (DOMAIN m3 \ {d}) \cup {b} /\ o[b] = s /\ \A y \in DOMAIN m3 \ {d, b} : o[y] = m3[y]
    BY DEF With, Without
  <2> HIDE DEF o
  <2> DEFINE n == Node(c.label, c.n - 1, b)
  <2>7. n \in Cell /\ n.n = c.n - 1 /\ n.data = b
    <3>1. c.n - 1 \in 1..MaxKids
      BY <1>2, <1>3, <1>22, BoundsAssumption, CellFacts DEF c
    <3>2. b \in Block
      BY DEF Free
    <3>3. QED
      BY <1>20, <3>1, <3>2, NewCells DEF Node
  <2> HIDE DEF n
  <2>8. p # b /\ p \in DOMAIN o /\ q \in DOMAIN o[p] /\ o[p][q].n = 0
    BY <1>5, <1>20, <2>4, <2>6
  <2>9. Memory(Put(o, <<p, q>>, n)) /\ Owned(Put(o, <<p, q>>, n), {b} \ {n.data})
    <3>1. n.data \in {b} /\ Len(o[n.data]) = n.n
      BY <2>1, <2>6, <2>7
    <3>2. QED
      BY <2>5, <2>7, <2>8, <3>1, GiveOwned
  <2> DEFINE r == With(m, b, s)
  <2>10. Put(o, <<p, q>>, n) = Put(r, <<p, q>>, n)
    <3>1. DOMAIN r = DOMAIN m \cup {b} /\ r[b] = s /\ \A y \in DOMAIN m \ {b} : r[y] = m[y]
      BY DEF With
    <3>2. Memory(r)
      <4>1. b \in (Var \cup Block) \ DOMAIN m /\ (b \in Var => Len(s) = 1)
        BY <1>17, <1>18, <2>4, StorageAssumption
      <4>2. s \in Seq(Cell)
        BY <2>1
      <4>3. QED
        BY <1>19, <4>1, <4>2, WithFacts
    <3> HIDE DEF r
    <3>3. DOMAIN o = DOMAIN r /\ p \in DOMAIN r /\ q \in DOMAIN r[p]
      BY <1>17, <1>18, <1>20, <2>6, <2>8, <3>1
    <3>4. \A y \in DOMAIN r \ {p} : o[y] = r[y]
      BY <1>17, <1>18, <1>20, <2>6, <3>1
    <3>5. DOMAIN o[p] = DOMAIN r[p] /\ \A j \in DOMAIN r[p] \ {q} : o[p][j] = r[p][j]
      BY <1>5, <1>20, <2>6, <2>8, <3>1
    <3>6. QED
      BY <2>5, <2>7, <3>2, <3>3, <3>4, <3>5, PutAgrees
  <2>11. {b} \ {n.data} = {}
    BY <2>7
  <2>12. QED
    BY <1>6, <1>22, <2>9, <2>10, <2>11 DEF n, s
<1>23. QED
  BY <1>21, <1>22
-----------------------------------------------------------------------------
(* The calls of transform_initialize and deserialize. *)

\* The call for a child returns: the child is stored, and the calls that go on
\* are as they were, one child further.
LEMMA ReturnedFacts ==
    ASSUME NEW ks \in Seq(Frame), ks # <<>>
    PROVE  /\ Returned(ks) \in Seq(Frame)
           /\ Len(Returned(ks)) = Len(ks)
           /\ DOMAIN Returned(ks) = DOMAIN ks
           /\ 1 \in DOMAIN ks
           /\ Returned(ks)[1] = [ks[1] EXCEPT !.done = @ + 1]
           /\ \A k \in DOMAIN ks \ {1} : Returned(ks)[k] = ks[k]
           /\ Begun(Returned(ks)) = Begun(ks)
           /\ \A k \in DOMAIN ks : /\ Returned(ks)[k].block = ks[k].block
                                   /\ Returned(ks)[k].to = ks[k].to
                                   /\ Returned(ks)[k].from = ks[k].from
                                   /\ Returned(ks)[k].done = IF k = 1 THEN ks[1].done + 1 ELSE ks[k].done
<1> DEFINE h == [ks[1] EXCEPT !.done = @ + 1]
<1>1. Head(ks) = ks[1] /\ ks[1] \in Frame /\ Tail(ks) \in Seq(Frame) /\ Len(ks) \in Nat \ {0}
      /\ DOMAIN ks = 1..Len(ks) /\ Len(Tail(ks)) = Len(ks) - 1
      /\ \A k \in 1..(Len(ks) - 1) : Tail(ks)[k] = ks[k + 1]
  OBVIOUS
<1>2. h \in Frame /\ h.block = ks[1].block /\ h.to = ks[1].to /\ h.from = ks[1].from
      /\ h.done = ks[1].done + 1
  BY <1>1 DEF Frame
<1>3. Returned(ks) = <<h>> \o Tail(ks)
  BY <1>1 DEF Returned
<1> HIDE DEF h
<1> DEFINE t == Tail(ks)
<1> HIDE DEF t
<1>4. /\ <<h>> \o t \in Seq(Frame)
      /\ Len(<<h>> \o t) = Len(t) + 1
      /\ (<<h>> \o t)[1] = h
      /\ \A k \in 1..(Len(t) + 1) : k # 1 => (<<h>> \o t)[k] = t[k - 1]
  BY <1>1, <1>2 DEF t
<1> DEFINE r == Returned(ks)
<1>5. r \in Seq(Frame) /\ Len(r) = Len(ks) /\ r[1] = h /\ DOMAIN r = DOMAIN ks
  BY <1>1, <1>3, <1>4 DEF t
<1>6. \A k \in DOMAIN ks \ {1} : r[k] = ks[k]
  BY <1>1, <1>3, <1>4 DEF t
<1> HIDE DEF r
<1>7. \A k \in DOMAIN ks : /\ r[k].block = ks[k].block
                           /\ r[k].to = ks[k].to
                           /\ r[k].from = ks[k].from
                           /\ r[k].done = IF k = 1 THEN ks[1].done + 1 ELSE ks[k].done
  BY <1>2, <1>5, <1>6
<1>8. Begun(r) = Begun(ks)
  BY <1>5, <1>7 DEF Begun
<1>9. QED
  BY <1>1, <1>5, <1>6, <1>7, <1>8 DEF r, h

\* The calls below the innermost one.
LEMMA TailFacts ==
    ASSUME NEW ks \in Seq(Frame), ks # <<>>
    PROVE  /\ Tail(ks) \in Seq(Frame)
           /\ Len(ks) \in Nat \ {0} /\ Len(Tail(ks)) = Len(ks) - 1
           /\ DOMAIN ks = 1..Len(ks) /\ DOMAIN Tail(ks) = 1..(Len(ks) - 1)
           /\ \A k \in DOMAIN Tail(ks) : k + 1 \in DOMAIN ks /\ Tail(ks)[k] = ks[k + 1]
           /\ Head(ks) = ks[1] /\ ks[1] \in Frame
           /\ Begun(ks) = Begun(Tail(ks)) \cup {ks[1].block}
<1>1. /\ Tail(ks) \in Seq(Frame)
      /\ Len(ks) \in Nat \ {0} /\ Len(Tail(ks)) = Len(ks) - 1
      /\ DOMAIN ks = 1..Len(ks)
      /\ \A k \in 1..(Len(ks) - 1) : Tail(ks)[k] = ks[k + 1]
      /\ Head(ks) = ks[1] /\ ks[1] \in Frame
  OBVIOUS
<1> DEFINE t == Tail(ks)
<1> HIDE DEF t
<1>2. t \in Seq(Frame) /\ Len(t) = Len(ks) - 1 /\ \A k \in 1..(Len(ks) - 1) : t[k] = ks[k + 1]
  BY <1>1 DEF t
<1>3. DOMAIN t = 1..(Len(ks) - 1)
  BY <1>1, <1>2
<1>4. \A k \in DOMAIN t : k + 1 \in DOMAIN ks /\ t[k] = ks[k + 1]
  BY <1>1, <1>2, <1>3
<1>5. Begun(ks) = Begun(t) \cup {ks[1].block}
  <2>1. \A k \in DOMAIN ks : k = 1 \/ (k - 1 \in DOMAIN t /\ ks[k] = t[k - 1])
    BY <1>1, <1>2, <1>3
  <2>2. Begun(ks) \subseteq Begun(t) \cup {ks[1].block}
    BY <2>1 DEF Begun
  <2>3. Begun(t) \subseteq Begun(ks)
    BY <1>4 DEF Begun
  <2>4. ks[1].block \in Begun(ks)
    BY <1>1 DEF Begun
  <2>5. QED
    BY <2>2, <2>3, <2>4
<1>6. QED
  BY <1>1, <1>3, <1>4, <1>5 DEF t

\* A call for a child is made.
LEMMA PushFacts ==
    ASSUME NEW ks \in Seq(Frame), NEW f \in Frame
    PROVE  /\ <<f>> \o ks \in Seq(Frame)
           /\ Len(ks) \in Nat /\ Len(<<f>> \o ks) = Len(ks) + 1
           /\ DOMAIN ks = 1..Len(ks) /\ DOMAIN (<<f>> \o ks) = 1..(Len(ks) + 1)
           /\ (<<f>> \o ks)[1] = f
           /\ \A k \in DOMAIN (<<f>> \o ks) \ {1} :
                 k - 1 \in DOMAIN ks /\ (<<f>> \o ks)[k] = ks[k - 1]
           /\ Begun(<<f>> \o ks) = Begun(ks) \cup {f.block}
<1> DEFINE p == <<f>> \o ks
<1>1. p \in Seq(Frame) /\ Len(p) = Len(ks) + 1 /\ Len(ks) \in Nat /\ DOMAIN ks = 1..Len(ks)
      /\ p[1] = f /\ \A k \in 1..(Len(ks) + 1) : k # 1 => p[k] = ks[k - 1]
  OBVIOUS
<1> HIDE DEF p
<1>2. DOMAIN p = 1..(Len(ks) + 1)
  BY <1>1
<1>3. \A k \in DOMAIN p \ {1} : k - 1 \in DOMAIN ks /\ p[k] = ks[k - 1]
  BY <1>1, <1>2
<1>4. Begun(p) = Begun(ks) \cup {f.block}
  <2>1. \A k \in DOMAIN ks : k + 1 \in DOMAIN p /\ p[k + 1] = ks[k]
    BY <1>1, <1>2
  <2>2. 1 \in DOMAIN p
    BY <1>1, <1>2
  <2>3. Begun(ks) \cup {f.block} \subseteq Begun(p)
    BY <1>1, <2>1, <2>2 DEF Begun
  <2>4. Begun(p) \subseteq Begun(ks) \cup {f.block}
    BY <1>1, <1>3 DEF Begun
  <2>5. QED
    BY <2>3, <2>4
<1>5. QED
  BY <1>1, <1>2, <1>3, <1>4 DEF p

\* The calls below the innermost one know where they are, too.
LEMMA TailFrames ==
    ASSUME NEW m, NEW ks \in Seq(Frame), ks # <<>>, \A k \in DOMAIN ks : FrameInv(m, ks, k)
    PROVE  /\ \A k \in DOMAIN Tail(ks) : FrameInv(m, Tail(ks), k)
           /\ Tail(ks) # <<>> => Tail(ks)[1].done < Len(m[Tail(ks)[1].block])
<1> DEFINE t == Tail(ks)
<1> HIDE DEF t
<1>1. /\ Len(ks) \in Nat \ {0} /\ Len(t) = Len(ks) - 1
      /\ DOMAIN ks = 1..Len(ks) /\ DOMAIN t = 1..(Len(ks) - 1)
      /\ \A k \in DOMAIN t : k + 1 \in DOMAIN ks /\ t[k] = ks[k + 1]
  BY TailFacts DEF t
<1>2. ASSUME NEW k \in DOMAIN t
      PROVE  FrameInv(m, t, k) /\ t[k].done < Len(m[t[k].block])
  <2> DEFINE cells == m[t[k].block]
  <2>1. t[k] = ks[k + 1] /\ k + 1 \in DOMAIN ks /\ FrameInv(m, ks, k + 1)
    BY <1>1
  <2>2. k \in Nat \ {0} /\ k + 1 > 1
    BY <1>1
  <2>3. /\ Len(cells) = At(m, t[k].from).n
        /\ t[k].done <= Len(cells)
        /\ \A i \in DOMAIN cells : IF i <= t[k].done THEN HasValue(cells[i]) ELSE cells[i].n = 0
        /\ t[k].done < Len(cells)
    BY <2>1, <2>2 DEF FrameInv
  <2>4. \A j \in DOMAIN t : t[j].block = t[k].block => j = k
    <3>1. \A j \in DOMAIN ks : ks[j].block = ks[k + 1].block => j = k + 1
      BY <2>1 DEF FrameInv
    <3>2. QED
      BY <1>1, <2>1, <3>1
  <2>5. IF k < Len(t)
        THEN t[k].to = <<t[k + 1].block, t[k + 1].done + 1>>
        ELSE /\ t[k].to[1] \in DOMAIN m
             /\ t[k].to[2] \in DOMAIN m[t[k].to[1]]
             /\ At(m, t[k].to) = Invalid
    <3>1. CASE k < Len(t)
      <4>1. k + 1 \in DOMAIN t /\ t[k + 1] = ks[(k + 1) + 1] /\ k + 1 < Len(ks)
        BY <1>1, <3>1
      <4>2. QED
        BY <2>1, <3>1, <4>1 DEF FrameInv
    <3>2. CASE ~(k < Len(t))
      <4>1. ~(k + 1 < Len(ks))
        BY <1>1, <3>2
      <4>2. QED
        BY <2>1, <3>2, <4>1 DEF FrameInv
    <3>3. QED
      BY <3>1, <3>2
  <2>6. FrameInv(m, t, k)
    BY <2>3, <2>4, <2>5 DEF FrameInv
  <2>7. QED
    BY <2>3, <2>6
<1>3. t # <<>> => 1 \in DOMAIN t
  BY <1>1, TailFacts DEF t
<1>4. QED
  BY <1>2, <1>3 DEF t

\* A child is stored in the array of the innermost call.
LEMMA StoredBuilding ==
    ASSUME NEW m, Memory(m), NEW ks \in Seq(Frame), ks # <<>>,
           NEW c \in Cell, HasValue(c), Owned(m, Begun(ks) \cup Owning(c)),
           NEW source \in SUBSET (Block \cap DOMAIN m), NEW made \in SUBSET (Block \cap DOMAIN m),
           Apart(m, ks, source, made),
           \A k \in DOMAIN ks : FrameInv(m, ks, k),
           ks[1].done < Len(m[ks[1].block]),
           c.n > 0 => c.data \in made \ Begun(ks) /\ Len(m[c.data]) = c.n
    PROVE  /\ Memory(Put(m, <<ks[1].block, ks[1].done + 1>>, c))
           /\ Building(Put(m, <<ks[1].block, ks[1].done + 1>>, c), Returned(ks))
<1> DEFINE b == ks[1].block
           i == ks[1].done + 1
           m2 == Put(m, <<b, i>>, c)
           r == Returned(ks)
<1>1. /\ r \in Seq(Frame) /\ Len(r) = Len(ks) /\ DOMAIN r = DOMAIN ks /\ 1 \in DOMAIN ks
      /\ Begun(r) = Begun(ks)
      /\ \A k \in DOMAIN ks : /\ r[k].block = ks[k].block
                              /\ r[k].to = ks[k].to
                              /\ r[k].from = ks[k].from
                              /\ r[k].done = IF k = 1 THEN ks[1].done + 1 ELSE ks[k].done
  BY ReturnedFacts
<1>2. DOMAIN ks = 1..Len(ks) /\ Len(ks) \in Nat /\ \A k \in DOMAIN ks : ks[k] \in Frame
  OBVIOUS
<1>3. b \in Begun(ks) /\ b \in made /\ b \in DOMAIN m /\ b \in Block
  BY <1>1 DEF Begun, Apart
<1>4. FrameInv(m, ks, 1) /\ ks[1].done \in Nat
  BY <1>1, <1>2 DEF Frame
<1>5. Len(m[b]) \in Nat /\ DOMAIN m[b] = 1..Len(m[b]) /\ m[b] \in Seq(Cell)
  <2>1. m[b] \in Seq(Cell)
    BY <1>3 DEF Memory
  <2> DEFINE s == m[b]
  <2> HIDE DEF s
  <2>2. s \in Seq(Cell)
    BY <2>1 DEF s
  <2>3. Len(s) \in Nat /\ DOMAIN s = 1..Len(s)
    BY ONLY <2>2
  <2>4. QED
    BY <2>2, <2>3 DEF s
<1>6. i \in DOMAIN m[b] /\ m[b][i].n = 0
  <2>1. i \in DOMAIN m[b] /\ ~(i <= ks[1].done)
    BY <1>4, <1>5
  <2>2. QED
    BY <1>4, <2>1 DEF FrameInv
<1>7. /\ Memory(m2)
      /\ DOMAIN m2 = DOMAIN m
      /\ \A x \in DOMAIN m \ {b} : m2[x] = m[x]
      /\ DOMAIN m2[b] = DOMAIN m[b]
      /\ Len(m2[b]) = Len(m[b])
      /\ m2[b][i] = c
      /\ \A j \in DOMAIN m[b] \ {i} : m2[b][j] = m[b][j]
  <2> HIDE DEF b, i
  <2>1. b \in DOMAIN m /\ i \in DOMAIN m[b]
    BY <1>3, <1>6
  <2>2. Memory(m2) /\ DOMAIN m2 = DOMAIN m /\ \A x \in DOMAIN m \ {b} : m2[x] = m[x]
    BY <2>1, PutFacts
  <2>3. DOMAIN m2[b] = DOMAIN m[b] /\ Len(m2[b]) = Len(m[b])
    BY <2>1, PutFacts
  <2>4. m2[b][i] = c /\ \A j \in DOMAIN m[b] \ {i} : m2[b][j] = m[b][j]
    BY <2>1, PutFacts
  <2>5. QED
    BY <2>2, <2>3, <2>4
<1>8. Owned(m2, Begun(ks))
  <2> DEFINE loose == Begun(ks) \cup Owning(c)
  <2>1. c.n > 0 => c.data \in loose /\ Len(m[c.data]) = c.n
    BY DEF Owning
  <2>2. loose \ {c.data} = Begun(ks)
    <3>1. Begun(ks) \subseteq Block
      BY DEF Apart
    <3>2. c.n = 0 => c.data \notin Block
      BY CellFacts, StorageAssumption
    <3>3. QED
      BY <3>1, <3>2, CellFacts DEF Owning
  <2>3. Owned(m, loose)
    OBVIOUS
  <2> HIDE DEF loose, b, i
  <2>4. b \in DOMAIN m /\ i \in DOMAIN m[b] /\ m[b][i].n = 0
    BY <1>3, <1>6
  <2>5. Owned(m2, loose \ {c.data})
    BY <2>1, <2>3, <2>4, GiveOwned
  <2>6. QED
    BY <2>2, <2>5
<1>9. /\ Arrays(m2, b) \subseteq Arrays(m, b) \cup Owning(c)
      /\ \A x \in DOMAIN m \ {b} : Arrays(m2, x) = Arrays(m, x)
  <2> HIDE DEF m2, b, i
  <2>1. \A x \in DOMAIN m \ {b} : Arrays(m2, x) = Arrays(m, x)
    BY <1>7 DEF Arrays
  <2>2. ASSUME NEW d \in Arrays(m2, b)
        PROVE  d \in Arrays(m, b) \cup Owning(c)
    <3>1. PICK j \in DOMAIN m2[b] : m2[b][j].n > 0 /\ m2[b][j].data = d
      BY <2>2 DEF Arrays
    <3>2. CASE j = i
      BY <1>7, <3>1, <3>2 DEF Owning
    <3>3. CASE j # i
      BY <1>7, <3>1, <3>3 DEF Arrays
    <3>4. QED
      BY <3>2, <3>3
  <2>3. QED
    BY <2>1, <2>2
<1> HIDE DEF m2, r
<1>10. ASSUME NEW k \in DOMAIN ks
       PROVE  FrameInv(m2, r, k)
  <2>1. FrameInv(m, ks, k) /\ ks[k] \in Frame /\ ks[k].done \in Nat
    BY <1>2 DEF Frame
  <2>2. ks[k].from[1] \in DOMAIN m \ made /\ At(m2, ks[k].from) = At(m, ks[k].from)
    BY <1>3, <1>7 DEF Apart, At
  <2>3. ks[k].block \in DOMAIN m
    BY DEF Apart, Begun
  <2>4. Len(m2[ks[k].block]) = Len(m[ks[k].block])
    BY <1>7, <2>3
  <2>5. Len(m2[r[k].block]) = At(m2, r[k].from).n
    BY <1>1, <2>1, <2>2, <2>4 DEF FrameInv
  <2>6. r[k].done <= Len(m2[r[k].block])
    <3>1. CASE k = 1
      BY <1>1, <1>5, <1>4, <2>4, <3>1
    <3>2. CASE k # 1
      BY <1>1, <2>1, <2>4, <3>2 DEF FrameInv
    <3>3. QED
      BY <3>1, <3>2
  <2>7. \A j \in DOMAIN m2[r[k].block] :
            IF j <= r[k].done THEN HasValue(m2[r[k].block][j]) ELSE m2[r[k].block][j].n = 0
    <3>1. CASE k = 1
      <4>1. r[k].block = b /\ r[k].done = ks[1].done + 1
        BY <1>1, <3>1
      <4>2. ASSUME NEW j \in DOMAIN m2[b]
            PROVE  IF j <= ks[1].done + 1 THEN HasValue(m2[b][j]) ELSE m2[b][j].n = 0
        <5>1. CASE j = i
          BY <1>7, <5>1
        <5>2. CASE j # i
          <6>1. j \in DOMAIN m[b] /\ m2[b][j] = m[b][j] /\ j \in Nat
            BY <1>5, <1>7, <5>2
          <6>2. j <= ks[1].done + 1 <=> j <= ks[1].done
            BY <1>4, <5>2, <6>1
          <6>3. IF j <= ks[1].done THEN HasValue(m[b][j]) ELSE m[b][j].n = 0
            BY <1>4, <6>1 DEF FrameInv
          <6>4. QED
            BY <6>1, <6>2, <6>3
        <5>3. QED
          BY <5>1, <5>2
      <4>3. QED
        BY <4>1, <4>2
    <3>2. CASE k # 1
      <4>1. ks[k].block # b
        BY <1>4, <3>2 DEF FrameInv
      <4>2. m2[ks[k].block] = m[ks[k].block] /\ r[k].block = ks[k].block /\ r[k].done = ks[k].done
        BY <1>1, <1>7, <2>3, <3>2, <4>1
      <4>3. QED
        BY <2>1, <4>2 DEF FrameInv
    <3>3. QED
      BY <3>1, <3>2
  <2>8. k > 1 => r[k].done < Len(m2[r[k].block])
    BY <1>1, <2>1, <2>4 DEF FrameInv
  <2>9. \A j \in DOMAIN r : r[j].block = r[k].block => j = k
    BY <1>1, <2>1 DEF FrameInv
  <2>10. IF k < Len(r)
         THEN r[k].to = <<r[k + 1].block, r[k + 1].done + 1>>
         ELSE /\ r[k].to[1] \in DOMAIN m2
              /\ r[k].to[2] \in DOMAIN m2[r[k].to[1]]
              /\ At(m2, r[k].to) = Invalid
    <3>1. CASE k < Len(r)
      <4>1. k + 1 \in DOMAIN ks /\ k + 1 # 1
        BY <1>1, <1>2, <3>1
      <4>2. r[k + 1].block = ks[k + 1].block /\ r[k + 1].done = ks[k + 1].done /\ r[k].to = ks[k].to
        BY <1>1, <4>1
      <4>3. QED
        BY <1>1, <2>1, <3>1, <4>2 DEF FrameInv
    <3>2. CASE ~(k < Len(r))
      <4>1. k = Len(ks)
        BY <1>1, <1>2, <3>2
      <4>2. ks[k].to[1] \notin made
        BY <4>1 DEF Apart
      <4>3. /\ ks[k].to[1] \in DOMAIN m
            /\ ks[k].to[2] \in DOMAIN m[ks[k].to[1]]
            /\ At(m, ks[k].to) = Invalid
        BY <1>1, <2>1, <3>2 DEF FrameInv
      <4>4. m2[ks[k].to[1]] = m[ks[k].to[1]]
        BY <1>3, <1>7, <4>2, <4>3
      <4>5. QED
        BY <1>1, <1>7, <3>2, <4>3, <4>4 DEF At
    <3>3. QED
      BY <3>1, <3>2
  <2>11. QED
    BY <2>5, <2>6, <2>7, <2>8, <2>9, <2>10 DEF FrameInv
<1>11. Apart(m2, r, source, made)
  <2>1. source \cap made = {} /\ Begun(r) \subseteq made
    BY <1>1 DEF Apart
  <2>2. OwnsWithin(m2, source) /\ \A x \in source : \A j \in DOMAIN m2[x] : HasValue(m2[x][j])
    <3>1. \A x \in source : x \in DOMAIN m \ {b} /\ m2[x] = m[x] /\ Arrays(m2, x) = Arrays(m, x)
      BY <1>3, <1>7, <1>9 DEF Apart
    <3>2. QED
      BY <3>1 DEF Apart, OwnsWithin
  <2>3. \A x \in DOMAIN m2 : IF x \in made THEN Arrays(m2, x) \subseteq made
                                           ELSE Arrays(m2, x) \cap made = {}
    <3>1. Owning(c) \subseteq made
      BY DEF Owning
    <3>2. QED
      BY <1>3, <1>7, <1>9, <3>1 DEF Apart
  <2>4. \A x \in made \ Begun(r) : \A j \in DOMAIN m2[x] : HasValue(m2[x][j])
    BY <1>1, <1>3, <1>7 DEF Apart
  <2>5. ASSUME NEW k \in DOMAIN r
        PROVE  /\ r[k].from[1] \in DOMAIN m2 \ made
               /\ r[k].from[2] \in DOMAIN m2[r[k].from[1]]
               /\ HasValue(At(m2, r[k].from))
               /\ At(m2, r[k].from).n > 0
               /\ At(m2, r[k].from).data \in source
               /\ k = Len(r) => r[k].to[1] \notin made
    <3>1. /\ ks[k].from[1] \in DOMAIN m \ made
          /\ ks[k].from[2] \in DOMAIN m[ks[k].from[1]]
          /\ HasValue(At(m, ks[k].from))
          /\ At(m, ks[k].from).n > 0
          /\ At(m, ks[k].from).data \in source
          /\ k = Len(ks) => ks[k].to[1] \notin made
      BY <1>1 DEF Apart
    <3>2. m2[ks[k].from[1]] = m[ks[k].from[1]]
      BY <1>3, <1>7, <3>1
    <3>3. r[k].from = ks[k].from /\ r[k].to = ks[k].to
      BY <1>1
    <3>4. QED
      BY <1>1, <1>7, <3>1, <3>2, <3>3 DEF At
  <2>6. QED
    BY <2>1, <2>2, <2>3, <2>4, <2>5 DEF Apart
<1>12. Building(m2, r)
  <2>1. source \in SUBSET (Block \cap DOMAIN m2) /\ made \in SUBSET (Block \cap DOMAIN m2)
    BY <1>7
  <2>2. Owned(m2, Begun(r))
    BY <1>1, <1>8
  <2>3. QED
    BY <1>1, <1>10, <1>11, <2>1, <2>2 DEF Building
<1>13. QED
  BY <1>7, <1>12 DEF m2, r

\* One block is new, with nodes without children; the others are as they were.
Grown(m, w, b, n) ==
    /\ DOMAIN w = DOMAIN m \cup {b}
    /\ \A x \in DOMAIN m : w[x] = m[x]
    /\ Len(w[b]) = n
    /\ \A i \in DOMAIN w[b] : w[b][i].n = 0
    /\ Arrays(w, b) = {}
    /\ \A x \in DOMAIN m : Arrays(w, x) = Arrays(m, x) /\ b \notin Arrays(m, x)

\* A new array.
LEMMA NewArrayFacts ==
    ASSUME NEW m, NEW loose, Memory(m), Owned(m, loose), NEW b \in Block \ DOMAIN m,
           NEW kind, NEW n \in Nat
    PROVE  /\ Memory(With(m, b, Cells(kind, n)))
           /\ Owned(With(m, b, Cells(kind, n)), loose \cup {b})
           /\ Grown(m, With(m, b, Cells(kind, n)), b, n)
<1> DEFINE s == Cells(kind, n)
<1>1. /\ s \in Seq(Cell)
      /\ Len(s) = n
      /\ \A i \in DOMAIN s : s[i].n = 0
  <2> DEFINE c == IF kind = "copy" THEN Invalid ELSE Raw
  <2>1. c \in Cell /\ c.n = 0
    BY NewCells DEF Labels
  <2>2. s = Filled(n, c)
    BY DEF Cells
  <2> HIDE DEF c, s
  <2>3. Filled(n, c) \in Seq(Cell)
    BY ONLY <2>1, FilledFacts, n \in Nat
  <2>4. Len(Filled(n, c)) = n
    BY ONLY <2>1, FilledFacts, n \in Nat
  <2>5. \A i \in DOMAIN Filled(n, c) : Filled(n, c)[i].n = 0
    BY ONLY <2>1, FilledFacts, n \in Nat
  <2>6. QED
    BY <2>2, <2>3, <2>4, <2>5
<1> HIDE DEF s
<1> DEFINE m2 == With(m, b, s)
<1>2. b \in (Var \cup Block) \ DOMAIN m /\ b \in Block /\ b \notin Var
  BY StorageAssumption
<1>3. Memory(m2) /\ Owned(m2, loose \cup ({b} \cap Block))
  BY <1>1, <1>2, AllocateOwned
<1>4. DOMAIN m2 = DOMAIN m \cup {b}
  BY <1>1, <1>2, WithFacts
<1>5. m2[b] = s /\ \A x \in DOMAIN m : m2[x] = m[x]
  BY <1>2, WithCells
<1> HIDE DEF m2
<1>6. \A x \in DOMAIN m : b \notin Arrays(m, x)
  BY <1>2, ArraysFacts DEF Owned
<1>7. \A x \in DOMAIN m : Arrays(m2, x) = Arrays(m, x)
  BY <1>5 DEF Arrays
<1>8. Arrays(m2, b) = {}
  BY <1>1, <1>5 DEF Arrays
<1>9. loose \cup ({b} \cap Block) = loose \cup {b}
  BY <1>2
<1>10. Len(m2[b]) = n /\ \A i \in DOMAIN m2[b] : m2[b][i].n = 0
  BY <1>1, <1>5
<1>11. Grown(m, m2, b, n)
  BY <1>4, <1>5, <1>6, <1>7, <1>8, <1>10 DEF Grown
<1>12. QED
  BY <1>3, <1>9, <1>11 DEF m2, s

\* The next child to copy is there, below the node that is copied.
LEMMA ChildFacts ==
    ASSUME NEW m, Memory(m), NEW ks \in Seq(Frame), ks # <<>>, Building(m, ks),
           NEW source \in SUBSET (Block \cap DOMAIN m), NEW made \in SUBSET (Block \cap DOMAIN m),
           Apart(m, ks, source, made),
           ks[1].done < At(m, ks[1].from).n,
           NEW d, d = At(m, ks[1].from).data
    PROVE  /\ d \in source
           /\ ks[1].done + 1 \in DOMAIN m[d]
           /\ m[d][ks[1].done + 1] \in Cell
           /\ HasValue(m[d][ks[1].done + 1])
<1>1. 1 \in DOMAIN ks /\ ks[1].done \in Nat
  <2>1. 1 \in DOMAIN ks /\ ks[1] \in Frame
    BY TailFacts
  <2>2. QED
    BY <2>1 DEF Frame
<1>2. /\ ks[1].from[1] \in DOMAIN m
      /\ ks[1].from[2] \in DOMAIN m[ks[1].from[1]]
      /\ At(m, ks[1].from).n > 0
      /\ d \in source
  BY <1>1 DEF Apart
<1>3. d \in DOMAIN m /\ Len(m[d]) = At(m, ks[1].from).n
  BY <1>2 DEF Building, Owned, At
<1>4. Len(m[d]) \in Nat /\ DOMAIN m[d] = 1..Len(m[d])
  <2>1. m[d] \in Seq(Cell)
    BY <1>3 DEF Memory
  <2> DEFINE s == m[d]
  <2> HIDE DEF s
  <2>2. s \in Seq(Cell)
    BY <2>1 DEF s
  <2>3. QED
    BY <2>2 DEF s
<1>5. ks[1].done + 1 \in DOMAIN m[d]
  BY <1>1, <1>3, <1>4
<1>6. QED
  BY <1>2, <1>3, <1>5, MemoryCells DEF Apart

\* The call for a child that has children.
LEMMA DescendedBuilding ==
    ASSUME NEW m, Memory(m), NEW ks \in Seq(Frame), ks # <<>>, Building(m, ks),
           NEW b \in Block \ DOMAIN m, NEW kind \in {"copy", "load"}, NEW from,
           from = <<At(m, ks[1].from).data, ks[1].done + 1>>,
           ks[1].done < At(m, ks[1].from).n, At(m, from).n > 0,
           NEW f, f = [kind |-> kind, to |-> <<ks[1].block, ks[1].done + 1>>, from |-> from,
                       block |-> b, done |-> 0]
    PROVE  /\ Memory(With(m, b, Cells(kind, At(m, from).n)))
           /\ f \in Frame
           /\ Building(With(m, b, Cells(kind, At(m, from).n)), <<f>> \o ks)
<1> DEFINE n == At(m, from).n
           d == At(m, ks[1].from).data
           m2 == With(m, b, Cells(kind, n))
           p == <<f>> \o ks
<1>1. PICK source \in SUBSET (Block \cap DOMAIN m), made \in SUBSET (Block \cap DOMAIN m) :
         Apart(m, ks, source, made)
  BY DEF Building
<1>2. /\ DOMAIN ks = 1..Len(ks) /\ Len(ks) \in Nat \ {0} /\ 1 \in DOMAIN ks
      /\ \A k \in DOMAIN ks : ks[k] \in Frame
  OBVIOUS
<1>3. /\ ks[1].done \in Nat /\ ks[1].block \in Block
      /\ \A k \in DOMAIN ks : ks[k].block \in Begun(ks) /\ ks[k].block \in DOMAIN m
  BY <1>1, <1>2 DEF Frame, Apart, Begun
<1>4. /\ d \in source /\ d \in DOMAIN m
      /\ from[1] = d /\ from[2] = ks[1].done + 1
      /\ from[2] \in DOMAIN m[d] /\ m[d][from[2]] \in Cell
      /\ At(m, from) = m[d][from[2]]
  BY <1>1, ChildFacts DEF At
<1>5. n \in Nat /\ n > 0 /\ b \in Block /\ b \notin DOMAIN m
  BY <1>4, CellFacts
<1>6. f \in Frame
  <2>1. <<ks[1].block, ks[1].done + 1>> \in Address /\ from \in Address
    BY <1>3, <1>4 DEF Address
  <2>2. QED
    BY <1>5, <2>1 DEF Frame
<1> HIDE DEF n, d
<1>7. /\ Memory(m2)
      /\ Owned(m2, Begun(ks) \cup {b})
      /\ DOMAIN m2 = DOMAIN m \cup {b}
      /\ \A x \in DOMAIN m : m2[x] = m[x]
      /\ Len(m2[b]) = n
      /\ \A i \in DOMAIN m2[b] : m2[b][i].n = 0
      /\ Arrays(m2, b) = {}
      /\ \A x \in DOMAIN m : Arrays(m2, x) = Arrays(m, x) /\ b \notin Arrays(m, x)
  <2> DEFINE loose == Begun(ks)
  <2>1. Owned(m, loose)
    BY DEF Building
  <2> HIDE DEF loose
  <2>2. /\ Memory(m) /\ Owned(m, loose) /\ b \in Block \ DOMAIN m /\ n \in Nat
        /\ m2 = With(m, b, Cells(kind, n))
    BY <1>5, <2>1
  <2>3. Memory(m2) /\ Owned(m2, loose \cup {b}) /\ Grown(m, m2, b, n)
    BY ONLY <2>2, NewArrayFacts
  <2>4. QED
    BY <2>3 DEF Grown, loose
<1> HIDE DEF m2
<1>8. /\ Len(p) = Len(ks) + 1
      /\ DOMAIN p = 1..(Len(ks) + 1)
      /\ p[1] = f
      /\ \A k \in DOMAIN p \ {1} : k - 1 \in DOMAIN ks /\ p[k] = ks[k - 1]
      /\ Begun(p) = Begun(ks) \cup {b}
  <2>1. ks \in Seq(Frame) /\ f \in Frame /\ f.block = b
    BY <1>6
  <2>2. Len(p) = Len(ks) + 1 /\ DOMAIN p = 1..(Len(ks) + 1) /\ p[1] = f
    BY ONLY <2>1, PushFacts
  <2>3. \A k \in DOMAIN p \ {1} : k - 1 \in DOMAIN ks /\ p[k] = ks[k - 1]
    BY ONLY <2>1, PushFacts
  <2>4. Begun(p) = Begun(ks) \cup {b}
    BY ONLY <2>1, PushFacts
  <2>5. QED
    BY <2>2, <2>3, <2>4
<1> HIDE DEF p
<1>9. \A x \in DOMAIN m : x # b
  BY <1>5
<1>10. FrameInv(m2, p, 1)
  <2>1. At(m2, from) = At(m, from)
    BY <1>4, <1>7 DEF At
  <2>2. Len(m2[b]) = At(m2, from).n /\ 0 <= Len(m2[b])
    BY <1>5, <1>7, <2>1 DEF n
  <2>3. \A i \in DOMAIN m2[b] : IF i <= 0 THEN HasValue(m2[b][i]) ELSE m2[b][i].n = 0
    <3>1. \A i \in DOMAIN m2[b] : ~(i <= 0)
      <4>1. b \in DOMAIN m2
        BY <1>7
      <4>2. \A i \in DOMAIN m2[b] : i \in Nat \ {0}
        BY <1>7, <4>1, MemoryCells
      <4>3. QED
        BY <4>2
    <3>2. QED
      BY <1>7, <3>1
  <2>4. \A j \in DOMAIN p : p[j].block = b => j = 1
    BY <1>3, <1>8, <1>9
  <2>5. 1 < Len(p) /\ p[2] = ks[1] /\ 1 + 1 = 2
    BY <1>2, <1>8
  <2>6. f.block = b /\ f.from = from /\ f.done = 0 /\ f.to = <<ks[1].block, ks[1].done + 1>>
    OBVIOUS
  <2>7. QED
    BY <1>8, <2>2, <2>3, <2>4, <2>5, <2>6 DEF FrameInv
<1>11. ASSUME NEW k \in DOMAIN p, k # 1
       PROVE  FrameInv(m2, p, k)
  <2> DEFINE h == k - 1
  <2>1. h \in DOMAIN ks /\ p[k] = ks[h] /\ k \in Nat /\ k = h + 1 /\ h \in Nat \ {0}
    BY <1>2, <1>8, <1>11
  <2> HIDE DEF h
  <2>2. FrameInv(m, ks, h)
    BY <2>1 DEF Building
  <2>3. ks[h].block \in DOMAIN m /\ m2[ks[h].block] = m[ks[h].block]
    BY <1>3, <1>7, <2>1
  <2>4. At(m2, ks[h].from) = At(m, ks[h].from)
    <3>1. ks[h].from[1] \in DOMAIN m
      BY <1>1, <2>1 DEF Apart
    <3>2. QED
      BY <1>7, <3>1 DEF At
  <2>5. /\ Len(m2[p[k].block]) = At(m2, p[k].from).n
        /\ p[k].done <= Len(m2[p[k].block])
        /\ \A i \in DOMAIN m2[p[k].block] :
              IF i <= p[k].done THEN HasValue(m2[p[k].block][i]) ELSE m2[p[k].block][i].n = 0
    BY <2>1, <2>2, <2>3, <2>4 DEF FrameInv
  <2>6. p[k].done < Len(m2[p[k].block])
    <3>1. CASE h = 1
      BY <2>1, <2>2, <2>3, <3>1 DEF FrameInv
    <3>2. CASE h > 1
      BY <2>1, <2>2, <2>3, <3>2 DEF FrameInv
    <3>3. QED
      BY <2>1, <3>1, <3>2
  <2>7. \A j \in DOMAIN p : p[j].block = p[k].block => j = k
    <3>1. \A j \in DOMAIN ks : ks[j].block = ks[h].block => j = h
      BY <2>2 DEF FrameInv
    <3>2. ASSUME NEW j \in DOMAIN p, p[j].block = p[k].block
          PROVE  j = k
      <4>1. j # 1
        BY <1>8, <1>9, <2>1, <2>3, <3>2
      <4>2. j - 1 = h /\ j \in Nat
        BY <1>2, <1>8, <2>1, <3>1, <3>2, <4>1
      <4>3. QED
        BY <2>1, <4>2
    <3>3. QED
      BY <3>2
  <2>8. IF k < Len(p)
        THEN p[k].to = <<p[k + 1].block, p[k + 1].done + 1>>
        ELSE /\ p[k].to[1] \in DOMAIN m2
             /\ p[k].to[2] \in DOMAIN m2[p[k].to[1]]
             /\ At(m2, p[k].to) = Invalid
    <3>1. k < Len(p) <=> h < Len(ks)
      BY <1>2, <1>8, <2>1
    <3>2. CASE h < Len(ks)
      <4>1. k + 1 \in DOMAIN p \ {1} /\ (k + 1) - 1 = h + 1
        BY <1>2, <1>8, <2>1, <3>2
      <4>2. p[k + 1] = ks[h + 1]
        BY <1>8, <4>1
      <4>3. QED
        BY <2>1, <2>2, <3>1, <3>2, <4>2 DEF FrameInv
    <3>3. CASE ~(h < Len(ks))
      <4>1. /\ ks[h].to[1] \in DOMAIN m
            /\ ks[h].to[2] \in DOMAIN m[ks[h].to[1]]
            /\ At(m, ks[h].to) = Invalid
        BY <2>2, <3>3 DEF FrameInv
      <4>2. QED
        BY <1>7, <2>1, <3>1, <3>3, <4>1 DEF At
    <3>4. QED
      BY <3>2, <3>3
  <2>9. QED
    BY <2>5, <2>6, <2>7, <2>8 DEF FrameInv
<1>12. Apart(m2, p, source, made \cup {b})
  <2>1. source \cap (made \cup {b}) = {} /\ Begun(p) \subseteq made \cup {b}
    BY <1>1, <1>8, <1>9 DEF Apart
  <2>2. OwnsWithin(m2, source) /\ \A x \in source : \A j \in DOMAIN m2[x] : HasValue(m2[x][j])
    <3>1. \A x \in source : x \in DOMAIN m /\ m2[x] = m[x] /\ Arrays(m2, x) = Arrays(m, x)
      BY <1>7
    <3>2. QED
      BY <1>1, <3>1 DEF Apart, OwnsWithin
  <2>3. \A x \in DOMAIN m2 : IF x \in made \cup {b} THEN Arrays(m2, x) \subseteq made \cup {b}
                                                    ELSE Arrays(m2, x) \cap (made \cup {b}) = {}
    BY <1>1, <1>7, <1>9 DEF Apart
  <2>4. \A x \in (made \cup {b}) \ Begun(p) : \A j \in DOMAIN m2[x] : HasValue(m2[x][j])
    BY <1>1, <1>7, <1>8 DEF Apart
  <2>5. ASSUME NEW k \in DOMAIN p
        PROVE  /\ p[k].from[1] \in DOMAIN m2 \ (made \cup {b})
               /\ p[k].from[2] \in DOMAIN m2[p[k].from[1]]
               /\ HasValue(At(m2, p[k].from))
               /\ At(m2, p[k].from).n > 0
               /\ At(m2, p[k].from).data \in source
               /\ k = Len(p) => p[k].to[1] \notin made \cup {b}
    <3>1. CASE k = 1
      <4>1. p[k].from = from /\ k # Len(p)
        BY <1>2, <1>8, <3>1
      <4>2. d \in DOMAIN m \ (made \cup {b}) /\ m2[d] = m[d] /\ At(m2, from) = At(m, from)
        BY <1>1, <1>4, <1>7, <1>9 DEF Apart, At
      <4>3. HasValue(At(m, from))
        BY <1>1, <1>4 DEF Apart
      <4>4. At(m, from).data \in source
        <5>1. At(m, from).data \in Arrays(m, d)
          BY <1>4, ArraysFacts
        <5>2. QED
          BY <1>1, <1>4, <5>1 DEF Apart, OwnsWithin
      <4>5. QED
        BY <1>4, <1>7, <4>1, <4>2, <4>3, <4>4
    <3>2. CASE k # 1
      <4>1. k - 1 \in DOMAIN ks /\ p[k] = ks[k - 1] /\ (k = Len(p) => k - 1 = Len(ks))
        BY <1>2, <1>8, <3>2
      <4> DEFINE h == k - 1
      <4> HIDE DEF h
      <4>2. /\ ks[h].from[1] \in DOMAIN m \ made
            /\ ks[h].from[2] \in DOMAIN m[ks[h].from[1]]
            /\ HasValue(At(m, ks[h].from))
            /\ At(m, ks[h].from).n > 0
            /\ At(m, ks[h].from).data \in source
            /\ h = Len(ks) => ks[h].to[1] \notin made
        BY <1>1, <4>1 DEF Apart, h
      <4>3. h = Len(ks) => ks[h].to[1] \in DOMAIN m
        <5>1. FrameInv(m, ks, h)
          BY <4>1 DEF Building, h
        <5>2. QED
          BY <1>2, <5>1 DEF FrameInv
      <4>4. m2[ks[h].from[1]] = m[ks[h].from[1]]
        BY <1>7, <4>2
      <4>5. p[k] = ks[h] /\ (k = Len(p) => h = Len(ks))
        BY <4>1 DEF h
      <4>6. QED
        BY <1>7, <1>9, <4>2, <4>3, <4>4, <4>5 DEF At
    <3>3. QED
      BY <3>1, <3>2
  <2>6. QED
    BY <2>1, <2>2, <2>3, <2>4, <2>5 DEF Apart
<1>13. Building(m2, p)
  <2>1. source \in SUBSET (Block \cap DOMAIN m2) /\ made \cup {b} \in SUBSET (Block \cap DOMAIN m2)
    BY <1>5, <1>7
  <2>2. Owned(m2, Begun(p))
    BY <1>7, <1>8
  <2>3. \A k \in DOMAIN p : FrameInv(m2, p, k)
    BY <1>10, <1>11
  <2>4. QED
    BY <1>12, <2>1, <2>2, <2>3 DEF Building
<1>14. QED
  BY <1>6, <1>7, <1>13 DEF m2, p, n

\* The client's call of a node that has children.
LEMMA BegunBuilding ==
    ASSUME NEW m, Memory(m), Owned(m, {}), NEW b \in Block \ DOMAIN m, NEW kind \in {"copy", "load"},
           NEW tb \in DOMAIN m, NEW ti \in DOMAIN m[tb], m[tb][ti] = Invalid,
           NEW fb \in DOMAIN m, NEW fi \in DOMAIN m[fb], HasValue(m[fb][fi]), m[fb][fi].n > 0,
           Destructible(m, m[fb][fi]),
           NEW f, f = [kind |-> kind, to |-> <<tb, ti>>, from |-> <<fb, fi>>, block |-> b, done |-> 0]
    PROVE  /\ Memory(With(m, b, Cells(kind, m[fb][fi].n)))
           /\ <<f>> \o <<>> \in Seq(Frame)
           /\ Building(With(m, b, Cells(kind, m[fb][fi].n)), <<f>> \o <<>>)
<1> DEFINE c == m[fb][fi]
           m2 == With(m, b, Cells(kind, c.n))
           p == <<f>> \o <<>>
           source == Under(m, c)
<1>1. /\ c \in Cell /\ c.n \in Nat
      /\ tb \in Var \cup Block /\ ti \in Nat \ {0}
      /\ fb \in Var \cup Block /\ fi \in Nat \ {0}
      /\ b \in Block /\ b \notin DOMAIN m
  BY MemoryCells, CellFacts
<1>2. f \in Frame /\ f.block = b /\ f.from = <<fb, fi>> /\ f.to = <<tb, ti>> /\ f.done = 0
  BY <1>1 DEF Frame, Address
<1>3. p \in Seq(Frame) /\ Len(p) = 1 /\ p[1] = f
  BY <1>2
<1>4. DOMAIN p = {1} /\ Begun(p) = {b}
  <2>1. DOMAIN p = {1}
    BY <1>3
  <2>2. QED
    BY <1>2, <1>3, <2>1 DEF Begun
<1> HIDE DEF p, c
<1>5. Memory(m2) /\ Owned(m2, {b}) /\ Grown(m, m2, b, c.n)
  <2>1. Memory(m2) /\ Owned(m2, {} \cup {b}) /\ Grown(m, m2, b, c.n)
    BY <1>1, NewArrayFacts
  <2>2. QED
    BY <2>1
<1> HIDE DEF m2
<1>6. m2[tb] = m[tb] /\ m2[fb] = m[fb] /\ tb # b /\ fb # b
  BY <1>1, <1>5 DEF Grown
<1>7. /\ source \subseteq Block \cap DOMAIN m
      /\ OwnsWithin(m, source)
      /\ c.data \in source
      /\ \A x \in source : \A i \in DOMAIN m[x] : HasValue(m[x][i])
  <2>1. c.n > 0
    BY DEF c
  <2>2. source \subseteq Block /\ OwnsWithin(m, source) /\ c.data \in source
    BY <1>1, <2>1, UnderFacts
  <2>3. \A x \in source : x \in DOMAIN m /\ \A i \in DOMAIN m[x] : HasValue(m[x][i])
    BY DEF Destructible, c
  <2>4. QED
    BY <2>2, <2>3
<1> HIDE DEF source
<1>8. \A k \in DOMAIN p : FrameInv(m2, p, k)
  <2>1. Len(m2[b]) = At(m2, f.from).n /\ 0 <= Len(m2[b])
    BY <1>1, <1>2, <1>5, <1>6 DEF Grown, At, c
  <2>2. \A i \in DOMAIN m2[b] : IF i <= 0 THEN HasValue(m2[b][i]) ELSE m2[b][i].n = 0
    <3>1. b \in DOMAIN m2
      BY <1>5 DEF Grown
    <3>2. \A i \in DOMAIN m2[b] : ~(i <= 0)
      BY <1>5, <3>1, MemoryCells
    <3>3. QED
      BY <1>5, <3>2 DEF Grown
  <2>3. /\ f.to[1] \in DOMAIN m2
        /\ f.to[2] \in DOMAIN m2[f.to[1]]
        /\ At(m2, f.to) = Invalid
    BY <1>2, <1>5, <1>6 DEF Grown, At
  <2>4. FrameInv(m2, p, 1)
    BY <1>2, <1>3, <1>4, <2>1, <2>2, <2>3 DEF FrameInv
  <2>5. QED
    BY <1>4, <2>4
<1>9. Apart(m2, p, source, {b})
  <2>1. source \cap {b} = {} /\ Begun(p) \subseteq {b}
    BY <1>1, <1>4, <1>7
  <2>2. OwnsWithin(m2, source) /\ \A x \in source : \A j \in DOMAIN m2[x] : HasValue(m2[x][j])
    BY <1>5, <1>7 DEF Grown, OwnsWithin
  <2>3. \A x \in DOMAIN m2 : IF x \in {b} THEN Arrays(m2, x) \subseteq {b}
                                          ELSE Arrays(m2, x) \cap {b} = {}
    BY <1>5 DEF Grown
  <2>4. \A x \in {b} \ Begun(p) : \A j \in DOMAIN m2[x] : HasValue(m2[x][j])
    BY <1>4
  <2>5. ASSUME NEW k \in DOMAIN p
        PROVE  /\ p[k].from[1] \in DOMAIN m2 \ {b}
               /\ p[k].from[2] \in DOMAIN m2[p[k].from[1]]
               /\ HasValue(At(m2, p[k].from))
               /\ At(m2, p[k].from).n > 0
               /\ At(m2, p[k].from).data \in source
               /\ k = Len(p) => p[k].to[1] \notin {b}
    <3>1. p[k] = f
      BY <1>3, <1>4
    <3>2. At(m2, <<fb, fi>>) = c
      BY <1>6 DEF At, c
    <3>3. fb \in DOMAIN m2 \ {b} /\ fi \in DOMAIN m2[fb] /\ tb # b
      BY <1>5, <1>6 DEF Grown
    <3>4. HasValue(c) /\ c.n > 0
      BY DEF c
    <3>5. QED
      BY <1>2, <1>7, <3>1, <3>2, <3>3, <3>4
  <2>6. QED
    BY <2>1, <2>2, <2>3, <2>4, <2>5 DEF Apart
<1>10. Building(m2, p)
  <2>1. source \in SUBSET (Block \cap DOMAIN m2) /\ {b} \in SUBSET (Block \cap DOMAIN m2)
    BY <1>1, <1>5, <1>7 DEF Grown
  <2>2. Owned(m2, Begun(p))
    BY <1>4, <1>5
  <2>3. QED
    BY <1>8, <1>9, <2>1, <2>2 DEF Building
<1>11. QED
  BY <1>3, <1>5, <1>10 DEF m2, p, c

\* The array is complete, and the node gets it.
LEMMA FinishedBuilding ==
    ASSUME NEW m, Memory(m), NEW ks \in Seq(Frame), ks # <<>>, Building(m, ks),
           NEW c, c = At(m, ks[1].from), ks[1].done = c.n
    PROVE  /\ Memory(Put(m, ks[1].to, Node(c.label, c.n, ks[1].block)))
           /\ Returned(Tail(ks)) \in Seq(Frame)
           /\ Building(Put(m, ks[1].to, Node(c.label, c.n, ks[1].block)), Returned(Tail(ks)))
<1> DEFINE t == Tail(ks)
           b == ks[1].block
           node == Node(c.label, c.n, b)
<1>1. PICK source \in SUBSET (Block \cap DOMAIN m), made \in SUBSET (Block \cap DOMAIN m) :
         Apart(m, ks, source, made)
  BY DEF Building
<1>2. /\ t \in Seq(Frame)
      /\ Len(ks) \in Nat \ {0} /\ Len(t) = Len(ks) - 1
      /\ DOMAIN ks = 1..Len(ks) /\ DOMAIN t = 1..(Len(ks) - 1)
      /\ \A k \in DOMAIN t : k + 1 \in DOMAIN ks /\ t[k] = ks[k + 1]
      /\ ks[1] \in Frame
      /\ Begun(ks) = Begun(t) \cup {b}
  BY TailFacts
<1>3. /\ 1 \in DOMAIN ks /\ FrameInv(m, ks, 1) /\ Owned(m, Begun(ks))
      /\ \A k \in DOMAIN ks : FrameInv(m, ks, k)
  BY <1>2 DEF Building
<1>4. /\ \A k \in DOMAIN t : FrameInv(m, t, k)
      /\ t # <<>> => t[1].done < Len(m[t[1].block])
  BY <1>3, TailFrames
<1> HIDE DEF t
<1>5. b \in made /\ b \in Block /\ b \in DOMAIN m /\ b \notin Begun(t)
  <2>1. b \in made
    BY <1>1, <1>2 DEF Apart
  <2>2. \A k \in DOMAIN t : t[k].block # b
    <3>1. \A j \in DOMAIN ks : ks[j].block = ks[1].block => j = 1
      BY <1>3 DEF FrameInv
    <3>2. \A k \in DOMAIN t : k + 1 # 1
      BY <1>2
    <3>3. QED
      BY <1>2, <3>1, <3>2
  <2>3. QED
    BY <2>1, <2>2 DEF Begun
<1>6. c \in Cell /\ HasValue(c) /\ c.n > 0
  <2>1. ks[1].from[1] \in DOMAIN m /\ ks[1].from[2] \in DOMAIN m[ks[1].from[1]]
    BY <1>1, <1>3 DEF Apart
  <2>2. c \in Cell
    BY <2>1, MemoryCells DEF At
  <2>3. QED
    BY <1>1, <1>3, <2>2 DEF Apart
<1>7. node \in Cell /\ HasValue(node) /\ node.n = c.n /\ node.data = b
  <2>1. c.n \in 1..MaxKids /\ c.label \in Labels
    BY <1>6, BoundsAssumption, CellFacts
  <2>2. node \in Cell
    BY <1>5, <2>1, NewCells
  <2>3. QED
    BY <1>6, <2>2 DEF Node, HasValue
<1>8. Len(m[b]) = c.n /\ \A i \in DOMAIN m[b] : HasValue(m[b][i])
  <2>1. Len(m[b]) = c.n
    BY <1>3 DEF FrameInv
  <2>2. \A i \in DOMAIN m[b] : i <= c.n
    BY <1>5, <2>1, MemoryCells
  <2>3. QED
    BY <1>3, <2>1, <2>2 DEF FrameInv
<1> DEFINE n == node
<1> HIDE DEF n
<1>9. n \in Cell /\ HasValue(n) /\ n.n > 0 /\ n.data = b /\ Len(m[n.data]) = n.n
  BY <1>6, <1>7, <1>8 DEF n
<1>10. Begun(t) \cup Owning(n) = Begun(ks)
  BY <1>2, <1>9 DEF Owning
<1>11. CASE t = <<>>
  <2> DEFINE x == ks[1].to[1]
             y == ks[1].to[2]
  <2>1. x \in DOMAIN m /\ y \in DOMAIN m[x] /\ m[x][y] = Invalid
    <3>1. Len(t) = 0
      BY <1>11
    <3>2. ~(1 < Len(ks))
      BY <1>2, <3>1
    <3>3. QED
      BY <1>3, <3>2 DEF FrameInv, At
  <2>2. Invalid.n = 0
    BY NewCells DEF Labels
  <2>3. Put(m, ks[1].to, n) = Put(m, <<x, y>>, n)
    BY DEF Put
  <2> HIDE DEF x, y
  <2>4. Begun(t) = {} /\ Begun(ks) = {b} /\ Returned(t) = <<>>
    <3>1. Begun(t) = {}
      BY <1>2, <1>11 DEF Begun
    <3>2. QED
      BY <1>2, <1>11, <3>1 DEF Returned
  <2>5. Memory(Put(m, <<x, y>>, n)) /\ Owned(Put(m, <<x, y>>, n), {b} \ {n.data})
    <3>1. m[x][y].n = 0 /\ n.data \in {b} /\ Owned(m, {b})
      BY <1>3, <1>9, <2>1, <2>2, <2>4
    <3>2. QED
      BY <1>9, <2>1, <3>1, GiveOwned
  <2>6. Building(Put(m, <<x, y>>, n), <<>>)
    <3>1. Owned(Put(m, <<x, y>>, n), {})
      BY <1>9, <2>5
    <3>2. Begun(<<>>) = {} /\ DOMAIN <<>> = {}
      BY DEF Begun
    <3>3. QED
      BY <3>1, <3>2 DEF Building
  <2>7. <<>> \in Seq(Frame)
    OBVIOUS
  <2>8. QED
    BY <2>3, <2>4, <2>5, <2>6, <2>7 DEF t, n
<1>12. CASE t # <<>>
  <2>1. Apart(m, t, source, made)
    <3>1. \A x \in made \ Begun(t) : \A i \in DOMAIN m[x] : HasValue(m[x][i])
      BY <1>1, <1>2, <1>8 DEF Apart
    <3>2. Begun(t) \subseteq made
      BY <1>1, <1>2 DEF Apart
    <3>3. ASSUME NEW k \in DOMAIN t
          PROVE  /\ t[k].from[1] \in DOMAIN m \ made
                 /\ t[k].from[2] \in DOMAIN m[t[k].from[1]]
                 /\ HasValue(At(m, t[k].from))
                 /\ At(m, t[k].from).n > 0
                 /\ At(m, t[k].from).data \in source
                 /\ k = Len(t) => t[k].to[1] \notin made
      <4>1. k + 1 \in DOMAIN ks /\ t[k] = ks[k + 1] /\ (k = Len(t) => k + 1 = Len(ks))
        BY <1>2
      <4>2. QED
        BY <1>1, <4>1 DEF Apart
    <3>4. QED
      BY <1>1, <3>1, <3>2, <3>3 DEF Apart
  <2>2. ks[1].to = <<t[1].block, t[1].done + 1>>
    <3>1. Len(t) # 0
      BY <1>2, <1>12
    <3>2. 1 < Len(ks) /\ 1 \in DOMAIN t
      BY <1>2, <3>1
    <3>3. t[1] = ks[1 + 1]
      BY <1>2, <3>2
    <3>4. QED
      BY <1>3, <3>2, <3>3 DEF FrameInv
  <2>3. Owned(m, Begun(t) \cup Owning(n))
    BY <1>3, <1>10
  <2>4. n.n > 0 => n.data \in made \ Begun(t) /\ Len(m[n.data]) = n.n
    BY <1>5, <1>9
  <2>5. /\ Memory(Put(m, <<t[1].block, t[1].done + 1>>, n))
        /\ Building(Put(m, <<t[1].block, t[1].done + 1>>, n), Returned(t))
    BY <1>2, <1>4, <1>9, <1>12, <2>1, <2>3, <2>4, StoredBuilding
  <2>6. Returned(t) \in Seq(Frame)
    BY <1>2, <1>12, ReturnedFacts
  <2>7. QED
    BY <2>2, <2>5, <2>6 DEF t, n
<1>13. QED
  BY <1>11, <1>12

\* The handler destroys what the innermost call has built, without harm.
LEMMA UnwoundFacts ==
    ASSUME NEW m, Memory(m), NEW ks \in Seq(Frame), ks # <<>>, Building(m, ks),
           NEW i \in 1..ks[1].done
    PROVE  /\ i \in DOMAIN m[ks[1].block]
           /\ HasValue(m[ks[1].block][i]) /\ Destructible(m, m[ks[1].block][i])
<1> DEFINE b == ks[1].block
           c == m[b][i]
<1>1. PICK source \in SUBSET (Block \cap DOMAIN m), made \in SUBSET (Block \cap DOMAIN m) :
         Apart(m, ks, source, made)
  BY DEF Building
<1>2. 1 \in DOMAIN ks /\ ks[1] \in Frame /\ Begun(ks) = Begun(Tail(ks)) \cup {b}
  BY TailFacts
<1>3. FrameInv(m, ks, 1) /\ Owned(m, Begun(ks)) /\ ks[1].done \in Nat
  BY <1>2 DEF Building, Frame
<1>4. b \in made /\ b \in DOMAIN m
  BY <1>1, <1>2 DEF Apart
<1>5. i \in DOMAIN m[b] /\ i <= ks[1].done
  <2>1. Len(m[b]) \in Nat /\ DOMAIN m[b] = 1..Len(m[b])
    <3> DEFINE s == m[b]
    <3>1. s \in Seq(Cell)
      BY <1>4 DEF Memory
    <3> HIDE DEF s
    <3>2. Len(s) \in Nat /\ DOMAIN s = 1..Len(s)
      BY ONLY <3>1
    <3>3. QED
      BY <3>2 DEF s
  <2>2. QED
    BY <1>3, <2>1 DEF FrameInv
<1>6. HasValue(c)
  BY <1>3, <1>5 DEF FrameInv
<1> HIDE DEF b
<1>7. c \in Cell /\ (c.n > 0 => c.data \in Arrays(m, b))
  BY <1>4, <1>5, MemoryCells, ArraysFacts
<1>8. Under(m, c) \subseteq made
  <2>1. OwnsWithin(m, made) /\ Arrays(m, b) \subseteq made
    BY <1>1, <1>4 DEF Apart, OwnsWithin
  <2>2. made \in SUBSET Block /\ (c.n > 0 => c.data \in made)
    BY <1>7, <2>1
  <2> HIDE DEF c
  <2>3. QED
    BY <2>1, <2>2, UnderLeast
<1>9. ASSUME NEW d \in Under(m, c)
      PROVE  d \in DOMAIN m \ Begun(ks)
  <2>1. \E x \in DOMAIN m : d \in Arrays(m, x)
    <3>1. CASE d = c.data
      <4>1. c.n > 0
        BY <1>7, <1>9, CellFacts, UnderFacts
      <4>2. QED
        BY <1>4, <1>7, <3>1, <4>1
    <3>2. CASE d # c.data
      <4> HIDE DEF c
      <4>1. QED
        BY <1>7, <1>9, <3>2, UnderOwned
    <3>3. QED
      BY <3>1, <3>2
  <2>2. PICK x \in DOMAIN m : d \in Arrays(m, x)
    BY <2>1
  <2>3. QED
    BY <1>3, <2>2, ArraysFacts DEF Owned
<1>10. Destructible(m, c)
  BY <1>1, <1>8, <1>9 DEF Destructible, Apart
<1>11. QED
  BY <1>5, <1>6, <1>10 DEF b, c

\* The arrays that the handler frees: the children's and their own.
Unbuilt(m, f) == (UNION {Under(m, m[f.block][i]) : i \in 1..f.done}) \cup {f.block}

\* What is left is what the other calls are building.
LEMMA UnwoundBuilding ==
    ASSUME NEW m, Memory(m), NEW ks \in Seq(Frame), ks # <<>>, Building(m, ks)
    PROVE  /\ Memory(Without(m, Unbuilt(m, ks[1])))
           /\ Tail(ks) \in Seq(Frame)
           /\ Building(Without(m, Unbuilt(m, ks[1])), Tail(ks))
<1> DEFINE b == ks[1].block
           t == Tail(ks)
           U == Unbuilt(m, ks[1])
           m2 == Without(m, U)
<1>1. PICK source \in SUBSET (Block \cap DOMAIN m), made \in SUBSET (Block \cap DOMAIN m) :
         Apart(m, ks, source, made)
  BY DEF Building
<1>2. /\ t \in Seq(Frame)
      /\ Len(ks) \in Nat \ {0} /\ Len(t) = Len(ks) - 1
      /\ DOMAIN ks = 1..Len(ks) /\ DOMAIN t = 1..(Len(ks) - 1)
      /\ \A k \in DOMAIN t : k + 1 \in DOMAIN ks /\ t[k] = ks[k + 1]
      /\ ks[1] \in Frame
      /\ Begun(ks) = Begun(t) \cup {b}
  BY TailFacts
<1>3. /\ 1 \in DOMAIN ks /\ FrameInv(m, ks, 1) /\ Owned(m, Begun(ks))
      /\ \A k \in DOMAIN ks : FrameInv(m, ks, k)
  BY <1>2 DEF Building
<1>4. \A k \in DOMAIN t : FrameInv(m, t, k)
  BY <1>3, TailFrames
<1> HIDE DEF t
<1>5. b \in made /\ b \in Block /\ b \in DOMAIN m /\ b \notin Begun(t)
  <2>1. b \in made
    BY <1>1, <1>2 DEF Apart
  <2>2. \A k \in DOMAIN t : t[k].block # b
    <3>1. \A j \in DOMAIN ks : ks[j].block = ks[1].block => j = 1
      BY <1>3 DEF FrameInv
    <3>2. \A k \in DOMAIN t : k + 1 # 1
      BY <1>2
    <3>3. QED
      BY <1>2, <3>1, <3>2
  <2>3. QED
    BY <2>1, <2>2 DEF Begun
<1>6. \A i \in 1..ks[1].done : i \in DOMAIN m[b] /\ m[b][i] \in Cell
  BY <1>5, UnwoundFacts, MemoryCells
<1>7. \A d : d \in U <=> d = b \/ \E i \in 1..ks[1].done : d \in Under(m, m[b][i])
  <2> DEFINE V(i) == Under(m, m[b][i])
             N == 1..ks[1].done
             X == UNION {V(i) : i \in N}
  <2>1. U = X \cup {b}
    BY DEF Unbuilt
  <2> HIDE DEF U, V, N, b
  <2>2. \A d : d \in X <=> \E i \in N : d \in V(i)
    OBVIOUS
  <2> HIDE DEF X
  <2>3. \A d : d \in U <=> d = b \/ \E i \in N : d \in V(i)
    BY <2>1, <2>2
  <2>4. QED
    BY <2>3 DEF V, N
<1> HIDE DEF U
<1>8. ASSUME NEW d \in Arrays(m, b)
      PROVE  d \in U
  <2>1. PICK i \in DOMAIN m[b] : m[b][i].n > 0 /\ m[b][i].data = d
    BY <1>8 DEF Arrays
  <2>2. m[b][i] \in Cell /\ i \in Nat \ {0}
    BY <1>5, MemoryCells
  <2>3. i <= ks[1].done
    BY <1>3, <2>1 DEF FrameInv
  <2>4. i \in 1..ks[1].done
    BY <1>2, <2>2, <2>3 DEF Frame
  <2>5. d \in Under(m, m[b][i])
    BY <2>1, <2>2, UnderFacts
  <2>6. QED
    BY <1>7, <2>4, <2>5
<1>9. OwnsWithin(m, U)
  <2>1. ASSUME NEW x \in U \cap DOMAIN m, NEW d \in Arrays(m, x)
        PROVE  d \in U
    <3>1. CASE x = b
      BY <1>8, <2>1, <3>1
    <3>2. CASE x # b
      <4>1. PICK i \in 1..ks[1].done : x \in Under(m, m[b][i])
        BY <1>7, <2>1, <3>2
      <4>2. d \in Under(m, m[b][i])
        BY <1>6, <2>1, <4>1, UnderFacts DEF OwnsWithin
      <4>3. QED
        BY <1>7, <4>2
    <3>3. QED
      BY <3>1, <3>2
  <2>2. QED
    BY <2>1 DEF OwnsWithin
<1>10. ASSUME NEW d \in U, d # b
       PROVE  /\ d \notin Begun(ks) /\ d \in made
              /\ \A x \in DOMAIN m : d \in Arrays(m, x) => x \in U
  <2>1. PICK i \in 1..ks[1].done : d \in Under(m, m[b][i])
    BY <1>7, <1>10
  <2>2. i \in DOMAIN m[b] /\ m[b][i] \in Cell
    BY <1>6
  <2>3. \A x \in DOMAIN m : d \in Arrays(m, x) => x \in Under(m, m[b][i]) \/ x = b
    <3>1. \A x \in DOMAIN m : Arrays(m, x) \cap Under(m, m[b][i]) # {} =>
              x \in Under(m, m[b][i]) \/ x = b
      BY <1>3, <1>5, <2>2, UnderBackward
    <3>2. QED
      BY <2>1, <3>1
  <2>4. \A x \in DOMAIN m : d \in Arrays(m, x) => x \in U
    BY <1>7, <2>3
  <2>5. \E x \in DOMAIN m : d \in Arrays(m, x)
    <3>1. CASE d = m[b][i].data
      <4>1. m[b][i].n > 0
        BY <2>1, <2>2, CellFacts, UnderFacts
      <4>2. QED
        BY <1>5, <2>2, <3>1, <4>1, ArraysFacts
    <3>2. CASE d # m[b][i].data
      <4> DEFINE c == m[b][i]
      <4>1. c \in Cell /\ d \in Under(m, c) /\ d # c.data
        BY <2>1, <2>2, <3>2
      <4> HIDE DEF c
      <4>2. QED
        BY <4>1, UnderOwned
    <3>3. QED
      BY <3>1, <3>2
  <2>6. d \notin Begun(ks)
    BY <1>3, <2>5, ArraysFacts DEF Owned
  <2>7. d \in made
    <3>1. OwnsWithin(m, made) /\ Arrays(m, b) \subseteq made
      BY <1>1, <1>5 DEF Apart, OwnsWithin
    <3> DEFINE c == m[b][i]
    <3>2. c.n > 0 => c.data \in made
      BY <1>5, <2>2, <3>1, ArraysFacts
    <3>3. d \in Under(m, c)
      BY <2>1
    <3> HIDE DEF c
    <3>4. Under(m, c) \subseteq made
      BY <3>1, <3>2, UnderLeast
    <3>5. QED
      BY <3>3, <3>4
  <2>8. QED
    BY <2>4, <2>6, <2>7
<1>11. \A x \in DOMAIN m : b \notin Arrays(m, x)
  <2>1. b \in Begun(ks)
    BY <1>2
  <2>2. QED
    BY <1>3, <2>1, ArraysFacts DEF Owned
<1>12. U \subseteq made
  BY <1>5, <1>10
<1>13. Memory(m2) /\ Owned(m2, Begun(t))
  <2>1. \A x \in DOMAIN m \ U : Arrays(m, x) \cap U = {}
    BY <1>10, <1>11
  <2>2. Memory(m2) /\ Owned(m2, Begun(ks) \ U)
    BY <1>3, <1>9, <2>1, FreeOwned
  <2>3. Begun(ks) \ U = Begun(t)
    <3>1. Begun(t) \cap U = {}
      BY <1>2, <1>5, <1>10
    <3>2. b \in U
      BY <1>7
    <3>3. QED
      BY <1>2, <3>1, <3>2
  <2>4. QED
    BY <2>2, <2>3
<1>14. DOMAIN m2 = DOMAIN m \ U /\ \A x \in DOMAIN m \ U : m2[x] = m[x]
  BY WithoutFacts
<1> HIDE DEF m2
<1>15. ASSUME NEW k \in DOMAIN t
       PROVE  /\ t[k].block \in DOMAIN m \ U
              /\ t[k].from[1] \in DOMAIN m \ made
              /\ t[k].from[2] \in DOMAIN m[t[k].from[1]]
              /\ HasValue(At(m, t[k].from))
              /\ At(m, t[k].from).n > 0
              /\ At(m, t[k].from).data \in source
              /\ k = Len(t) => t[k].to[1] \notin made
              /\ At(m2, t[k].from) = At(m, t[k].from)
  <2>1. k + 1 \in DOMAIN ks /\ t[k] = ks[k + 1] /\ (k = Len(t) => k + 1 = Len(ks))
    BY <1>2
  <2>2. /\ t[k].from[1] \in DOMAIN m \ made
        /\ t[k].from[2] \in DOMAIN m[t[k].from[1]]
        /\ HasValue(At(m, t[k].from))
        /\ At(m, t[k].from).n > 0
        /\ At(m, t[k].from).data \in source
        /\ k = Len(t) => t[k].to[1] \notin made
    BY <1>1, <2>1 DEF Apart
  <2>3. t[k].block \in Begun(t)
    BY DEF Begun
  <2>4. t[k].block \in DOMAIN m \ U
    <3>1. t[k].block \in made
      BY <1>1, <1>2, <2>3 DEF Apart
    <3>2. t[k].block \notin U
      BY <1>2, <1>5, <1>10, <2>3
    <3>3. QED
      BY <3>1, <3>2
  <2>5. At(m2, t[k].from) = At(m, t[k].from)
    BY <1>12, <1>14, <2>2 DEF At
  <2>6. QED
    BY <2>2, <2>4, <2>5
<1>16. ASSUME NEW k \in DOMAIN t
       PROVE  FrameInv(m2, t, k)
  <2>1. FrameInv(m, t, k) /\ m2[t[k].block] = m[t[k].block] /\ At(m2, t[k].from) = At(m, t[k].from)
    BY <1>4, <1>14, <1>15
  <2>2. ~(k < Len(t)) => m2[t[k].to[1]] = m[t[k].to[1]] /\ t[k].to[1] \in DOMAIN m2
    <3>1. SUFFICES ASSUME ~(k < Len(t))
                   PROVE  m2[t[k].to[1]] = m[t[k].to[1]] /\ t[k].to[1] \in DOMAIN m2
      OBVIOUS
    <3>2. k = Len(t)
      BY <1>2, <3>1
    <3>3. t[k].to[1] \in DOMAIN m /\ t[k].to[1] \notin made
      BY <1>15, <2>1, <3>1, <3>2 DEF FrameInv
    <3>4. QED
      BY <1>12, <1>14, <3>3
  <2>3. QED
    BY <2>1, <2>2 DEF FrameInv, At
<1>17. Apart(m2, t, source, made \ U)
  <2>1. source \cap (made \ U) = {} /\ Begun(t) \subseteq made \ U
    <3>1. Begun(t) \subseteq made
      BY <1>1, <1>2 DEF Apart
    <3>2. Begun(t) \cap U = {}
      BY <1>2, <1>5, <1>10
    <3>3. QED
      BY <1>1, <3>1, <3>2 DEF Apart
  <2>2. \A x \in DOMAIN m2 : x \in DOMAIN m \ U /\ Arrays(m2, x) = Arrays(m, x)
    BY <1>14 DEF Arrays
  <2>3. OwnsWithin(m2, source) /\ \A x \in source : \A j \in DOMAIN m2[x] : HasValue(m2[x][j])
    <3>1. \A x \in source : m2[x] = m[x] /\ x \in DOMAIN m2
      BY <1>1, <1>12, <1>14 DEF Apart
    <3>2. QED
      BY <1>1, <2>2, <3>1 DEF Apart, OwnsWithin
  <2>4. \A x \in DOMAIN m2 : IF x \in made \ U THEN Arrays(m2, x) \subseteq made \ U
                                               ELSE Arrays(m2, x) \cap (made \ U) = {}
    <3>1. ASSUME NEW x \in DOMAIN m2, x \in made
          PROVE  Arrays(m, x) \subseteq made \ U
      BY <1>1, <1>10, <1>11, <2>2, <3>1 DEF Apart
    <3>2. QED
      BY <1>1, <2>2, <3>1 DEF Apart
  <2>5. \A x \in (made \ U) \ Begun(t) : \A j \in DOMAIN m2[x] : HasValue(m2[x][j])
    <3>1. b \in U
      BY <1>7
    <3>2. QED
      BY <1>1, <1>2, <1>14, <3>1 DEF Apart
  <2>6. ASSUME NEW k \in DOMAIN t
        PROVE  /\ t[k].from[1] \in DOMAIN m2 \ (made \ U)
               /\ t[k].from[2] \in DOMAIN m2[t[k].from[1]]
               /\ HasValue(At(m2, t[k].from))
               /\ At(m2, t[k].from).n > 0
               /\ At(m2, t[k].from).data \in source
               /\ k = Len(t) => t[k].to[1] \notin made \ U
    BY <1>12, <1>14, <1>15
  <2>7. QED
    BY <2>1, <2>3, <2>4, <2>5, <2>6 DEF Apart
<1>18. Building(m2, t)
  <2>1. source \in SUBSET (Block \cap DOMAIN m2) /\ made \ U \in SUBSET (Block \cap DOMAIN m2)
    BY <1>1, <1>12, <1>14 DEF Apart
  <2>2. QED
    BY <1>13, <1>16, <1>17, <2>1 DEF Building
<1>19. QED
  BY <1>2, <1>13, <1>18 DEF m2, U, t

-----------------------------------------------------------------------------
(* The invariant, step by step. *)

\* While nothing is being built no array is loose.
LEMMA NoCalls ==
    ASSUME NEW m
    PROVE  Building(m, <<>>) <=> Owned(m, {})
<1>1. Begun(<<>>) = {} /\ DOMAIN <<>> = {}
  BY DEF Begun
<1>2. QED
  BY <1>1 DEF Building

\* Descend keeps the invariant.
LEMMA DescendIInv ==
    ASSUME IInv, calls # <<>>, Descend
    PROVE  IInv'
<1>1. /\ Memory(mem) /\ calls \in Seq(Frame) /\ Building(mem, calls)
      /\ throwing' = throwing /\ throwing \in BOOLEAN /\ ~throwing
      /\ fault' = fault /\ fault # "unwound"
      /\ fault \in {"none", "freed", "itself", "data", "unwound", "loaded"}
  BY DEF IInv, TypeOK, UnwindingIsSound, Descend
<1>2. Top = calls[1] /\ 1 \in DOMAIN calls /\ calls[1] \in Frame
  BY <1>1, TailFacts DEF Top
<1>3. PICK source \in SUBSET (Block \cap DOMAIN mem), made \in SUBSET (Block \cap DOMAIN mem) :
         Apart(mem, calls, source, made)
  BY <1>1 DEF Building
<1> DEFINE d == At(mem, calls[1].from).data
           i == calls[1].done + 1
           from == <<d, i>>
           to == <<calls[1].block, i>>
           c == At(mem, from)
<1>4. calls[1].done < At(mem, calls[1].from).n
  BY <1>2 DEF Descend
<1>5. d \in source /\ i \in DOMAIN mem[d] /\ c \in Cell /\ HasValue(c)
  BY <1>1, <1>3, <1>4, ChildFacts DEF At
<1>6. Enter(calls[1].kind, to, from, mem, calls)
  BY <1>2 DEF Descend
<1>7. Memory(mem') /\ calls' \in Seq(Frame) /\ Building(mem', calls')
  <2>1. CASE c.n = 0
    <3>1. mem' = Put(mem, to, c) /\ calls' = Returned(calls)
      BY <1>6, <2>1 DEF Enter
    <3>2. calls[1].done < Len(mem[calls[1].block])
      BY <1>1, <1>2, <1>4 DEF Building, FrameInv
    <3>3. /\ Owned(mem, Begun(calls) \cup Owning(c))
          /\ \A k \in DOMAIN calls : FrameInv(mem, calls, k)
          /\ ~(c.n > 0)
      <4>1. Owning(c) = {}
        BY <2>1 DEF Owning
      <4>2. Begun(calls) \cup {} = Begun(calls)
        OBVIOUS
      <4>3. Owned(mem, Begun(calls)) /\ \A k \in DOMAIN calls : FrameInv(mem, calls, k)
        BY <1>1 DEF Building
      <4>4. Begun(calls) \cup Owning(c) = Begun(calls)
        BY <4>1, <4>2
      <4>5. ~(c.n > 0)
        BY <2>1
      <4> HIDE DEF c
      <4>6. QED
        BY <4>3, <4>4, <4>5
    <3> HIDE DEF c
    <3>4. Memory(Put(mem, to, c)) /\ Building(Put(mem, to, c), Returned(calls))
      BY <1>1, <1>3, <1>5, <3>2, <3>3, StoredBuilding
    <3>5. Returned(calls) \in Seq(Frame)
      BY <1>1, ReturnedFacts
    <3>6. QED
      BY <3>1, <3>4, <3>5
  <2>2. CASE c.n # 0
    <3>1. c.n > 0
      BY <1>5, <2>2, CellFacts
    <3>2. PICK b \in Free :
             /\ mem' = With(mem, b, Cells(calls[1].kind, c.n))
             /\ calls' = <<[kind |-> calls[1].kind, to |-> to, from |-> from, block |-> b,
                            done |-> 0]>> \o calls
      BY <1>6, <2>2 DEF Enter
    <3> DEFINE kind == calls[1].kind
               f == [kind |-> kind, to |-> to, from |-> from, block |-> b, done |-> 0]
    <3>3. kind \in {"copy", "load"} /\ b \in Block \ DOMAIN mem
      BY <1>2 DEF Frame, Free
    <3> HIDE DEF kind
    <3>4. /\ Memory(With(mem, b, Cells(kind, c.n)))
          /\ f \in Frame
          /\ Building(With(mem, b, Cells(kind, c.n)), <<f>> \o calls)
      BY <1>1, <1>4, <3>1, <3>3, DescendedBuilding
    <3>5. mem' = With(mem, b, Cells(kind, c.n)) /\ calls' = <<f>> \o calls
      BY <3>2 DEF kind
    <3> HIDE DEF f
    <3>6. <<f>> \o calls \in Seq(Frame)
      BY <1>1, <3>4, PushFacts
    <3>7. QED
      BY <3>4, <3>5, <3>6
  <2>3. QED
    BY <2>1, <2>2
<1>8. QED
  BY <1>1, <1>7 DEF IInv, TypeOK, UnwindingIsSound

\* Finish keeps the invariant.
LEMMA FinishIInv ==
    ASSUME IInv, calls # <<>>, Finish
    PROVE  IInv'
<1>1. /\ Memory(mem) /\ calls \in Seq(Frame) /\ Building(mem, calls)
      /\ throwing' = throwing /\ throwing \in BOOLEAN /\ ~throwing
      /\ fault' = fault /\ fault # "unwound"
      /\ fault \in {"none", "freed", "itself", "data", "unwound", "loaded"}
  BY DEF IInv, TypeOK, UnwindingIsSound, Finish
<1>2. Top = calls[1]
  BY <1>1, TailFacts DEF Top
<1> DEFINE c == At(mem, calls[1].from)
<1>3. /\ calls[1].done = c.n
      /\ mem' = Put(mem, calls[1].to, Node(c.label, c.n, calls[1].block))
      /\ calls' = Returned(Tail(calls))
  BY <1>2 DEF Finish
<1>4. Memory(mem') /\ calls' \in Seq(Frame) /\ Building(mem', calls')
  BY <1>1, <1>3, FinishedBuilding
<1>5. QED
  BY <1>1, <1>4 DEF IInv, TypeOK, UnwindingIsSound

\* Unwind keeps the invariant; in particular the handler is without harm.
LEMMA UnwindIInv ==
    ASSUME IInv, calls # <<>>, Unwind
    PROVE  IInv'
<1>1. /\ Memory(mem) /\ calls \in Seq(Frame) /\ Building(mem, calls)
      /\ fault # "unwound"
      /\ fault \in {"none", "freed", "itself", "data", "unwound", "loaded"}
  BY DEF IInv, TypeOK, UnwindingIsSound
<1>2. Top = calls[1]
  BY <1>1, TailFacts DEF Top
<1>3. \A c \in Built(Top) : HasValue(c) /\ Destructible(mem, c)
  BY <1>1, <1>2, UnwoundFacts DEF Built
<1>4. /\ mem' = Without(mem, (UNION {Under(mem, c) : c \in Built(Top)}) \cup {Top.block})
      /\ fault' = fault
      /\ calls' = Tail(calls)
      /\ throwing' = (Tail(calls) # <<>>)
  BY <1>3 DEF Unwind
<1>5. (UNION {Under(mem, c) : c \in Built(Top)}) \cup {Top.block} = Unbuilt(mem, calls[1])
  BY <1>2 DEF Built, Unbuilt
<1>6. Memory(mem') /\ calls' \in Seq(Frame) /\ Building(mem', calls')
  BY <1>1, <1>4, <1>5, UnwoundBuilding
<1>7. throwing' \in BOOLEAN /\ (throwing' => calls' # <<>>)
  BY <1>4
<1>8. QED
  BY <1>1, <1>4, <1>6, <1>7 DEF IInv, TypeOK, UnwindingIsSound

\* Throw and LoadThrow change no storage.
LEMMA ThrowIInv ==
    ASSUME IInv, calls # <<>>, Throw \/ LoadThrow
    PROVE  IInv'
<1>1. mem' = mem /\ calls' = calls
  BY DEF Throw, LoadThrow
<1>2. Memory(mem') /\ calls' \in Seq(Frame) /\ Building(mem', calls')
  <2>1. Memory(mem) /\ calls \in Seq(Frame) /\ Building(mem, calls)
    BY DEF IInv, TypeOK
  <2>2. QED
    BY <1>1, <2>1
<1>3. /\ throwing' \in BOOLEAN /\ (throwing' => calls' # <<>>)
      /\ fault' \in {"none", "freed", "itself", "data", "unwound", "loaded"}
      /\ fault' # "unwound"
  BY <1>1 DEF IInv, TypeOK, UnwindingIsSound, Throw, LoadThrow
<1>4. QED
  BY <1>2, <1>3 DEF IInv, TypeOK, UnwindingIsSound

\* The client's call of transform_initialize or deserialize.
LEMMA BeginIInv ==
    ASSUME IInv, calls = <<>>, NEW to \in Named, NEW from \in Named,
           HasValue(At(mem, from.cell)), Destructible(mem, At(mem, from.cell)),
           BeginCopy(to, from) \/ BeginDeserialize(to, from)
    PROVE  IInv'
<1>1. /\ Memory(mem) /\ Owned(mem, {})
      /\ throwing' = throwing /\ throwing \in BOOLEAN /\ ~throwing
      /\ fault' = fault /\ fault # "unwound"
      /\ fault \in {"none", "freed", "itself", "data", "unwound", "loaded"}
  BY NoCalls DEF IInv, TypeOK, UnwindingIsSound, BeginCopy, BeginDeserialize
<1>2. PICK kind \in {"copy", "load"} : Enter(kind, to.cell, from.cell, mem, <<>>)
  BY DEF BeginCopy, BeginDeserialize
<1>3. At(mem, to.cell) = Invalid
  BY DEF BeginCopy, BeginDeserialize
<1>4. PICK tb \in DOMAIN mem : \E i \in DOMAIN mem[tb] : to.cell = <<tb, i>>
  BY <1>1, NamedFacts
<1>5. PICK ti \in DOMAIN mem[tb] : to.cell = <<tb, ti>>
  BY <1>4
<1>6. PICK fb \in DOMAIN mem : \E i \in DOMAIN mem[fb] : from.cell = <<fb, i>>
  BY <1>1, NamedFacts
<1>7. PICK fi \in DOMAIN mem[fb] : from.cell = <<fb, fi>>
  BY <1>6
<1> DEFINE c == mem[fb][fi]
<1>8. /\ At(mem, to.cell) = mem[tb][ti] /\ mem[tb][ti] = Invalid /\ mem[tb][ti].n = 0
      /\ At(mem, from.cell) = c /\ c \in Cell /\ HasValue(c) /\ Destructible(mem, c)
  <2>1. Invalid.n = 0
    BY NewCells DEF Labels
  <2>2. QED
    BY <1>1, <1>3, <1>5, <1>7, <2>1, MemoryCells DEF At
<1>9. Memory(mem') /\ calls' \in Seq(Frame) /\ Building(mem', calls')
  <2>1. CASE c.n = 0
    <3>1. mem' = Put(mem, <<tb, ti>>, c) /\ calls' = Returned(<<>>)
      BY <1>2, <1>5, <1>8, <2>1 DEF Enter
    <3>2. Returned(<<>>) = <<>>
      BY DEF Returned
    <3>3. Memory(Put(mem, <<tb, ti>>, c)) /\ Owned(Put(mem, <<tb, ti>>, c), {} \ {c.data})
      <4>1. c \in Cell /\ mem[tb][ti].n = 0 /\ ~(c.n > 0)
        BY <1>8, <2>1
      <4> HIDE DEF c
      <4>2. QED
        BY <1>1, <4>1, GiveOwned
    <3>4. Owned(mem', {})
      BY <3>1, <3>3
    <3>5. calls' = <<>> /\ <<>> \in Seq(Frame)
      BY <3>1, <3>2
    <3>6. Building(mem', <<>>)
      BY <3>4, NoCalls
    <3>7. QED
      BY <3>1, <3>3, <3>5, <3>6
  <2>2. CASE c.n # 0
    <3>1. c.n > 0
      BY <1>8, <2>2, CellFacts
    <3>2. PICK b \in Free :
             /\ mem' = With(mem, b, Cells(kind, c.n))
             /\ calls' = <<[kind |-> kind, to |-> <<tb, ti>>, from |-> <<fb, fi>>, block |-> b,
                            done |-> 0]>> \o <<>>
      BY <1>2, <1>5, <1>7, <1>8, <2>2 DEF Enter
    <3> DEFINE f == [kind |-> kind, to |-> <<tb, ti>>, from |-> <<fb, fi>>, block |-> b, done |-> 0]
    <3>3. b \in Block \ DOMAIN mem
      BY DEF Free
    <3>4. /\ Memory(With(mem, b, Cells(kind, c.n)))
          /\ <<f>> \o <<>> \in Seq(Frame)
          /\ Building(With(mem, b, Cells(kind, c.n)), <<f>> \o <<>>)
      BY <1>1, <1>8, <3>1, <3>3, BegunBuilding
    <3>5. QED
      BY <3>2, <3>4
  <2>3. QED
    BY <2>1, <2>2
<1>10. QED
  BY <1>1, <1>9 DEF IInv, TypeOK, UnwindingIsSound

\* Every other call of the client begins and ends without one of these.
LEMMA EditIInv ==
    ASSUME IInv, calls = <<>>, Memory(mem'), Owned(mem', {}), calls' = calls, throwing' = throwing,
           fault' \in {fault, "freed", "itself", "data"}
    PROVE  IInv'
<1>1. Building(mem', calls')
  BY NoCalls
<1>2. /\ throwing' \in BOOLEAN /\ (throwing' => calls' # <<>>) /\ calls' \in Seq(Frame)
      /\ fault' \in {"none", "freed", "itself", "data", "unwound", "loaded"}
      /\ fault' # "unwound"
  BY DEF IInv, TypeOK, UnwindingIsSound
<1>3. QED
  BY <1>1, <1>2 DEF IInv, TypeOK, UnwindingIsSound

\* A call of the client keeps the invariant, whichever it is.
LEMMA ClientIInv ==
    ASSUME IInv, calls = <<>>, Edit
    PROVE  IInv'
<1>1. Memory(mem) /\ Owned(mem, {})
  BY NoCalls DEF IInv, TypeOK
<1>2. ASSUME NEW e \in Expr, NEW v \in Var, Construct(v, e)
      PROVE  IInv'
  <2>1. Memory(mem') /\ Owned(mem', {})
    BY <1>1, <1>2, ConstructOwned
  <2>2. QED
    BY <1>2, <2>1, EditIInv DEF Construct
<1>3. ASSUME NEW e \in Expr, NEW x \in Named, Initialize(x, e)
      PROVE  IInv'
  <2>1. Memory(mem') /\ Owned(mem', {})
    BY <1>1, <1>3, InitializeOwned
  <2>2. QED
    BY <1>3, <2>1, EditIInv DEF Initialize
<1>4. ASSUME NEW e \in Expr, NEW x \in Named, NEW b \in Free, NEW at \in 0..At(mem, x.cell).n,
             b # Value(e).data, Insert(x, at, e, b)
      PROVE  IInv'
  <2>1. At(mem, x.cell).n \in Nat
    BY <1>1, NotBelowItself, CellFacts
  <2>2. Memory(mem') /\ Owned(mem', {})
    <3>1. CASE At(mem, x.cell).n = 0
      BY <1>1, <1>4, <3>1, InsertFirstOwned
    <3>2. CASE At(mem, x.cell).n > 0
      BY <1>1, <1>4, <3>2, InsertAmongOwned
    <3>3. QED
      BY <2>1, <3>1, <3>2
  <2>3. calls' = calls /\ throwing' = throwing /\ fault' \in {fault, "itself"}
    BY <1>4 DEF Insert
  <2>4. QED
    BY <2>2, <2>3, EditIInv
<1>5. ASSUME NEW v \in Var, ConstructUninitialized(v)
      PROVE  IInv'
  <2>1. Memory(mem') /\ Owned(mem', {})
    BY <1>1, <1>5, ConstructUninitializedOwned
  <2>2. QED
    BY <1>5, <2>1, EditIInv DEF ConstructUninitialized
<1>6. ASSUME NEW v \in Var, Destroy(v)
      PROVE  IInv'
  <2>1. Memory(mem') /\ Owned(mem', {})
    BY <1>1, <1>6, DestroyOwned
  <2>2. QED
    BY <1>6, <2>1, EditIInv DEF Destroy
<1>7. ASSUME NEW x \in Named, NEW y \in Named, Assign(x, y)
      PROVE  IInv'
  <2>1. Memory(mem') /\ Owned(mem', {})
    BY <1>1, <1>7, AssignOwned
  <2>2. calls' = calls /\ throwing' = throwing /\ fault' \in {fault, "freed"}
    BY <1>7 DEF Assign
  <2>3. QED
    BY <2>1, <2>2, EditIInv
<1>8. ASSUME NEW x \in Named, SetData(x)
      PROVE  IInv'
  <2>1. mem' = mem /\ calls' = calls /\ throwing' = throwing /\ fault' = "data"
    BY <1>8 DEF SetData
  <2>2. Memory(mem') /\ Owned(mem', {})
    BY <1>1, <2>1
  <2>3. QED
    BY <2>1, <2>2, EditIInv
<1>9. ASSUME NEW x \in Named, NEW b \in Free, NEW i \in 1..At(mem, x.cell).n, Erase(x, i, b)
      PROVE  IInv'
  <2>1. Memory(mem') /\ Owned(mem', {})
    BY <1>1, <1>9, EraseOwned
  <2>2. QED
    BY <1>9, <2>1, EditIInv DEF Erase
<1>10. ASSUME NEW to \in Named, NEW from \in Named,
              HasValue(At(mem, from.cell)), Destructible(mem, At(mem, from.cell)),
              BeginCopy(to, from) \/ BeginDeserialize(to, from)
       PROVE  IInv'
  BY <1>10, BeginIInv
<1>11. QED
  BY <1>2, <1>3, <1>4, <1>5, <1>6, <1>7, <1>8, <1>9, <1>10 DEF Edit

\* Nothing is allocated at first.
LEMMA InitIInv ==
    ASSUME Init
    PROVE  IInv
<1>1. DOMAIN mem = {} /\ mem \in [DOMAIN mem -> Seq(Cell)]
  BY DEF Init
<1>2. Memory(mem)
  BY <1>1 DEF Memory
<1>3. Owned(mem, {})
  BY <1>1 DEF Owned
<1>4. calls = <<>> /\ <<>> \in Seq(Frame) /\ Building(mem, calls)
  BY <1>3, NoCalls DEF Init
<1>5. QED
  BY <1>2, <1>4 DEF Init, IInv, TypeOK, UnwindingIsSound

\* Every step keeps the invariant.
LEMMA NextIInv ==
    ASSUME IInv, [Next]_vars
    PROVE  IInv'
<1>1. CASE calls = <<>> /\ Edit
  BY <1>1, ClientIInv
<1>2. CASE calls # <<>> /\ Build
  BY <1>2, DescendIInv, FinishIInv, ThrowIInv, UnwindIInv DEF Build
<1>3. CASE UNCHANGED vars
  <2>1. mem' = mem /\ calls' = calls /\ throwing' = throwing /\ fault' = fault
    BY <1>3 DEF vars
  <2>2. /\ Memory(mem) /\ calls \in Seq(Frame) /\ Building(mem, calls) /\ throwing \in BOOLEAN
        /\ (throwing => calls # <<>>) /\ fault # "unwound"
        /\ fault \in {"none", "freed", "itself", "data", "unwound", "loaded"}
    BY DEF IInv, TypeOK, UnwindingIsSound
  <2>3. QED
    BY <2>1, <2>2 DEF IInv, TypeOK, UnwindingIsSound
<1>4. QED
  BY <1>1, <1>2, <1>3 DEF Next

\* The inductive invariant holds in every state the program can get to.
THEOREM Invariance == Spec => []IInv
<1>1. Init => IInv
  BY InitIInv
<1>2. IInv /\ [Next]_vars => IInv'
  BY NextIInv
<1>3. QED
  BY <1>1, <1>2, PTL DEF Spec

-----------------------------------------------------------------------------
(* What follows from it. *)

\* Storage has the form that the operations expect: a node without children
\* has a null pointer, a variable is one node, and an exception is on its way
\* only out of a call (TypeOK).
THEOREM TypeCorrect == Spec => []TypeOK
<1>1. IInv => TypeOK
  BY DEF IInv
<1>2. QED
  BY <1>1, Invariance, PTL

\* The handler of transform_initialize never destroys a node without a value,
\* nor an array that is gone (ast.hpp, UnwindingIsSound).
THEOREM UnwindingSound == Spec => []UnwindingIsSound
<1>1. IInv => UnwindingIsSound
  BY DEF IInv
<1>2. QED
  BY <1>1, Invariance, PTL

\* An array that a call builds has no other owner; any other has exactly one.
LEMMA OneOwnerOrBuilder ==
    ASSUME IInv, NEW b \in Block \cap DOMAIN mem
    PROVE  Cardinality(Owners(b)) + Cardinality(Builders(b)) = 1
<1>1. /\ Memory(mem) /\ calls \in Seq(Frame) /\ Owned(mem, Begun(calls))
      /\ \A k \in DOMAIN calls : FrameInv(mem, calls, k)
  BY DEF IInv, TypeOK, Building
<1>2. \A p : p \in Owners(b) <=>
          \E x \in DOMAIN mem : \E i \in DOMAIN mem[x] :
              p = <<x, i>> /\ mem[x][i].n > 0 /\ mem[x][i].data = b
  <2>1. \A p : p \in Places <=> \E x \in DOMAIN mem : \E i \in DOMAIN mem[x] : p = <<x, i>>
    BY DEF Places
  <2>2. \A x, i : At(mem, <<x, i>>) = mem[x][i]
    BY DEF At
  <2>3. QED
    BY <2>1, <2>2 DEF Owners
<1>3. CASE b \in Begun(calls)
  <2>1. PICK k \in DOMAIN calls : calls[k].block = b
    BY <1>3 DEF Begun
  <2>2. Builders(b) = {k}
    <3>1. \A j \in DOMAIN calls : calls[j].block = calls[k].block => j = k
      BY <1>1, <2>1 DEF FrameInv
    <3>2. QED
      BY <2>1, <3>1 DEF Builders
  <2>3. Owners(b) = {}
    BY <1>1, <1>2, <1>3 DEF Owned
  <2>4. QED
    BY <2>2, <2>3, FS_EmptySet, FS_Singleton
<1>4. CASE b \notin Begun(calls)
  <2>1. Builders(b) = {}
    BY <1>4 DEF Builders, Begun
  <2>2. PICK x \in DOMAIN mem : b \in Arrays(mem, x)
    BY <1>1, <1>4 DEF Owned
  <2>3. PICK i \in DOMAIN mem[x] : mem[x][i].n > 0 /\ mem[x][i].data = b
    BY <1>1, <2>2, ArraysFacts
  <2>4. Owners(b) = {<<x, i>>}
    <3>1. <<x, i>> \in Owners(b)
      BY <1>2, <2>3
    <3>2. ASSUME NEW p \in Owners(b)
          PROVE  p = <<x, i>>
      <4>1. PICK y \in DOMAIN mem : \E j \in DOMAIN mem[y] :
                p = <<y, j>> /\ mem[y][j].n > 0 /\ mem[y][j].data = b
        BY <1>2
      <4>2. PICK j \in DOMAIN mem[y] : p = <<y, j>> /\ mem[y][j].n > 0 /\ mem[y][j].data = b
        BY <4>1
      <4>3. y = x /\ j = i
        BY <1>1, <2>3, <4>2 DEF Owned
      <4>4. QED
        BY <4>2, <4>3
    <3>3. QED
      BY <3>1, <3>2
  <2>5. Cardinality(Builders(b)) = 0
    BY <2>1, FS_EmptySet
  <2>6. Cardinality(Owners(b)) = 1
    BY <2>4, FS_Singleton
  <2>7. QED
    BY <2>5, <2>6
<1>5. QED
  BY <1>3, <1>4

\* However nodes are moved between lists, every array has one owner, which
\* knows its size: none is freed twice, none is read after it is freed (OwnedOnce).
THEOREM EveryArrayOwnedOnce == Spec => []OwnedOnce
<1>1. IInv => OwnedOnce
  <2> SUFFICES ASSUME IInv
               PROVE  OwnedOnce
    OBVIOUS
  <2>1. \A b \in Block \cap DOMAIN mem : Cardinality(Owners(b)) + Cardinality(Builders(b)) = 1
    BY OneOwnerOrBuilder
  <2>2. ASSUME NEW p \in Places, At(mem, p).n > 0
        PROVE  /\ At(mem, p).data \in DOMAIN mem
               /\ Len(mem[At(mem, p).data]) = At(mem, p).n
    <3>1. PICK x \in DOMAIN mem : \E i \in DOMAIN mem[x] : p = <<x, i>>
      BY DEF Places
    <3>2. PICK i \in DOMAIN mem[x] : p = <<x, i>>
      BY <3>1
    <3>3. At(mem, p) = mem[x][i] /\ Owned(mem, Begun(calls))
      BY <3>2 DEF At, IInv, Building
    <3>4. QED
      BY <2>2, <3>3 DEF Owned
  <2>3. QED
    BY <2>1, <2>2 DEF OwnedOnce
<1>2. QED
  BY <1>1, Invariance, PTL

-----------------------------------------------------------------------------
(* Nothing is leaked. *)

\* Of subsets of a finite set, one has the most elements.
LEMMA LargestSubset ==
    ASSUME NEW S, IsFiniteSet(S), NEW A, A # {}, NEW f \in [A -> SUBSET S]
    PROVE  \E x \in A : \A y \in A : Cardinality(f[y]) <= Cardinality(f[x])
<1> DEFINE N == Cardinality(S)
           left(x) == N - Cardinality(f[x])
           T == {left(x) : x \in A}
<1>1. N \in Nat /\ \A x \in A : Cardinality(f[x]) \in Nat /\ Cardinality(f[x]) <= N
  <2>1. ASSUME NEW x \in A
        PROVE  Cardinality(f[x]) \in Nat /\ Cardinality(f[x]) <= N
    <3> DEFINE R == f[x]
    <3>1. R \in SUBSET S
      OBVIOUS
    <3> HIDE DEF R
    <3>2. IsFiniteSet(R) /\ Cardinality(R) <= Cardinality(S)
      BY <3>1, FS_Subset
    <3>3. Cardinality(R) \in Nat
      BY <3>2, FS_CardinalityType
    <3>4. QED
      BY <3>2, <3>3 DEF R
  <2>2. QED
    BY <2>1, FS_CardinalityType
<1> HIDE DEF N
<1>2. T \in SUBSET Nat /\ T # {}
  BY <1>1
<1>3. PICK m \in T : \A n \in T : m <= n
  <2> HIDE DEF T
  <2>1. QED
    BY <1>2, LeastNatural
<1>4. PICK x \in A : m = left(x)
  BY <1>3
<1>5. \A y \in A : left(x) <= left(y)
  BY <1>3, <1>4
<1>6. \A y \in A : Cardinality(f[y]) <= Cardinality(f[x])
  BY <1>1, <1>5
<1>7. QED
  BY <1>6

\* What is below a cell that is itself below another is below that one.
LEMMA UnderWithin ==
    ASSUME NEW m, Memory(m), NEW c \in Cell, NEW x \in Under(m, c) \cap DOMAIN m,
           NEW i \in DOMAIN m[x]
    PROVE  Under(m, m[x][i]) \subseteq Under(m, c)
<1>1. Under(m, c) \in SUBSET Block /\ OwnsWithin(m, Under(m, c))
  BY UnderFacts
<1>2. m[x][i].n > 0 => m[x][i].data \in Under(m, c)
  BY <1>1, ArraysFacts DEF OwnsWithin
<1> DEFINE S == Under(m, c)
           d == m[x][i]
<1>3. S \in SUBSET Block /\ OwnsWithin(m, S) /\ (d.n > 0 => d.data \in S)
  BY <1>1, <1>2
<1> HIDE DEF S, d
<1>4. Under(m, d) \subseteq S
  BY <1>3, UnderLeast
<1>5. QED
  BY <1>4 DEF S, d

\* Whoever owns an array that nobody reaches is an array that nobody reaches.
LEMMA LostOwner ==
    ASSUME IInv, NEW d \in (Block \cap DOMAIN mem) \ Reached
    PROVE  \E x \in (Block \cap DOMAIN mem) \ Reached :
              \E i \in DOMAIN mem[x] : mem[x][i].n > 0 /\ mem[x][i].data = d
<1>1. Memory(mem) /\ Owned(mem, Begun(calls))
  BY DEF IInv, TypeOK, Building
<1>2. \A r : r \in Reached <=>
        \/ \E v \in Var \cap DOMAIN mem : r \in Under(mem, mem[v][1])
        \/ \E k \in DOMAIN calls : r = calls[k].block
        \/ \E k \in DOMAIN calls : \E i \in DOMAIN mem[calls[k].block] :
              r \in Under(mem, mem[calls[k].block][i])
  <2> DEFINE U(k) == UNION {Under(mem, mem[calls[k].block][i]) : i \in DOMAIN mem[calls[k].block]}
             V == UNION {Under(mem, mem[v][1]) : v \in Var \cap DOMAIN mem}
             W == UNION {{calls[k].block} \cup U(k) : k \in DOMAIN calls}
  <2>1. Reached = V \cup W
    BY DEF Reached
  <2>2. \A r : r \in V <=> \E v \in Var \cap DOMAIN mem : r \in Under(mem, mem[v][1])
    OBVIOUS
  <2>3. \A k, r : r \in U(k) <=> \E i \in DOMAIN mem[calls[k].block] :
                                     r \in Under(mem, mem[calls[k].block][i])
    OBVIOUS
  <2> HIDE DEF U
  <2>4. \A r : r \in W <=> \E k \in DOMAIN calls : r = calls[k].block \/ r \in U(k)
    OBVIOUS
  <2> HIDE DEF V, W
  <2>5. QED
    BY <2>1, <2>2, <2>3, <2>4
<1>3. d \notin Begun(calls)
  BY <1>2 DEF Begun
<1>4. PICK x \in DOMAIN mem : d \in Arrays(mem, x)
  BY <1>1, <1>3 DEF Owned
<1>5. PICK i \in DOMAIN mem[x] : mem[x][i].n > 0 /\ mem[x][i].data = d
  BY <1>1, <1>4, ArraysFacts
<1>6. mem[x][i] \in Cell /\ x \in Var \cup Block /\ DOMAIN mem[x] = 1..Len(mem[x])
  BY <1>1, MemoryCells
<1>7. d \in Under(mem, mem[x][i])
  <2> DEFINE c == mem[x][i]
  <2>1. c \in Cell /\ c.n > 0 /\ c.data = d
    BY <1>5, <1>6
  <2> HIDE DEF c
  <2>2. d \in Under(mem, c)
    BY <1>1, <2>1, UnderFacts
  <2>3. QED
    BY <2>2 DEF c
<1>8. x \notin Var
  <2>1. SUFFICES ASSUME x \in Var
                 PROVE  FALSE
    OBVIOUS
  <2>2. Len(mem[x]) = 1
    BY <1>1, <2>1 DEF Memory
  <2>3. i = 1
    BY <1>6, <2>2
  <2>4. QED
    BY <1>2, <1>7, <2>1, <2>3
<1>9. x \notin Reached
  <2>1. ASSUME NEW c \in Cell, x \in Under(mem, c)
        PROVE  d \in Under(mem, c)
    BY <1>1, <1>4, <2>1, UnderFacts DEF OwnsWithin
  <2>2. ASSUME NEW v \in Var \cap DOMAIN mem, x \in Under(mem, mem[v][1])
        PROVE  FALSE
    <3>1. mem[v][1] \in Cell
      <4> DEFINE s == mem[v]
      <4>1. s \in Seq(Cell) /\ Len(s) = 1
        BY <1>1 DEF Memory
      <4> HIDE DEF s
      <4>2. 1 \in DOMAIN s /\ \A j \in DOMAIN s : s[j] \in Cell
        BY ONLY <4>1
      <4>3. QED
        BY <4>2 DEF s
    <3>2. QED
      BY <1>2, <2>1, <2>2, <3>1
  <2>3. ASSUME NEW k \in DOMAIN calls, x = calls[k].block
        PROVE  FALSE
    BY <1>2, <1>7, <2>3
  <2>4. ASSUME NEW k \in DOMAIN calls, NEW j \in DOMAIN mem[calls[k].block],
               x \in Under(mem, mem[calls[k].block][j])
        PROVE  FALSE
    <3>1. calls[k].block \in DOMAIN mem
      BY <1>1 DEF Owned, Begun
    <3>2. mem[calls[k].block][j] \in Cell
      BY <1>1, <3>1, MemoryCells
    <3>3. QED
      BY <1>2, <2>1, <2>4, <3>2
  <2>5. QED
    BY <1>2, <2>2, <2>3, <2>4
<1>10. QED
  BY <1>5, <1>6, <1>8, <1>9

\* Going up from a lost array from owner to owner, more and more arrays are
\* below, until an array is met again.
LEMMA LostOnCycle ==
    ASSUME IInv, NEW b \in (Block \cap DOMAIN mem) \ Reached
    PROVE  \E p \in Places : {b, p[1]} \subseteq Under(mem, At(mem, p))
<1> DEFINE L == (Block \cap DOMAIN mem) \ Reached
           below(x) == {d \in Block : \E i \in DOMAIN mem[x] : d \in Under(mem, mem[x][i])}
           A == {x \in L : x = b \/ b \in below(x)}
           f == [x \in A |-> below(x)]
<1>1. Memory(mem)
  BY DEF IInv, TypeOK
<1>2. ASSUME NEW x \in L
      PROVE  \E y \in L : x \in below(y) /\ below(x) \subseteq below(y)
  <2>1. PICK y \in L : \E i \in DOMAIN mem[y] : mem[y][i].n > 0 /\ mem[y][i].data = x
    BY LostOwner
  <2>2. PICK i \in DOMAIN mem[y] : mem[y][i].n > 0 /\ mem[y][i].data = x
    BY <2>1
  <2>3. mem[y][i] \in Cell
    BY <1>1, MemoryCells
  <2>4. x \in Under(mem, mem[y][i]) \cap DOMAIN mem
    <3> DEFINE c == mem[y][i]
    <3>1. c \in Cell /\ c.n > 0 /\ c.data = x
      BY <2>2, <2>3
    <3> HIDE DEF c
    <3>2. x \in Under(mem, c)
      BY <1>1, <3>1, UnderFacts
    <3>3. QED
      BY <3>2 DEF c
  <2>5. \A j \in DOMAIN mem[x] : Under(mem, mem[x][j]) \subseteq Under(mem, mem[y][i])
    BY <1>1, <2>3, <2>4, UnderWithin
  <2>6. QED
    BY <2>4, <2>5
<1>3. PICK x \in A : \A y \in A : Cardinality(f[y]) <= Cardinality(f[x])
  <2>1. IsFiniteSet(Block) /\ A # {}
    BY StorageAssumption
  <2>2. f \in [A -> SUBSET Block]
    OBVIOUS
  <2> HIDE DEF A, f
  <2>3. QED
    BY <2>1, <2>2, LargestSubset
<1>4. PICK y \in L : x \in below(y) /\ below(x) \subseteq below(y)
  BY <1>2
<1>5. y \in A
  BY <1>4
<1>6. below(y) = below(x)
  <2> DEFINE X == below(x)
             Y == below(y)
  <2>1. X \subseteq Y /\ Y \subseteq Block
    BY <1>4
  <2>2. Cardinality(Y) <= Cardinality(X)
    BY <1>3, <1>5
  <2> HIDE DEF X, Y
  <2>3. IsFiniteSet(Y)
    BY <2>1, StorageAssumption, FS_Subset
  <2>4. IsFiniteSet(X) /\ Cardinality(X) <= Cardinality(Y) /\ (Cardinality(Y) = Cardinality(X) => Y = X)
    BY <2>1, <2>3, FS_Subset
  <2>5. Cardinality(X) \in Nat /\ Cardinality(Y) \in Nat
    BY <2>3, <2>4, FS_CardinalityType
  <2>6. QED
    BY <2>2, <2>4, <2>5 DEF X, Y
<1>7. PICK i \in DOMAIN mem[x] : x \in Under(mem, mem[x][i])
  BY <1>4, <1>6
<1>8. mem[x][i] \in Cell /\ x \in DOMAIN mem
  BY <1>1, MemoryCells
<1>9. b \in Under(mem, mem[x][i])
  <2>1. CASE x = b
    BY <1>7, <2>1
  <2>2. CASE x # b
    <3>1. PICK j \in DOMAIN mem[x] : b \in Under(mem, mem[x][j])
      BY <2>2
    <3>2. QED
      BY <1>1, <1>7, <1>8, <3>1, UnderWithin
  <2>3. QED
    BY <2>1, <2>2
<1>10. <<x, i>> \in Places /\ <<x, i>>[1] = x /\ At(mem, <<x, i>>) = mem[x][i]
  BY <1>8 DEF Places, At
<1>11. QED
  BY <1>7, <1>9, <1>10

\* No array is lost, except by a client that moves a node to a place below
\* itself (NothingLost).
THEOREM NothingIsLeaked == Spec => []NothingLost
<1>1. IInv => NothingLost
  BY LostOnCycle DEF NothingLost
<1>2. QED
  BY <1>1, Invariance, PTL

-----------------------------------------------------------------------------
(* Names and what is below them. *)

\* The name of a child.
ChildOf(z, j) ==
    [var |-> z.var, path |-> Append(z.path, j), cell |-> <<At(mem, z.cell).data, j>>]

Child(x, z) == z \in Named /\ \E j \in 1..At(mem, z.cell).n : x = ChildOf(z, j)

\* A name is that of a variable, or that of a child of a node that has a name.
LEMMA NameParts ==
    ASSUME Memory(mem), NEW loose, Owned(mem, loose), NEW x \in Named
    PROVE  /\ x = [var |-> x.var, path |-> x.path, cell |-> x.cell]
           /\ x.var \in Var /\ x.path \in Seq(Nat)
           /\ x = Root(x.var) \/ \E z : Child(x, z)
<1> DEFINE Good(y) == /\ y = [var |-> y.var, path |-> y.path, cell |-> y.cell]
                      /\ y.var \in Var /\ y.path \in Seq(Nat)
<1>1. PICK v \in Var \cap DOMAIN mem : x \in Walk(v)
  BY DEF Named
<1>2. PICK N, f : Levels(v, N, f)
  BY LevelFacts
<1>3. /\ N \in Nat
      /\ f[0] = {Root(v)}
      /\ \A k \in 1..N : f[k] = Step(f[k - 1])
      /\ \A y : y \in Walk(v) <=> \E k \in 0..N : y \in f[k]
  BY <1>2 DEF Levels
<1>4. Good(Root(v)) /\ Root(v).var = v
  BY DEF Root
<1>5. ASSUME NEW k \in 1..N, NEW y \in f[k]
      PROVE  \E z : z \in f[k - 1] /\ Child(y, z)
  <2>1. y \in Step(f[k - 1])
    BY <1>3, <1>5
  <2>2. PICK z \in f[k - 1] : \E j \in 1..At(mem, z.cell).n : y = ChildOf(z, j)
    BY <2>1 DEF Step, ChildOf
  <2>3. k - 1 \in 0..N
    BY <1>3
  <2>4. z \in Named
    BY <1>3, <2>3 DEF Named
  <2>5. QED
    BY <2>2, <2>4 DEF Child
<1>6. ASSUME NEW y, NEW z, Good(z), Child(y, z)
      PROVE  Good(y)
  <2>1. PICK j \in 1..At(mem, z.cell).n : y = ChildOf(z, j)
    BY <1>6 DEF Child
  <2>2. At(mem, z.cell).n \in Nat
    BY <1>6, NotBelowItself, CellFacts DEF Child
  <2>3. j \in Nat
    BY <2>2
  <2>4. z.path \in Seq(Nat) /\ z.var \in Var
    BY <1>6
  <2>5. Append(z.path, j) \in Seq(Nat)
    BY <2>3, <2>4
  <2>6. QED
    BY <2>1, <2>4, <2>5 DEF ChildOf
<1> HIDE DEF Good
<1> DEFINE T == {k \in 0..N : \E y \in f[k] : ~Good(y)}
<1>7. T = {}
  <2>1. SUFFICES ASSUME T # {} PROVE FALSE
    OBVIOUS
  <2>2. PICK k \in T : \A i \in T : k <= i
    <3>1. T \in SUBSET Nat
      OBVIOUS
    <3>2. QED
      BY <2>1, <3>1, LeastNatural
  <2>3. k # 0
    BY <1>3, <1>4, <2>2
  <2>4. k \in 1..N /\ k - 1 \in 0..N /\ k - 1 \notin T
    <3>1. k \in 0..N
      OBVIOUS
    <3>2. k \in 1..N /\ k - 1 \in 0..N
      BY <1>3, <2>3, <3>1
    <3> HIDE DEF T
    <3>3. k - 1 \notin T
      BY <2>2, <3>2
    <3>4. QED
      BY <3>2, <3>3
  <2>5. \A y \in f[k - 1] : Good(y)
    BY <2>4
  <2>6. QED
    BY <1>5, <1>6, <2>2, <2>4, <2>5
<1>8. PICK k \in 0..N : x \in f[k]
  BY <1>1, <1>3
<1>9. Good(x)
  BY <1>7, <1>8
<1>10. x = Root(x.var) \/ \E z : Child(x, z)
  <2>1. CASE k = 0
    BY <1>3, <1>4, <1>8, <2>1
  <2>2. CASE k # 0
    <3>1. k \in 1..N
      BY <1>3, <2>2
    <3>2. QED
      BY <1>5, <1>8, <3>1
  <2>3. QED
    BY <2>1, <2>2
<1>11. QED
  BY <1>9, <1>10 DEF Good

\* A child lies in the array of its parent, one step further down.
LEMMA ChildPlace ==
    ASSUME Memory(mem), NEW loose, Owned(mem, loose), NEW x, NEW z, Child(x, z)
    PROVE  \E b \in DOMAIN mem : \E i \in DOMAIN mem[b] : \E d \in Block : \E j \in Nat \ {0} :
              /\ z.cell = <<b, i>> /\ At(mem, z.cell) = mem[b][i] /\ mem[b][i] \in Cell
              /\ mem[b][i].n > 0 /\ mem[b][i].data = d /\ d \in Arrays(mem, b)
              /\ x.cell = <<d, j>> /\ x.var = z.var /\ x.path = Append(z.path, j)
              /\ z.path \in Seq(Nat) /\ Len(x.path) = Len(z.path) + 1
<1>1. z \in Named
  BY DEF Child
<1>2. PICK b \in DOMAIN mem : \E i \in DOMAIN mem[b] :
         z.cell = <<b, i>> /\ At(mem, z.cell) = mem[b][i] /\ mem[b][i] \in Cell
  BY <1>1, NotBelowItself
<1>3. PICK i \in DOMAIN mem[b] :
         z.cell = <<b, i>> /\ At(mem, z.cell) = mem[b][i] /\ mem[b][i] \in Cell
  BY <1>2
<1> DEFINE c == mem[b][i]
<1>4. c \in Cell /\ At(mem, z.cell) = c
  BY <1>3
<1> HIDE DEF c
<1>5. PICK j \in 1..c.n : x = ChildOf(z, j)
  BY <1>4 DEF Child
<1>6. c.n > 0 /\ j \in Nat \ {0}
  BY <1>4, <1>5, CellFacts
<1>7. c.data \in Block
  BY <1>4, <1>6, CellFacts
<1>8. c.data \in Arrays(mem, b)
  BY <1>6, ArraysFacts DEF c
<1>9. x.cell = <<c.data, j>> /\ x.var = z.var /\ x.path = Append(z.path, j)
  BY <1>4, <1>5 DEF ChildOf
<1>10. z.path \in Seq(Nat) /\ Len(Append(z.path, j)) = Len(z.path) + 1
  BY <1>1, <1>6, NameParts
<1> DEFINE d == c.data
<1>11. d \in Block /\ c.data = d /\ d \in Arrays(mem, b) /\ x.cell = <<d, j>>
  BY <1>7, <1>8, <1>9
<1> HIDE DEF d
<1>12. QED
  BY <1>3, <1>6, <1>9, <1>10, <1>11 DEF c

\* Nodes in the same place have the same name: every node lies in one tree, once.
LEMMA SameCellSameName ==
    ASSUME Memory(mem), NEW loose, Owned(mem, loose), NEW x \in Named, NEW y \in Named,
           x.cell = y.cell
    PROVE  x = y
<1> DEFINE Two(n, a, b) == a \in Named /\ b \in Named /\ Len(a.path) = n /\ a.cell = b.cell /\ a # b
           T == {n \in Nat : \E a, b : Two(n, a, b)}
<1>1. T = {}
  <2>1. SUFFICES ASSUME T # {} PROVE FALSE
    OBVIOUS
  <2>2. PICK n \in T : \A i \in T : n <= i
    <3>1. T \in SUBSET Nat
      OBVIOUS
    <3> HIDE DEF T
    <3>2. QED
      BY <2>1, <3>1, LeastNatural
  <2>3. PICK a, b : Two(n, a, b)
    BY <2>2
  <2>4. /\ a = [var |-> a.var, path |-> a.path, cell |-> a.cell]
        /\ b = [var |-> b.var, path |-> b.path, cell |-> b.cell]
        /\ a.var \in Var /\ b.var \in Var
    BY <2>3, NameParts
  <2>5. \A v \in Var : Root(v).cell = <<v, 1>> /\ v \notin Block
    BY StorageAssumption DEF Root
  <2>6. CASE a = Root(a.var)
    <3>1. CASE b = Root(b.var)
      BY <2>3, <2>4, <2>5, <2>6, <3>1
    <3>2. ASSUME NEW z, Child(b, z) PROVE FALSE
      <4>1. PICK d \in Block, j \in Nat \ {0} : b.cell = <<d, j>>
        BY <3>2, ChildPlace
      <4>2. QED
        BY <2>3, <2>4, <2>5, <2>6, <4>1
    <3>3. QED
      BY <2>3, <3>1, <3>2, NameParts
  <2>7. ASSUME NEW z, Child(a, z) PROVE FALSE
    <3>1. PICK bz \in DOMAIN mem : \E i \in DOMAIN mem[bz] : \E d \in Block : \E j \in Nat \ {0} :
              /\ z.cell = <<bz, i>> /\ mem[bz][i].n > 0 /\ mem[bz][i].data = d
              /\ a.cell = <<d, j>> /\ a.var = z.var /\ a.path = Append(z.path, j)
              /\ z.path \in Seq(Nat) /\ Len(a.path) = Len(z.path) + 1
      BY <2>7, ChildPlace
    <3>2. PICK iz \in DOMAIN mem[bz] : \E d \in Block : \E j \in Nat \ {0} :
              /\ z.cell = <<bz, iz>> /\ mem[bz][iz].n > 0 /\ mem[bz][iz].data = d
              /\ a.cell = <<d, j>> /\ a.var = z.var /\ a.path = Append(z.path, j)
              /\ z.path \in Seq(Nat) /\ Len(a.path) = Len(z.path) + 1
      BY <3>1
    <3>3. PICK d \in Block, j \in Nat \ {0} :
              /\ z.cell = <<bz, iz>> /\ mem[bz][iz].n > 0 /\ mem[bz][iz].data = d
              /\ a.cell = <<d, j>> /\ a.var = z.var /\ a.path = Append(z.path, j)
              /\ z.path \in Seq(Nat) /\ Len(a.path) = Len(z.path) + 1
      BY <3>2
    <3>4. CASE b = Root(b.var)
      BY <2>3, <2>4, <2>5, <3>3, <3>4
    <3>5. ASSUME NEW w, Child(b, w) PROVE FALSE
      <4>1. PICK bw \in DOMAIN mem : \E i \in DOMAIN mem[bw] : \E e \in Block : \E k \in Nat \ {0} :
                /\ w.cell = <<bw, i>> /\ mem[bw][i].n > 0 /\ mem[bw][i].data = e
                /\ b.cell = <<e, k>> /\ b.var = w.var /\ b.path = Append(w.path, k)
        BY <3>5, ChildPlace
      <4>2. PICK iw \in DOMAIN mem[bw] : \E e \in Block : \E k \in Nat \ {0} :
                /\ w.cell = <<bw, iw>> /\ mem[bw][iw].n > 0 /\ mem[bw][iw].data = e
                /\ b.cell = <<e, k>> /\ b.var = w.var /\ b.path = Append(w.path, k)
        BY <4>1
      <4>3. PICK e \in Block, k \in Nat \ {0} :
                /\ w.cell = <<bw, iw>> /\ mem[bw][iw].n > 0 /\ mem[bw][iw].data = e
                /\ b.cell = <<e, k>> /\ b.var = w.var /\ b.path = Append(w.path, k)
        BY <4>2
      <4>4. e = d /\ k = j
        <5>1. a.cell = b.cell
          BY <2>3
        <5>2. <<d, j>> = <<e, k>>
          BY <3>3, <4>3, <5>1
        <5>3. QED
          BY ONLY <5>2
      <4>5. bw = bz /\ iw = iz
        BY <3>3, <4>3, <4>4 DEF Owned
      <4>6. z.cell = w.cell /\ z \in Named /\ w \in Named
        BY <2>7, <3>3, <3>5, <4>3, <4>5 DEF Child
      <4>7. n \in Nat /\ n - 1 \in Nat /\ Len(z.path) = n - 1
        BY <2>2, <2>3, <3>3
      <4>8. n - 1 \notin T
        <5> HIDE DEF T
        <5>1. QED
          BY <2>2, <4>7
      <4>9. z = w
        BY <4>6, <4>7, <4>8
      <4>10. a = b
        BY <2>3, <2>4, <3>3, <4>3, <4>4, <4>9
      <4>11. QED
        BY <2>3, <4>10
    <3>6. QED
      BY <2>3, <3>4, <3>5, NameParts
  <2>8. QED
    BY <2>3, <2>6, <2>7, NameParts
<1>2. Len(x.path) \in Nat
  BY NameParts
<1>3. QED
  BY <1>1, <1>2

\* Sequences with the same element appended are the same.
LEMMA AppendTwice ==
    ASSUME NEW p \in Seq(Nat), NEW q \in Seq(Nat), NEW j \in Nat, NEW k \in Nat,
           Append(p, j) = Append(q, k)
    PROVE  p = q /\ j = k
<1> DEFINE r == Append(p, j)
<1>1. /\ Len(r) = Len(p) + 1 /\ r[Len(p) + 1] = j
      /\ \A i \in 1..Len(p) : r[i] = p[i]
  BY AppendProperties
<1>2. /\ Len(r) = Len(q) + 1 /\ r[Len(q) + 1] = k
      /\ \A i \in 1..Len(q) : r[i] = q[i]
  BY AppendProperties
<1> HIDE DEF r
<1>3. Len(p) \in Nat /\ Len(q) \in Nat
  BY LenProperties
<1>4. Len(p) = Len(q) /\ j = k
  BY ONLY <1>1, <1>2, <1>3
<1>5. \A i \in 1..Len(p) : p[i] = q[i]
  BY <1>1, <1>2, <1>4
<1>6. p = q
  BY <1>4, <1>5, SeqEqual
<1>7. QED
  BY <1>4, <1>6

\* A variable and a path name one node.
LEMMA SamePathSameName ==
    ASSUME Memory(mem), NEW loose, Owned(mem, loose), NEW x \in Named, NEW y \in Named,
           x.var = y.var, x.path = y.path
    PROVE  x = y
<1> DEFINE Two(n, a, b) == /\ a \in Named /\ b \in Named /\ Len(a.path) = n
                           /\ a.var = b.var /\ a.path = b.path /\ a # b
           T == {n \in Nat : \E a, b : Two(n, a, b)}
<1>1. T = {}
  <2>1. SUFFICES ASSUME T # {} PROVE FALSE
    OBVIOUS
  <2>2. PICK n \in T : \A i \in T : n <= i
    <3>1. T \in SUBSET Nat
      OBVIOUS
    <3> HIDE DEF T
    <3>2. QED
      BY <2>1, <3>1, LeastNatural
  <2>3. PICK a, b : Two(n, a, b)
    BY <2>2
  <2>4. /\ a = [var |-> a.var, path |-> a.path, cell |-> a.cell]
        /\ b = [var |-> b.var, path |-> b.path, cell |-> b.cell]
    BY <2>3, NameParts
  <2>5. ASSUME NEW c \in Named, NEW z, Child(c, z)
        PROVE  /\ Len(z.path) \in Nat /\ Len(c.path) = Len(z.path) + 1
               /\ z \in Named /\ z.path \in Seq(Nat) /\ c.var = z.var
               /\ \E j \in Nat \ {0} : c.path = Append(z.path, j) /\ c.cell = <<At(mem, z.cell).data, j>>
    <3>1. PICK j \in 1..At(mem, z.cell).n : c = ChildOf(z, j)
      BY <2>5 DEF Child
    <3>2. z \in Named /\ At(mem, z.cell).n \in Nat
      BY <2>5, NotBelowItself, CellFacts DEF Child
    <3>3. z.path \in Seq(Nat) /\ j \in Nat \ {0}
      BY <3>2, NameParts
    <3>4. c.path = Append(z.path, j) /\ c.var = z.var /\ c.cell = <<At(mem, z.cell).data, j>>
      BY <3>1 DEF ChildOf
    <3>5. Len(Append(z.path, j)) = Len(z.path) + 1 /\ Len(z.path) \in Nat
      BY <3>3
    <3>6. QED
      BY <3>2, <3>3, <3>4, <3>5
  <2>6. ASSUME NEW c \in Named, c = Root(c.var)
        PROVE  Len(c.path) = 0
    <3>1. c.path = <<>>
      BY <2>6 DEF Root
    <3>2. QED
      BY <3>1
  <2>7. a \in Named /\ b \in Named /\ a.var = b.var /\ a.path = b.path /\ a # b /\ Len(a.path) = n
    BY <2>3
  <2>8. CASE a = Root(a.var)
    <3>1. ASSUME NEW z, Child(b, z) PROVE FALSE
      BY <2>5, <2>6, <2>7, <2>8, <3>1
    <3>2. b = Root(b.var)
      BY <2>7, <3>1, NameParts
    <3>3. QED
      BY <2>7, <2>8, <3>2
  <2>9. ASSUME NEW z, Child(a, z) PROVE FALSE
    <3>1. b # Root(b.var)
      BY <2>5, <2>6, <2>7, <2>9
    <3>2. PICK w : Child(b, w)
      BY <2>7, <3>1, NameParts
    <3>3. PICK j \in Nat \ {0} : a.path = Append(z.path, j) /\ a.cell = <<At(mem, z.cell).data, j>>
      BY <2>5, <2>7, <2>9
    <3>4. PICK k \in Nat \ {0} : b.path = Append(w.path, k) /\ b.cell = <<At(mem, w.cell).data, k>>
      BY <2>5, <2>7, <3>2
    <3>5. /\ z.path \in Seq(Nat) /\ w.path \in Seq(Nat) /\ z \in Named /\ w \in Named
          /\ z.var = w.var /\ Len(z.path) \in Nat /\ n = Len(z.path) + 1
      BY <2>5, <2>7, <2>9, <3>2
    <3> DEFINE p == z.path
               q == w.path
    <3>6. p \in Seq(Nat) /\ q \in Seq(Nat) /\ Append(p, j) = Append(q, k) /\ j \in Nat /\ k \in Nat
      BY <2>7, <3>3, <3>4, <3>5
    <3> HIDE DEF p, q
    <3>7. p = q /\ j = k
      BY ONLY <3>6, AppendTwice
    <3>8. z.path = w.path
      BY <3>7 DEF p, q
    <3>9. n - 1 \notin T
      <4>1. n - 1 \in Nat /\ n \in Nat
        BY <3>5
      <4> HIDE DEF T
      <4>2. QED
        BY <2>2, <4>1
    <3>10. z = w
      BY <3>5, <3>8, <3>9
    <3>11. a.cell = b.cell
      BY <3>3, <3>4, <3>7, <3>10
    <3>12. QED
      BY <2>4, <2>7, <3>11
  <2>10. QED
    BY <2>7, <2>8, <2>9, NameParts
<1>2. Len(x.path) \in Nat
  BY NameParts
<1>3. QED
  BY <1>1, <1>2

\* A path that another one extends.
Begins(p, q) == Len(p) < Len(q) /\ SubSeq(q, 1, Len(p)) = p

\* It is shorter, and the other agrees with it as far as it goes.
LEMMA BeginsFacts ==
    ASSUME NEW p \in Seq(Nat), NEW q \in Seq(Nat)
    PROVE  Begins(p, q) <=> Len(p) < Len(q) /\ \A i \in 1..Len(p) : q[i] = p[i]
<1>1. Len(p) \in Nat /\ Len(q) \in Nat
  BY LenProperties
<1>2. SUFFICES ASSUME Len(p) < Len(q)
               PROVE  SubSeq(q, 1, Len(p)) = p <=> \A i \in 1..Len(p) : q[i] = p[i]
  BY DEF Begins
<1> DEFINE n == Len(p)
           r == SubSeq(q, 1, n)
<1>3. \A i \in 1..n : q[i] \in Nat
  <2>1. \A i \in 1..n : i \in 1..Len(q)
    BY <1>1, <1>2
  <2>2. QED
    BY <2>1, ElementOfSeq
<1>4. /\ r \in Seq(Nat)
      /\ Len(r) = IF 1 <= n THEN n - 1 + 1 ELSE 0
      /\ \A i \in 1..(n - 1 + 1) : r[i] = q[1 + i - 1]
  <2>1. 1 \in Int /\ n \in Int
    BY <1>1
  <2> HIDE DEF n
  <2>2. QED
    BY <1>3, <2>1, SubSeqProperties
<1>5. Len(r) = n /\ \A i \in 1..n : r[i] = q[i]
  <2> HIDE DEF r
  <2>1. Len(r) = n
    BY <1>1, <1>4
  <2>2. ASSUME NEW i \in 1..n
        PROVE  r[i] = q[i]
    <3>1. i \in 1..(n - 1 + 1) /\ 1 + i - 1 = i
      BY <1>1
    <3>2. QED
      BY <1>4, <3>1
  <2>3. QED
    BY <2>1, <2>2
<1> HIDE DEF r
<1>6. (\A i \in 1..n : q[i] = p[i]) => r = p
  BY <1>4, <1>5, SeqEqual
<1>7. r = p => \A i \in 1..n : q[i] = p[i]
  BY <1>5
<1>8. QED
  BY <1>6, <1>7 DEF r

\* It begins an extended path when it is that path or begins it.
LEMMA BeginsAppend ==
    ASSUME NEW p \in Seq(Nat), NEW q \in Seq(Nat), NEW j \in Nat
    PROVE  Begins(p, Append(q, j)) <=> p = q \/ Begins(p, q)
<1> DEFINE r == Append(q, j)
<1>1. /\ Len(r) = Len(q) + 1 /\ r \in Seq(Nat)
      /\ \A i \in 1..Len(q) : r[i] = q[i]
  BY AppendProperties
<1> HIDE DEF r
<1>2. Len(p) \in Nat /\ Len(q) \in Nat
  BY LenProperties
<1>3. Begins(p, r) <=> Len(p) < Len(r) /\ \A i \in 1..Len(p) : r[i] = p[i]
  BY <1>1, BeginsFacts
<1>4. Begins(p, q) <=> Len(p) < Len(q) /\ \A i \in 1..Len(p) : q[i] = p[i]
  BY BeginsFacts
<1>5. CASE Len(p) > Len(q)
  <2>1. ~(Len(p) < Len(r)) /\ ~(Len(p) < Len(q))
    BY <1>1, <1>2, <1>5
  <2>2. p # q
    BY <1>2, <1>5
  <2>3. QED
    BY <1>3, <1>4, <2>1, <2>2 DEF r
<1>6. CASE Len(p) = Len(q)
  <2>1. ~(Len(p) < Len(q)) /\ Len(p) < Len(r)
    BY <1>1, <1>2, <1>6
  <2>2. (\A i \in 1..Len(p) : r[i] = p[i]) <=> \A i \in 1..Len(p) : q[i] = p[i]
    BY <1>1, <1>6
  <2>3. (\A i \in 1..Len(p) : q[i] = p[i]) => p = q
    BY <1>6, SeqEqual
  <2>4. QED
    BY <1>3, <1>4, <2>1, <2>2, <2>3 DEF r
<1>7. CASE Len(p) < Len(q)
  <2>1. Len(p) < Len(r) /\ \A i \in 1..Len(p) : i \in 1..Len(q)
    BY <1>1, <1>2, <1>7
  <2>2. (\A i \in 1..Len(p) : r[i] = p[i]) <=> \A i \in 1..Len(p) : q[i] = p[i]
    BY <1>1, <2>1
  <2>3. p # q
    BY <1>2, <1>7
  <2>4. QED
    BY <1>3, <1>4, <1>7, <2>1, <2>2, <2>3 DEF r
<1>8. QED
  BY <1>2, <1>5, <1>6, <1>7

\* A name that goes on from another one.
Extends(y, x) == x.var = y.var /\ Begins(x.path, y.path)

\* A node that lies in an array below another.
Below(y, x) == y.cell[1] \in Under(mem, At(mem, x.cell))

\* A child lies below its parent and whatever that lies below.
LEMMA ChildBelow ==
    ASSUME Memory(mem), NEW loose, Owned(mem, loose), NEW x \in Named, NEW y, NEW z, Child(y, z)
    PROVE  Below(y, x) <=> x = z \/ Below(z, x)
<1>1. PICK b \in DOMAIN mem : \E i \in DOMAIN mem[b] : \E d \in Block : \E j \in Nat \ {0} :
         /\ z.cell = <<b, i>> /\ At(mem, z.cell) = mem[b][i]
         /\ mem[b][i].n > 0 /\ mem[b][i].data = d /\ d \in Arrays(mem, b) /\ y.cell = <<d, j>>
  BY ChildPlace
<1>2. PICK i \in DOMAIN mem[b] : \E d \in Block : \E j \in Nat \ {0} :
         /\ z.cell = <<b, i>> /\ At(mem, z.cell) = mem[b][i]
         /\ mem[b][i].n > 0 /\ mem[b][i].data = d /\ d \in Arrays(mem, b) /\ y.cell = <<d, j>>
  BY <1>1
<1>3. PICK d \in Block, j \in Nat \ {0} :
         /\ z.cell = <<b, i>> /\ At(mem, z.cell) = mem[b][i]
         /\ mem[b][i].n > 0 /\ mem[b][i].data = d /\ d \in Arrays(mem, b) /\ y.cell = <<d, j>>
  BY <1>2
<1>4. PICK bx \in DOMAIN mem : \E ix \in DOMAIN mem[bx] :
         x.cell = <<bx, ix>> /\ At(mem, x.cell) = mem[bx][ix] /\ mem[bx][ix] \in Cell
  BY NotBelowItself
<1>5. PICK ix \in DOMAIN mem[bx] :
         x.cell = <<bx, ix>> /\ At(mem, x.cell) = mem[bx][ix] /\ mem[bx][ix] \in Cell
  BY <1>4
<1> DEFINE c == mem[bx][ix]
           U == Under(mem, c)
<1>6. Below(y, x) <=> d \in U
  BY <1>3, <1>5 DEF Below
<1>7. Below(z, x) <=> b \in U
  BY <1>3, <1>5 DEF Below
<1>8. c \in Cell
  BY <1>5
<1>9. ASSUME x = z
      PROVE  d \in U
  <2>1. c.n > 0 /\ c.data = d
    BY <1>3, <1>5, <1>9
  <2> HIDE DEF c
  <2>2. QED
    BY <1>8, <2>1, UnderFacts
<1>10. ASSUME b \in U
       PROVE  d \in U
  <2> HIDE DEF c
  <2>1. OwnsWithin(mem, U)
    BY <1>8, UnderFacts
  <2>2. QED
    BY <1>3, <1>10, <2>1 DEF OwnsWithin
<1>11. ASSUME d \in U, b \notin U
       PROVE  x = z
  <2>1. c.n > 0
    <3> HIDE DEF c
    <3>1. c.n # 0
      BY <1>8, <1>11, UnderFacts
    <3>2. QED
      BY <1>8, <3>1, CellFacts
  <2>2. c.data = d
    <3>1. ASSUME c.data # d
          PROVE  FALSE
      <4> HIDE DEF c
      <4>1. PICK e \in U \cap DOMAIN mem : d \in Arrays(mem, e)
        BY <1>8, <1>11, <3>1, UnderOwned
      <4>2. mem[b][i].data \in Arrays(mem, e) /\ mem[b][i].n > 0
        BY <1>3, <4>1
      <4>3. e = b
        BY <4>1, <4>2, OneOwner
      <4>4. QED
        BY <1>11, <4>1, <4>3
    <3>2. QED
      BY <3>1
  <2>3. b = bx /\ i = ix
    BY <1>3, <2>1, <2>2 DEF Owned
  <2>4. x.cell = z.cell /\ z \in Named
    BY <1>3, <1>5, <2>3 DEF Child
  <2>5. QED
    BY <2>4, SameCellSameName
<1>12. QED
  BY <1>6, <1>7, <1>9, <1>10, <1>11

\* The name of a child extends that of its parent and what that one extends.
LEMMA ChildExtends ==
    ASSUME Memory(mem), NEW loose, Owned(mem, loose), NEW x \in Named, NEW y, NEW z, Child(y, z)
    PROVE  Extends(y, x) <=> x = z \/ Extends(z, x)
<1>1. PICK j \in Nat \ {0} : y.var = z.var /\ y.path = Append(z.path, j)
  BY ChildPlace
<1>2. z \in Named
  BY DEF Child
<1> DEFINE p == x.path
           q == z.path
<1>3. p \in Seq(Nat) /\ q \in Seq(Nat) /\ j \in Nat
  BY <1>2, NameParts
<1> HIDE DEF p, q
<1>4. Begins(p, Append(q, j)) <=> p = q \/ Begins(p, q)
  BY ONLY <1>3, BeginsAppend
<1>5. x.var = z.var /\ p = q => x = z
  BY <1>2, SamePathSameName DEF p, q
<1>6. QED
  BY <1>1, <1>4, <1>5 DEF Extends, p, q

\* The nodes below a node are those whose names extend its name.
LEMMA BelowExtends ==
    ASSUME Memory(mem), NEW loose, Owned(mem, loose), NEW x \in Named, NEW y \in Named
    PROVE  Below(y, x) <=> Extends(y, x)
<1> DEFINE Bad(n, a) == a \in Named /\ Len(a.path) = n /\ ~(Below(a, x) <=> Extends(a, x))
           T == {n \in Nat : \E a : Bad(n, a)}
<1>1. T = {}
  <2>1. SUFFICES ASSUME T # {} PROVE FALSE
    OBVIOUS
  <2>2. PICK n \in T : \A i \in T : n <= i
    <3>1. T \in SUBSET Nat
      OBVIOUS
    <3> HIDE DEF T
    <3>2. QED
      BY <2>1, <3>1, LeastNatural
  <2>3. PICK a : Bad(n, a)
    BY <2>2
  <2>4. a # Root(a.var)
    <3>1. SUFFICES ASSUME a = Root(a.var)
                   PROVE  FALSE
      OBVIOUS
    <3>2. a.cell[1] = a.var /\ a.path = <<>> /\ Len(a.path) = 0
      BY <3>1 DEF Root
    <3>3. a.var \in Var
      BY <2>3, NameParts
    <3>4. ~Below(a, x)
      <4>1. At(mem, x.cell) \in Cell
        BY NotBelowItself
      <4>2. Under(mem, At(mem, x.cell)) \subseteq Block
        BY <4>1, UnderFacts
      <4>3. QED
        BY <3>2, <3>3, <4>2, StorageAssumption DEF Below
    <3>5. x.path \in Seq(Nat) /\ Len(x.path) \in Nat
      BY NameParts
    <3>6. ~Extends(a, x)
      BY <3>2, <3>5 DEF Extends, Begins
    <3>7. QED
      BY <2>3, <3>4, <3>6
  <2>5. PICK z : Child(a, z)
    BY <2>3, <2>4, NameParts
  <2>6. z \in Named /\ Len(a.path) = Len(z.path) + 1
    BY <2>5, ChildPlace DEF Child
  <2>7. n \in Nat /\ Len(z.path) \in Nat /\ Len(z.path) = n - 1
    <3>1. Len(z.path) \in Nat
      BY <2>6, NameParts
    <3>2. QED
      BY <2>2, <2>3, <2>6, <3>1
  <2>8. Len(z.path) \notin T
    <3> HIDE DEF T
    <3>1. QED
      BY <2>2, <2>7
  <2>9. Below(z, x) <=> Extends(z, x)
    BY <2>6, <2>7, <2>8
  <2>10. QED
    BY <2>3, <2>5, <2>9, ChildBelow, ChildExtends
<1>2. Len(y.path) \in Nat
  BY NameParts
<1>3. QED
  BY <1>1, <1>2

\* What counting no children any more takes from below another node is only
\* what was below the node itself.
LEMMA EmptiedBelow ==
    ASSUME NEW m, NEW loose, Memory(m), Owned(m, loose),
           NEW b \in DOMAIN m, NEW j \in DOMAIN m[b], NEW c \in Cell
    PROVE  Under(m, c) \subseteq Under(Emptied(m, <<b, j>>), c) \cup Under(m, m[b][j])
<1> DEFINE e == Emptied(m, <<b, j>>)
           k == m[b][j]
           U == Under(e, c)
           D == Under(m, k)
           S == U \cup D
<1>1. k \in Cell
  BY MemoryCells
<1>2. /\ Memory(e)
      /\ DOMAIN e = DOMAIN m
      /\ \A x \in DOMAIN m : DOMAIN e[x] = DOMAIN m[x]
      /\ \A x \in DOMAIN m \ {b} : e[x] = m[x]
      /\ \A i \in DOMAIN m[b] \ {j} : e[b][i] = m[b][i]
  <2>1. Memory(e)
    BY EmptiedOwned
  <2>2. /\ DOMAIN e = DOMAIN m
        /\ \A x \in DOMAIN m : DOMAIN e[x] = DOMAIN m[x]
        /\ \A x \in DOMAIN m \ {b} : e[x] = m[x]
        /\ \A i \in DOMAIN m[b] \ {j} : e[b][i] = m[b][i]
    BY EmptiedFacts
  <2>3. QED
    BY <2>1, <2>2
<1> HIDE DEF e
<1>3. D \subseteq Block /\ OwnsWithin(m, D) /\ (k.n > 0 => k.data \in D)
  <2> HIDE DEF k
  <2>1. QED
    BY <1>1, UnderFacts
<1>4. U \subseteq Block /\ OwnsWithin(e, U) /\ (c.n > 0 => c.data \in U)
  BY <1>2, UnderFacts
<1> HIDE DEF U, D
<1>5. ASSUME NEW x \in S \cap DOMAIN m, NEW d \in Arrays(m, x)
      PROVE  d \in S
  <2>1. CASE x \in D
    BY <1>3, <1>5, <2>1 DEF OwnsWithin
  <2>2. CASE x \in U
    <3>1. PICK i \in DOMAIN m[x] : m[x][i].n > 0 /\ m[x][i].data = d
      BY <1>5, ArraysFacts
    <3>2. CASE x = b /\ i = j
      BY <1>3, <3>1, <3>2
    <3>3. CASE ~(x = b /\ i = j)
      <4>1. e[x][i] = m[x][i] /\ i \in DOMAIN e[x]
        BY <1>2, <3>3
      <4>2. d \in Arrays(e, x)
        BY <3>1, <4>1 DEF Arrays
      <4>3. QED
        BY <1>2, <1>4, <2>2, <4>2 DEF OwnsWithin
    <3>4. QED
      BY <3>2, <3>3
  <2>3. QED
    BY <2>1, <2>2
<1>6. S \in SUBSET Block /\ (c.n > 0 => c.data \in S) /\ OwnsWithin(m, S)
  BY <1>3, <1>4, <1>5 DEF OwnsWithin
<1> HIDE DEF S
<1>7. Under(m, c) \subseteq S
  BY <1>6, UnderLeast
<1>8. QED
  BY <1>7 DEF S, U, D, k, e

\* Assigning reads freed storage when the node that is read lies below the one
\* that is assigned.
LEMMA ReadsFreedBelow ==
    ASSUME Memory(mem), NEW loose, Owned(mem, loose), NEW x \in Named, NEW y \in Named
    PROVE  AssignReadsFreed(x.cell, y.cell) <=> Below(y, x)
<1>1. PICK a \in DOMAIN mem : \E i \in DOMAIN mem[a] :
         /\ x.cell = <<a, i>> /\ At(mem, x.cell) = mem[a][i]
         /\ mem[a][i] \in Cell /\ a \notin Under(mem, mem[a][i])
  BY NotBelowItself
<1>2. PICK i \in DOMAIN mem[a] :
         /\ x.cell = <<a, i>> /\ At(mem, x.cell) = mem[a][i]
         /\ mem[a][i] \in Cell /\ a \notin Under(mem, mem[a][i])
  BY <1>1
<1>3. PICK b \in DOMAIN mem : \E j \in DOMAIN mem[b] :
         /\ y.cell = <<b, j>> /\ At(mem, y.cell) = mem[b][j]
         /\ mem[b][j] \in Cell /\ b \notin Under(mem, mem[b][j])
  BY NotBelowItself
<1>4. PICK j \in DOMAIN mem[b] :
         /\ y.cell = <<b, j>> /\ At(mem, y.cell) = mem[b][j]
         /\ mem[b][j] \in Cell /\ b \notin Under(mem, mem[b][j])
  BY <1>3
<1> DEFINE e == Emptied(mem, <<b, j>>)
           c == mem[a][i]
<1>5. /\ DOMAIN e = DOMAIN mem
      /\ \A z \in DOMAIN mem \ {b} : e[z] = mem[z]
      /\ e[b][j] = Leaf(mem[b][j].label)
      /\ \A k \in DOMAIN mem[b] \ {j} : e[b][k] = mem[b][k]
      /\ \A z \in DOMAIN mem : Arrays(e, z) \subseteq Arrays(mem, z)
  BY EmptiedFacts
<1>6. AssignReadsFreed(x.cell, y.cell) <=> b \in Under(e, e[a][i])
  <2>1. At(e, x.cell) = e[a][i] /\ y.cell[1] = b
    BY <1>2, <1>4 DEF At
  <2>2. DOMAIN Died(e, e[a][i]) = DOMAIN e \ Under(e, e[a][i])
    BY DEF Died, Without
  <2>3. Emptied(mem, y.cell) = e
    BY <1>4
  <2> HIDE DEF e
  <2>4. AssignReadsFreed(x.cell, y.cell) <=> b \notin DOMAIN Died(e, e[a][i])
    BY <2>1, <2>3 DEF AssignReadsFreed
  <2>5. QED
    BY <1>5, <2>2, <2>4
<1>7. Below(y, x) <=> b \in Under(mem, c)
  BY <1>2, <1>4 DEF Below
<1> HIDE DEF e
<1>8. CASE a = b /\ i = j
  <2>1. Under(e, e[a][i]) = {}
    <3>1. e[a][i].n = 0
      BY <1>5, <1>8 DEF Leaf
    <3>2. QED
      BY <3>1 DEF Under
  <2>2. QED
    BY <1>2, <1>6, <1>7, <1>8, <2>1
<1>9. CASE ~(a = b /\ i = j)
  <2>1. e[a][i] = c
    BY <1>5, <1>9
  <2>2. c \in Cell
    BY <1>2
  <2>3. Under(mem, c) \subseteq Under(e, c) \cup Under(mem, mem[b][j])
    <3> HIDE DEF c
    <3>1. QED
      BY <2>2, EmptiedBelow DEF e
  <2> HIDE DEF c
  <2>4. Under(e, c) \subseteq Under(mem, c)
    BY <1>5, <2>2, UnderShrinks
  <2>5. QED
    BY <1>4, <1>6, <1>7, <2>1, <2>3, <2>4
<1>10. QED
  BY <1>8, <1>9

\* Assigning reads freed storage exactly when a node is assigned one of the
\* nodes below it, whatever the trees are (AssignFaultsBelow).
THEOREM AssignFaultsExactlyBelow == Spec => []AssignFaultsBelow
<1>1. IInv => AssignFaultsBelow
  <2>1. ASSUME IInv, NEW x \in Valued, NEW y \in Valued
        PROVE  AssignReadsFreed(x.cell, y.cell) <=>
                  /\ x.var = y.var
                  /\ Len(x.path) < Len(y.path)
                  /\ SubSeq(y.path, 1, Len(x.path)) = x.path
    <3>1. Memory(mem) /\ Owned(mem, Begun(calls))
      BY <2>1 DEF IInv, TypeOK, Building
    <3>2. x \in Named /\ y \in Named
      BY DEF Valued
    <3>3. AssignReadsFreed(x.cell, y.cell) <=> Extends(y, x)
      BY <3>1, <3>2, ReadsFreedBelow, BelowExtends
    <3>4. QED
      BY <3>3 DEF Extends, Begins
  <2>2. QED
    BY <2>1 DEF AssignFaultsBelow
<1>2. QED
  BY <1>1, Invariance, PTL
=============================================================================
