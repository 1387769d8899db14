-------------------------- MODULE PoolBlocksProofs --------------------------
(***************************************************************************)
(* Proofs about PoolBlocks, for blocks of any size and pools of any length *)
(* up to a bound: the size of the pointer array, the storage behind every  *)
(* entry, and the two cases in which cutting a pool back goes wrong.       *)
(***************************************************************************)
EXTENDS PoolBlocks, ArithmeticLemmas

-----------------------------------------------------------------------------
(* Powers of two. *)

\* No number but 1 that divides a power of two is odd.
LEMMA PowerDivisor ==
    ASSUME NEW x \in Nat, IsPowerOf2(x), NEW d \in Nat, NEW q \in Nat, x = d * q, d >= 2
    PROVE  \E e \in Nat : d = 2 * e
<1>1. d <= x
  <2>1. q >= 1
    BY DEF IsPowerOf2
  <2>2. QED
    BY <2>1, TimesMono
<1>2. x % d = 0
  BY DivModUnique, x = d * q + 0, 0 \in 0..(d - 1)
<1>3. d % 2 = 0
  BY <1>1, <1>2 DEF IsPowerOf2
<1>4. QED
  BY <1>3

\* A number that no odd number but 1 divides is a power of two.
LEMMA NoOddDivisor ==
    ASSUME NEW x \in Nat \ {0},
           \A d \in Nat, q \in Nat : x = d * q /\ d >= 2 => \E e \in Nat : d = 2 * e
    PROVE  IsPowerOf2(x)
<1>1. SUFFICES ASSUME NEW d \in 2..x, x % d = 0 PROVE d % 2 = 0
  BY DEF IsPowerOf2
<1> DEFINE q == x \div d
<1>2. x = d * q /\ q \in Nat /\ d \in Nat /\ d >= 2
  BY <1>1, DivMod
<1> HIDE DEF q
<1>3. PICK e \in Nat : d = 2 * e
  BY <1>2
<1>4. QED
  BY <1>3

\* One is a power of two.
LEMMA OneIsPower == IsPowerOf2(1)
  BY DEF IsPowerOf2

\* Every other power of two is even.
LEMMA EvenPower ==
    ASSUME NEW x \in Nat, IsPowerOf2(x), x >= 2
    PROVE  \E h \in Nat : x = 2 * h
  BY PowerDivisor, x = x * 1

\* Twice a power of two is a power of two.
LEMMA Doubling ==
    ASSUME NEW y \in Nat, IsPowerOf2(y)
    PROVE  IsPowerOf2(2 * y)
<1>1. y \in Nat \ {0}
  BY DEF IsPowerOf2
<1>2. SUFFICES ASSUME NEW d \in Nat, NEW q \in Nat, 2 * y = d * q, d >= 2
               PROVE  \E e \in Nat : d = 2 * e
  <2>1. 2 * y \in Nat \ {0}
    BY <1>1
  <2>2. QED
    BY <2>1, NoOddDivisor
<1>3. PICK e \in Nat : d = 2 * e \/ d = 2 * e + 1
  <2>1. d = 2 * (d \div 2) + (d % 2) /\ d \div 2 \in Nat /\ d % 2 \in 0..1
    BY DivMod
  <2>2. QED
    BY <2>1
<1>4. ASSUME d = 2 * e + 1 PROVE FALSE
  <2> DEFINE r == y - e * q
  <2>1. q = 2 * r
    <3>1. d * q = 2 * (e * q) + q
      BY <1>4
    <3>2. QED
      BY <1>2, <3>1
  <2>2. r \in Nat
    BY <2>1
  <2>3. y = d * r
    <3>1. 2 * (d * r) = d * q
      BY <2>1, <2>2
    <3> HIDE DEF r
    <3>2. d * r \in Nat
      BY <2>2
    <3>3. QED
      BY <1>2, <3>1, <3>2
  <2> HIDE DEF r
  <2>4. \E f \in Nat : d = 2 * f
    BY <1>2, <2>2, <2>3, PowerDivisor
  <2>5. QED
    BY <1>4, <2>4
<1>5. QED
  BY <1>3, <1>4

\* Half a power of two is a power of two, if it is a whole number.
LEMMA Halving ==
    ASSUME NEW x \in Nat, NEW y \in Nat, IsPowerOf2(x), x = 2 * y
    PROVE  IsPowerOf2(y)
<1>1. y \in Nat \ {0}
  BY DEF IsPowerOf2
<1>2. SUFFICES ASSUME NEW d \in Nat, NEW q \in Nat, y = d * q, d >= 2
               PROVE  \E e \in Nat : d = 2 * e
  BY <1>1, NoOddDivisor
<1>3. PICK p \in Nat : p = 2 * q
  OBVIOUS
<1>4. x = d * p
  BY <1>2, <1>3
<1>5. QED
  BY ONLY IsPowerOf2(x), x \in Nat, d \in Nat, p \in Nat, d >= 2, <1>4, PowerDivisor

\* Of two powers of two the greater is at least twice the smaller.
LEMMA PowersApart ==
    ASSUME NEW y \in Nat, NEW z \in Nat, IsPowerOf2(y), IsPowerOf2(z), y < z
    PROVE  2 * y <= z
<1> DEFINE Close(a) == IsPowerOf2(a) /\ \E b \in Nat : IsPowerOf2(b) /\ a < b /\ b < 2 * a
           T == {a \in Nat : Close(a)}
<1>1. SUFFICES ASSUME T # {} PROVE FALSE
  OBVIOUS
<1>2. PICK m \in T : \A n \in T : m <= n
  <2> HIDE DEF Close
  <2> QED BY <1>1, LeastNatural
<1>3. PICK b \in Nat : IsPowerOf2(b) /\ m < b /\ b < 2 * m
  OBVIOUS
<1>4. m \in Nat /\ IsPowerOf2(m) /\ m >= 2
  BY <1>3
<1>5. PICK h \in Nat : m = 2 * h
  BY <1>4, EvenPower
<1>6. PICK k \in Nat : b = 2 * k
  BY <1>3, <1>4, EvenPower
<1>7. IsPowerOf2(h) /\ IsPowerOf2(k)
  BY <1>3, <1>4, <1>5, <1>6, Halving
<1>8. h < k /\ k < 2 * h /\ h < m
  BY <1>3, <1>4, <1>5, <1>6
<1>9. h \in T
  BY <1>7, <1>8
<1>10. QED
  BY <1>2, <1>8, <1>9

\* There is a power of two between a number and twice the number, by induction
\* on the number: the one for its predecessor, or twice that one.
LEMMA CeilingExists ==
    ASSUME NEW x \in Nat \ {0}
    PROVE  \E y \in Nat : IsPowerOf2(y) /\ x <= y /\ y < 2 * x
<1> DEFINE Bad(a) == a > 0 /\ ~ \E y \in Nat : IsPowerOf2(y) /\ a <= y /\ y < 2 * a
           T == {a \in Nat : Bad(a)}
<1>1. SUFFICES ASSUME T # {} PROVE FALSE
  OBVIOUS
<1>2. PICK m \in T : \A n \in T : m <= n
  <2> HIDE DEF Bad
  <2> QED BY <1>1, LeastNatural
<1>3. m # 1
  BY OneIsPower
<1>4. m - 1 \in Nat \ {0} /\ m - 1 \notin T
  BY <1>2, <1>3
<1>5. PICK y \in Nat : IsPowerOf2(y) /\ m - 1 <= y /\ y < 2 * (m - 1)
  BY <1>4
<1>6. y < m
  BY <1>5
<1>7. IsPowerOf2(2 * y) /\ m <= 2 * y /\ 2 * y < 2 * m
  BY <1>3, <1>5, <1>6, Doubling
<1>8. QED
  BY <1>7

\* So what std::bit_ceil is said to return exists,
LEMMA BitCeilValue ==
    ASSUME NEW x \in Nat \ {0}
    PROVE  /\ BitCeil(x) \in Nat
           /\ IsPowerOf2(BitCeil(x))
           /\ x <= BitCeil(x)
           /\ BitCeil(x) < 2 * x
<1>1. \E y \in 1..(2 * x) : IsPowerOf2(y) /\ x <= y /\ y < 2 * x
  BY CeilingExists
<1> HIDE DEF IsPowerOf2
<1>2. BitCeil(x) \in 1..(2 * x) /\ IsPowerOf2(BitCeil(x)) /\ x <= BitCeil(x) /\ BitCeil(x) < 2 * x
  BY <1>1 DEF BitCeil
<1>3. QED
  BY <1>2

\* is the only such number,
LEMMA BitCeilUnique ==
    ASSUME NEW x \in Nat \ {0}, NEW y \in Nat, IsPowerOf2(y), x <= y, y < 2 * x
    PROVE  BitCeil(x) = y
<1> DEFINE z == BitCeil(x)
<1>1. z \in Nat /\ IsPowerOf2(z) /\ x <= z /\ z < 2 * x
  BY BitCeilValue
<1> HIDE DEF z
<1>2. ~(y < z) /\ ~(z < y)
  BY <1>1, PowersApart
<1>3. QED
  BY <1>1, <1>2 DEF z

\* and grows with its argument.
LEMMA BitCeilMono ==
    ASSUME NEW a \in Nat \ {0}, NEW b \in Nat, a <= b
    PROVE  BitCeil(a) <= BitCeil(b)
<1> DEFINE y == BitCeil(a)
           z == BitCeil(b)
<1>1. y \in Nat /\ IsPowerOf2(y) /\ a <= y /\ y < 2 * a
  BY BitCeilValue
<1>2. z \in Nat /\ IsPowerOf2(z) /\ b <= z /\ z < 2 * b
  BY BitCeilValue
<1> HIDE DEF y, z
<1>3. ~(z < y)
  BY <1>1, <1>2, PowersApart
<1>4. QED
  BY <1>1, <1>2, <1>3 DEF y, z

-----------------------------------------------------------------------------
(* Blocks and positions. *)

\* The number of blocks that a positions take.
LEMMA CeilDivBounds ==
    ASSUME NEW a \in Nat
    PROVE  /\ CeilDiv(a, N) \in Nat
           /\ a <= CeilDiv(a, N) * N
           /\ CeilDiv(a, N) * N < a + N
<1> DEFINE q == (a + N - 1) \div N
           r == (a + N - 1) % N
<1>1. N \in Nat \ {0} /\ a + N - 1 \in Nat
  BY NAssumption
<1>2. q \in Nat /\ r \in 0..(N - 1) /\ a + N - 1 = N * q + r
  <2> DEFINE x == a + N - 1
  <2>1. x \in Nat
    BY <1>1
  <2> HIDE DEF x
  <2>2. x \div N \in Nat /\ x % N \in 0..(N - 1) /\ x = N * (x \div N) + (x % N)
    BY <1>1, <2>1, DivMod
  <2>3. QED
    BY <2>2 DEF x
<1> HIDE DEF q, r
<1>3. a <= q * N /\ q * N < a + N
  BY <1>1, <1>2
<1>4. QED
  BY <1>2, <1>3 DEF q, CeilDiv

\* Comparing numbers of blocks through the positions in them.
LEMMA BlocksCompare ==
    ASSUME NEW b \in Int, NEW c \in Int
    PROVE  /\ b * N < c * N => b < c
           /\ b * N < c * N + N => b <= c
           /\ b <= c => b * N <= c * N
           /\ b < c => b * N + N <= c * N
<1>1. N \in Nat \ {0}
  BY NAssumption
<1>2. b <= c => b * N <= c * N
  BY <1>1
<1>3. c <= b => c * N <= b * N
  BY <1>1
<1>4. b < c => b * N + N <= c * N
  <2>1. b + 1 <= c => (b + 1) * N <= c * N
    BY <1>1
  <2>2. (b + 1) * N = b * N + N
    BY <1>1
  <2>3. QED
    BY <2>1, <2>2
<1>5. c < b => c * N + N <= b * N
  <2>1. c + 1 <= b => (c + 1) * N <= b * N
    BY <1>1
  <2>2. (c + 1) * N = c * N + N
    BY <1>1
  <2>3. QED
    BY <2>1, <2>2
<1>6. b * N \in Int /\ c * N \in Int
  BY <1>1
<1>7. QED
  BY <1>1, <1>2, <1>3, <1>4, <1>5, <1>6

\* It is the only number of blocks that they fit in with none to spare.
LEMMA CeilDivUnique ==
    ASSUME NEW a \in Nat, NEW c \in Nat, a <= c * N, c * N < a + N
    PROVE  CeilDiv(a, N) = c
<1> DEFINE q == CeilDiv(a, N)
<1>1. q \in Nat /\ a <= q * N /\ q * N < a + N
  BY CeilDivBounds
<1> HIDE DEF q
<1>2. q * N \in Nat /\ c * N \in Nat /\ N \in Nat
  BY <1>1, NAssumption
<1>3. q * N < c * N + N /\ c * N < q * N + N
  BY <1>1, <1>2
<1>4. q <= c /\ c <= q
  BY <1>1, <1>3, BlocksCompare
<1>5. QED
  BY <1>1, <1>4 DEF q

\* More positions do not take fewer blocks.
LEMMA CeilDivMono ==
    ASSUME NEW a \in Nat, NEW b \in Nat, a <= b
    PROVE  CeilDiv(a, N) <= CeilDiv(b, N)
<1> DEFINE q == CeilDiv(a, N)
           p == CeilDiv(b, N)
<1>1. q \in Nat /\ a <= q * N /\ q * N < a + N
  BY CeilDivBounds
<1>2. p \in Nat /\ b <= p * N /\ p * N < b + N
  BY CeilDivBounds
<1> HIDE DEF q, p
<1>3. q * N \in Nat /\ p * N \in Nat /\ N \in Nat
  BY <1>1, <1>2, NAssumption
<1>4. q * N < p * N + N
  BY <1>1, <1>2, <1>3
<1>5. QED
  BY <1>1, <1>2, <1>4, BlocksCompare DEF q, p

\* The block of a position.
LEMMA BlockOf ==
    ASSUME NEW p \in Nat
    PROVE  /\ p \div N \in Nat
           /\ (p \div N) * N <= p
           /\ p < (p \div N) * N + N
           /\ p % N = p - (p \div N) * N
<1> DEFINE q == p \div N
           r == p % N
<1>1. q \in Nat /\ r \in 0..(N - 1) /\ p = N * q + r /\ N \in Nat
  BY DivMod, NAssumption
<1> HIDE DEF q, r
<1>2. QED
  BY <1>1 DEF q, r

\* There is only one block that has a position between its first and its last.
LEMMA BlockOfUnique ==
    ASSUME NEW p \in Nat, NEW b \in Int, b * N <= p, p < b * N + N
    PROVE  p \div N = b
<1> DEFINE r == p - b * N
<1>1. r \in 0..(N - 1) /\ p = N * b + r /\ N \in Nat \ {0}
  BY NAssumption
<1> HIDE DEF r
<1>2. QED
  BY <1>1, DivModUnique

\* A last block that is partly used counts as one.
LEMMA CeilDivSplit ==
    ASSUME NEW a \in Nat
    PROVE  CeilDiv(a, N) = IF a % N = 0 THEN a \div N ELSE a \div N + 1
<1> DEFINE q == a \div N
<1>1. q \in Nat /\ q * N <= a /\ a < q * N + N /\ a % N = a - q * N
  BY BlockOf
<1> HIDE DEF q
<1>2. N \in Nat \ {0} /\ (q + 1) * N = q * N + N /\ q * N \in Nat
  BY <1>1, NAssumption
<1>3. CASE a % N = 0
  <2>1. a <= q * N /\ q * N < a + N
    BY <1>1, <1>2, <1>3
  <2>2. QED
    BY <1>1, <1>3, <2>1, CeilDivUnique DEF q
<1>4. CASE a % N # 0
  <2>1. q + 1 \in Nat /\ a <= (q + 1) * N /\ (q + 1) * N < a + N
    BY <1>1, <1>2, <1>4
  <2>2. CeilDiv(a, N) = q + 1
    BY ONLY a \in Nat, <2>1, CeilDivUnique
  <2>3. QED
    BY <1>4, <2>2 DEF q
<1>5. QED
  BY <1>3, <1>4

-----------------------------------------------------------------------------
(* What erase_after(i) destroys. *)

\* The size of the pointer array: room for every block.
LEMMA CapacityValue ==
    ASSUME NEW a \in Nat
    PROVE  /\ block_capacity(a) \in Nat
           /\ CeilDiv(a, N) <= block_capacity(a)
           /\ CeilDiv(a, N) \in Nat
<1>1. CeilDiv(a, N) \in Nat /\ a <= CeilDiv(a, N) * N /\ CeilDiv(a, N) * N < a + N /\ N \in Nat
  BY CeilDivBounds, NAssumption
<1>2. CASE a = 0
  <2>1. CeilDiv(a, N) = 0
    BY <1>2, CeilDivUnique, NAssumption
  <2>2. QED
    BY <1>2, <2>1 DEF block_capacity
<1>3. CASE a # 0
  <2>1. CeilDiv(a, N) \in Nat \ {0}
    BY <1>1, <1>3
  <2>2. QED
    BY <1>3, <2>1, BitCeilValue DEF block_capacity
<1>4. QED
  BY <1>2, <1>3

\* A longer pool has no smaller pointer array.
LEMMA CapacityMono ==
    ASSUME NEW a \in Nat, NEW b \in Nat, a <= b
    PROVE  block_capacity(a) <= block_capacity(b)
<1>1. CASE a = 0
  BY <1>1, CapacityValue DEF block_capacity
<1>2. CASE a # 0
  <2>1. CeilDiv(a, N) \in Nat \ {0}
    <3>1. CeilDiv(a, N) \in Nat /\ a <= CeilDiv(a, N) * N
      BY CeilDivBounds
    <3>2. QED
      BY <1>2, <3>1, NAssumption
  <2>2. CeilDiv(b, N) \in Nat /\ CeilDiv(a, N) <= CeilDiv(b, N)
    BY CeilDivMono, CeilDivBounds
  <2>3. BitCeil(CeilDiv(a, N)) <= BitCeil(CeilDiv(b, N))
    BY <2>1, <2>2, BitCeilMono
  <2>4. QED
    BY <1>2, <2>3 DEF block_capacity
<1>3. QED
  BY <1>1, <1>2

\* When blocks and entities come in whole numbers, and when they do not.
LEMMA LastBlock ==
    ASSUME length \in Nat, NEW i \in 1..length
    PROVE  /\ full_block_count(length) \in Nat
           /\ LastPopulation \in 0..(N - 1)
           /\ length = full_block_count(length) * N + LastPopulation
           /\ CeilDiv(length, N) = IF LastPopulation = 0 THEN full_block_count(length)
                                   ELSE full_block_count(length) + 1
           /\ FirstWhole(i) \in Nat
           /\ FirstWhole(i) <= CeilDiv(length, N)
           /\ i <= FirstWhole(i) * N
           /\ FirstWhole(i) * N < i + N
           /\ i \div N \in Nat
           /\ i \div N <= full_block_count(length)
           /\ FirstWhole(i) = IF i % N = 0 THEN i \div N ELSE i \div N + 1
<1>1. N \in Nat \ {0} /\ i \in Nat
  BY NAssumption
<1>2. /\ length \div N \in Nat
      /\ length % N \in 0..(N - 1)
      /\ length = N * (length \div N) + (length % N)
  BY <1>1, DivMod
<1>3. CeilDiv(length, N) = IF length % N = 0 THEN length \div N ELSE length \div N + 1
  BY CeilDivSplit
<1>4. CeilDiv(i, N) = IF i % N = 0 THEN i \div N ELSE i \div N + 1
  BY <1>1, CeilDivSplit
<1>5. CeilDiv(i, N) \in Nat /\ i <= CeilDiv(i, N) * N /\ CeilDiv(i, N) * N < i + N
  BY <1>1, CeilDivBounds
<1>6. CeilDiv(i, N) <= CeilDiv(length, N)
  BY <1>1, CeilDivMono
<1>7. i \div N \in Nat /\ i \div N <= length \div N
  <2> DEFINE q == i \div N
             p == length \div N
  <2>1. q \in Nat /\ q * N <= i /\ p \in Nat /\ length < p * N + N
    BY <1>1, BlockOf
  <2> HIDE DEF q, p
  <2>2. q * N < p * N + N
    BY <1>1, <2>1
  <2>3. QED
    BY <2>1, <2>2, BlocksCompare DEF q, p
<1>8. QED
  BY <1>1, <1>2, <1>3, <1>4, <1>5, <1>6, <1>7
     DEF full_block_count, LastPopulation, FirstWhole

\* The cells of a block.
LEMMA InCells ==
    ASSUME NEW p \in Nat, NEW b \in Int
    PROVE  p \in Cells(b) <=> p \div N = b
<1>1. N \in Nat \ {0} /\ b * N \in Int
  BY NAssumption
<1>2. p \in Cells(b) <=> b * N <= p /\ p < b * N + N
  BY <1>1 DEF Cells
<1>3. QED
  BY <1>2, BlockOf, BlockOfUnique

\* Nothing in front of the cut is destroyed, and no block that holds it freed.
LEMMA CutIsAbove ==
    ASSUME length \in Nat, NEW i \in 1..length
    PROVE  /\ \A p \in Cut(i) : p \in Nat /\ p >= i
           /\ \A b \in Dropped(i) : b \in Nat /\ b >= FirstWhole(i)
<1> DEFINE L == LastPopulation
           full == full_block_count(length)
           first == FirstWhole(i)
<1>1. /\ full \in Nat /\ L \in 0..(N - 1) /\ first \in Nat /\ i <= first * N
      /\ N \in Nat /\ i \in Nat
  BY LastBlock, NAssumption
<1>2. LoopEnd(i) \in Nat /\ LoopEnd(i) >= first /\ LoopEnd(i) * N >= first * N
  <2>1. LoopEnd(i) \in Nat /\ LoopEnd(i) >= first
    BY <1>1 DEF LoopEnd
  <2>2. QED
    BY <1>1, <2>1, BlocksCompare
<1>3. first * N \in Nat /\ full * N \in Nat /\ LoopEnd(i) * N \in Nat
  BY <1>1, <1>2
<1>4. i % N = 0 => i \div N = first
  BY LastBlock
<1> HIDE DEF L, full, first
<1>5. \A p \in Cut(i) : p \in Nat /\ p >= i
  BY <1>1, <1>2, <1>3 DEF Cut, L, full, first
<1>6. \A b \in Dropped(i) : b \in Nat /\ b >= first
  BY <1>1, <1>2, <1>4 DEF Dropped, L, full, first
<1>7. QED
  BY <1>5, <1>6 DEF first

\* The cut that is meant: everything from i on is destroyed, and every block
\* behind the last one that is kept is freed.
ExactCut(i) ==
    /\ Cut(i) = i..(length - 1)
    /\ Dropped(i) = FirstWhole(i)..(CeilDiv(length, N) - 1)

\* A cut into the last block that there is room for is the one that is meant,
\* unless all blocks are full: then nothing is destroyed.
LEMMA CutInLastSlot ==
    ASSUME length \in Nat, NEW i \in 1..length, InLastSlot(i)
    PROVE  \/ ExactCut(i)
           \/ /\ Cut(i) = {} /\ Dropped(i) = {}
              /\ LastPopulation = 0 /\ IsPowerOf2(full_block_count(length))
<1> DEFINE L == LastPopulation
           full == full_block_count(length)
           first == FirstWhole(i)
           blocks == CeilDiv(length, N)
           slot == i \div N
<1>1. /\ full \in Nat /\ L \in 0..(N - 1) /\ first \in Nat /\ i <= first * N
      /\ N \in Nat \ {0} /\ i \in Nat /\ slot \in Nat /\ slot <= full
      /\ blocks = IF L = 0 THEN full ELSE full + 1
      /\ first = IF i % N = 0 THEN slot ELSE slot + 1
      /\ length = full * N + L
  BY LastBlock, NAssumption
<1>2. /\ slot = block_capacity(length) - 1 /\ blocks <= block_capacity(length)
      /\ block_capacity(length) \in Nat
  BY CapacityValue DEF InLastSlot
<1>3. blocks - 1 <= slot
  BY <1>1, <1>2
<1>4. Cut(i) = IF L # 0 THEN i..(length - 1) ELSE {}
  BY InLastSlot(i) DEF Cut
<1>5. Dropped(i) = IF L # 0 /\ i % N = 0 THEN {slot} ELSE {}
  BY InLastSlot(i) DEF Dropped
<1>6. CASE L # 0
  <2>1. slot = full
    BY <1>1, <1>3, <1>6
  <2> HIDE DEF L, full, first, blocks, slot
  <2>2. {slot} = slot..slot /\ (slot + 1)..slot = {}
    BY <1>1
  <2>3. Dropped(i) = first..(blocks - 1)
    <3>1. CASE i % N = 0
      BY <1>1, <1>5, <1>6, <2>1, <2>2, <3>1
    <3>2. CASE i % N # 0
      BY <1>1, <1>5, <1>6, <2>1, <2>2, <3>2
    <3>3. QED
      BY <3>1, <3>2
  <2>4. QED
    BY <1>4, <1>6, <2>3 DEF ExactCut, first, blocks
<1>7. CASE L = 0 /\ i < length
  <2>1. slot < full
    <3>1. slot * N <= i
      BY <1>1, BlockOf
    <3> HIDE DEF L, full, first, blocks, slot
    <3>2. slot * N < full * N
      BY <1>1, <1>7, <3>1
    <3>3. QED
      BY <1>1, <3>2, BlocksCompare
  <2>2. blocks = full /\ block_capacity(length) = full /\ full # 0 /\ length # 0
    <3> DEFINE room == block_capacity(length)
    <3>1. /\ full \in Nat /\ slot \in Nat /\ room \in Nat /\ blocks = full
          /\ slot = room - 1 /\ blocks <= room
      BY <1>1, <1>2, <1>7
    <3> HIDE DEF L, full, first, blocks, slot, room
    <3>2. blocks = full /\ room = full /\ full # 0
      BY <2>1, <3>1
    <3>3. QED
      BY <1>7, <3>2 DEF room
  <2>3. block_capacity(length) = BitCeil(blocks) /\ blocks \in Nat \ {0}
    BY <1>1, <2>2 DEF block_capacity
  <2>4. IsPowerOf2(full)
    BY <2>2, <2>3, BitCeilValue
  <2>5. QED
    BY <1>4, <1>5, <1>7, <2>4
<1>8. CASE L = 0 /\ i = length
  <2>1. first = blocks
    BY <1>8 DEF FirstWhole
  <2> HIDE DEF L, full, first, blocks, slot
  <2>2. first..(blocks - 1) = {} /\ i..(length - 1) = {}
    BY <1>1, <1>8, <2>1
  <2>3. QED
    BY <1>4, <1>5, <1>8, <2>2 DEF ExactCut, first, blocks
<1>9. QED
  BY <1>1, <1>6, <1>7, <1>8

\* Another cut is the one that is meant, unless it is into a last block that is
\* partly used: then the loop is left with the block after it.
LEMMA CutBelowLastSlot ==
    ASSUME length \in Nat, NEW i \in 1..length, ~InLastSlot(i)
    PROVE  \/ ExactCut(i)
           \/ /\ CeilDiv(length, N) \in Dropped(i)
              /\ LastPopulation # 0 /\ ~IsPowerOf2(CeilDiv(length, N))
<1> DEFINE L == LastPopulation
           full == full_block_count(length)
           first == FirstWhole(i)
           blocks == CeilDiv(length, N)
           slot == i \div N
<1>1. /\ full \in Nat /\ L \in 0..(N - 1) /\ first \in Nat /\ i <= first * N
      /\ N \in Nat \ {0} /\ i \in Nat /\ slot \in Nat /\ slot <= full
      /\ blocks = IF L = 0 THEN full ELSE full + 1
      /\ first = IF i % N = 0 THEN slot ELSE slot + 1
      /\ length = full * N + L
      /\ first <= blocks
  BY LastBlock, NAssumption
<1>2. Cut(i) = (i..(first * N - 1)) \cup ((first * N)..(full * N - 1))
               \cup ((LoopEnd(i) * N)..(LoopEnd(i) * N + L - 1))
  BY ~InLastSlot(i) DEF Cut
<1>3. Dropped(i) = (first..(full - 1)) \cup (IF L # 0 THEN {LoopEnd(i)} ELSE {})
  BY ~InLastSlot(i) DEF Dropped
<1>4. CASE first <= full
  <2>1. LoopEnd(i) = full
    BY <1>1, <1>4 DEF LoopEnd
  <2>2. first * N <= full * N
    BY <1>1, <1>4, BlocksCompare
  <2> HIDE DEF L, full, first, blocks, slot
  <2>3. first * N \in Nat /\ full * N \in Nat
    BY <1>1
  <2>4. Cut(i) = i..(length - 1)
    BY <1>1, <1>2, <2>1, <2>2, <2>3
  <2>5. Dropped(i) = first..(blocks - 1)
    BY <1>1, <1>3, <1>4, <2>1
  <2>6. QED
    BY <2>4, <2>5 DEF ExactCut, first, blocks
<1>5. CASE first > full
  <2>1. LoopEnd(i) = first
    BY <1>1, <1>5 DEF LoopEnd
  <2>2. L # 0 /\ blocks = full + 1 /\ first = blocks /\ slot = full
    <3> HIDE DEF L, full, first, blocks, slot
    <3>1. QED
      BY <1>1, <1>5
  <2>3. blocks \in Dropped(i)
    BY <1>3, <2>1, <2>2
  <2>4. ~IsPowerOf2(blocks)
    <3>1. SUFFICES ASSUME IsPowerOf2(blocks) PROVE FALSE
      OBVIOUS
    <3>2. block_capacity(length) = BitCeil(blocks) /\ blocks \in Nat \ {0}
      BY <1>1, <2>2 DEF block_capacity
    <3>3. BitCeil(blocks) = blocks
      BY <3>1, <3>2, BitCeilUnique
    <3>4. QED
      BY <1>1, <2>2, <3>2, <3>3, ~InLastSlot(i) DEF InLastSlot
  <2>5. QED
    BY <2>2, <2>3, <2>4
<1>6. QED
  BY <1>1, <1>4, <1>5

\* A block whose first entity is destroyed is freed.
LEMMA CutFreesBegun ==
    ASSUME length \in Nat, NEW i \in 1..length, NEW b \in Nat, b * N \in Cut(i)
    PROVE  b \in Dropped(i)
<1> DEFINE L == LastPopulation
           full == full_block_count(length)
           first == FirstWhole(i)
<1>1. /\ full \in Nat /\ L \in 0..(N - 1) /\ first \in Nat /\ i <= first * N
      /\ first * N < i + N
      /\ N \in Nat \ {0} /\ i \in Nat
      /\ length = full * N + L
      /\ CeilDiv(length, N) = IF L = 0 THEN full ELSE full + 1
  BY LastBlock, NAssumption
<1>2. b * N \in Nat /\ first * N \in Nat /\ full * N \in Nat
  BY <1>1
<1>3. ASSUME ExactCut(i) PROVE b \in Dropped(i)
  <2>1. i <= b * N /\ b * N < length
    BY <1>3, <1>1, <1>2 DEF ExactCut
  <2> HIDE DEF L, full, first
  <2>2. first * N < b * N + N /\ b * N < full * N + N /\ (L = 0 => b * N < full * N)
    BY <1>1, <1>2, <2>1
  <2>3. first <= b /\ b <= full /\ (L = 0 => b < full)
    BY <1>1, <2>2, BlocksCompare
  <2>4. b \in first..(CeilDiv(length, N) - 1)
    BY <1>1, <2>3
  <2>5. QED
    BY <1>3, <2>4 DEF ExactCut, first
<1>4. CASE InLastSlot(i)
  BY <1>3, <1>4, CutInLastSlot
<1>5. CASE ~InLastSlot(i) /\ ~ExactCut(i)
  <2>1. L # 0 /\ CeilDiv(length, N) \in Dropped(i)
    BY <1>5, CutBelowLastSlot
  <2>2. Dropped(i) = (first..(full - 1)) \cup {LoopEnd(i)}
    BY <1>5, <2>1 DEF Dropped
  <2>3. Cut(i) = (i..(first * N - 1)) \cup ((first * N)..(full * N - 1))
                 \cup ((LoopEnd(i) * N)..(LoopEnd(i) * N + L - 1))
    BY <1>5 DEF Cut
  <2>4. LoopEnd(i) = full + 1 /\ LoopEnd(i) = first
    <3>1. LoopEnd(i) = IF first < full THEN full ELSE first
      BY DEF LoopEnd
    <3> HIDE DEF L, full, first
    <3>2. LoopEnd(i) = full + 1
      BY <1>1, <2>1, <2>2, <3>1
    <3>3. QED
      BY <1>1, <3>1, <3>2
  <2> HIDE DEF L, full, first
  <2>5. first * N = full * N + N
    BY <1>1, <2>4
  <2>6. CASE b * N < first * N
    <3>1. b < first /\ i <= b * N
      BY <1>1, <1>2, <2>3, <2>4, <2>5, <2>6, BlocksCompare
    <3>2. first * N < b * N + N
      BY <1>1, <1>2, <3>1
    <3>3. first <= b
      BY <1>1, <3>2, BlocksCompare
    <3>4. QED
      BY <1>1, <3>1, <3>3
  <2>7. CASE first * N <= b * N
    <3>1. b * N < first * N + N
      BY <1>1, <1>2, <2>3, <2>4, <2>5, <2>7
    <3>2. b <= first
      BY <1>1, <3>1, BlocksCompare
    <3>3. first <= b
      <4>1. first * N < b * N + N
        BY <1>1, <1>2, <2>7
      <4>2. QED
        BY <1>1, <4>1, BlocksCompare
    <3>4. QED
      BY <1>1, <2>2, <2>4, <3>2, <3>3
  <2>8. QED
    BY <1>2, <2>6, <2>7
<1>6. QED
  BY <1>3, <1>4, <1>5

-----------------------------------------------------------------------------
(* The invariant is inductive: one lemma per action. *)

\* The variables are numbers and sets of numbers.
LEMMA TypeFacts ==
    ASSUME TypeOK
    PROVE  length \in Nat /\ array \in Nat /\ built \subseteq Nat /\ owned \subseteq Nat
  BY MaxLengthAssumption DEF TypeOK

\* The blocks that the entities need are allocated.
LEMMA NeededBlocksOwned ==
    ASSUME IInv, ~fault
    PROVE  0..(CeilDiv(length, N) - 1) \subseteq owned
<1>1. SUFFICES ASSUME NEW b \in 0..(CeilDiv(length, N) - 1) PROVE b \in owned
  OBVIOUS
<1> DEFINE c == CeilDiv(length, N)
<1>2. length \in Nat /\ c \in Nat /\ c * N < length + N /\ N \in Nat \ {0}
  BY TypeFacts, CeilDivBounds, NAssumption DEF IInv
<1> HIDE DEF c
<1>3. b \in Nat /\ b < c
  BY <1>1, <1>2 DEF c
<1>4. b * N + N <= c * N /\ b * N \in Nat /\ c * N \in Nat
  BY <1>2, <1>3, BlocksCompare
<1>5. b * N \in 0..(length - 1)
  BY <1>2, <1>4
<1>6. (b * N) \div N = b
  <2> DEFINE p == b * N
  <2>1. p \in Nat /\ b * N <= p /\ p < b * N + N
    BY <1>2, <1>4
  <2> HIDE DEF p
  <2>2. p \div N = b
    BY <1>3, <2>1, BlockOfUnique
  <2>3. QED
    BY <2>2 DEF p
<1>7. QED
  BY <1>5, <1>6 DEF IInv, EntriesBacked

\* The empty pool has no storage.
LEMMA InitInvariant == Init => IInv
<1> SUFFICES ASSUME Init PROVE IInv
  OBVIOUS
<1>1. TypeOK
  <2>1. length \in 0..MaxLength /\ array \in Nat /\ owned = {} /\ built = {}
    BY MaxLengthAssumption DEF Init
  <2>2. fault \in BOOLEAN /\ lost \in BOOLEAN
    BY DEF Init
  <2>3. QED
    BY <2>1, <2>2 DEF TypeOK
<1>2. StorageShape /\ EntriesBacked /\ BlocksBegun
  BY DEF Init, StorageShape, EntriesBacked, BlocksBegun, block_capacity
<1>3. QED
  BY <1>1, <1>2 DEF IInv

\* A new entity in the last block: it is the block of the entity before it.
LEMMA EmplaceInBlockInvariant ==
    ASSUME IInv, EmplaceInBlock
    PROVE  IInv' /\ ~fault'
<1> DEFINE q == length \div N
<1>1. /\ length \in Nat /\ length < MaxLength /\ N \in Nat \ {0} /\ ~fault
      /\ length % N # 0 /\ MaxLength \in Nat
  BY TypeFacts, NAssumption, MaxLengthAssumption DEF IInv, EmplaceInBlock
<1>2. q \in Nat /\ q * N <= length /\ length < q * N + N /\ length % N = length - q * N
  BY <1>1, BlockOf
<1>3. length # 0 /\ length - 1 \in 0..(length - 1) /\ q * N <= length - 1 /\ q * N \in Nat
  <2> HIDE DEF q
  <2>1. QED
    BY <1>1, <1>2
<1>4. (length - 1) \div N = q
  <2> HIDE DEF q
  <2> DEFINE p == length - 1
  <2>1. p \in Nat /\ q * N <= p /\ p < q * N + N
    BY <1>1, <1>2, <1>3
  <2> HIDE DEF p
  <2>2. p \div N = q
    BY <1>2, <2>1, BlockOfUnique
  <2>3. QED
    BY <2>2 DEF p
<1>5. q \in owned
  BY <1>1, <1>3, <1>4 DEF IInv, EntriesBacked
<1>6. ~fault'
  BY <1>5 DEF EmplaceInBlock
<1>7. /\ length' = length + 1 /\ built' = built \cup {length}
      /\ array' = array /\ owned' = owned /\ lost' \in BOOLEAN /\ fault' \in BOOLEAN
  BY DEF EmplaceInBlock, Construct, IInv, TypeOK
<1>8. CeilDiv(length + 1, N) = CeilDiv(length, N)
  <2>1. CeilDiv(length, N) = q + 1
    BY <1>1, CeilDivSplit
  <2> HIDE DEF q
  <2>2. (q + 1) * N = q * N + N /\ q + 1 \in Nat /\ length + 1 \in Nat
    BY <1>1, <1>2
  <2>3. length + 1 <= (q + 1) * N /\ (q + 1) * N < length + 1 + N
    BY <1>1, <1>2, <2>2
  <2>4. CeilDiv(length + 1, N) = q + 1
    BY ONLY <2>2, <2>3, CeilDivUnique
  <2>5. QED
    BY <2>1, <2>4
<1>9. TypeOK'
  BY <1>1, <1>5, <1>6, <1>7 DEF IInv, TypeOK
<1>10. StorageShape'
  BY <1>1, <1>3, <1>6, <1>7, <1>8 DEF IInv, StorageShape, block_capacity
<1>11. EntriesBacked'
  <2>1. \A p \in 0..(length - 1) : p \in built' /\ p \div N \in owned'
    BY <1>1, <1>7 DEF IInv, EntriesBacked
  <2>2. length \in built' /\ length \div N \in owned'
    BY <1>5, <1>7
  <2>3. 0..(length' - 1) = (0..(length - 1)) \cup {length}
    BY <1>1, <1>7
  <2>4. \A p \in 0..(length' - 1) : p \in built' /\ p \div N \in owned'
    BY <2>1, <2>2, <2>3
  <2>5. owned' \subseteq 0..(array' - 1)
    BY <1>1, <1>7 DEF IInv, EntriesBacked
  <2>6. QED
    BY <2>4, <2>5 DEF EntriesBacked
<1>12. BlocksBegun'
  BY <1>1, <1>6, <1>7 DEF IInv, BlocksBegun
<1>13. QED
  BY <1>6, <1>9, <1>10, <1>11, <1>12 DEF IInv

\* The pointer array has room for the new block, and is of the right size for it.
LEMMA ArrayGrows ==
    ASSUME IInv, ~fault, length % N = 0
    PROVE  /\ NewArray(length \div N) = block_capacity(length + 1)
           /\ length \div N \in Nat
           /\ length = (length \div N) * N
           /\ length \div N < NewArray(length \div N)
           /\ array <= NewArray(length \div N)
<1> DEFINE q == length \div N
           new == NewArray(q)
<1>1. length \in Nat /\ array \in Nat /\ N \in Nat \ {0}
  BY TypeFacts, NAssumption DEF IInv
<1>2. q \in Nat /\ length % N = length - q * N /\ q * N \in Nat
  <2>1. q \in Nat /\ length % N = length - q * N
    BY <1>1, BlockOf
  <2> HIDE DEF q
  <2>2. QED
    BY <1>1, <2>1
<1>3. length = q * N
  <2> HIDE DEF q
  <2>1. QED
    BY <1>1, <1>2
<1>4. CeilDiv(length, N) = q
  BY <1>1, CeilDivSplit
<1>5. CeilDiv(length + 1, N) = q + 1
  <2> HIDE DEF q
  <2>1. q + 1 \in Nat /\ length + 1 \in Nat /\ (q + 1) * N = q * N + N
    BY <1>1, <1>2
  <2>2. length + 1 <= (q + 1) * N /\ (q + 1) * N < length + 1 + N
    BY <1>1, <1>2, <1>3, <2>1
  <2>3. QED
    BY ONLY <2>1, <2>2, CeilDivUnique
<1>6. block_capacity(length + 1) = BitCeil(q + 1)
  BY <1>1, <1>5 DEF block_capacity
<1>7. array = IF length = 0 THEN 0 ELSE BitCeil(q)
  BY <1>4 DEF IInv, StorageShape, block_capacity
<1>8. new = IF q = 0 THEN 1 ELSE IF IsPowerOf2(q) THEN 2 * q ELSE array
  BY DEF NewArray, GrowAtPower
<1>9. length = 0 <=> q = 0
  <2> HIDE DEF q, new
  <2>1. QED
    BY <1>1, <1>2, <1>3
<1> HIDE DEF q, new
<1>10. CASE q = 0
  <2>1. BitCeil(1) = 1
    BY OneIsPower, BitCeilUnique
  <2>2. QED
    BY <1>3, <1>6, <1>7, <1>8, <1>9, <1>10, <2>1 DEF q, new
<1>11. CASE q # 0 /\ IsPowerOf2(q)
  <2>1. IsPowerOf2(2 * q)
    BY <1>2, <1>11, Doubling
  <2>2. q + 1 \in Nat \ {0} /\ 2 * q \in Nat /\ q + 1 <= 2 * q /\ 2 * q < 2 * (q + 1)
    BY <1>2, <1>11
  <2>3. BitCeil(q + 1) = 2 * q
    BY ONLY <2>1, <2>2, BitCeilUnique
  <2>4. BitCeil(q) = q
    BY <1>2, <1>11, BitCeilUnique
  <2>5. new = 2 * q /\ array = q
    BY <1>7, <1>8, <1>9, <1>11, <2>4
  <2>6. QED
    BY <1>2, <1>3, <1>6, <1>11, <2>3, <2>5 DEF q, new
<1>12. CASE q # 0 /\ ~IsPowerOf2(q)
  <2>1. array = BitCeil(q) /\ new = array
    BY <1>7, <1>8, <1>9, <1>12
  <2>2. array \in Nat /\ IsPowerOf2(array) /\ q <= array /\ array < 2 * q
    BY <1>2, <1>12, <2>1, BitCeilValue
  <2>3. q + 1 <= array /\ array < 2 * (q + 1) /\ q + 1 \in Nat \ {0}
    BY <1>2, <1>12, <2>2
  <2>4. BitCeil(q + 1) = array
    BY ONLY <2>2, <2>3, BitCeilUnique
  <2>5. QED
    BY <1>2, <1>3, <1>6, <2>1, <2>2, <2>3, <2>4 DEF q, new
<1>13. QED
  BY <1>10, <1>11, <1>12

\* A new block: its pointer is in the array.
LEMMA EmplaceNewBlockInvariant ==
    ASSUME IInv, EmplaceNewBlock
    PROVE  IInv' /\ ~fault'
<1> DEFINE q == length \div N
<1>1. /\ length \in Nat /\ length < MaxLength /\ N \in Nat \ {0} /\ ~fault /\ array \in Nat
      /\ length % N = 0 /\ MaxLength \in Nat /\ owned \subseteq Nat
  BY TypeFacts, NAssumption, MaxLengthAssumption DEF IInv, EmplaceNewBlock
<1>2. /\ array' = block_capacity(length + 1) /\ q \in Nat /\ length = q * N
      /\ q < array' /\ array <= array' /\ array' \in Nat
  BY <1>1, ArrayGrows, CapacityValue DEF EmplaceNewBlock
<1>3. /\ length' = length + 1 /\ built' = built \cup {length}
      /\ owned' = owned \cup {q} /\ fault' = (q >= array') /\ lost' \in BOOLEAN
  BY DEF EmplaceNewBlock, Construct, IInv, TypeOK
<1>4. ~fault'
  <2> HIDE DEF q
  <2>1. ~(q >= array')
    BY <1>2
  <2>2. QED
    BY <1>3, <2>1, Zenon
<1>5. q <= length
  <2> HIDE DEF q
  <2>1. QED
    BY <1>1, <1>2
<1>6. TypeOK'
  <2>1. \A p \in built' : p \div N \in owned'
    BY <1>1, <1>3 DEF IInv, TypeOK
  <2> HIDE DEF q
  <2>2. length' \in 0..MaxLength /\ array' \in Nat
    BY <1>1, <1>2, <1>3
  <2>3. owned' \subseteq 0..MaxLength /\ built' \subseteq 0..(MaxLength - 1)
    BY <1>1, <1>2, <1>3, <1>5 DEF IInv, TypeOK
  <2>4. fault' \in BOOLEAN
    BY <1>3
  <2>5. QED
    BY <1>3, <2>1, <2>2, <2>3, <2>4 DEF TypeOK
<1>7. StorageShape'
  BY <1>2, <1>3 DEF StorageShape
<1>8. EntriesBacked'
  <2>1. \A p \in 0..(length - 1) : p \in built' /\ p \div N \in owned'
    BY <1>1, <1>3 DEF IInv, EntriesBacked
  <2>2. length \in built' /\ length \div N \in owned'
    BY <1>3
  <2> HIDE DEF q
  <2>3. 0..(length' - 1) = (0..(length - 1)) \cup {length}
    BY <1>1, <1>3
  <2>4. \A p \in 0..(length' - 1) : p \in built' /\ p \div N \in owned'
    BY <2>1, <2>2, <2>3
  <2>5. owned' \subseteq 0..(array' - 1)
    BY <1>1, <1>2, <1>3 DEF IInv, EntriesBacked
  <2>6. QED
    BY <2>4, <2>5 DEF EntriesBacked
<1>9. BlocksBegun'
  BY <1>1, <1>2, <1>3 DEF IInv, BlocksBegun
<1>10. QED
  BY <1>4, <1>6, <1>7, <1>8, <1>9 DEF IInv

\* What a cut leaves, in every case: the entities in front of it, in blocks that
\* are kept.
LEMMA EraseAfterCutInvariant ==
    ASSUME IInv, NEW i \in 1..length, EraseAfterCut(i)
    PROVE  IInv'
<1> DEFINE gone == Dropped(i)
           left == built \ Cut(i)
           first == FirstWhole(i)
           kept == IF ShrunkArray(i) < array THEN 0..(first - 1) ELSE 0..(array - 1)
<1>1. /\ length \in Nat /\ array \in Nat /\ ~fault /\ i \in Nat /\ i <= length
      /\ N \in Nat \ {0} /\ MaxLength \in Nat
      /\ owned \subseteq Nat /\ built \subseteq Nat
  BY TypeFacts, NAssumption, MaxLengthAssumption DEF IInv, EraseAfterCut
<1>2. /\ owned' = (owned \ gone) \cap kept
      /\ built' = left \cap UNION {Cells(b) : b \in owned'}
      /\ array' = ShrunkArray(i) /\ length' = i
  BY DEF EraseAfterCut, FirstWhole
<1>3. /\ \A p \in Cut(i) : p \in Nat /\ p >= i
      /\ \A b \in gone : b \in Nat /\ b >= first
      /\ first \in Nat
  BY <1>1, CutIsAbove, LastBlock
<1>4. array = block_capacity(length)
  BY <1>1 DEF IInv, StorageShape
<1>5. array' = block_capacity(i) /\ block_capacity(i) <= array /\ array' \in Nat
  BY <1>1, <1>2, <1>4, CapacityMono, CapacityValue DEF ShrunkArray
<1>6. first <= array'
  BY <1>1, <1>5, CapacityValue DEF FirstWhole
<1>7. kept \subseteq 0..(array' - 1) /\ 0..(first - 1) \subseteq kept
  <2>1. ShrunkArray(i) = array'
    BY <1>2
  <2> HIDE DEF first
  <2>2. QED
    BY <1>1, <1>3, <1>5, <1>6, <2>1
<1>8. 0..(first - 1) \subseteq owned'
  <2>1. 0..(first - 1) \subseteq owned
    <3>1. first <= CeilDiv(length, N) /\ CeilDiv(length, N) \in Nat
      BY <1>1, LastBlock, CeilDivBounds
    <3>2. 0..(CeilDiv(length, N) - 1) \subseteq owned
      BY <1>1, NeededBlocksOwned
    <3> HIDE DEF first
    <3>3. QED
      BY <1>3, <3>1, <3>2
  <2>2. \A b \in gone : b \notin 0..(first - 1)
    <3> HIDE DEF first, gone
    <3>1. QED
      BY <1>3
  <2> HIDE DEF first, gone, kept
  <2>3. QED
    BY <1>2, <1>7, <2>1, <2>2
<1>9. \A p \in Nat : p < i => p \div N \in 0..(first - 1)
  <2>1. SUFFICES ASSUME NEW p \in Nat, p < i PROVE p \div N \in 0..(first - 1)
    OBVIOUS
  <2> DEFINE q == p \div N
  <2>2. q \in Nat /\ q * N <= p /\ i <= first * N
    BY <1>1, BlockOf, LastBlock
  <2> HIDE DEF q, first
  <2>3. q * N < first * N
    BY <1>1, <1>3, <2>1, <2>2
  <2>4. q < first
    BY <1>3, <2>2, <2>3, BlocksCompare
  <2>5. QED
    BY <1>3, <2>2, <2>4 DEF q
<1>10. \A p \in built' : p \in Nat /\ p \div N \in owned' /\ p \in built
  <2>1. SUFFICES ASSUME NEW p \in built' PROVE p \in Nat /\ p \div N \in owned' /\ p \in built
    OBVIOUS
  <2>2. p \in built /\ p \in Nat
    BY <1>1, <1>2
  <2>3. PICK b \in owned' : p \in Cells(b)
    BY <1>2
  <2>4. b \in Nat
    BY <1>1, <1>2
  <2>5. p \div N = b
    BY <2>2, <2>3, <2>4, InCells
  <2>6. QED
    BY <2>2, <2>3, <2>5
<1>11. \A p \in built : p \notin Cut(i) /\ p \div N \in owned' => p \in built'
  <2>1. SUFFICES ASSUME NEW p \in built, p \notin Cut(i), p \div N \in owned'
                 PROVE  p \in built'
    OBVIOUS
  <2>2. p \in Cells(p \div N)
    <3>1. p \in Nat /\ p \div N \in Nat
      BY <1>1, <1>2, <2>1
    <3>2. QED
      BY <3>1, InCells
  <2>3. QED
    BY <1>2, <2>1, <2>2
<1>12. TypeOK'
  <2>1. owned' \subseteq owned /\ built' \subseteq built
    BY <1>2
  <2>2. fault' \in BOOLEAN /\ lost' \in BOOLEAN
    BY DEF EraseAfterCut, IInv, TypeOK
  <2>3. length' \in 0..MaxLength
    BY <1>1, <1>2 DEF IInv, TypeOK
  <2>4. QED
    BY <1>5, <1>10, <2>1, <2>2, <2>3 DEF IInv, TypeOK
<1>13. StorageShape'
  BY <1>2, <1>5 DEF StorageShape
<1>14. EntriesBacked'
  <2>1. \A p \in 0..(i - 1) : p \div N \in owned' /\ p \in built'
    <3>1. SUFFICES ASSUME NEW p \in 0..(i - 1) PROVE p \div N \in owned' /\ p \in built'
      OBVIOUS
    <3>2. p \in Nat /\ p < i /\ p \in built
      BY <1>1 DEF IInv, EntriesBacked
    <3>3. p \div N \in owned'
      BY <1>8, <1>9, <3>2
    <3>4. p \notin Cut(i)
      BY <1>1, <1>3, <3>2
    <3>5. QED
      BY <1>11, <3>2, <3>3, <3>4
  <2>2. owned' \subseteq 0..(array' - 1)
    BY <1>2, <1>7
  <2>3. QED
    BY <1>2, <2>1, <2>2 DEF EntriesBacked
<1>15. BlocksBegun'
  <2>1. SUFFICES ASSUME NEW b \in owned' PROVE b * N \in built'
    BY DEF BlocksBegun
  <2>2. b \in Nat /\ b \in owned /\ b \notin gone
    BY <1>1, <1>2
  <2>3. b * N \in built
    BY <1>1, <2>2 DEF IInv, BlocksBegun
  <2>4. b * N \notin Cut(i)
    BY <1>1, <2>2, CutFreesBegun
  <2>5. (b * N) \div N = b
    <3> DEFINE p == b * N
    <3>1. p \in Nat /\ b * N <= p /\ p < b * N + N
      BY <1>1, <2>2
    <3> HIDE DEF p
    <3>2. p \div N = b
      BY <2>2, <3>1, BlockOfUnique
    <3>3. QED
      BY <3>2 DEF p
  <2>6. QED
    BY <1>11, <2>3, <2>4, <2>5
<1>16. QED
  BY <1>12, <1>13, <1>14, <1>15 DEF IInv

\* Destroying everything is never undefined.
LEMMA EraseAllInvariant ==
    ASSUME IInv, EraseAll
    PROVE  IInv' /\ ~fault'
<1>1. ~fault /\ length \in Nat
  BY TypeFacts DEF EraseAll, IInv
<1>2. length' = 0 /\ array' = 0 /\ owned' = {} /\ built' = {} /\ fault' \in BOOLEAN
      /\ lost' \in BOOLEAN
  BY DEF EraseAll, Destroy, IInv, TypeOK
<1>3. ~fault'
  <2>1. 0..(length - 1) \subseteq built /\ array = block_capacity(length)
    BY <1>1 DEF IInv, EntriesBacked, StorageShape
  <2>2. 0..(CeilDiv(length, N) - 1) \subseteq owned
    BY <1>1, NeededBlocksOwned
  <2>3. QED
    BY <2>1, <2>2 DEF EraseAll, Destroy
<1>4. TypeOK'
  BY <1>2, MaxLengthAssumption DEF TypeOK
<1>5. StorageShape' /\ EntriesBacked' /\ BlocksBegun'
  BY <1>2 DEF StorageShape, EntriesBacked, BlocksBegun, block_capacity
<1>6. QED
  BY <1>3, <1>4, <1>5 DEF IInv

\* Every step preserves the invariant.
LEMMA NextInvariant == IInv /\ [Next]_vars => IInv'
<1>1. SUFFICES ASSUME IInv, [Next]_vars PROVE IInv'
  OBVIOUS
<1>2. CASE UNCHANGED vars
  BY <1>1, <1>2 DEF vars, IInv, TypeOK, StorageShape, EntriesBacked, BlocksBegun
<1>3. CASE Next
  BY <1>1, <1>3, EmplaceInBlockInvariant, EmplaceNewBlockInvariant, EraseAfterCutInvariant,
     EraseAllInvariant DEF Next
<1>4. QED
  BY <1>1, <1>2, <1>3

\* IInv holds throughout.
THEOREM Invariance == Spec => []IInv
<1>1. Init => IInv
  BY InitInvariant
<1>2. IInv /\ [Next]_vars => IInv'
  BY NextInvariant
<1>3. QED
  BY <1>1, <1>2, PTL DEF Spec

-----------------------------------------------------------------------------
(* When a cut goes wrong. *)

\* A cut that is the one meant is defined, and leaves no entity behind its end.
LEMMA ExactCutIsClean ==
    ASSUME IInv, NEW i \in 1..length, EraseAfterCut(i), ExactCut(i)
    PROVE  /\ ~fault'
           /\ Strays = {} => Strays' = {}
           /\ Strays = {} => lost' = lost
<1> DEFINE gone == Dropped(i)
           left == built \ Cut(i)
           first == FirstWhole(i)
           blocks == CeilDiv(length, N)
           kept == IF ShrunkArray(i) < array THEN 0..(first - 1) ELSE 0..(array - 1)
<1>1. /\ length \in Nat /\ array \in Nat /\ ~fault /\ i \in Nat /\ i <= length /\ i >= 1
      /\ N \in Nat \ {0} /\ owned \subseteq Nat /\ built \subseteq Nat
  BY TypeFacts, NAssumption DEF IInv, EraseAfterCut
<1>2. /\ fault' = ~(Cut(i) \subseteq built /\ gone \subseteq owned)
      /\ lost' = (lost \/ (\E b \in gone : left \cap Cells(b) # {})
                       \/ ~(owned \ gone \subseteq kept))
      /\ built' = left \cap UNION {Cells(b) : b \in owned'}
      /\ length' = i
  BY DEF EraseAfterCut, FirstWhole
<1>3. Cut(i) = i..(length - 1) /\ gone = first..(blocks - 1)
  BY DEF ExactCut
<1>4. first \in Nat /\ blocks \in Nat /\ i <= first * N /\ first * N \in Nat
  <2>1. first \in Nat /\ blocks \in Nat /\ i <= first * N
    BY <1>1, LastBlock, CeilDivBounds
  <2> HIDE DEF first, blocks
  <2>2. QED
    BY <1>1, <2>1
<1>5. Cut(i) \subseteq built
  BY <1>1, <1>3 DEF IInv, EntriesBacked
<1>6. gone \subseteq owned
  <2>1. 0..(blocks - 1) \subseteq owned
    BY <1>1, NeededBlocksOwned
  <2> HIDE DEF first, blocks, gone
  <2>2. QED
    BY <1>3, <1>4, <2>1
<1>7. ~fault'
  BY <1>2, <1>5, <1>6
<1>8. ASSUME Strays = {} PROVE Strays' = {} /\ lost' = lost
  <2>1. \A p \in left : p < i
    <3>1. built \subseteq 0..(length - 1)
      BY <1>8 DEF Strays
    <3>2. QED
      BY <1>1, <1>3, <3>1
  <2>2. Strays' = {}
    <3>1. \A p \in built' : p \in 0..(i - 1)
      BY <1>1, <1>2, <2>1
    <3>2. QED
      BY <1>2, <3>1 DEF Strays
  <2>3. ~\E b \in gone : left \cap Cells(b) # {}
    <3>1. SUFFICES ASSUME NEW b \in gone, NEW p \in left, p \in Cells(b) PROVE FALSE
      OBVIOUS
    <3>2. p \in Nat /\ p < i /\ b \in Int /\ first <= b
      <4>1. p \in Nat /\ p < i
        BY <1>1, <2>1
      <4> HIDE DEF first, blocks, gone, left
      <4>2. QED
        BY <1>3, <1>4, <4>1
    <3> HIDE DEF first
    <3>3. first * N <= b * N
      BY <1>4, <3>2, BlocksCompare
    <3>4. b * N <= p
      <4>1. b * N \in Int
        BY <1>1, <3>2
      <4>2. QED
        BY <1>1, <3>1, <4>1 DEF Cells
    <3>5. QED
      BY <1>1, <1>4, <3>2, <3>3, <3>4
  <2>4. \A b \in owned : b < blocks
    <3>1. SUFFICES ASSUME NEW b \in owned PROVE b < blocks
      OBVIOUS
    <3>2. b \in Nat /\ b * N \in 0..(length - 1)
      BY <1>1, <1>8 DEF IInv, BlocksBegun, Strays
    <3>3. length <= blocks * N
      BY <1>1, CeilDivBounds
    <3> HIDE DEF blocks
    <3>4. b * N < blocks * N
      BY <1>1, <1>4, <3>2, <3>3
    <3>5. QED
      BY <1>4, <3>2, <3>4, BlocksCompare
  <2>5. owned \ gone \subseteq kept
    <3>1. \A b \in owned \ gone : b \in 0..(first - 1)
      <4> HIDE DEF first, blocks, gone
      <4>1. QED
        BY <1>1, <1>3, <1>4, <2>4
    <3>2. owned \subseteq 0..(array - 1)
      BY <1>1 DEF IInv, EntriesBacked
    <3>3. QED
      BY <3>1, <3>2
  <2>6. lost' = lost
    <3>1. lost \in BOOLEAN
      BY DEF IInv, TypeOK
    <3> HIDE DEF gone, left, kept
    <3>2. QED
      BY <1>2, <2>3, <2>5, <3>1
  <2>7. QED
    BY <2>2, <2>6
<1>9. QED
  BY <1>7, <1>8

\* The block behind the last one is there only if it holds an entity.
LEMMA NoSpareBlock ==
    ASSUME IInv, ~fault, Strays = {}
    PROVE  CeilDiv(length, N) \notin owned
<1> DEFINE blocks == CeilDiv(length, N)
<1>1. length \in Nat /\ blocks \in Nat /\ length <= blocks * N
  BY TypeFacts, CeilDivBounds DEF IInv
<1>2. blocks \in owned => blocks * N \in 0..(length - 1)
  BY DEF IInv, BlocksBegun, Strays
<1> HIDE DEF blocks
<1>3. QED
  BY <1>1, <1>2 DEF blocks

\* FaultWindow of every step.
LEMMA FaultWindowOfStep ==
    ASSUME IInv, [Next]_vars
    PROVE  FaultWindowStep
<1>1. SUFFICES ASSUME fault', ~fault PROVE PartialLastBlock /\ ~IsPowerOf2(CeilDiv(length, N))
  BY DEF FaultWindowStep
<1>2. PICK i \in 1..length : EraseAfterCut(i)
  <2>1. ~(UNCHANGED vars)
    BY <1>1 DEF vars
  <2>2. ~EmplaceInBlock /\ ~EmplaceNewBlock /\ ~EraseAll
    BY <1>1, EmplaceInBlockInvariant, EmplaceNewBlockInvariant, EraseAllInvariant
  <2>3. QED
    BY <2>1, <2>2 DEF Next
<1>3. length \in Nat
  BY TypeFacts DEF IInv
<1>4. ~ExactCut(i)
  BY <1>1, <1>2, ExactCutIsClean
<1>5. ~InLastSlot(i)
  <2>1. SUFFICES ASSUME InLastSlot(i) PROVE FALSE
    OBVIOUS
  <2>2. Cut(i) = {} /\ Dropped(i) = {}
    BY <1>3, <1>4, <2>1, CutInLastSlot
  <2>3. ~fault'
    BY <1>2, <2>2 DEF EraseAfterCut
  <2>4. QED
    BY <1>1, <2>3
<1>6. QED
  BY <1>3, <1>4, <1>5, CutBelowLastSlot DEF LastPopulation, PartialLastBlock

\* StrayWindow of every step.
LEMMA StrayWindowOfStep ==
    ASSUME IInv, [Next]_vars
    PROVE  StrayWindowStep
<1> DEFINE window == ~PartialLastBlock /\ IsPowerOf2(length \div N)
<1>1. SUFFICES ASSUME ~fault', Strays = {}, ~window
               PROVE  Strays' = {} /\ (lost' => lost)
  BY DEF StrayWindowStep
<1>2. /\ length \in Nat /\ built \subseteq Nat /\ owned \subseteq Nat /\ N \in Nat \ {0}
      /\ lost \in BOOLEAN
  BY TypeFacts, NAssumption DEF IInv, TypeOK
<1>3. built \subseteq 0..(length - 1)
  BY <1>1 DEF Strays
<1>4. CASE UNCHANGED vars
  BY <1>1, <1>4 DEF vars, Strays
<1>5. CASE EmplaceInBlock
  <2>1. built' = built \cup {length} /\ length' = length + 1 /\ lost' = (lost \/ length \in built)
    BY <1>5 DEF EmplaceInBlock, Construct
  <2>2. built' \subseteq 0..(length' - 1) /\ length \notin built
    BY <1>2, <1>3, <2>1
  <2>3. QED
    BY <2>1, <2>2 DEF Strays
<1>6. CASE EmplaceNewBlock
  <2>1. /\ built' = built \cup {length} /\ length' = length + 1
        /\ lost' = (lost \/ length \div N \in owned) /\ length % N = 0 /\ ~fault
    BY <1>6 DEF EmplaceNewBlock, Construct
  <2>2. built' \subseteq 0..(length' - 1)
    BY <1>2, <1>3, <2>1
  <2>3. length \div N \notin owned
    BY <1>1, <1>2, <2>1, NoSpareBlock, CeilDivSplit
  <2>4. QED
    BY <2>1, <2>2, <2>3 DEF Strays
<1>7. ASSUME NEW i \in 1..length, EraseAfterCut(i)
      PROVE  Strays' = {} /\ (lost' => lost)
  <2>1. ExactCut(i)
    <3>1. CASE InLastSlot(i)
      <4>1. ~(LastPopulation = 0 /\ IsPowerOf2(full_block_count(length)))
        BY <1>1 DEF LastPopulation, full_block_count, PartialLastBlock
      <4>2. QED
        BY <1>2, <3>1, <4>1, CutInLastSlot
    <3>2. CASE ~InLastSlot(i)
      <4>1. ~fault
        BY <1>7 DEF EraseAfterCut
      <4>2. Dropped(i) \subseteq owned
        BY <1>1, <1>7 DEF EraseAfterCut
      <4>3. CeilDiv(length, N) \notin Dropped(i)
        BY <1>1, <4>1, <4>2, NoSpareBlock
      <4>4. QED
        BY <1>2, <3>2, <4>3, CutBelowLastSlot
    <3>3. QED
      BY <3>1, <3>2
  <2>2. QED
    BY <1>1, <1>7, <2>1, ExactCutIsClean
<1>8. CASE EraseAll
  <2>1. ~fault
    BY <1>8 DEF EraseAll
  <2>2. built' = {} /\ lost' = (lost \/ built # 0..(length - 1) \/ owned # 0..(CeilDiv(length, N) - 1))
    BY <1>8 DEF EraseAll, Destroy
  <2>3. built = 0..(length - 1)
    BY <1>3, <2>1 DEF IInv, EntriesBacked
  <2>4. owned = 0..(CeilDiv(length, N) - 1)
    <3>1. 0..(CeilDiv(length, N) - 1) \subseteq owned
      BY <2>1, NeededBlocksOwned
    <3>2. ASSUME NEW b \in owned PROVE b \in 0..(CeilDiv(length, N) - 1)
      <4> DEFINE blocks == CeilDiv(length, N)
      <4>1. b \in Nat /\ b * N \in 0..(length - 1)
        BY <1>2, <1>3, <2>1 DEF IInv, BlocksBegun
      <4>2. blocks \in Nat /\ length <= blocks * N
        BY <1>2, CeilDivBounds
      <4> HIDE DEF blocks
      <4>3. b * N < blocks * N
        BY <1>2, <4>1, <4>2
      <4>4. b < blocks
        BY <4>1, <4>2, <4>3, BlocksCompare
      <4>5. QED
        BY <4>1, <4>2, <4>4 DEF blocks
    <3>3. QED
      BY <3>1, <3>2
  <2>5. QED
    BY <2>2, <2>3, <2>4 DEF Strays
<1>9. QED
  BY <1>4, <1>5, <1>6, <1>7, <1>8 DEF Next

-----------------------------------------------------------------------------
(* The theorems. *)

\* The variables keep their types.
THEOREM TypeCorrect == Spec => []TypeOK
<1>1. IInv => TypeOK
  BY DEF IInv
<1>2. QED
  BY <1>1, Invariance, PTL

\* The pointer array is of the size that lmgcp.hpp:35-39 states, for every size
\* of block: emplace doubles it when it must, and erase_after gives it the
\* smallest power of two that will do.
THEOREM ArraySizeKept == Spec => []StorageShape
<1>1. IInv => StorageShape
  BY DEF IInv
<1>2. QED
  BY <1>1, Invariance, PTL

\* Every position that operator[] and the iterators may visit holds an entity
\* in a block whose pointer is in the array.
THEOREM EveryEntryBacked == Spec => []EntriesBacked
<1>1. IInv => EntriesBacked
  BY DEF IInv
<1>2. QED
  BY <1>1, Invariance, PTL

\* erase_after is undefined only when the last block is partly used and the
\* number of blocks is not a power of two.
THEOREM FaultOnlyInWindow == Spec => FaultWindow
<1>1. IInv /\ [Next]_vars => [FaultWindowStep]_vars
  BY FaultWindowOfStep
<1>2. QED
  BY <1>1, Invariance, PTL DEF Spec, FaultWindow

\* Entities are left behind, and blocks and entities forgotten, only by way of
\* a cut into the last block of a pool whose blocks and pointer array are full.
THEOREM StraysOnlyInWindow == Spec => StrayWindow
<1>1. IInv /\ [Next]_vars => [StrayWindowStep]_vars
  BY StrayWindowOfStep
<1>2. QED
  BY <1>1, Invariance, PTL DEF Spec, StrayWindow
=============================================================================
