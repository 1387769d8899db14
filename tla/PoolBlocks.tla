----------------------------- MODULE PoolBlocks -----------------------------
(***************************************************************************)
(* The memory behind LinearMovingGarbageCollectedPool                      *)
(* (src/src/include/bbe/lmgcp.hpp): an array of pointers to blocks of N    *)
(* cells, grown by emplace and cut back by erase_after.  The position p of *)
(* GcPool is cell p % N of block p \div N; here a position is either built *)
(* (an entity is constructed there) or raw.                                *)
(***************************************************************************)
EXTENDS Integers

CONSTANTS
    N,           \* cells of a block, the template parameter n
    MaxLength    \* bound: entities in the pool

ASSUME NAssumption == N \in Nat \ {0}
ASSUME MaxLengthAssumption == MaxLength \in Nat

VARIABLES
    length,      \* number of entities the pool believes it stores
    array,       \* size of the pointer array; 0 when `storage` is null
    owned,       \* indices of the pointers that point to an allocated block
    built,       \* positions at which an entity is constructed
    fault,       \* history: undefined behaviour has happened
    lost         \* history: something was forgotten without being destroyed or freed

vars == <<length, array, owned, built, fault, lost>>

\* std::has_single_bit: nothing odd but 1 divides a power of two
IsPowerOf2(x) == x > 0 /\ \A d \in 2..x : x % d = 0 => d % 2 = 0

\* std::bit_ceil
BitCeil(x) == CHOOSE y \in 1..(2 * x) : IsPowerOf2(y) /\ x <= y /\ y < 2 * x

CeilDiv(a, b) == (a + b - 1) \div b

full_block_count(len) == len \div N

block_capacity(len) == IF len = 0 THEN 0 ELSE BitCeil(CeilDiv(len, N))

Cells(b) == (b * N)..(b * N + N - 1)

Init ==
    /\ length = 0
    /\ array = 0
    /\ owned = {}
    /\ built = {}
    /\ fault = FALSE
    /\ lost = FALSE

-----------------------------------------------------------------------------
(* emplace *)

\* Constructing an entity at position `length`: writing through a pointer that
\* points to no block is undefined, and an entity already there is overwritten
\* without being destroyed.
Construct ==
    /\ built' = built \cup {length}
    /\ length' = length + 1

\* The last block has a free cell.
EmplaceInBlock ==
    /\ ~fault
    /\ length < MaxLength
    /\ length % N # 0
    /\ Construct
    /\ fault' = (length \div N \notin owned)
    /\ lost' = (lost \/ length \in built)
    /\ UNCHANGED <<array, owned>>

\* The pointer array after a block is added: allocated for the first block,
\* doubled when its size in use is a power of two, kept otherwise.
GrowAtPower(blocks) ==
    IF blocks = 0 THEN 1
    ELSE IF IsPowerOf2(blocks) THEN 2 * blocks
    ELSE array

\* A plausible bug, for the mutant runs: has_single_bit is not asked.
GrowAlways(blocks) == IF blocks = 0 THEN 1 ELSE 2 * blocks

NewArray(blocks) == GrowAtPower(blocks)

\* A plausible bug, for the mutant runs: the pointer is not stored.
EmplaceUnstored ==
    LET blocks == length \div N IN
    /\ ~fault
    /\ length < MaxLength
    /\ length % N = 0
    /\ array' = NewArray(blocks)
    /\ Construct
    /\ fault' = (blocks >= array')
    /\ UNCHANGED <<owned, lost>>

\* The last block is full: a new one is allocated and its pointer stored.
EmplaceNewBlock ==
    LET blocks == length \div N IN
    /\ ~fault
    /\ length < MaxLength
    /\ length % N = 0
    /\ array' = NewArray(blocks)
    /\ owned' = owned \cup {blocks}
    /\ Construct
    /\ fault' = (blocks >= array')
    /\ lost' = (lost \/ blocks \in owned)

-----------------------------------------------------------------------------
(* erase_after *)

\* destroy(): every full block, then the part of the last one that is in use.
Destroy ==
    LET blocks == CeilDiv(length, N) IN
    /\ fault' = ~(/\ 0..(length - 1) \subseteq built
                  /\ 0..(blocks - 1) \subseteq owned
                  /\ array = block_capacity(length))
    /\ lost' = (lost \/ built # 0..(length - 1) \/ owned # 0..(blocks - 1))
    /\ length' = 0
    /\ array' = 0
    /\ owned' = {}
    /\ built' = {}

\* A plausible bug, for the mutant runs: an off-by-one in the last slot.
InLastSlotLate(i) == i \div N = block_capacity(length)

\* The last block that the pointer array has room for.
InLastSlot(i) == i \div N = block_capacity(length) - 1

\* destroy_last_block(ilast) does something only when length % N # 0.
LastPopulation == length % N

\* The first whole block after the cut.
FirstWhole(i) == CeilDiv(i, N)

\* A plausible bug, for the mutant runs: the loop does not move `block`.
LoopEndFirst(i) == FirstWhole(i)

\* The `block` that the loop of erase_after leaves for destroy_last_block.
LoopEnd(i) ==
    IF FirstWhole(i) < full_block_count(length) THEN full_block_count(length) ELSE FirstWhole(i)

\* A plausible bug, for the mutant runs: the cut starts one position early.
CutOneMore(i) ==
    IF InLastSlot(i)
    THEN IF LastPopulation # 0 THEN (i - 1)..(length - 1) ELSE {}
    ELSE (i - 1)..(length - 1)

\* The positions that erase_after(i), 0 < i, destroys.
Cut(i) ==
    IF InLastSlot(i)
    THEN IF LastPopulation # 0 THEN i..(length - 1) ELSE {}
    ELSE (i..(FirstWhole(i) * N - 1))
         \cup ((FirstWhole(i) * N)..(full_block_count(length) * N - 1))
         \cup ((LoopEnd(i) * N)..(LoopEnd(i) * N + LastPopulation - 1))

\* The blocks that it frees.
Dropped(i) ==
    IF InLastSlot(i)
    THEN IF LastPopulation # 0 /\ i % N = 0 THEN {i \div N} ELSE {}
    ELSE (FirstWhole(i)..(full_block_count(length) - 1))
         \cup (IF LastPopulation # 0 THEN {LoopEnd(i)} ELSE {})

\* The pointer array after the cut: reallocated when a smaller power of two will do.
ShrunkArray(len) ==
    IF block_capacity(len) < block_capacity(length) THEN block_capacity(len) ELSE array

\* Destroying a raw cell or freeing a pointer to no block is undefined; an
\* entity in a freed block, or a block whose pointer is not kept, is lost.
EraseAfterCut(i) ==
    LET gone == Dropped(i)
        left == built \ Cut(i)
        kept == IF ShrunkArray(i) < array THEN 0..(CeilDiv(i, N) - 1) ELSE 0..(array - 1)
    IN
    /\ ~fault
    /\ i \in 1..length
    /\ fault' = ~(Cut(i) \subseteq built /\ gone \subseteq owned)
    /\ lost' = (lost \/ (\E b \in gone : left \cap Cells(b) # {})
                     \/ ~(owned \ gone \subseteq kept))
    /\ owned' = (owned \ gone) \cap kept
    /\ built' = left \cap UNION {Cells(b) : b \in owned'}
    /\ array' = ShrunkArray(i)
    /\ length' = i

EraseAll == ~fault /\ Destroy

Next ==
    \/ EmplaceInBlock
    \/ EmplaceNewBlock
    \/ \E i \in 1..length : EraseAfterCut(i)
    \/ EraseAll

Spec == Init /\ [][Next]_vars

-----------------------------------------------------------------------------
(* Properties. *)

TypeOK ==
    /\ length \in 0..MaxLength
    /\ array \in Nat
    /\ owned \subseteq 0..MaxLength
    /\ built \subseteq 0..(MaxLength - 1)
    /\ \A p \in built : p \div N \in owned \/ fault
    /\ fault \in BOOLEAN
    /\ lost \in BOOLEAN

\* The invariant that the class states (lmgcp.hpp:35-39): the pointer array has
\* as many elements as there are blocks, rounded up to a power of two, and does
\* not exist when the pool is empty.
StorageShape == ~fault => array = block_capacity(length)

\* Every position that operator[] and the iterators may visit holds a
\* constructed entity in an allocated block whose pointer is in the array.
EntriesBacked ==
    ~fault =>
        /\ 0..(length - 1) \subseteq built
        /\ \A p \in 0..(length - 1) : p \div N \in owned
        /\ owned \subseteq 0..(array - 1)

\* Entities behind the last one that were never destroyed.
Strays == built \ 0..(length - 1)

\* A block is allocated for the entity in its first cell, and not without it.
BlocksBegun == ~fault => \A b \in owned : b * N \in built

\* The inductive invariant.
IInv == TypeOK /\ StorageShape /\ EntriesBacked /\ BlocksBegun

PartialLastBlock == length % N # 0

\* Undefined behaviour comes only from cutting back a pool whose last block is
\* partly used and whose number of blocks is not a power of two.
FaultWindowStep ==
    fault' /\ ~fault => PartialLastBlock /\ ~IsPowerOf2(CeilDiv(length, N))

FaultWindow == [][FaultWindowStep]_vars

\* Entities are left behind undestroyed only by cutting into the last block of
\* a pool that fills every block of its pointer array; and an entity or a block
\* is forgotten for good only by that same cut, or after it.
StrayWindowStep ==
    LET window == ~PartialLastBlock /\ IsPowerOf2(length \div N) IN
    ~fault' =>
        /\ Strays = {} /\ Strays' # {} => window
        /\ lost' /\ ~lost => Strays # {} \/ window

StrayWindow == [][StrayWindowStep]_vars

\* lmgcp.hpp:108 says of the index that destroy_last_block is given that "it
\* needs only be correct if length % n != 0", and the class invariant is meant
\* to hold throughout: truncating the pool is never undefined.
NoFault == ~fault

=============================================================================
