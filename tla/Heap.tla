-------------------------------- MODULE Heap --------------------------------
(***************************************************************************)
(* The kernel heap: memory/heap/heap.c, reached through kmalloc, kzalloc   *)
(* and kfree of kheap.c.                                                   *)
(*                                                                         *)
(* A byte table holds one entry per block of the data pool.  An allocation *)
(* is a chain of TAKEN entries: its first entry has IS_FIRST, all but the  *)
(* last have HAS_NEXT.  The table is the only record of what is allocated: *)
(* the history variable "live" remembers what the callers were given, so   *)
(* that the two can be compared.                                           *)
(*                                                                         *)
(* Every handler that allocates runs with interrupts off (interrupt gates  *)
(* clear IF) and the boot code is sequential, so a call is one step.       *)
(***************************************************************************)
EXTENDS Integers, FiniteSets

CONSTANTS
    Total,      \* table->total, the number of blocks of the pool
    BlockSize,  \* VIOS_HEAP_BLOCK_SIZE
    WordSize,   \* 2^32, the modulus of uint32_t and size_t arithmetic
    Sizes       \* the sizes callers ask for

ASSUME HeapAssumption ==
    /\ Total \in Nat \ {0}
    /\ BlockSize \in Nat \ {0}
    /\ WordSize \in Nat \ {0}
    /\ WordSize % BlockSize = 0
    /\ Sizes \subseteq 0 .. WordSize - 1

VARIABLES
    entries,    \* table->entries, each the set of its flags
    live        \* history: the allocations handed out and not yet freed

vars == <<entries, live>>

Blocks == 0 .. Total - 1
Flags  == {"TAKEN", "IS_FIRST", "HAS_NEXT"}
FREE   == {}

\* The blocks an allocation was given, as its caller sees them.
Span(a) == a.start .. a.start + a.len - 1

\* heap_align_value_to_upper: the addition wraps at the width of uint32_t.
AlignUp(val) ==
    IF val % BlockSize = 0 THEN val ELSE (val - (val % BlockSize) + BlockSize) % WordSize

BlocksFor(size) == AlignUp(size) \div BlockSize

IsFree(i) == "TAKEN" \notin entries[i]

(***************************************************************************)
(* heap_get_start_block.  The scan stops at the first run of n free        *)
(* blocks.  When there is none it falls off the end of the table with bs   *)
(* at the start of the free run that ends there, if any, and returns that; *)
(* only when the last block is taken does it return -ENOMEM.  A request of *)
(* no block (n = 0) never meets bc == total_blocks.  The operators named   *)
(* ...Short and ...Trailing are seeded faults: a run one block short and a *)
(* preference for the end of the table.                                    *)
(***************************************************************************)
FreeRunsShort(n) ==
    {s \in Blocks : n > 0 /\ s + n <= Total /\ \A i \in s .. s + n - 2 : IsFree(i)}
FreeRuns(n) ==
    {s \in Blocks : n > 0 /\ s + n <= Total /\ \A i \in s .. s + n - 1 : IsFree(i)}
TrailingRuns == {s \in Blocks : \A i \in s .. Total - 1 : IsFree(i)}
StartCandidatesTrailing(n) == IF TrailingRuns # {} THEN TrailingRuns ELSE FreeRuns(n)
StartCandidates(n) == IF FreeRuns(n) # {} THEN FreeRuns(n) ELSE TrailingRuns
StartBlocks(n) == {s \in StartCandidates(n) : \A t \in StartCandidates(n) : s <= t}

\* Seeded fault MarkUnterminated: the last block is chained as well.
\* The entry heap_mark_blocks_taken writes at block i of n blocks from s; the
\* last of them is not chained to a next one.
MarkUnterminated(s, n, i) ==
    {"TAKEN"} \cup (IF i = s THEN {"IS_FIRST"} ELSE {}) \cup {"HAS_NEXT"}
Mark(s, n, i) ==
    {"TAKEN"} \cup (IF i = s THEN {"IS_FIRST"} ELSE {})
              \cup (IF i # s + n - 1 THEN {"HAS_NEXT"} ELSE {})

\* heap_mark_blocks_taken.  Entries past the end of the table, which the code
\* also writes when the run is too short, are not part of the table.
MarkTaken(s, n) ==
    entries' = [i \in Blocks |-> IF i \in s .. s + n - 1 THEN Mark(s, n, i) ELSE entries[i]]

\* heap_malloc with a result: the address of block s.
MallocAt(s, size) ==
    /\ s \in StartBlocks(BlocksFor(size))
    /\ MarkTaken(s, BlocksFor(size))
    /\ live' = live \cup {[start |-> s, len |-> BlocksFor(size)]}
Malloc(size) == \E s \in StartBlocks(BlocksFor(size)) : MallocAt(s, size)

\* heap_malloc returning NULL.
MallocFail(size) ==
    /\ StartBlocks(BlocksFor(size)) = {}
    /\ UNCHANGED vars

\* Seeded fault MarkFreeAll: the loop does not stop at the end of the chain.
\* heap_mark_blocks_free: from s on, up to and including the first entry
\* without HAS_NEXT, and never past the table.
Chained(s, i) == i >= s /\ \A k \in s .. i - 1 : "HAS_NEXT" \in entries[k]
MarkFreeAll(s) == entries' = [i \in Blocks |-> IF i >= s THEN FREE ELSE entries[i]]
MarkFree(s) == entries' = [i \in Blocks |-> IF Chained(s, i) THEN FREE ELSE entries[i]]

\* heap_free of an outstanding pointer.
Free(a) ==
    /\ a \in live
    /\ MarkFree(a.start)
    /\ live' = live \ {a}

\* heap_create: the whole table is cleared.
Init ==
    /\ entries = [i \in Blocks |-> FREE]
    /\ live = {}

Next ==
    \/ \E size \in Sizes : Malloc(size) \/ MallocFail(size)
    \/ \E a \in live : Free(a)

Spec == Init /\ [][Next]_vars

-----------------------------------------------------------------------------
\* Types: the table holds flags, an allocation starts inside the table.
TypeOK ==
    /\ entries \in [Blocks -> SUBSET Flags]
    /\ live \subseteq [start : Blocks, len : Nat]

\* The table says exactly what is outstanding: every block of an allocation
\* carries the mark of its place in the chain, and a block no allocation owns
\* is free.  heap_mark_blocks_free relies on this to find where a chain ends.
TableEncodesLive ==
    /\ \A a \in live : \A i \in Span(a) \cap Blocks : entries[i] = Mark(a.start, a.len, i)
    /\ \A i \in Blocks : (\A a \in live : i \notin Span(a)) => entries[i] = FREE

\* No block is given to two callers, not even beyond the end of the table,
\* where an allocation that did not fit extends.
LiveDisjoint ==
    \A a, b \in live : a # b => Span(a) \cap Span(b) = {}

\* A malloc that can be satisfied inside the pool is satisfied inside it: the
\* scan leaves the pool only when no run of free blocks is long enough.
FitsWhenItCan ==
    [][\A a \in live' \ live :
          (\E s \in Blocks : s + a.len <= Total /\ \A i \in s .. s + a.len - 1 : entries[i] = FREE)
              => a.start + a.len <= Total]_vars

\* A free releases the blocks of the allocation it was given and no other:
\* the chain ends where the allocation ends.
FreeReleasesExactly ==
    [][\A a \in live \ live' :
          \A i \in Blocks : entries'[i] # entries[i] <=> i \in Span(a)]_vars

\* Callers ask for memory: no request rounds to nothing, so none is of size 0 and
\* none so large that the rounding wraps.
RealRequests == \A size \in Sizes : BlocksFor(size) > 0

\* The promise callers rely on (Allocator.tla).
Promise == INSTANCE Allocator
    WITH Starts <- Blocks, Lengths <- {BlocksFor(size) : size \in Sizes}
AllocatorSpec == Promise!Spec
=============================================================================
