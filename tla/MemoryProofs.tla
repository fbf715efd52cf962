---------------------------- MODULE MemoryProofs ----------------------------
(***************************************************************************)
(* Proofs about the kernel heap and the memory of processes on it.         *)
(*                                                                         *)
(* For every pool size, block size, word width and set of request sizes:   *)
(* the block table encodes the outstanding allocations and these are       *)
(* disjoint, so heap.c implements Allocator.tla.                           *)
(*                                                                         *)
(* For any number of processes and entries, any heap and any programs: the *)
(* heap and the books of the processes agree, what a process may write it  *)
(* holds, and no process writes the memory of another.  The invariant of   *)
(* the heap is part of that of the processes.                              *)
(***************************************************************************)
EXTENDS ProcessMemory, WellFoundedInduction, TLAPS

-----------------------------------------------------------------------------
(***************************************************************************)
(* The heap.                                                               *)
(***************************************************************************)

\* The inductive invariant: an allocation of no block would be a pointer the
\* table does not record, so its absence is part of the argument.
IInv ==
    /\ TypeOK
    /\ \A a \in live : a.len > 0
    /\ TableEncodesLive
    /\ LiveDisjoint

\* A request rounds to a natural number of blocks.
LEMMA BlocksForNat == ASSUME NEW size \in Sizes PROVE BlocksFor(size) \in Nat
<1>1. size \in Nat /\ BlockSize \in Nat \ {0} /\ WordSize \in Nat \ {0}
    BY HeapAssumption
<1>2. size % BlockSize \in 0 .. BlockSize - 1
    BY <1>1
<1>3. (size - (size % BlockSize) + BlockSize) % WordSize \in Nat
    BY <1>1, <1>2
<1>4. AlignUp(size) \in Nat
    BY <1>1, <1>3 DEF AlignUp
<1>5. QED
    BY <1>1, <1>4 DEF BlocksFor

\* Every block of the table that a start block makes malloc claim is free: the
\* scan never returns the start of a run with a taken block in it.
LEMMA ClaimedBlocksFree ==
    ASSUME NEW n \in Nat, NEW s \in StartBlocks(n)
    PROVE  /\ s \in Blocks
           /\ \A i \in Blocks : i \in s .. s + n - 1 => IsFree(i)
<1>1. s \in StartCandidates(n)
    BY DEF StartBlocks
<1>2. CASE s \in FreeRuns(n)
    BY <1>2 DEF FreeRuns
<1>3. CASE s \in TrailingRuns
    <2>1. s \in Blocks /\ \A i \in s .. Total - 1 : IsFree(i)
        BY <1>3 DEF TrailingRuns
    <2>2. \A i \in Blocks : i \in s .. s + n - 1 => i \in s .. Total - 1
        BY <2>1, HeapAssumption DEF Blocks
    <2>3. QED
        BY <2>1, <2>2
<1>4. QED
    BY <1>1, <1>2, <1>3 DEF StartCandidates

\* A block an outstanding allocation owns is not free.
LEMMA OwnedBlocksTaken ==
    ASSUME TableEncodesLive, NEW a \in live, NEW i \in Blocks, i \in Span(a)
    PROVE  ~ IsFree(i)
BY DEF TableEncodesLive, IsFree, Mark

\* The chain from an allocation's first block covers its blocks and no others.
LEMMA ChainIsSpan ==
    ASSUME IInv, NEW a \in live, NEW i \in Blocks
    PROVE  Chained(a.start, i) <=> i \in Span(a)
<1>1. a.start \in Blocks /\ a.len \in Nat /\ a.len > 0 /\ Total \in Nat
    BY HeapAssumption DEF IInv, TypeOK
<1>2. \A k \in Span(a) \cap Blocks :
          "HAS_NEXT" \in entries[k] <=> k # a.start + a.len - 1
    BY DEF IInv, TableEncodesLive, Mark
<1>3. ASSUME i \in Span(a) PROVE Chained(a.start, i)
    <2>1. \A k \in a.start .. i - 1 : k \in Span(a) \cap Blocks /\ k # a.start + a.len - 1
        BY <1>1, <1>3 DEF Span, Blocks
    <2>2. QED
        BY <1>1, <1>2, <1>3, <2>1 DEF Chained, Span, Blocks
<1>4. ASSUME i \notin Span(a), i >= a.start PROVE ~ Chained(a.start, i)
    <2> DEFINE last == a.start + a.len - 1
    <2>1. last \in Span(a) \cap Blocks /\ last \in a.start .. i - 1
        BY <1>1, <1>4 DEF Span, Blocks
    <2>2. QED
        BY <1>2, <2>1 DEF Chained
<1>5. QED
    BY <1>3, <1>4 DEF Chained

\* The allocation malloc returns shares no block with an outstanding one. Past
\* the end of the table this holds because an allocation that reaches there
\* owns the table's last block.
LEMMA MallocFresh ==
    ASSUME IInv, NEW n \in Nat, n > 0, NEW s \in StartBlocks(n), NEW a \in live
    PROVE  Span(a) \cap Span([start |-> s, len |-> n]) = {}
<1> DEFINE b == [start |-> s, len |-> n]
<1>1. a.start \in Blocks /\ a.len \in Nat /\ a.len > 0 /\ Total \in Nat \ {0}
    BY HeapAssumption DEF IInv, TypeOK
<1>2. s \in Blocks /\ \A i \in Blocks : i \in Span(b) => IsFree(i)
    BY ClaimedBlocksFree DEF Span
<1>3. \A i \in Blocks : i \in Span(b) => i \notin Span(a)
    BY <1>2, OwnedBlocksTaken DEF IInv
<1>4. ASSUME NEW i \in Span(a), i \in Span(b) PROVE FALSE
    <2>1. i \notin Blocks /\ i \in Int /\ i >= s
        BY <1>1, <1>2, <1>3, <1>4 DEF Span, Blocks
    <2>2. i >= Total
        BY <1>1, <1>2, <2>1 DEF Blocks
    <2>3. Total - 1 \in Blocks /\ Total - 1 \in Span(a) /\ Total - 1 \in Span(b)
        BY <1>1, <1>2, <1>4, <2>2 DEF Span, Blocks
    <2>4. QED
        BY <1>3, <2>3
<1>5. QED
    BY <1>4

LEMMA MallocPreserves ==
    ASSUME IInv, NEW size \in Sizes, BlocksFor(size) > 0, Malloc(size)
    PROVE  IInv'
<1> DEFINE n == BlocksFor(size)
<1>1. n \in Nat /\ n > 0
    BY BlocksForNat
<1>2. PICK s \in StartBlocks(n) :
          /\ MarkTaken(s, n)
          /\ live' = live \cup {[start |-> s, len |-> n]}
    BY DEF Malloc, MallocAt
<1> DEFINE b == [start |-> s, len |-> n]
<1> HIDE DEF n
<1>3. s \in Blocks /\ s \in Nat
    BY <1>1, <1>2, ClaimedBlocksFree, HeapAssumption DEF Blocks
<1>4. \A a \in live : Span(a) \cap Span(b) = {}
    BY <1>1, <1>2, MallocFresh
<1>5. entries' = [i \in Blocks |-> IF i \in Span(b) THEN Mark(s, n, i) ELSE entries[i]]
    BY <1>2 DEF MarkTaken, Span
<1>6. TypeOK'
    <2>1. \A i \in Blocks : Mark(s, n, i) \in SUBSET Flags
        BY DEF Mark, Flags
    <2>2. entries' \in [Blocks -> SUBSET Flags]
        BY <1>5, <2>1 DEF IInv, TypeOK
    <2>3. b \in [start : Blocks, len : Nat]
        BY <1>1, <1>3
    <2>4. QED
        BY <1>2, <2>2, <2>3 DEF IInv, TypeOK
<1>7. \A a \in live' : a.len > 0
    BY <1>1, <1>2 DEF IInv
<1>8. TableEncodesLive'
    <2>1. ASSUME NEW a \in live', NEW i \in Span(a) \cap Blocks
          PROVE  entries'[i] = Mark(a.start, a.len, i)
        <3>1. CASE a = b
            BY <1>5, <2>1, <3>1
        <3>2. CASE a \in live
            BY <1>4, <1>5, <2>1, <3>2 DEF IInv, TableEncodesLive
        <3>3. QED
            BY <1>2, <2>1, <3>1, <3>2
    <2>2. ASSUME NEW i \in Blocks, \A a \in live' : i \notin Span(a)
          PROVE  entries'[i] = FREE
        BY <1>2, <1>5, <2>2 DEF IInv, TableEncodesLive
    <2>3. QED
        BY <2>1, <2>2 DEF TableEncodesLive, Span, Mark, FREE, Blocks
<1>9. LiveDisjoint'
    BY <1>2, <1>4 DEF IInv, LiveDisjoint, Span
<1>10. QED
    BY <1>6, <1>7, <1>8, <1>9 DEF IInv

LEMMA FreePreserves ==
    ASSUME IInv, NEW a \in live, Free(a)
    PROVE  IInv'
<1>1. live' = live \ {a} /\ live' \subseteq live
    BY DEF Free
<1>2. entries' = [i \in Blocks |-> IF i \in Span(a) THEN FREE ELSE entries[i]]
    BY ChainIsSpan DEF Free, MarkFree
<1>3. TypeOK'
    BY <1>1, <1>2 DEF IInv, TypeOK, FREE, Flags
<1>4. TableEncodesLive'
    <2>1. ASSUME NEW c \in live', NEW i \in Span(c) \cap Blocks
          PROVE  entries'[i] = Mark(c.start, c.len, i)
        <3>1. c \in live /\ i \notin Span(a)
            BY <1>1, <2>1 DEF IInv, LiveDisjoint
        <3>2. QED
            BY <1>2, <2>1, <3>1 DEF IInv, TableEncodesLive
    <2>2. ASSUME NEW i \in Blocks, \A c \in live' : i \notin Span(c)
          PROVE  entries'[i] = FREE
        BY <1>1, <1>2, <2>2 DEF IInv, TableEncodesLive
    <2>3. QED
        BY <2>1, <2>2 DEF TableEncodesLive, Span, Mark, FREE, Blocks
<1>5. QED
    BY <1>1, <1>3, <1>4 DEF IInv, LiveDisjoint, Span

\* The inductive invariant holds from heap_create on, whatever callers ask for
\* and free, as long as they ask for at least one block.
LEMMA HeapInductive == ASSUME RealRequests PROVE Spec => []IInv
<1>1. Init => IInv
    BY DEF Init, IInv, TypeOK, TableEncodesLive, LiveDisjoint, FREE, Flags
<1>2. ASSUME IInv, [Next]_vars PROVE IInv'
    <2>1. ASSUME NEW size \in Sizes, Malloc(size) PROVE IInv'
        BY <1>2, <2>1, MallocPreserves DEF RealRequests
    <2>2. ASSUME NEW a \in live, Free(a) PROVE IInv'
        BY <1>2, <2>2, FreePreserves
    <2>3. CASE UNCHANGED vars
        BY <1>2, <2>3 DEF vars, IInv, TypeOK, TableEncodesLive, LiveDisjoint, Span
    <2>4. ASSUME NEW size \in Sizes, MallocFail(size) PROVE IInv'
        BY <2>3, <2>4 DEF MallocFail
    <2>5. QED
        BY <1>2, <2>1, <2>2, <2>3, <2>4 DEF Next
<1>3. QED
    BY <1>1, <1>2, PTL DEF Spec

-----------------------------------------------------------------------------
\* The heap's types, for heap_create, heap_malloc and heap_free.
THEOREM HeapTypes == RealRequests => (Spec => []TypeOK)
<1>1. IInv => TypeOK
    BY DEF IInv
<1>2. SUFFICES ASSUME RealRequests PROVE Spec => []TypeOK
    OBVIOUS
<1>3. QED
    BY <1>1, <1>2, HeapInductive, PTL

\* The table the three operations keep records what is outstanding, exactly.
THEOREM HeapTable == RealRequests => (Spec => []TableEncodesLive)
<1>1. IInv => TableEncodesLive
    BY DEF IInv
<1>2. SUFFICES ASSUME RealRequests PROVE Spec => []TableEncodesLive
    OBVIOUS
<1>3. QED
    BY <1>1, <1>2, HeapInductive, PTL

\* heap_malloc gives no block to two callers.
THEOREM HeapDisjoint == RealRequests => (Spec => []LiveDisjoint)
<1>1. IInv => LiveDisjoint
    BY DEF IInv
<1>2. SUFFICES ASSUME RealRequests PROVE Spec => []LiveDisjoint
    OBVIOUS
<1>3. QED
    BY <1>1, <1>2, HeapInductive, PTL

\* heap_free clears the blocks of the allocation it is given and no others.
THEOREM HeapFreeExact == RealRequests => (Spec => FreeReleasesExactly)
<1> DEFINE Exact == \A a \in live \ live' :
                        \A i \in Blocks : entries'[i] # entries[i] <=> i \in Span(a)
<1>1. SUFFICES ASSUME RealRequests PROVE Spec => [][Exact]_vars
    BY DEF FreeReleasesExactly
<1>2. ASSUME IInv, [Next]_vars PROVE [Exact]_vars
    <2>1. ASSUME NEW a \in live, Free(a) PROVE Exact
        <3>1. live \ live' = {a}
            BY <2>1 DEF Free
        <3>2. \A i \in Blocks : entries'[i] = IF i \in Span(a) THEN FREE ELSE entries[i]
            BY <1>2, <2>1, ChainIsSpan DEF Free, MarkFree
        <3>3. \A i \in Blocks : i \in Span(a) => entries[i] # FREE
            BY <1>2, OwnedBlocksTaken DEF IInv, IsFree, FREE
        <3>4. QED
            BY <3>1, <3>2, <3>3
    <2>2. ASSUME NEW size \in Sizes, Malloc(size) PROVE Exact
        BY <2>2 DEF Malloc, MallocAt
    <2>3. QED
        BY <1>2, <2>1, <2>2 DEF Next, MallocFail
<1>3. QED
    BY <1>1, <1>2, HeapInductive, PTL DEF Spec

\* heap_malloc leaves the pool only when no run of free blocks is long enough.
THEOREM HeapFits == RealRequests => (Spec => FitsWhenItCan)
<1> DEFINE Fits ==
        \A a \in live' \ live :
            (\E s \in Blocks : s + a.len <= Total /\ \A i \in s .. s + a.len - 1 : entries[i] = FREE)
                => a.start + a.len <= Total
<1>1. SUFFICES ASSUME RealRequests PROVE Spec => [][Fits]_vars
    BY DEF FitsWhenItCan
<1>2. ASSUME [Next]_vars PROVE [Fits]_vars
    <2>1. ASSUME NEW size \in Sizes, Malloc(size) PROVE Fits
        <3> DEFINE n == BlocksFor(size)
        <3>1. n \in Nat /\ n > 0
            BY <1>1, BlocksForNat DEF RealRequests
        <3>2. PICK s \in StartBlocks(n) : live' = live \cup {[start |-> s, len |-> n]}
            BY <2>1 DEF Malloc, MallocAt
        <3> HIDE DEF n
        <3>3. ASSUME NEW t \in Blocks, t + n <= Total, \A i \in t .. t + n - 1 : entries[i] = FREE
              PROVE  s + n <= Total
            <4>1. t \in FreeRuns(n)
                BY <3>1, <3>3 DEF FreeRuns, IsFree, FREE
            <4>2. s \in FreeRuns(n)
                BY <3>2, <4>1 DEF StartBlocks, StartCandidates
            <4>3. QED
                BY <4>2 DEF FreeRuns
        <3>4. QED
            BY <3>2, <3>3
    <2>2. ASSUME NEW a \in live, Free(a) PROVE Fits
        BY <2>2 DEF Free
    <2>3. QED
        BY <1>2, <2>1, <2>2 DEF Next, MallocFail
<1>3. QED
    BY <1>1, <1>2, PTL DEF Spec

\* The block table implements the allocator callers are promised.
THEOREM HeapImplementsAllocator == RealRequests => (Spec => AllocatorSpec)
<1>1. SUFFICES ASSUME RealRequests PROVE Spec => AllocatorSpec
    OBVIOUS
<1>2. Init => Promise!Init
    BY DEF Init, Promise!Init
<1>3. ASSUME IInv, [Next]_vars PROVE [Promise!Next]_live
    <2>1. ASSUME NEW size \in Sizes, Malloc(size) PROVE Promise!Next
        <3> DEFINE n == BlocksFor(size)
        <3>1. n \in Nat /\ n > 0
            BY <1>1, BlocksForNat DEF RealRequests
        <3>2. PICK s \in StartBlocks(n) : live' = live \cup {[start |-> s, len |-> n]}
            BY <2>1 DEF Malloc, MallocAt
        <3>3. s \in Blocks
            BY <3>1, <3>2, ClaimedBlocksFree
        <3>4. \A a \in live : Span(a) \cap Span([start |-> s, len |-> n]) = {}
            BY <1>3, <3>1, <3>2, MallocFresh
        <3>5. Promise!Alloc([start |-> s, len |-> n])
            BY <3>2, <3>4 DEF Promise!Alloc, Promise!Span, Span
        <3>6. QED
            BY <3>3, <3>5 DEF Promise!Next
    <2>2. ASSUME NEW a \in live, Free(a) PROVE Promise!Next
        BY <2>2 DEF Free, Promise!Next, Promise!Release
    <2>3. QED
        BY <1>3, <2>1, <2>2 DEF Next, MallocFail, vars
<1>4. QED
    BY <1>1, <1>2, <1>3, HeapInductive, PTL DEF Spec, AllocatorSpec, Promise!Spec

-----------------------------------------------------------------------------
(***************************************************************************)
(* The memory of processes.                                                *)
(***************************************************************************)

\* The places where a process keeps a piece of memory: the entries of its
\* allocations array, its image, its stack, and what sys_malloc has in hand.
ImagePlace == MaxAllocations
StackPlace == MaxAllocations + 1
HandPlace == MaxAllocations + 2
Places == 0 .. MaxAllocations + 2
At(p, x) ==
    IF x = ImagePlace THEN image[p]
    ELSE IF x = StackPlace THEN stack[p]
    ELSE IF x = HandPlace THEN InHand(p) ELSE allocations[p][x]

\* The allocation of the heap a piece is.
BlocksOf(piece) == [start |-> piece.ptr, len |-> BlocksFor(piece.size)]

\* Every piece in the books is an outstanding allocation.
PiecesLive ==
    \A p \in Proc, x \in Places : At(p, x).ptr # NoPtr => BlocksOf(At(p, x)) \in live

\* Every outstanding allocation is in the books.
NothingLeaked ==
    \A a \in live : \E p \in Proc, x \in Places : At(p, x).ptr # NoPtr /\ a = BlocksOf(At(p, x))

\* No allocation is in the books twice.
PlacesDistinct ==
    \A p, q \in Proc, x, y \in Places :
        At(p, x).ptr # NoPtr /\ At(p, x).ptr = At(q, y).ptr => p = q /\ x = y

Books == PiecesLive /\ NothingLeaked /\ PlacesDistinct

\* What a load has in the books at each of its steps, and an exit still has.
Only(p, kept) == \A x \in Places \ kept : At(p, x).ptr = NoPtr
FreedBelow(p, n) == \A x \in Places : x < n => At(p, x).ptr = NoPtr

\* A file is in an image of its length; only a short one lies below the heap.
ImageSound(p) ==
    /\ program[p] \in Programs /\ image[p].size = program[p].size
    /\ image[p].ptr = NoPtr => image[p].size <= LowMemory

CallSound ==
    /\ call.op \in {"not_elf", "load"} => ImageSound(call.p) /\ Only(call.p, {ImagePlace})
    /\ call.op = "flat" => program[call.p] \in Programs /\ Only(call.p, {})
    /\ call.op = "loaded" =>
          /\ ImageSound(call.p) /\ Only(call.p, {ImagePlace, StackPlace})
          /\ stack[call.p].ptr # NoPtr /\ stack[call.p].size = StackSize
    /\ call.op = "free" => FreedBelow(call.p, call.i)
    /\ call.op = "stack" => Only(call.p, {StackPlace})
PhasesSound ==
    /\ Busy \subseteq Proc \ running
    /\ \A p \in Proc \ (running \cup Busy) : Only(p, {})
    /\ \A p \in running : ImageSound(p)
    /\ CallSound

\* What user mode may write is a page of an allocation, at its own address, or a
\* page the program was loaded into.
LoadedPages(p) == PagesOf(image[p]) \cup PagesOf(stack[p]) \cup Overrun(p) \cup 0 .. HeapStart - 1
TableSound(p) ==
    \A v \in Pages : table[p][v].writable =>
        \/ table[p][v].page = v /\ \E i \in Index : v \in PagesOf(allocations[p][i])
        \/ table[p][v].page \in LoadedPages(p)
TablesSound == \A p \in running : TableSound(p)

\* The inductive invariant.
MemInv ==
    /\ IInv
    /\ MemTypeOK
    /\ Books
    /\ PhasesSound
    /\ TablesSound
-----------------------------------------------------------------------------
LEMMA NoPtrIsNoBlock ==
    /\ NoPtr \in Int /\ NoPtr \notin Blocks /\ NoPtr < 0 /\ Blocks \subseteq Nat
    /\ HeapStart \in Nat \ {0} /\ HeapStart + NoPtr = 0
BY ProcessMemoryAssumption, HeapAssumption DEF NoPtr, Blocks

LEMMA PlacesSplit ==
    /\ ImagePlace \in Places /\ StackPlace \in Places /\ HandPlace \in Places
    /\ ImagePlace # StackPlace /\ ImagePlace # HandPlace /\ StackPlace # HandPlace
    /\ Index \subseteq Places
    /\ ImagePlace \notin Index /\ StackPlace \notin Index /\ HandPlace \notin Index
    /\ \A x \in Places : x \in Index \/ x = ImagePlace \/ x = StackPlace \/ x = HandPlace
    /\ \A i \in Index : i \in Nat
BY ProcessMemoryAssumption DEF ImagePlace, StackPlace, HandPlace, Places, Index

LEMMA NothingTyped == Nothing \in Pieces /\ Nothing.ptr = NoPtr /\ PagesOf(Nothing) = {}
BY DEF Nothing, Pieces, PagesOf

LEMMA AtPlaces ==
    ASSUME NEW p \in Proc
    PROVE  /\ At(p, ImagePlace) = image[p] /\ At(p, StackPlace) = stack[p]
           /\ At(p, HandPlace) = InHand(p)
           /\ \A i \in Index : At(p, i) = allocations[p][i]
BY PlacesSplit DEF At

\* What is read of a handler in progress.
LEMMA CallTyped ==
    ASSUME MemTypeOK
    PROVE  /\ call = Idle \/ call.op = "wild" => Busy = {} /\ call.op # "give_back"
           /\ call.op \in LoadOps \cup {"stack"} =>
                /\ call.p \in Proc /\ Busy = {call.p}
                /\ call = [op |-> call.op, p |-> call.p]
           /\ call.op = "free" =>
                /\ call.p \in Proc /\ Busy = {call.p} /\ call.i \in 0 .. MaxAllocations
                /\ call = [op |-> "free", p |-> call.p, i |-> call.i]
           /\ call.op = "give_back" => call.p \in Proc /\ Busy = {} /\ call.piece \in Pieces
           /\ call.op # "give_back" => \A p \in Proc : InHand(p) = Nothing
           /\ \A p \in Proc : InHand(p) \in Pieces
<1>1. \/ call = Idle
      \/ call = [op |-> "wild"]
      \/ call \in [op : LoadOps \cup {"stack"}, p : Proc]
      \/ call \in [op : {"give_back"}, p : Proc, piece : Pieces]
      \/ call \in [op : {"free"}, p : Proc, i : 0 .. MaxAllocations]
    BY DEF MemTypeOK
<1>2. QED
    BY <1>1, NothingTyped DEF Idle, Busy, LoadOps, InHand

LEMMA AtTyped == ASSUME MemTypeOK, NEW p \in Proc, NEW x \in Places PROVE At(p, x) \in Pieces
BY PlacesSplit, CallTyped DEF At, MemTypeOK

\* Places of a process whose variables a step leaves as they were.
LEMMA AtKept ==
    ASSUME NEW q \in Proc, NEW x \in Places,
           x = ImagePlace => image'[q] = image[q],
           x = StackPlace => stack'[q] = stack[q],
           x = HandPlace => InHand(q)' = InHand(q),
           x \in Index => allocations'[q][x] = allocations[q][x]
    PROVE  At(q, x)' = At(q, x)
BY PlacesSplit DEF At

\* Outstanding allocations that start at one block are one allocation.
LEMMA StartNamesAllocation ==
    ASSUME IInv, NEW a \in live, NEW b \in live, a.start = b.start
    PROVE  a = b
<1>1. a.start \in Blocks /\ a.len \in Nat /\ a.len > 0 /\ b.len \in Nat /\ b.len > 0
    BY DEF IInv, TypeOK
<1>2. a.start \in Span(a) \cap Span(b)
    BY <1>1, HeapAssumption DEF Span, Blocks
<1>3. QED
    BY <1>2 DEF IInv, LiveDisjoint

-----------------------------------------------------------------------------
\* A place a step leaves as it was, or empty.
Undisturbed(p, x) ==
    At(p, x)' = At(p, x) \/ (At(p, x).ptr = NoPtr /\ At(p, x)'.ptr = NoPtr)

LEMMA BooksKept ==
    ASSUME Books, live' = live, \A p \in Proc, x \in Places : Undisturbed(p, x)
    PROVE  Books'
<1>1. PiecesLive' /\ NothingLeaked' /\ PlacesDistinct'
    BY DEF Books, PiecesLive, NothingLeaked, PlacesDistinct, Undisturbed, BlocksOf
<1>2. QED
    BY <1>1 DEF Books

\* A piece that is allocated goes to an empty place.
LEMMA BooksGain ==
    ASSUME Books, NEW q \in Proc, NEW y \in Places,
           At(q, y).ptr = NoPtr, At(q, y)'.ptr # NoPtr,
           \A a \in live : a.start # At(q, y)'.ptr,
           live' = live \cup {BlocksOf(At(q, y)')},
           \A p \in Proc, x \in Places : p # q \/ x # y => Undisturbed(p, x)
    PROVE  Books'
<1>1. \A p \in Proc, x \in Places :
          At(p, x)'.ptr # NoPtr /\ (p # q \/ x # y) =>
              /\ At(p, x)' = At(p, x) /\ BlocksOf(At(p, x)) \in live
              /\ At(p, x).ptr # At(q, y)'.ptr
    BY DEF Books, PiecesLive, Undisturbed, BlocksOf
<1>2. PiecesLive'
    BY <1>1 DEF PiecesLive, BlocksOf
<1>3. NothingLeaked'
    <2>1. ASSUME NEW a \in live'
          PROVE  \E p \in Proc, x \in Places : At(p, x)'.ptr # NoPtr /\ a = BlocksOf(At(p, x)')
        <3>1. CASE a \in live
            <4>1. PICK p \in Proc, x \in Places : At(p, x).ptr # NoPtr /\ a = BlocksOf(At(p, x))
                BY <3>1 DEF Books, NothingLeaked
            <4>2. At(p, x)' = At(p, x)
                BY <4>1 DEF Undisturbed
            <4>3. QED
                BY <4>1, <4>2
        <3>2. CASE a = BlocksOf(At(q, y)')
            BY <3>2
        <3>3. QED
            BY <2>1, <3>1, <3>2
    <2>2. QED
        BY <2>1 DEF NothingLeaked, BlocksOf
<1>4. PlacesDistinct'
    BY <1>1 DEF PlacesDistinct, Books
<1>5. QED
    BY <1>2, <1>3, <1>4 DEF Books

\* A piece that is freed leaves its place, the only one it had.
LEMMA BooksLose ==
    ASSUME Books, IInv, NEW q \in Proc, NEW y \in Places,
           At(q, y).ptr # NoPtr, At(q, y)'.ptr = NoPtr,
           live' = live \ {BlocksOf(At(q, y))},
           \A p \in Proc, x \in Places : p # q \/ x # y => Undisturbed(p, x)
    PROVE  Books'
<1>1. \A p \in Proc, x \in Places :
          At(p, x)'.ptr # NoPtr =>
              /\ p # q \/ x # y
              /\ At(p, x)' = At(p, x) /\ BlocksOf(At(p, x)) \in live
              /\ At(p, x).ptr # At(q, y).ptr
    BY DEF Books, PiecesLive, PlacesDistinct, Undisturbed
<1>2. PiecesLive'
    BY <1>1 DEF PiecesLive, BlocksOf
<1>3. NothingLeaked'
    <2>1. ASSUME NEW a \in live'
          PROVE  \E p \in Proc, x \in Places : At(p, x)'.ptr # NoPtr /\ a = BlocksOf(At(p, x)')
        <3>1. PICK p \in Proc, x \in Places : At(p, x).ptr # NoPtr /\ a = BlocksOf(At(p, x))
            BY <2>1 DEF Books, NothingLeaked
        <3>2. p # q \/ x # y
            BY <2>1, <3>1
        <3>3. At(p, x)' = At(p, x)
            BY <3>1, <3>2 DEF Undisturbed
        <3>4. QED
            BY <3>1, <3>3
    <2>2. QED
        BY <2>1 DEF NothingLeaked, BlocksOf
<1>4. PlacesDistinct'
    BY <1>1 DEF PlacesDistinct, Books
<1>5. QED
    BY <1>2, <1>3, <1>4 DEF Books

\* kmalloc gives a block nobody has.
LEMMA MallocAtNew ==
    ASSUME IInv, NEW size \in Sizes, BlocksFor(size) > 0, NEW s \in Blocks, MallocAt(s, size)
    PROVE  /\ IInv' /\ s # NoPtr
           /\ live' = live \cup {[start |-> s, len |-> BlocksFor(size)]}
           /\ \A a \in live : a.start # s
<1> DEFINE n == BlocksFor(size)
<1>1. n \in Nat /\ n > 0 /\ s \in StartBlocks(n)
    BY BlocksForNat DEF MallocAt
<1>2. IInv'
    BY <1>1, MallocPreserves DEF Malloc
<1>3. ASSUME NEW a \in live, a.start = s PROVE FALSE
    <2> HIDE DEF n
    <2>1. a.start \in Int /\ a.len \in Nat /\ a.len > 0
        BY HeapAssumption DEF IInv, TypeOK, Blocks
    <2>2. s \in Span(a) /\ s \in Span([start |-> s, len |-> n])
        BY <1>1, <1>3, <2>1 DEF Span
    <2>3. QED
        BY <1>1, <2>2, MallocFresh
<1>4. QED
    BY <1>2, <1>3, NoPtrIsNoBlock DEF MallocAt

\* kfree of an outstanding pointer releases the allocation it was given for.
LEMMA KFreeHeld ==
    ASSUME IInv, NEW a \in live, KFree(a.start)
    PROVE  IInv' /\ live' = live \ {a}
<1>1. a.start \in Blocks
    BY DEF IInv, TypeOK
<1>2. MarkFree(a.start) /\ live' = {b \in live : b.start # a.start}
    BY <1>1, NoPtrIsNoBlock DEF KFree
<1>3. live' = live \ {a}
    BY <1>2, StartNamesAllocation
<1>4. QED
    BY <1>2, <1>3, FreePreserves DEF Free

LEMMA HeapKept == ASSUME IInv, UNCHANGED <<entries, live>> PROVE IInv'
BY DEF IInv, TypeOK, TableEncodesLive, LiveDisjoint, Span, IsFree

\* The image and the stack go the same way: a piece that is there is released.
LEMMA PlaceEmptied ==
    ASSUME MemInv, NEW p \in Proc, NEW y \in Places, KFree(At(p, y).ptr), At(p, y)' = Nothing,
           \A q \in Proc, x \in Places : q # p \/ x # y => At(q, x)' = At(q, x)
    PROVE  Books' /\ IInv'
<1>1. \A q \in Proc, x \in Places : q # p \/ x # y => Undisturbed(q, x)
    BY DEF Undisturbed
<1>2. CASE At(p, y).ptr = NoPtr
    <2>1. UNCHANGED <<entries, live>>
        BY <1>2 DEF KFree, vars
    <2>2. Undisturbed(p, y)
        BY <1>2, NothingTyped DEF Undisturbed
    <2>3. QED
        BY <1>1, <2>1, <2>2, BooksKept, HeapKept DEF MemInv
<1>3. CASE At(p, y).ptr # NoPtr
    <2>1. BlocksOf(At(p, y)) \in live /\ BlocksOf(At(p, y)).start = At(p, y).ptr
        BY <1>3 DEF MemInv, Books, PiecesLive, BlocksOf
    <2>2. IInv' /\ live' = live \ {BlocksOf(At(p, y))}
        BY <2>1, KFreeHeld DEF MemInv
    <2>3. QED
        BY <1>1, <1>3, <2>2, BooksLose, NothingTyped DEF MemInv
<1>4. QED
    BY <1>2, <1>3

-----------------------------------------------------------------------------
(***************************************************************************)
(* Pages: multiples of BlockSize.                                          *)
(***************************************************************************)
LEMMA MultipleOrder ==
    ASSUME NEW j \in Int, NEW k \in Int, j * BlockSize < k * BlockSize
    PROVE  j < k
<1>1. BlockSize \in Nat \ {0}
    BY HeapAssumption
<1>2. j >= k => j * BlockSize >= k * BlockSize
    BY <1>1
<1>3. QED
    BY <1>1, <1>2

LEMMA MultipleDiv ==
    ASSUME NEW k \in Int, NEW r \in 0 .. BlockSize - 1
    PROVE  (k * BlockSize + r) \div BlockSize = k /\ (k * BlockSize + r) % BlockSize = r
<1> DEFINE a == k * BlockSize + r  q == a \div BlockSize
<1>1. BlockSize \in Nat \ {0} /\ a \in Int
    BY HeapAssumption
<1>2. q \in Int /\ a % BlockSize \in 0 .. BlockSize - 1 /\ a = q * BlockSize + (a % BlockSize)
    BY <1>1
<1> HIDE DEF q
<1>3. q * BlockSize < (k + 1) * BlockSize /\ k * BlockSize < (q + 1) * BlockSize
    BY <1>1, <1>2
<1>4. q < k + 1 /\ k < q + 1
    BY <1>2, <1>3, MultipleOrder
<1>5. q = k
    BY <1>2, <1>4
<1>6. QED
    BY <1>1, <1>2, <1>5 DEF q

LEMMA LowerPageIs ==
    ASSUME NEW a \in Int
    PROVE  /\ a \div BlockSize \in Int /\ a % BlockSize \in 0 .. BlockSize - 1
           /\ a = (a \div BlockSize) * BlockSize + (a % BlockSize)
           /\ LowerPage(a) = (a \div BlockSize) * BlockSize
BY HeapAssumption DEF LowerPage

\* Rounded up, an address is the next multiple.
LEMMA PageUpIs ==
    ASSUME NEW a \in Int
    PROVE  \E k \in Int : PageUp(a) = k * BlockSize /\ a <= PageUp(a) /\ PageUp(a) < a + BlockSize
<1> DEFINE q == a \div BlockSize  r == a % BlockSize
<1>1. BlockSize \in Nat \ {0} /\ q \in Int /\ r \in 0 .. BlockSize - 1 /\ a = q * BlockSize + r
    BY LowerPageIs, HeapAssumption
<1> HIDE DEF q
<1>2. CASE r = 0
    BY <1>1, <1>2 DEF PageUp
<1>3. CASE r # 0
    <2>1. PageUp(a) = a + BlockSize - r
        BY <1>3 DEF PageUp
    <2> HIDE DEF r
    <2>2. PageUp(a) = (q + 1) * BlockSize /\ a <= PageUp(a) /\ PageUp(a) < a + BlockSize
        BY <1>1, <1>3, <2>1
    <2>3. q + 1 \in Int
        BY <1>1
    <2>4. QED
        BY <2>2, <2>3
<1>4. QED
    BY <1>2, <1>3

LEMMA PageUpShift ==
    ASSUME NEW a \in Int, NEW j \in Int
    PROVE  PageUp(a + j * BlockSize) = PageUp(a) + j * BlockSize
<1> DEFINE q == a \div BlockSize  r == a % BlockSize  b == a + j * BlockSize
<1>1. q \in Int /\ r \in 0 .. BlockSize - 1 /\ a = q * BlockSize + r /\ BlockSize \in Nat \ {0}
    BY LowerPageIs, HeapAssumption
<1>2. b % BlockSize = r
    <2> HIDE DEF q, r
    <2>1. b = (q + j) * BlockSize + r /\ q + j \in Int
        BY <1>1
    <2> HIDE DEF b
    <2>2. QED
        BY <1>1, <2>1, MultipleDiv
<1>3. QED
    BY <1>1, <1>2 DEF PageUp

-----------------------------------------------------------------------------
(***************************************************************************)
(* Page tables.                                                            *)
(***************************************************************************)
LEMMA PagesAreNat == Pages \subseteq Nat /\ WordSize \div BlockSize \in Int /\ BlockSize \in Nat \ {0}
BY HeapAssumption DEF Pages

LEMMA WriteTyped ==
    ASSUME NEW t \in [Pages -> Entry], NEW map, \A v \in DOMAIN map \cap Pages : map[v] \in Entry
    PROVE  Write(t, map) \in [Pages -> Entry]
BY DEF Write

\* Pages mapped at their own address, to be written or not to be written.
LEMMA IdentityWrites ==
    ASSUME NEW t \in [Pages -> Entry], NEW pages
    PROVE  /\ Write(t, Identity(pages, TRUE)) \in [Pages -> Entry]
           /\ \A v \in Pages \cap pages : Write(t, Identity(pages, TRUE))[v].page = v
           /\ \A v \in Pages \ pages : Write(t, Identity(pages, TRUE))[v] = t[v]
<1>1. DOMAIN Identity(pages, TRUE) = pages
    BY DEF Identity
<1>2. \A v \in pages : Identity(pages, TRUE)[v].page = v
    BY DEF Identity
<1>3. \A v \in pages \cap Pages : Identity(pages, TRUE)[v] \in Entry
    BY PagesAreNat DEF Entry, Identity
<1>4. Write(t, Identity(pages, TRUE)) \in [Pages -> Entry]
    BY <1>1, <1>3, WriteTyped
<1>5. QED
    BY <1>1, <1>2, <1>4 DEF Write

LEMMA IdentityClears ==
    ASSUME NEW t \in [Pages -> Entry], NEW pages
    PROVE  /\ Write(t, Identity(pages, FALSE)) \in [Pages -> Entry]
           /\ \A v \in Pages \cap pages : ~Write(t, Identity(pages, FALSE))[v].writable
           /\ \A v \in Pages \ pages : Write(t, Identity(pages, FALSE))[v] = t[v]
<1>1. DOMAIN Identity(pages, FALSE) = pages
    BY DEF Identity
<1>2. \A v \in pages : ~Identity(pages, FALSE)[v].writable
    BY DEF Identity
<1>3. \A v \in pages \cap Pages : Identity(pages, FALSE)[v] \in Entry
    BY PagesAreNat DEF Entry, Identity
<1>4. Write(t, Identity(pages, FALSE)) \in [Pages -> Entry]
    BY <1>1, <1>3, WriteTyped
<1>5. QED
    BY <1>1, <1>2, <1>4 DEF Write

LEMMA FreshTyped == Fresh \in [Pages -> Entry]
BY PagesAreNat DEF Fresh, Entry

LEMMA SizesAreNat == \A size \in Sizes : size \in Nat
BY HeapAssumption

LEMMA PieceBlocks == ASSUME NEW piece \in Pieces PROVE BlocksFor(piece.size) \in Nat
<1>1. CASE piece.size \in Sizes
    BY <1>1, BlocksForNat
<1>2. CASE piece.size = 0
    <2>1. 0 % BlockSize = 0 /\ 0 \div BlockSize = 0
        BY HeapAssumption
    <2>2. QED
        BY <1>2, <2>1 DEF BlocksFor, AlignUp
<1>3. QED
    BY <1>1, <1>2 DEF Pieces

\* The pages of a piece the heap gave are pages of the heap, or behind it.
LEMMA PagesOfPiece ==
    ASSUME NEW piece \in Pieces
    PROVE  /\ piece.ptr = NoPtr => PagesOf(piece) = {}
           /\ \A v \in PagesOf(piece) :
                /\ v \in Int /\ v >= HeapStart
                /\ piece.ptr # NoPtr /\ v - HeapStart \in Span(BlocksOf(piece))
<1>1. CASE piece.ptr = NoPtr
    BY <1>1 DEF PagesOf
<1>2. CASE piece.ptr # NoPtr
    <2>1. piece.ptr \in Nat /\ HeapStart \in Nat
        BY <1>2, NoPtrIsNoBlock DEF Pieces
    <2>2. PagesOf(piece) = HeapStart + piece.ptr .. HeapStart + piece.ptr + BlocksFor(piece.size) - 1
        BY <1>2 DEF PagesOf
    <2>3. ASSUME NEW v \in PagesOf(piece) PROVE v \in Int /\ v >= HeapStart + piece.ptr
        BY <2>1, <2>2
    <2>4. ASSUME NEW v \in PagesOf(piece) PROVE v - HeapStart \in Span(BlocksOf(piece))
        BY <2>1, <2>2, PieceBlocks DEF Span, BlocksOf
    <2>5. QED
        BY <1>2, <2>1, <2>3, <2>4
<1>3. QED
    BY <1>1, <1>2

LEMMA LoadedPagesKept ==
    ASSUME NEW p, image'[p] = image[p], stack'[p] = stack[p], program'[p] = program[p]
    PROVE  LoadedPages(p)' = LoadedPages(p)
<1>1. ImageMap(p)' = ImageMap(p)
    BY DEF ImageMap, Segments, IsElf, SegmentMap
<1>2. Overrun(p)' = Overrun(p)
    BY <1>1 DEF Overrun, ImageEnd
<1>3. QED
    BY <1>2 DEF LoadedPages, PagesOf

\* A step that leaves alone what a running process has keeps its table sound.
LEMMA TableKept ==
    ASSUME NEW p, TableSound(p), table'[p] = table[p], allocations'[p] = allocations[p],
           image'[p] = image[p], stack'[p] = stack[p], program'[p] = program[p]
    PROVE  TableSound(p)'
<1>1. LoadedPages(p)' = LoadedPages(p)
    BY LoadedPagesKept
<1>2. \A i \in Index : PagesOf(allocations[p][i])' = PagesOf(allocations[p][i])
    BY DEF PagesOf
<1>3. QED
    BY <1>1, <1>2 DEF TableSound

LEMMA TablesKept ==
    ASSUME MemInv, running' \subseteq running,
           \A p \in running' : /\ table'[p] = table[p] /\ allocations'[p] = allocations[p]
                               /\ image'[p] = image[p] /\ stack'[p] = stack[p]
                               /\ program'[p] = program[p]
    PROVE  TablesSound'
<1>1. ASSUME NEW p \in running' PROVE TableSound(p)'
    BY <1>1, TableKept DEF MemInv, TablesSound
<1>2. QED
    BY <1>1 DEF TablesSound

-----------------------------------------------------------------------------
(***************************************************************************)
(* The steps of a load.                                                    *)
(***************************************************************************)
\* The last of the segments that name a page.
LEMMA LastOf ==
    ASSUME NEW n \in Nat, NEW T \in SUBSET (1 .. n), T # {}
    PROVE  Max(T) \in T
<1> DEFINE Less == OpToRel(<, Nat)
           From == {n - i : i \in T}
<1>1. IsWellFoundedOn(Less, Nat)
    BY NatLessThanWellFounded
<1>2. \A x, y \in Nat : <<y, x>> \in Less <=> y < x
    BY DEF OpToRel
<1> HIDE DEF Less
<1>3. From \subseteq Nat /\ From # {}
    <2>1. \A i \in T : n - i \in Nat
        OBVIOUS
    <2>2. QED
        BY <2>1
<1>4. PICK x \in From : \A y \in From : ~(<<y, x>> \in Less)
    BY <1>1, <1>3, WFMin
<1>5. PICK i \in T : x = n - i
    BY <1>4
<1>6. ASSUME NEW j \in T PROVE i >= j
    <2>1. n - j \in From /\ n - j \in Nat /\ n - i \in Nat
        OBVIOUS
    <2>2. ~(n - j < n - i)
        BY <1>2, <1>4, <1>5, <2>1, Zenon
    <2>3. QED
        BY <2>2
<1>7. QED
    BY <1>6 DEF Max

\* A segment is mapped from the start of the image upwards.
LEMMA SegmentAbove ==
    ASSUME NEW s \in Segment, NEW ptr \in Blocks \cup {NoPtr}
    PROVE  /\ DOMAIN SegmentMap(ptr, s) \subseteq Int
           /\ \A v \in DOMAIN SegmentMap(ptr, s) :
                  SegmentMap(ptr, s)[v] \in Int /\ SegmentMap(ptr, s)[v] >= HeapStart + ptr
<1> DEFINE phys == Address(ptr) + s.offset
           first == LowerPage(s.vaddr) \div BlockSize
           base0 == phys \div BlockSize
           base == LowerPage(phys) \div BlockSize
           count == (PageUp(phys + s.memsz) - LowerPage(phys)) \div BlockSize
<1>1. BlockSize \in Nat \ {0} /\ s.offset \in Nat /\ s.vaddr \in Nat /\ s.memsz \in Nat
    BY HeapAssumption DEF Segment
<1>2. HeapStart + ptr \in Nat
    BY NoPtrIsNoBlock
<1>3. Address(ptr) = (HeapStart + ptr) * BlockSize /\ phys \in Nat
    BY <1>1, <1>2 DEF Address
<1>4. base0 \in Int /\ base0 >= HeapStart + ptr
    <2> DEFINE q == s.offset \div BlockSize  r == s.offset % BlockSize  b == HeapStart + ptr
    <2>1. q \in Nat /\ r \in 0 .. BlockSize - 1 /\ s.offset = q * BlockSize + r
        <3>1. q \in Int /\ r \in 0 .. BlockSize - 1 /\ s.offset = q * BlockSize + r
            <4>1. s.offset \in Int
                BY <1>1
            <4>2. QED
                BY <4>1, LowerPageIs
        <3> HIDE DEF q, r
        <3>2. 0 * BlockSize < (q + 1) * BlockSize
            BY <1>1, <3>1
        <3>3. 0 < q + 1
            BY <3>1, <3>2, MultipleOrder
        <3>4. QED
            BY <3>1, <3>3
    <2>2. b \in Int
        BY <1>2
    <2>3. phys = (b + q) * BlockSize + r
        <3> HIDE DEF q, r, b, phys
        <3>1. phys = b * BlockSize + s.offset
            BY <1>3 DEF b, phys
        <3>2. QED
            BY <1>1, <2>1, <2>2, <3>1
    <2>4. base0 = b + q
        <3> HIDE DEF q, r, b
        <3>1. b + q \in Int
            BY <2>1, <2>2
        <3>2. QED
            BY <2>1, <2>3, <3>1, MultipleDiv
    <2>5. QED
        BY <1>2, <2>1, <2>4
<1>5. base \in Int /\ base >= HeapStart + ptr
    <2>1. phys \in Int
        BY <1>3
    <2>2. LowerPage(phys) = base0 * BlockSize
        BY <2>1, LowerPageIs
    <2> HIDE DEF base0
    <2>3. base0 * BlockSize = base0 * BlockSize + 0 /\ 0 \in 0 .. BlockSize - 1
        BY <1>1, <1>4
    <2>4. (base0 * BlockSize + 0) \div BlockSize = base0
        BY <1>4, <2>3, MultipleDiv
    <2>5. base = base0
        BY <2>2, <2>3, <2>4
    <2>6. QED
        BY <1>4, <2>5
<1>6. first \in Int
    BY <1>1 DEF LowerPage
<1>7. SegmentMap(ptr, s) = [v \in first .. first + count - 1 |-> base + v - first]
    BY DEF SegmentMap, MapTo
<1> HIDE DEF first, base, count
<1>8. first .. first + count - 1 \subseteq {v \in Int : v >= first}
    BY <1>6
<1>9. QED
    BY <1>2, <1>5, <1>6, <1>7, <1>8

\* The entries of a program's segments begin where its image does.
LEMMA ImageMapAbove ==
    ASSUME NEW p, program[p] \in Programs, image[p].ptr \in Blocks \cup {NoPtr}
    PROVE  \A v \in DOMAIN ImageMap(p) :
               ImageMap(p)[v] \in Entry /\ ImageMap(p)[v].page >= HeapStart + image[p].ptr
<1> DEFINE segs == Segments(program[p])
           map == [i \in DOMAIN segs |-> SegmentMap(image[p].ptr, segs[i])]
           last(v) == Max({i \in DOMAIN map : v \in DOMAIN map[i]})
           pages == UNION {DOMAIN map[i] : i \in DOMAIN map}
<1>1. segs \in Seq(Segment)
    <2>1. CASE IsElf(program[p])
        BY <2>1, ProcessMemoryAssumption DEF Segments
    <2>2. CASE ~IsElf(program[p])
        <3> DEFINE f == program[p]
        <3>1. f.size \in Nat /\ ProgramAddress \in Nat
            <4>1. f.size \in Sizes /\ ProgramAddress \in Nat
                BY ProcessMemoryAssumption
            <4> HIDE DEF f
            <4>2. QED
                BY <4>1, SizesAreNat
        <3>2. [vaddr |-> ProgramAddress, offset |-> 0, filesz |-> f.size, memsz |-> f.size,
               writable |-> TRUE] \in Segment
            BY <3>1 DEF Segment
        <3>3. segs = Flat(f.size)
            BY <2>2 DEF Segments
        <3> HIDE DEF segs, f
        <3>4. QED
            BY <3>2, <3>3 DEF Flat
    <2>3. QED
        BY <2>1, <2>2
<1>2. ImageMap(p) = [v \in pages |-> [page |-> map[last(v)][v], writable |-> segs[last(v)].writable]]
    BY DEF ImageMap
<1>3. /\ \A i \in DOMAIN segs : map[i] = SegmentMap(image[p].ptr, segs[i])
      /\ DOMAIN map = DOMAIN segs
    OBVIOUS
<1> HIDE DEF segs, map
<1>4. DOMAIN segs = 1 .. Len(segs) /\ Len(segs) \in Nat
    BY <1>1
<1>5. ASSUME NEW v \in pages PROVE last(v) \in DOMAIN segs /\ v \in DOMAIN map[last(v)]
    <2> DEFINE T == {i \in DOMAIN map : v \in DOMAIN map[i]}
    <2>1. T \in SUBSET (1 .. Len(segs)) /\ T # {}
        BY <1>3, <1>4
    <2>2. Max(T) \in T
        BY <1>4, <2>1, LastOf
    <2>3. QED
        BY <1>3, <2>2
<1>6. ASSUME NEW v \in pages
      PROVE  /\ [page |-> map[last(v)][v], writable |-> segs[last(v)].writable] \in Entry
             /\ map[last(v)][v] >= HeapStart + image[p].ptr
    <2> DEFINE i == last(v)
    <2>1. i \in DOMAIN segs /\ v \in DOMAIN map[i]
        BY <1>5
    <2> HIDE DEF i
    <2>2. segs[i] \in Segment
        BY <1>1, <2>1
    <2>3. map[i][v] \in Int /\ map[i][v] >= HeapStart + image[p].ptr
        BY <1>3, <2>1, <2>2, SegmentAbove
    <2>4. HeapStart + image[p].ptr \in Nat
        BY NoPtrIsNoBlock
    <2>5. [page |-> map[i][v], writable |-> segs[i].writable] \in Entry
        BY <2>2, <2>3, <2>4 DEF Entry, Segment
    <2>6. QED
        BY <2>3, <2>5 DEF i
<1>7. QED
    <2> HIDE DEF last, pages
    <2>1. QED
        BY <1>2, <1>6

\* One process is worked on, the others are as they were.
LEMMA PhasesKept ==
    ASSUME MemInv, NEW p \in Proc,
           Busy \subseteq {p}, Busy' \subseteq {p}, Busy' \cap running' = {},
           running' \ {p} = running \ {p},
           \A q \in Proc \ {p} : image'[q] = image[q] /\ program'[q] = program[q],
           \A q \in Proc \ {p}, x \in Places : At(q, x).ptr = NoPtr => At(q, x)'.ptr = NoPtr,
           p \in running' => ImageSound(p)',
           p \notin running' \cup Busy' => Only(p, {})',
           CallSound'
    PROVE  PhasesSound'
<1>1. \A q \in Proc \ (running' \cup Busy') : Only(q, {})'
    BY DEF MemInv, PhasesSound, Only
<1>2. \A q \in running' : ImageSound(q)'
    BY DEF MemInv, MemTypeOK, PhasesSound, ImageSound
<1>3. QED
    BY <1>1, <1>2 DEF PhasesSound

\* What a file that was read leaves of the process it is for.
LEMMA LoadedRest ==
    ASSUME MemInv, NEW p \in Proc, NEW f \in Programs, NEW ptr \in Blocks \cup {NoPtr},
           Loaded(p, f, ptr), p \notin running, Busy \subseteq {p}, Only(p, {}),
           call.op # "give_back",
           NEW op \in {"not_elf", "load"}, call' = [op |-> op, p |-> p],
           ptr = NoPtr => f.size <= LowMemory,
           allocations' \in [Proc -> [Index -> Pieces]],
           \A i \in Index : allocations'[p][i].ptr = NoPtr,
           \A q \in Proc : q # p => allocations'[q] = allocations[q]
    PROVE  /\ MemTypeOK' /\ PhasesSound' /\ TablesSound'
           /\ At(p, ImagePlace)' = [ptr |-> ptr, size |-> f.size] /\ At(p, ImagePlace).ptr = NoPtr
           /\ \A q \in Proc, x \in Places : q # p \/ x # ImagePlace => Undisturbed(q, x)
<1>1. /\ image'[p] = [ptr |-> ptr, size |-> f.size] /\ program'[p] = f
      /\ \A q \in Proc : q # p => image'[q] = image[q] /\ program'[q] = program[q]
      /\ UNCHANGED <<running, stack, table>>
    BY DEF Loaded, MemInv, MemTypeOK
<1>2. /\ Busy' = {p} /\ call'.op = op /\ call'.p = p /\ \A q \in Proc : InHand(q)' = Nothing
    BY DEF Busy, LoadOps, InHand
<1>3. \A q \in Proc : InHand(q) = Nothing
    BY CallTyped DEF MemInv
<1>4. MemTypeOK'
    <2>1. [ptr |-> ptr, size |-> f.size] \in Pieces
        BY ProcessMemoryAssumption DEF Pieces
    <2>2. call' \in [op : LoadOps \cup {"stack"}, p : Proc]
        BY DEF LoadOps
    <2>3. QED
        BY <1>1, <2>1, <2>2 DEF MemInv, MemTypeOK, Loaded
<1>5. At(p, ImagePlace)' = [ptr |-> ptr, size |-> f.size] /\ At(p, ImagePlace).ptr = NoPtr
    BY <1>1, PlacesSplit DEF At, Only
<1>6. \A q \in Proc, x \in Places : q # p => At(q, x)' = At(q, x)
    BY <1>1, <1>2, <1>3, AtKept
<1>7. \A x \in Places : x # ImagePlace => At(p, x)'.ptr = NoPtr
    <2>1. stack[p].ptr = NoPtr
        BY AtPlaces, PlacesSplit DEF Only
    <2>2. QED
        BY <1>1, <1>2, <2>1, PlacesSplit, NothingTyped DEF At
<1>8. \A q \in Proc, x \in Places : q # p \/ x # ImagePlace => Undisturbed(q, x)
    BY <1>6, <1>7 DEF Undisturbed, Only
<1>9. PhasesSound'
    <2>1. ImageSound(p)'
        BY <1>1 DEF ImageSound
    <2>2. CallSound'
        BY <1>2, <1>7, <2>1 DEF CallSound, Only, ImageSound
    <2>3. QED
        BY <1>1, <1>2, <1>6, <2>1, <2>2, PhasesKept
<1>10. TablesSound'
    BY <1>1, TablesKept DEF MemInv, MemTypeOK
<1>11. QED
    BY <1>4, <1>5, <1>8, <1>9, <1>10

\* The file is read to a block of the heap, or to address 0.
LEMMA LoadedKeeps ==
    ASSUME MemInv, RealRequests, NEW p \in Proc, NEW f \in Programs, NEW ptr \in Blocks \cup {NoPtr},
           \/ ptr \in Blocks /\ MallocAt(ptr, f.size)
           \/ ptr = NoPtr /\ MallocFail(f.size),
           At(p, ImagePlace)' = [ptr |-> ptr, size |-> f.size], At(p, ImagePlace).ptr = NoPtr,
           \A q \in Proc, x \in Places : q # p \/ x # ImagePlace => Undisturbed(q, x)
    PROVE  Books' /\ IInv'
<1>1. f.size \in Sizes /\ BlocksFor(f.size) > 0
    BY ProcessMemoryAssumption DEF RealRequests
<1>2. CASE ptr \in Blocks /\ MallocAt(ptr, f.size)
    <2>1. /\ IInv' /\ ptr # NoPtr /\ \A a \in live : a.start # ptr
          /\ live' = live \cup {[start |-> ptr, len |-> BlocksFor(f.size)]}
        BY <1>1, <1>2, MallocAtNew DEF MemInv
    <2>2. BlocksOf(At(p, ImagePlace)') = [start |-> ptr, len |-> BlocksFor(f.size)]
        BY DEF BlocksOf
    <2>3. QED
        BY <2>1, <2>2, BooksGain, PlacesSplit DEF MemInv
<1>3. CASE ptr = NoPtr /\ MallocFail(f.size)
    <2>1. UNCHANGED <<entries, live>>
        BY <1>3 DEF MallocFail, vars
    <2>2. \A q \in Proc, x \in Places : Undisturbed(q, x)
        BY <1>3 DEF Undisturbed
    <2>3. QED
        BY <2>1, <2>2, BooksKept, HeapKept DEF MemInv
<1>4. QED
    BY <1>2, <1>3

LEMMA ElfLoadKeeps ==
    ASSUME MemInv, RealRequests, NEW p \in Proc, NEW f \in Programs,
           ElfLoad(p, f) \/ ElfLoadLow(p, f)
    PROVE  MemInv'
<1>1. /\ call = Idle /\ p \notin running /\ AsElf(p, f)
      /\ allocations' = [allocations EXCEPT ![p] = [i \in Index |-> Nothing]]
    BY DEF ElfLoad, ElfLoadLow
<1>2. PICK ptr \in Blocks \cup {NoPtr} :
          /\ Loaded(p, f, ptr)
          /\ ptr = NoPtr => f.size <= LowMemory
          /\ \/ ptr \in Blocks /\ MallocAt(ptr, f.size)
             \/ ptr = NoPtr /\ MallocFail(f.size)
    BY NoPtrIsNoBlock DEF ElfLoad, ElfLoadLow
<1>3. Busy = {} /\ call.op # "give_back" /\ Only(p, {})
    BY <1>1, CallTyped DEF MemInv, PhasesSound
<1>4. PICK op \in {"not_elf", "load"} : call' = [op |-> op, p |-> p]
    BY <1>1 DEF AsElf
<1>5. /\ allocations' \in [Proc -> [Index -> Pieces]]
      /\ \A i \in Index : allocations'[p][i].ptr = NoPtr
      /\ \A q \in Proc : q # p => allocations'[q] = allocations[q]
    <2>1. [i \in Index |-> Nothing] \in [Index -> Pieces]
        BY NothingTyped
    <2>2. QED
        BY <1>1, <2>1, NothingTyped DEF MemInv, MemTypeOK
<1>6. /\ MemTypeOK' /\ PhasesSound' /\ TablesSound'
      /\ At(p, ImagePlace)' = [ptr |-> ptr, size |-> f.size] /\ At(p, ImagePlace).ptr = NoPtr
      /\ \A q \in Proc, x \in Places : q # p \/ x # ImagePlace => Undisturbed(q, x)
    BY <1>1, <1>2, <1>3, <1>4, <1>5, LoadedRest
<1>7. Books' /\ IInv'
    BY <1>2, <1>6, LoadedKeeps
<1>8. QED
    BY <1>6, <1>7 DEF MemInv

LEMMA LoadBinaryKeeps ==
    ASSUME MemInv, RealRequests, LoadBinary
    PROVE  MemInv'
<1>1. PICK p \in Proc, f \in Programs :
          /\ call.op = "flat" /\ p = call.p /\ f = program[p] /\ Only(p, {}) /\ Busy = {p}
          /\ p \notin running /\ call = [op |-> "flat", p |-> p]
    BY CallTyped DEF LoadBinary, MemInv, PhasesSound, CallSound, LoadOps
<1>2. PICK ptr \in Blocks : Loaded(p, f, ptr) /\ MallocAt(ptr, f.size)
    BY <1>1 DEF LoadBinary
<1>3. PICK op \in {"not_elf", "load"} : call' = [op |-> op, p |-> p] /\ allocations' = allocations
    BY <1>1 DEF LoadBinary
<1>4. /\ allocations' \in [Proc -> [Index -> Pieces]]
      /\ \A i \in Index : allocations'[p][i].ptr = NoPtr
    BY <1>1, <1>3, AtPlaces, PlacesSplit DEF MemInv, MemTypeOK, Only
<1>5. /\ MemTypeOK' /\ PhasesSound' /\ TablesSound'
      /\ At(p, ImagePlace)' = [ptr |-> ptr, size |-> f.size] /\ At(p, ImagePlace).ptr = NoPtr
      /\ \A q \in Proc, x \in Places : q # p \/ x # ImagePlace => Undisturbed(q, x)
    <2>1. call.op # "give_back" /\ Busy \subseteq {p} /\ p \notin running /\ Only(p, {})
        BY <1>1
    <2>2. ptr # NoPtr /\ ptr \in Blocks \cup {NoPtr}
        BY NoPtrIsNoBlock
    <2>3. \A q \in Proc : q # p => allocations'[q] = allocations[q]
        BY <1>3
    <2>4. QED
        BY <1>2, <1>3, <1>4, <2>1, <2>2, <2>3, LoadedRest
<1>6. Books' /\ IInv'
    BY <1>2, <1>5, LoadedKeeps
<1>7. QED
    BY <1>5, <1>6 DEF MemInv

\* Where a process has an image it has none afterwards, and the rest stays.
LEMMA ImageEmptied ==
    ASSUME MemInv, NEW p \in Proc, KFree(image[p].ptr), image' = [image EXCEPT ![p] = Nothing],
           call.op # "give_back", call'.op # "give_back", UNCHANGED <<allocations, stack>>
    PROVE  /\ Books' /\ IInv' /\ At(p, ImagePlace)' = Nothing
           /\ \A q \in Proc, x \in Places : q # p \/ x # ImagePlace => At(q, x)' = At(q, x)
<1>1. At(p, ImagePlace) = image[p] /\ At(p, ImagePlace)' = Nothing
    BY PlacesSplit DEF At, MemInv, MemTypeOK
<1>2. \A q \in Proc : InHand(q)' = InHand(q)
    BY DEF InHand
<1>3. \A q \in Proc, x \in Places : q # p \/ x # ImagePlace => At(q, x)' = At(q, x)
    BY <1>2, PlacesSplit DEF At, MemInv, MemTypeOK
<1>4. QED
    BY <1>1, <1>3, PlaceEmptied, PlacesSplit

LEMMA NotElfKeeps ==
    ASSUME MemInv, NotElf
    PROVE  MemInv'
<1>1. PICK p \in Proc : /\ call = [op |-> "not_elf", p |-> p] /\ Busy = {p} /\ p \notin running
                        /\ ImageSound(p) /\ Only(p, {ImagePlace})
    BY CallTyped DEF NotElf, MemInv, PhasesSound, CallSound, LoadOps
<1>2. /\ KFree(image[p].ptr) /\ image' = [image EXCEPT ![p] = Nothing]
      /\ call' = [op |-> "flat", p |-> p]
      /\ UNCHANGED <<running, allocations, stack, program, table>>
    BY <1>1 DEF NotElf
<1>3. Busy' = {p} /\ call.op # "give_back" /\ call'.op = "flat" /\ call'.p = p
    BY <1>1, <1>2 DEF Busy, LoadOps
<1>4. /\ Books' /\ IInv' /\ At(p, ImagePlace)' = Nothing
      /\ \A q \in Proc, x \in Places : q # p \/ x # ImagePlace => At(q, x)' = At(q, x)
    BY <1>2, <1>3, ImageEmptied
<1>5. MemTypeOK'
    <2>1. call' \in [op : LoadOps \cup {"stack"}, p : Proc]
        BY <1>2 DEF LoadOps
    <2>2. QED
        BY <1>2, <2>1, NothingTyped DEF MemInv, MemTypeOK
<1>6. PhasesSound'
    <2>1. Only(p, {})'
        BY <1>1, <1>4, NothingTyped DEF Only
    <2>2. CallSound'
        BY <1>1, <1>2, <1>3, <2>1 DEF CallSound, ImageSound
    <2>3. \A q \in Proc \ {p} : image'[q] = image[q] /\ program'[q] = program[q]
        BY <1>2 DEF MemInv, MemTypeOK
    <2>4. QED
        BY <1>1, <1>2, <1>3, <1>4, <2>2, <2>3, PhasesKept
<1>7. TablesSound'
    BY <1>1, <1>2, TablesKept DEF MemInv, MemTypeOK
<1>8. QED
    BY <1>4, <1>5, <1>6, <1>7 DEF MemInv

LEMMA LoadBinaryFailsKeeps ==
    ASSUME MemInv, LoadBinaryFails
    PROVE  MemInv'
<1>1. PICK p \in Proc : /\ call = [op |-> "flat", p |-> p] /\ Busy = {p} /\ p \notin running
                        /\ Only(p, {})
    BY CallTyped DEF LoadBinaryFails, MemInv, PhasesSound, CallSound, LoadOps
<1>2. /\ program' = [program EXCEPT ![p] = NoFile] /\ call' = Idle
      /\ UNCHANGED <<entries, live, running, allocations, image, stack, table>>
    BY <1>1 DEF LoadBinaryFails, MallocFail, vars
<1>3. Busy' = {} /\ call'.op = "idle" /\ call.op # "give_back"
    BY <1>1, <1>2 DEF Busy, LoadOps, Idle
<1>4. \A q \in Proc, x \in Places : At(q, x)' = At(q, x)
    BY <1>2, <1>3 DEF At, InHand
<1>5. Books' /\ IInv'
    BY <1>2, <1>4, BooksKept, HeapKept DEF MemInv, Undisturbed
<1>6. MemTypeOK'
    BY <1>2 DEF MemInv, MemTypeOK
<1>7. PhasesSound'
    <2>1. Only(p, {})' /\ CallSound'
        BY <1>1, <1>3, <1>4 DEF CallSound, Only
    <2>2. \A q \in Proc \ {p} : image'[q] = image[q] /\ program'[q] = program[q]
        BY <1>2 DEF MemInv, MemTypeOK
    <2>3. QED
        BY <1>1, <1>2, <1>3, <1>4, <2>1, <2>2, PhasesKept
<1>8. TablesSound'
    BY <1>1, <1>2, TablesKept DEF MemInv, MemTypeOK
<1>9. QED
    BY <1>5, <1>6, <1>7, <1>8 DEF MemInv

LEMMA ReadFailsKeeps ==
    ASSUME MemInv, ReadFails
    PROVE  MemInv'
<1>1. PICK p \in Proc : /\ call = [op |-> call.op, p |-> p] /\ call.op \in {"not_elf", "load"}
                        /\ Busy = {p} /\ p \notin running /\ Only(p, {ImagePlace}) /\ p = call.p
    BY CallTyped DEF ReadFails, MemInv, PhasesSound, CallSound, LoadOps
<1>2. /\ KFree(image[p].ptr) /\ image' = [image EXCEPT ![p] = Nothing]
      /\ program' = [program EXCEPT ![p] = NoFile] /\ call' = Idle
      /\ UNCHANGED <<running, allocations, stack, table>>
    BY <1>1 DEF ReadFails
<1>3. Busy' = {} /\ call.op # "give_back" /\ call'.op = "idle"
    BY <1>1, <1>2 DEF Busy, LoadOps, Idle
<1>4. /\ Books' /\ IInv' /\ At(p, ImagePlace)' = Nothing
      /\ \A q \in Proc, x \in Places : q # p \/ x # ImagePlace => At(q, x)' = At(q, x)
    BY <1>2, <1>3, ImageEmptied
<1>5. MemTypeOK'
    BY <1>2, NothingTyped DEF MemInv, MemTypeOK
<1>6. PhasesSound'
    <2>1. Only(p, {})' /\ CallSound'
        BY <1>1, <1>3, <1>4, NothingTyped DEF Only, CallSound
    <2>2. \A q \in Proc \ {p} : image'[q] = image[q] /\ program'[q] = program[q]
        BY <1>2 DEF MemInv, MemTypeOK
    <2>3. QED
        BY <1>1, <1>2, <1>3, <1>4, <2>1, <2>2, PhasesKept
<1>7. TablesSound'
    BY <1>1, <1>2, TablesKept DEF MemInv, MemTypeOK
<1>8. QED
    BY <1>4, <1>5, <1>6, <1>7 DEF MemInv

LEMMA ElfLoadWildKeeps ==
    ASSUME MemInv, NEW p \in Proc, NEW f \in Programs, ElfLoadWild(p, f)
    PROVE  MemInv'
<1>1. /\ call = Idle /\ p \notin running /\ call' = [op |-> "wild"]
      /\ UNCHANGED <<entries, live, running, allocations, image, stack, program, table>>
    BY DEF ElfLoadWild, MallocFail, vars
<1>2. Busy = {} /\ Busy' = {} /\ call'.op = "wild" /\ call.op # "give_back"
    BY <1>1 DEF Busy, LoadOps, Idle
<1>3. \A q \in Proc, x \in Places : At(q, x)' = At(q, x)
    BY <1>1, <1>2 DEF At, InHand
<1>4. Books' /\ IInv'
    BY <1>1, <1>3, BooksKept, HeapKept DEF MemInv, Undisturbed
<1>5. MemTypeOK'
    BY <1>1 DEF MemInv, MemTypeOK
<1>6. PhasesSound'
    <2>1. Only(p, {})' /\ CallSound'
        BY <1>1, <1>2, <1>3 DEF CallSound, Only, MemInv, PhasesSound
    <2>2. QED
        BY <1>1, <1>2, <1>3, <2>1, PhasesKept
<1>7. TablesSound'
    BY <1>1, TablesKept DEF MemInv
<1>8. QED
    BY <1>4, <1>5, <1>6, <1>7 DEF MemInv

LEMMA LoadStackKeeps ==
    ASSUME MemInv, RealRequests, LoadStack
    PROVE  MemInv'
<1>1. PICK p \in Proc : /\ call = [op |-> "load", p |-> p] /\ Busy = {p} /\ p \notin running
                        /\ ImageSound(p) /\ Only(p, {ImagePlace})
    BY CallTyped DEF LoadStack, MemInv, PhasesSound, CallSound, LoadOps
<1>2. PICK s \in Blocks :
          MallocAt(s, StackSize) /\ stack' = [stack EXCEPT ![p] = [ptr |-> s, size |-> StackSize]]
    BY <1>1 DEF LoadStack
<1> DEFINE piece == [ptr |-> s, size |-> StackSize]
<1>3. /\ call' = [op |-> "loaded", p |-> p]
      /\ UNCHANGED <<running, allocations, image, program, table>>
    BY <1>1 DEF LoadStack
<1>4. /\ Busy' = {p} /\ call'.op = "loaded" /\ call'.p = p
      /\ \A q \in Proc : InHand(q)' = InHand(q)
    BY <1>1, <1>3 DEF Busy, LoadOps, InHand
<1>5. StackSize \in Sizes /\ BlocksFor(StackSize) > 0
    BY ProcessMemoryAssumption DEF RealRequests
<1>6. /\ IInv' /\ s # NoPtr /\ \A a \in live : a.start # s
      /\ live' = live \cup {[start |-> s, len |-> BlocksFor(StackSize)]}
    BY <1>2, <1>5, MallocAtNew DEF MemInv
<1>7. At(p, StackPlace).ptr = NoPtr
    BY <1>1, PlacesSplit DEF Only
<1>8. At(p, StackPlace)' = piece /\ stack'[p] = piece
    BY <1>2, PlacesSplit DEF At, MemInv, MemTypeOK
<1>9. \A q \in Proc, x \in Places : q # p \/ x # StackPlace => At(q, x)' = At(q, x)
    BY <1>2, <1>3, <1>4 DEF At, MemInv, MemTypeOK
<1>10. Books'
    <2>1. BlocksOf(piece) = [start |-> s, len |-> BlocksFor(StackSize)] /\ piece.ptr = s
        BY DEF BlocksOf
    <2>2. \A q \in Proc, x \in Places : q # p \/ x # StackPlace => Undisturbed(q, x)
        BY <1>9 DEF Undisturbed
    <2> HIDE DEF piece
    <2>3. QED
        BY <1>6, <1>7, <1>8, <2>1, <2>2, BooksGain, PlacesSplit DEF MemInv
<1>11. MemTypeOK'
    <2>1. piece \in Pieces
        BY <1>5 DEF Pieces
    <2>2. call' \in [op : LoadOps \cup {"stack"}, p : Proc]
        BY <1>3 DEF LoadOps
    <2>3. QED
        BY <1>2, <1>3, <2>1, <2>2 DEF MemInv, MemTypeOK
<1>12. PhasesSound'
    <2>1. ImageSound(p)' /\ Only(p, {ImagePlace, StackPlace})'
        BY <1>1, <1>3, <1>9 DEF ImageSound, Only
    <2>2. CallSound'
        BY <1>4, <1>6, <1>8, <2>1 DEF CallSound
    <2>3. QED
        BY <1>1, <1>3, <1>4, <1>9, <2>2, PhasesKept
<1>13. TablesSound'
    BY <1>1, <1>2, <1>3, TablesKept DEF MemInv, MemTypeOK
<1>14. QED
    BY <1>6, <1>10, <1>11, <1>12, <1>13 DEF MemInv

\* What has begun to be freed is still all there.
LEMMA StartFreeKeeps ==
    ASSUME MemInv, NEW p \in Proc, StartFree(p), call.op # "give_back", Busy \subseteq {p},
           p \notin running', running' \ {p} = running \ {p},
           UNCHANGED <<entries, live, allocations, image, stack, program, table>>
    PROVE  MemInv'
<1>1. call' = [op |-> "free", p |-> p, i |-> 0]
    BY DEF StartFree
<1>2. Busy' = {p} /\ call'.op = "free" /\ call'.p = p /\ call'.i = 0
    BY <1>1 DEF Busy, LoadOps
<1>3. \A q \in Proc, x \in Places : At(q, x)' = At(q, x)
    BY <1>2 DEF At, InHand
<1>4. Books' /\ IInv'
    BY <1>3, BooksKept, HeapKept DEF MemInv, Undisturbed
<1>5. running' \subseteq running
    OBVIOUS
<1>6. MemTypeOK'
    <2>1. call' \in [op : {"free"}, p : Proc, i : 0 .. MaxAllocations]
        BY <1>1, ProcessMemoryAssumption
    <2>2. QED
        BY <1>5, <2>1 DEF MemInv, MemTypeOK
<1>7. PhasesSound'
    <2>1. FreedBelow(p, 0)'
        BY ProcessMemoryAssumption DEF FreedBelow, Places
    <2>2. CallSound'
        BY <1>2, <2>1 DEF CallSound, FreedBelow
    <2>3. QED
        BY <1>2, <1>3, <2>2, PhasesKept
<1>8. TablesSound'
    BY <1>5, TablesKept
<1>9. QED
    BY <1>4, <1>6, <1>7, <1>8 DEF MemInv

LEMMA LoadFailsKeeps ==
    ASSUME MemInv, LoadStackFails \/ LoadFails
    PROVE  MemInv'
<1>1. PICK p \in Proc : /\ call.op \in {"load", "loaded"} /\ call.p = p /\ Busy = {p}
                        /\ p \notin running
    BY CallTyped DEF LoadStackFails, LoadFails, MemInv, PhasesSound, LoadOps
<1>2. /\ StartFree(p) /\ UNCHANGED <<entries, live, running, allocations, image, stack, program, table>>
    BY <1>1 DEF LoadStackFails, LoadFails, MallocFail, vars
<1>3. call.op # "give_back"
    BY <1>1
<1>4. QED
    BY <1>1, <1>2, <1>3, StartFreeKeeps

LEMMA TerminateKeeps ==
    ASSUME MemInv, NEW p \in Proc, Terminate(p)
    PROVE  MemInv'
<1>1. /\ call = Idle /\ running' = running \ {p} /\ StartFree(p)
      /\ UNCHANGED <<entries, live, allocations, image, stack, program, table>>
    BY DEF Terminate, vars
<1>2. Busy = {} /\ call.op # "give_back"
    BY <1>1, CallTyped DEF MemInv
<1>3. QED
    BY <1>1, <1>2, StartFreeKeeps

-----------------------------------------------------------------------------
(***************************************************************************)
(* The page table of a program that starts.                                *)
(***************************************************************************)
\* A file that fits into a number of blocks is given no more of them.
LEMMA BlocksWithin ==
    ASSUME NEW size \in Nat, NEW k \in Nat, size <= k * BlockSize
    PROVE  BlocksFor(size) \in Int /\ BlocksFor(size) <= k
<1> DEFINE a == AlignUp(size)  q == a \div BlockSize  r == a % BlockSize
<1>1. BlockSize \in Nat \ {0} /\ WordSize \in Nat \ {0}
    BY HeapAssumption
<1>2. PICK m \in Int : PageUp(size) = m * BlockSize /\ PageUp(size) < size + BlockSize
    BY PageUpIs
<1>3. a \in Nat /\ a <= PageUp(size)
    <2>1. CASE size % BlockSize = 0
        BY <2>1 DEF AlignUp, PageUp
    <2>2. CASE size % BlockSize # 0
        <3> DEFINE up == size - (size % BlockSize) + BlockSize
        <3>1. size % BlockSize \in 0 .. BlockSize - 1
            BY <1>1
        <3>2. up \in Nat /\ PageUp(size) = up /\ a = up % WordSize
            BY <1>1, <2>2, <3>1 DEF AlignUp, PageUp
        <3> HIDE DEF up, a
        <3>3. up % WordSize \in Nat /\ up % WordSize <= up
            BY <1>1, <3>2
        <3>4. QED
            BY <3>2, <3>3
    <2>3. QED
        BY <2>1, <2>2
<1> HIDE DEF a
<1>4. q \in Int /\ r \in 0 .. BlockSize - 1 /\ a = q * BlockSize + r
    BY <1>3, LowerPageIs
<1> HIDE DEF q, r
<1>5. m * BlockSize < (k + 1) * BlockSize /\ q * BlockSize < (m + 1) * BlockSize
    BY <1>1, <1>2, <1>3, <1>4
<1>6. m < k + 1 /\ q < m + 1
    BY <1>2, <1>4, <1>5, MultipleOrder
<1>7. q <= k
    BY <1>2, <1>4, <1>6
<1>8. QED
    BY <1>4, <1>7 DEF BlocksFor, q, a

\* The pages a program's segments are mapped to: its image's, or below the heap,
\* or behind its image.
LEMMA ImageMapLoaded ==
    ASSUME NEW p, ImageSound(p), image[p] \in Pieces,
           NEW v \in DOMAIN ImageMap(p), ImageMap(p)[v].writable
    PROVE  ImageMap(p)[v].page \in PagesOf(image[p]) \cup Overrun(p) \cup 0 .. HeapStart - 1
<1> DEFINE n == ImageMap(p)[v].page  b == BlocksFor(image[p].size)
<1>1. /\ program[p] \in Programs /\ image[p].ptr \in Blocks \cup {NoPtr}
      /\ n \in Nat /\ n >= HeapStart + image[p].ptr
    <2>1. program[p] \in Programs /\ image[p].ptr \in Blocks \cup {NoPtr}
        BY DEF ImageSound, Pieces
    <2>2. ImageMap(p)[v] \in Entry /\ ImageMap(p)[v].page >= HeapStart + image[p].ptr
        BY <2>1, ImageMapAbove
    <2>3. QED
        BY <2>1, <2>2 DEF Entry
<1>2. b \in Int /\ image[p].size \in Nat
    BY <1>1, PieceBlocks, ProcessMemoryAssumption, SizesAreNat DEF ImageSound
<1>3. ImageEnd(p) = HeapStart + image[p].ptr + b
    BY DEF ImageEnd
<1>4. n \in {ImageMap(p)[w].page : w \in {u \in DOMAIN ImageMap(p) : ImageMap(p)[u].writable}}
    OBVIOUS
<1>5. n >= ImageEnd(p) => n \in Overrun(p)
    BY <1>1, <1>4 DEF Overrun
<1> HIDE DEF n, b
<1>6. CASE image[p].ptr = NoPtr
    <2>1. image[p].size <= HeapStart * BlockSize
        <3>1. LowMemory \in 0 .. HeapStart * BlockSize
            BY ProcessMemoryAssumption
        <3>2. HeapStart * BlockSize \in Int
            BY HeapAssumption, NoPtrIsNoBlock
        <3>3. LowMemory \in Int /\ LowMemory <= HeapStart * BlockSize /\ image[p].size <= LowMemory
            BY <1>6, <3>1, <3>2 DEF ImageSound
        <3>4. QED
            BY <1>2, <3>2, <3>3
    <2>2. b <= HeapStart
        BY <1>2, <2>1, BlocksWithin, NoPtrIsNoBlock DEF b
    <2>3. n \in 0 .. HeapStart - 1 \/ n >= ImageEnd(p)
        BY <1>1, <1>2, <1>3, <1>6, <2>2, NoPtrIsNoBlock
    <2>4. QED
        BY <1>5, <2>3 DEF n
<1>7. CASE image[p].ptr # NoPtr
    <2>1. PagesOf(image[p]) = HeapStart + image[p].ptr .. HeapStart + image[p].ptr + b - 1
        BY <1>7 DEF PagesOf, b
    <2> DEFINE first == HeapStart + image[p].ptr
    <2>2. first \in Nat
        <3>1. image[p].ptr \in Nat /\ HeapStart \in Nat
            BY <1>1, <1>7, NoPtrIsNoBlock
        <3>2. QED
            BY <3>1
    <2>3. PagesOf(image[p]) = first .. first + b - 1 /\ ImageEnd(p) = first + b /\ n >= first
        BY <1>1, <1>3, <2>1
    <2> HIDE DEF first
    <2>4. n \in PagesOf(image[p]) \/ n >= ImageEnd(p)
        BY <1>1, <1>2, <2>2, <2>3
    <2>5. QED
        BY <1>5, <2>4 DEF n
<1>8. QED
    BY <1>6, <1>7

\* The entries of its stack are those of the pages allocated for it.
LEMMA StackMapIs ==
    ASSUME NEW p, stack[p] \in Pieces, stack[p].ptr # NoPtr, stack[p].size = StackSize
    PROVE  \A v \in DOMAIN StackMap(p) :
               /\ StackMap(p)[v] \in Entry
               /\ StackMap(p)[v].page \in PagesOf(stack[p])
<1>1. stack[p].ptr \in Nat /\ HeapStart \in Nat
    BY NoPtrIsNoBlock DEF Pieces
<1>2. BlocksFor(StackSize) \in Nat
    BY ProcessMemoryAssumption, BlocksForNat
<1>3. StackPage \in Int
    BY ProcessMemoryAssumption, HeapAssumption DEF StackPage
<1> DEFINE first == HeapStart + stack[p].ptr  n == BlocksFor(StackSize)
<1>4. first \in Nat /\ PagesOf(stack[p]) = first .. first + n - 1
    BY <1>1 DEF PagesOf
<1>5. DOMAIN StackMap(p) = StackPage .. StackPage + n - 1
    BY DEF StackMap
<1>6. ASSUME NEW v \in DOMAIN StackMap(p)
      PROVE  StackMap(p)[v] = [page |-> first + v - StackPage, writable |-> TRUE]
    BY <1>5 DEF StackMap
<1> HIDE DEF first, n
<1>7. ASSUME NEW v \in DOMAIN StackMap(p)
      PROVE  first + v - StackPage \in Nat /\ first + v - StackPage \in PagesOf(stack[p])
    BY <1>2, <1>3, <1>4, <1>5 DEF n
<1>8. ASSUME NEW v \in DOMAIN StackMap(p)
      PROVE  StackMap(p)[v] \in Entry /\ StackMap(p)[v].page \in PagesOf(stack[p])
    <2> DEFINE page == first + v - StackPage
    <2>1. page \in Nat /\ page \in PagesOf(stack[p])
        BY <1>7
    <2>2. StackMap(p)[v] = [page |-> page, writable |-> TRUE]
        BY <1>6
    <2> HIDE DEF page
    <2>3. [page |-> page, writable |-> TRUE] \in Entry
        BY <2>1 DEF Entry
    <2>4. QED
        BY <2>1, <2>2, <2>3
<1>9. QED
    BY <1>8

LEMMA RegisterKeeps ==
    ASSUME MemInv, Register
    PROVE  MemInv'
<1>1. PICK p \in Proc :
          /\ call = [op |-> "loaded", p |-> p] /\ Busy = {p} /\ p \notin running
          /\ ImageSound(p) /\ stack[p].ptr # NoPtr /\ stack[p].size = StackSize
    BY CallTyped DEF Register, MemInv, PhasesSound, CallSound, LoadOps
<1> DEFINE t == Write(Write(Fresh, ImageMap(p)), StackMap(p))
<1>2. /\ table' = [table EXCEPT ![p] = t]
      /\ running' = running \cup {p} /\ call' = Idle
      /\ UNCHANGED <<entries, live, allocations, image, stack, program>>
    BY <1>1 DEF Register, vars
<1>3. Busy' = {} /\ call'.op = "idle" /\ call.op # "give_back" /\ \A q \in Proc : InHand(q)' = InHand(q)
    BY <1>1, <1>2 DEF Busy, LoadOps, Idle, InHand
<1>4. \A q \in Proc, x \in Places : At(q, x)' = At(q, x)
    BY <1>2, <1>3 DEF At
<1>5. Books' /\ IInv'
    BY <1>2, <1>4, BooksKept, HeapKept DEF MemInv, Undisturbed
<1>6. image[p] \in Pieces /\ stack[p] \in Pieces
    BY DEF MemInv, MemTypeOK
<1>7. /\ t \in [Pages -> Entry]
      /\ \A v \in Pages :
            t[v] = IF v \in DOMAIN StackMap(p) THEN StackMap(p)[v]
                   ELSE IF v \in DOMAIN ImageMap(p) THEN ImageMap(p)[v]
                   ELSE [page |-> v, writable |-> FALSE]
    <2>1. \A v \in DOMAIN StackMap(p) : StackMap(p)[v] \in Entry
        BY <1>1, <1>6, StackMapIs
    <2>2. \A v \in DOMAIN ImageMap(p) : ImageMap(p)[v] \in Entry
        BY <1>1, <1>6, ImageMapAbove DEF ImageSound, Pieces
    <2>3. Write(Fresh, ImageMap(p)) \in [Pages -> Entry]
        BY <2>2, FreshTyped, WriteTyped
    <2>4. t \in [Pages -> Entry]
        BY <2>1, <2>3, WriteTyped
    <2>5. QED
        BY <2>4 DEF Write, Fresh
<1> HIDE DEF t
<1>8. MemTypeOK'
    BY <1>2, <1>7 DEF MemInv, MemTypeOK
<1>9. PhasesSound'
    <2>1. ImageSound(p)' /\ CallSound'
        BY <1>1, <1>2, <1>3 DEF ImageSound, CallSound
    <2>2. QED
        BY <1>1, <1>2, <1>3, <1>4, <2>1, PhasesKept
<1>10. TableSound(p)'
    <2>1. table'[p] = t /\ LoadedPages(p)' = LoadedPages(p)
        BY <1>2, LoadedPagesKept DEF MemInv, MemTypeOK
    <2>2. ASSUME NEW v \in Pages, t[v].writable
          PROVE  t[v].page \in LoadedPages(p)
        <3>1. CASE v \in DOMAIN StackMap(p)
            BY <1>1, <1>6, <1>7, <3>1, StackMapIs DEF LoadedPages
        <3>2. CASE v \notin DOMAIN StackMap(p) /\ v \in DOMAIN ImageMap(p)
            <4>1. t[v] = ImageMap(p)[v]
                BY <1>7, <3>2
            <4>2. ImageMap(p)[v].page \in PagesOf(image[p]) \cup Overrun(p) \cup 0 .. HeapStart - 1
                BY <1>1, <1>6, <2>2, <3>2, <4>1, ImageMapLoaded
            <4>3. QED
                BY <4>1, <4>2 DEF LoadedPages
        <3>3. CASE v \notin DOMAIN StackMap(p) /\ v \notin DOMAIN ImageMap(p)
            BY <1>7, <2>2, <3>3
        <3>4. QED
            BY <3>1, <3>2, <3>3
    <2>3. QED
        BY <2>1, <2>2 DEF TableSound
<1>11. TablesSound'
    <2>1. ASSUME NEW q \in running' PROVE TableSound(q)'
        <3>1. CASE q = p
            BY <1>10, <3>1
        <3>2. CASE q # p
            BY <1>2, <2>1, <3>2, TableKept DEF MemInv, MemTypeOK, TablesSound
        <3>3. QED
            BY <3>1, <3>2
    <2>2. QED
        BY <2>1 DEF TablesSound
<1>12. QED
    BY <1>5, <1>8, <1>9, <1>11 DEF MemInv

-----------------------------------------------------------------------------
(***************************************************************************)
(* sys_malloc and sys_free.                                                *)
(***************************************************************************)
LEMMA ProcessMallocKeeps ==
    ASSUME MemInv, RealRequests, NEW p \in Proc, NEW size \in RequestSizes, ProcessMalloc(p, size)
    PROVE  MemInv'
<1>1. size \in Sizes /\ BlocksFor(size) > 0
    BY ProcessMemoryAssumption DEF RealRequests
<1>2. PICK s \in Blocks, i \in FreeIndex(p), piece \in Pieces :
          /\ piece = [ptr |-> s, size |-> size]
          /\ MallocAt(s, size)
          /\ table' = [table EXCEPT ![p] = Write(@, Identity(PagesOf(piece), TRUE))]
          /\ allocations' = [allocations EXCEPT ![p][i] = piece]
    BY <1>1 DEF ProcessMalloc, Pieces
<1>3. /\ call = Idle /\ p \in running /\ Busy = {} /\ call.op # "give_back"
      /\ UNCHANGED <<running, image, stack, program, call>>
    BY CallTyped DEF ProcessMalloc, MemInv
<1>4. i \in Index /\ allocations[p][i].ptr = NoPtr
    BY DEF FreeIndex
<1>5. /\ IInv' /\ s # NoPtr /\ \A a \in live : a.start # s
      /\ live' = live \cup {[start |-> s, len |-> BlocksFor(size)]}
    BY <1>1, <1>2, MallocAtNew DEF MemInv
<1>6. Busy' = {} /\ call'.op = "idle" /\ \A q \in Proc : InHand(q)' = InHand(q)
    BY <1>3 DEF Busy, LoadOps, Idle, InHand
<1>7. /\ allocations' \in [Proc -> [Index -> Pieces]]
      /\ \A j \in Index : allocations'[p][j] = IF j = i THEN piece ELSE allocations[p][j]
      /\ \A q \in Proc : q # p => allocations'[q] = allocations[q]
    <2>1. /\ [allocations[p] EXCEPT ![i] = piece] \in [Index -> Pieces]
          /\ allocations' = [allocations EXCEPT ![p] = [allocations[p] EXCEPT ![i] = piece]]
        BY <1>2, <1>4 DEF MemInv, MemTypeOK
    <2>2. QED
        BY <2>1 DEF MemInv, MemTypeOK
<1>8. At(p, i)' = piece /\ At(p, i).ptr = NoPtr
    BY <1>4, <1>7, PlacesSplit DEF At
<1>9. \A q \in Proc, x \in Places : q # p \/ x # i => At(q, x)' = At(q, x)
    BY <1>3, <1>6, <1>7, PlacesSplit DEF At
<1>10. Books'
    <2>1. BlocksOf(piece) = [start |-> s, len |-> BlocksFor(size)] /\ piece.ptr = s /\ i \in Places
        BY <1>2, <1>4, PlacesSplit DEF BlocksOf
    <2>2. \A q \in Proc, x \in Places : q # p \/ x # i => Undisturbed(q, x)
        BY <1>9 DEF Undisturbed
    <2>3. QED
        BY <1>5, <1>8, <2>1, <2>2, BooksGain DEF MemInv
<1>11. /\ table' \in [Proc -> [Pages -> Entry]]
       /\ \A q \in Proc : q # p => table'[q] = table[q]
       /\ \A v \in Pages \cap PagesOf(piece) : table'[p][v].page = v
       /\ \A v \in Pages \ PagesOf(piece) : table'[p][v] = table[p][v]
    <2> DEFINE t == Write(table[p], Identity(PagesOf(piece), TRUE))
    <2>1. table[p] \in [Pages -> Entry]
        BY DEF MemInv, MemTypeOK
    <2>2. /\ t \in [Pages -> Entry]
          /\ \A v \in Pages \cap PagesOf(piece) : t[v].page = v
          /\ \A v \in Pages \ PagesOf(piece) : t[v] = table[p][v]
        BY <2>1, IdentityWrites
    <2>3. table' = [table EXCEPT ![p] = t]
        BY <1>2
    <2> HIDE DEF t
    <2>4. QED
        BY <2>2, <2>3 DEF MemInv, MemTypeOK
<1>12. MemTypeOK'
    BY <1>3, <1>7, <1>11 DEF MemInv, MemTypeOK
<1>13. PhasesSound'
    <2>1. ImageSound(p)' /\ CallSound'
        BY <1>3, <1>6 DEF ImageSound, CallSound, MemInv, PhasesSound
    <2>2. \A q \in Proc \ {p}, x \in Places : At(q, x).ptr = NoPtr => At(q, x)'.ptr = NoPtr
        BY <1>9
    <2>3. QED
        BY <1>3, <1>6, <2>1, <2>2, PhasesKept
<1>14. TableSound(p)'
    <2>1. LoadedPages(p)' = LoadedPages(p) /\ TableSound(p)
        BY <1>3, LoadedPagesKept DEF MemInv, TablesSound
    <2>2. \A j \in Index : PagesOf(allocations[p][j])' = PagesOf(allocations'[p][j])
        BY DEF PagesOf
    <2>3. ASSUME NEW v \in Pages, table'[p][v].writable
          PROVE  \/ table'[p][v].page = v /\ \E j \in Index : v \in PagesOf(allocations'[p][j])
                 \/ table'[p][v].page \in LoadedPages(p)
        <3>1. CASE v \in PagesOf(piece)
            <4>1. table'[p][v].page = v
                BY <1>11, <3>1
            <4>2. v \in PagesOf(allocations'[p][i])
                BY <1>4, <1>7, <3>1
            <4>3. QED
                BY <1>4, <4>1, <4>2
        <3>2. CASE v \notin PagesOf(piece)
            <4>1. table'[p][v] = table[p][v]
                BY <1>11, <3>2
            <4>2. ASSUME NEW j \in Index, v \in PagesOf(allocations[p][j])
                  PROVE  v \in PagesOf(allocations'[p][j])
                <5>1. j # i
                    BY <1>4, <4>2 DEF PagesOf
                <5>2. QED
                    BY <1>7, <4>2, <5>1
            <4>3. QED
                BY <2>1, <2>3, <4>1, <4>2 DEF TableSound
        <3>3. QED
            BY <3>1, <3>2
    <2>4. QED
        BY <2>1, <2>2, <2>3 DEF TableSound
<1>15. TablesSound'
    <2>1. ASSUME NEW q \in running' PROVE TableSound(q)'
        <3>1. CASE q = p
            BY <1>14, <3>1
        <3>2. CASE q # p
            BY <1>3, <1>7, <1>11, <2>1, <3>2, TableKept DEF MemInv, MemTypeOK, TablesSound
        <3>3. QED
            BY <3>1, <3>2
    <2>2. QED
        BY <2>1 DEF TablesSound
<1>16. QED
    BY <1>5, <1>10, <1>12, <1>13, <1>15 DEF MemInv

LEMMA ProcessMallocFullKeeps ==
    ASSUME MemInv, RealRequests, NEW p \in Proc, NEW size \in RequestSizes,
           ProcessMallocFull(p, size)
    PROVE  MemInv'
<1>1. size \in Sizes /\ BlocksFor(size) > 0
    BY ProcessMemoryAssumption DEF RealRequests
<1>2. PICK s \in Blocks, piece \in Pieces :
          /\ piece = [ptr |-> s, size |-> size]
          /\ MallocAt(s, size)
          /\ call' = [op |-> "give_back", p |-> p, piece |-> piece]
    BY <1>1 DEF ProcessMallocFull, Pieces
<1>3. /\ Busy = {} /\ p \in running /\ \A q \in Proc : InHand(q) = Nothing
      /\ UNCHANGED <<running, allocations, image, stack, program, table>>
    BY CallTyped DEF ProcessMallocFull, MemInv
<1>4. /\ IInv' /\ s # NoPtr /\ \A a \in live : a.start # s
      /\ live' = live \cup {[start |-> s, len |-> BlocksFor(size)]}
    BY <1>1, <1>2, MallocAtNew DEF MemInv
<1>5. /\ Busy' = {} /\ call'.op = "give_back"
      /\ \A q \in Proc : InHand(q)' = IF q = p THEN piece ELSE Nothing
    BY <1>2 DEF Busy, LoadOps, InHand
<1>6. At(p, HandPlace)' = piece /\ At(p, HandPlace).ptr = NoPtr
    BY <1>3, <1>5, PlacesSplit, NothingTyped DEF At
<1>7. \A q \in Proc, x \in Places : q # p \/ x # HandPlace => At(q, x)' = At(q, x)
    BY <1>3, <1>5 DEF At
<1>8. Books'
    <2>1. BlocksOf(piece) = [start |-> s, len |-> BlocksFor(size)] /\ piece.ptr = s
        BY <1>2 DEF BlocksOf
    <2>2. \A q \in Proc, x \in Places : q # p \/ x # HandPlace => Undisturbed(q, x)
        BY <1>7 DEF Undisturbed
    <2>3. QED
        BY <1>4, <1>6, <2>1, <2>2, PlacesSplit, BooksGain DEF MemInv
<1>9. MemTypeOK'
    <2>1. call' \in [op : {"give_back"}, p : Proc, piece : Pieces]
        BY <1>2
    <2>2. QED
        BY <1>3, <2>1 DEF MemInv, MemTypeOK
<1>10. PhasesSound'
    <2>1. ImageSound(p)' /\ CallSound'
        BY <1>3, <1>5 DEF ImageSound, CallSound, MemInv, PhasesSound
    <2>2. \A q \in Proc \ {p}, x \in Places : At(q, x).ptr = NoPtr => At(q, x)'.ptr = NoPtr
        BY <1>7
    <2>3. QED
        BY <1>3, <1>5, <2>1, <2>2, PhasesKept
<1>11. TablesSound'
    BY <1>3, TablesKept
<1>12. QED
    BY <1>4, <1>8, <1>9, <1>10, <1>11 DEF MemInv

LEMMA GiveBackKeeps ==
    ASSUME MemInv, GiveBack
    PROVE  MemInv'
<1>1. PICK p \in Proc : call.op = "give_back" /\ call.p = p /\ Busy = {}
    BY CallTyped DEF GiveBack, MemInv
<1>2. /\ KFree(call.piece.ptr) /\ call' = Idle
      /\ UNCHANGED <<running, allocations, image, stack, program, table>>
    BY DEF GiveBack
<1>3. Busy' = {} /\ call'.op = "idle" /\ \A q \in Proc : InHand(q)' = Nothing
    BY <1>2 DEF Busy, LoadOps, Idle, InHand
<1>4. At(p, HandPlace)' = Nothing /\ At(p, HandPlace) = call.piece
    BY <1>1, <1>3, PlacesSplit DEF At, InHand
<1>5. \A q \in Proc, x \in Places : q # p \/ x # HandPlace => At(q, x)' = At(q, x)
    <2>1. \A q \in Proc : q # p => InHand(q) = Nothing
        BY <1>1 DEF InHand
    <2>2. QED
        BY <1>2, <1>3, <2>1 DEF At
<1>6. Books' /\ IInv'
    BY <1>2, <1>4, <1>5, PlaceEmptied, PlacesSplit
<1>7. MemTypeOK'
    BY <1>2 DEF MemInv, MemTypeOK
<1>8. PhasesSound'
    <2>1. CallSound' /\ (p \in running' => ImageSound(p)')
        BY <1>2, <1>3 DEF ImageSound, CallSound, MemInv, PhasesSound
    <2>2. p \notin running' \cup Busy' => Only(p, {})'
        <3>1. p \notin running => Only(p, {})
            BY <1>1 DEF MemInv, PhasesSound
        <3>2. QED
            BY <1>2, <1>3, <1>4, <1>5, <3>1, NothingTyped DEF Only
    <2>3. \A q \in Proc \ {p}, x \in Places : At(q, x).ptr = NoPtr => At(q, x)'.ptr = NoPtr
        BY <1>5
    <2>4. QED
        BY <1>1, <1>2, <1>3, <2>1, <2>2, <2>3, PhasesKept
<1>9. TablesSound'
    BY <1>2, TablesKept
<1>10. QED
    BY <1>6, <1>7, <1>8, <1>9 DEF MemInv

\* process_free: the entry with the pointer is cleared and its pages are taken
\* from what the process may write; an outstanding allocation is given back.
LEMMA ProcessFreeKeeps ==
    ASSUME MemInv, NEW p \in Proc, NEW ptr, ProcessFree(p, ptr),
           \A q \in Proc : InHand(q)' = InHand(q),
           UNCHANGED <<running, image, stack, program>>
    PROVE  /\ Books' /\ IInv' /\ TablesSound'
           /\ table' \in [Proc -> [Pages -> Entry]]
           /\ allocations' \in [Proc -> [Index -> Pieces]]
           /\ \A q \in Proc, x \in Places : q # p \/ x \notin Index => At(q, x)' = At(q, x)
           /\ \A x \in Index : At(p, x).ptr \in {NoPtr, ptr} => At(p, x)'.ptr = NoPtr
<1>1. PICK i \in Found(p, ptr) : Unmap(p, i) /\ Unjoin(p, ptr) /\ KFree(ptr)
    BY DEF ProcessFree
<1>2. i \in Index /\ i \in Places /\ allocations[p][i].ptr = ptr /\ At(p, i) = allocations[p][i]
    BY <1>1, AtPlaces, PlacesSplit DEF Found
<1>3. \A j \in Index : allocations[p][j].ptr = ptr /\ ptr # NoPtr => j = i
    BY <1>2, AtPlaces, PlacesSplit DEF MemInv, Books, PlacesDistinct
<1> DEFINE cleared == [j \in Index |-> IF allocations[p][j].ptr = ptr THEN Nothing ELSE allocations[p][j]]
<1>4. /\ allocations' \in [Proc -> [Index -> Pieces]]
      /\ \A j \in Index : /\ allocations[p][j].ptr = ptr => allocations'[p][j] = Nothing
                          /\ allocations[p][j].ptr # ptr => allocations'[p][j] = allocations[p][j]
      /\ \A q \in Proc : q # p => allocations'[q] = allocations[q]
    <2>1. allocations' = [allocations EXCEPT ![p] = cleared]
        BY <1>1 DEF Unjoin, MemInv, MemTypeOK
    <2>2. cleared \in [Index -> Pieces]
        BY NothingTyped DEF MemInv, MemTypeOK
    <2>3. \A j \in Index : /\ allocations[p][j].ptr = ptr => cleared[j] = Nothing
                           /\ allocations[p][j].ptr # ptr => cleared[j] = allocations[p][j]
        OBVIOUS
    <2> HIDE DEF cleared
    <2>4. QED
        BY <2>1, <2>2, <2>3 DEF MemInv, MemTypeOK
<1>5. \A x \in Index : At(p, x).ptr \in {NoPtr, ptr} => At(p, x)'.ptr = NoPtr
    BY <1>4, NothingTyped, PlacesSplit DEF At
<1>6. \A q \in Proc, x \in Places : q # p \/ x \notin Index => At(q, x)' = At(q, x)
    BY <1>4, PlacesSplit DEF At
<1>7. Books' /\ IInv'
    <2>1. CASE ptr = NoPtr
        <3>1. UNCHANGED <<entries, live>>
            BY <1>1, <2>1 DEF KFree, vars
        <3>2. \A x \in Index : Undisturbed(p, x)
            BY <1>4, <2>1, NothingTyped, PlacesSplit DEF Undisturbed, At
        <3>3. \A q \in Proc, x \in Places : Undisturbed(q, x)
            BY <1>6, <3>2 DEF Undisturbed
        <3>4. QED
            BY <3>1, <3>3, BooksKept, HeapKept DEF MemInv
    <2>2. CASE ptr # NoPtr
        <3>1. BlocksOf(At(p, i)) \in live /\ BlocksOf(At(p, i)).start = ptr
            BY <1>2, <2>2 DEF MemInv, Books, PiecesLive, BlocksOf
        <3>2. IInv' /\ live' = live \ {BlocksOf(At(p, i))}
            BY <1>1, <3>1, KFreeHeld DEF MemInv
        <3>3. \A x \in Index : x # i => At(p, x)' = At(p, x)
            BY <1>3, <1>4, <2>2, PlacesSplit DEF At
        <3>4. \A q \in Proc, x \in Places : q # p \/ x # i => Undisturbed(q, x)
            BY <1>6, <3>3 DEF Undisturbed
        <3>5. At(p, i).ptr # NoPtr /\ At(p, i)'.ptr = NoPtr
            BY <1>2, <1>5, <2>2
        <3>6. QED
            BY <1>2, <3>2, <3>4, <3>5, BooksLose DEF MemInv
    <2>3. QED
        BY <2>1, <2>2
<1>8. /\ table' \in [Proc -> [Pages -> Entry]]
      /\ \A q \in Proc : q # p => table'[q] = table[q]
      /\ \A v \in Pages \cap PagesOf(allocations[p][i]) : ~table'[p][v].writable
      /\ \A v \in Pages \ PagesOf(allocations[p][i]) : table'[p][v] = table[p][v]
    <2> DEFINE t == Write(table[p], Identity(PagesOf(allocations[p][i]), FALSE))
    <2>1. table[p] \in [Pages -> Entry]
        BY DEF MemInv, MemTypeOK
    <2>2. /\ t \in [Pages -> Entry]
          /\ \A v \in Pages \cap PagesOf(allocations[p][i]) : ~t[v].writable
          /\ \A v \in Pages \ PagesOf(allocations[p][i]) : t[v] = table[p][v]
        BY <2>1, IdentityClears
    <2>3. table' = [table EXCEPT ![p] = t]
        BY <1>1 DEF Unmap
    <2> HIDE DEF t
    <2>4. QED
        BY <2>2, <2>3 DEF MemInv, MemTypeOK
<1>9. ASSUME p \in running PROVE TableSound(p)'
    <2>1. LoadedPages(p)' = LoadedPages(p) /\ TableSound(p)
        BY <1>9, LoadedPagesKept DEF MemInv, TablesSound
    <2>2. \A j \in Index : PagesOf(allocations[p][j])' = PagesOf(allocations'[p][j])
        BY DEF PagesOf
    <2>3. ASSUME NEW v \in Pages, table'[p][v].writable
          PROVE  \/ table'[p][v].page = v /\ \E j \in Index : v \in PagesOf(allocations'[p][j])
                 \/ table'[p][v].page \in LoadedPages(p)
        <3>1. v \notin PagesOf(allocations[p][i]) /\ table'[p][v] = table[p][v]
            BY <1>8, <2>3
        <3>2. ASSUME NEW j \in Index, v \in PagesOf(allocations[p][j])
              PROVE  v \in PagesOf(allocations'[p][j])
            <4>1. allocations[p][j].ptr # NoPtr /\ j # i
                BY <3>1, <3>2 DEF PagesOf
            <4>2. allocations'[p][j] = allocations[p][j]
                BY <1>3, <1>4, <4>1
            <4>3. QED
                BY <3>2, <4>2
        <3>3. QED
            BY <2>1, <2>3, <3>1, <3>2 DEF TableSound
    <2>4. QED
        BY <2>1, <2>2, <2>3 DEF TableSound
<1>10. TablesSound'
    <2>1. ASSUME NEW q \in running' PROVE TableSound(q)'
        <3>1. CASE q = p
            BY <1>9, <2>1, <3>1
        <3>2. CASE q # p
            BY <1>4, <1>8, <2>1, <3>2, TableKept DEF MemInv, MemTypeOK, TablesSound
        <3>3. QED
            BY <3>1, <3>2
    <2>2. QED
        BY <2>1 DEF TablesSound
<1>11. QED
    BY <1>4, <1>5, <1>6, <1>7, <1>8, <1>10

LEMMA SysFreeKeeps ==
    ASSUME MemInv, NEW p \in Proc, NEW ptr \in Blocks \cup {NoPtr}, SysFree(p, ptr)
    PROVE  MemInv'
<1>1. /\ call = Idle /\ p \in running /\ Busy = {}
      /\ UNCHANGED <<running, image, stack, program, call>>
    BY CallTyped DEF SysFree, MemInv
<1>2. Busy' = {} /\ call'.op = "idle" /\ \A q \in Proc : InHand(q)' = InHand(q)
    BY <1>1 DEF Busy, LoadOps, Idle, InHand
<1>3. CASE ProcessFree(p, ptr)
    <2>1. /\ Books' /\ IInv' /\ TablesSound'
          /\ table' \in [Proc -> [Pages -> Entry]]
          /\ allocations' \in [Proc -> [Index -> Pieces]]
          /\ \A q \in Proc, x \in Places : q # p \/ x \notin Index => At(q, x)' = At(q, x)
        BY <1>1, <1>2, <1>3, ProcessFreeKeeps
    <2>2. MemTypeOK'
        BY <1>1, <2>1 DEF MemInv, MemTypeOK
    <2>3. PhasesSound'
        <3>1. ImageSound(p)' /\ CallSound'
            BY <1>1, <1>2 DEF ImageSound, CallSound, MemInv, PhasesSound
        <3>2. \A q \in Proc \ {p}, x \in Places : At(q, x).ptr = NoPtr => At(q, x)'.ptr = NoPtr
            BY <2>1
        <3>3. QED
            BY <1>1, <1>2, <3>1, <3>2, PhasesKept
    <2>4. QED
        BY <2>1, <2>2, <2>3 DEF MemInv
<1>4. CASE UNCHANGED <<entries, live, table, allocations>>
    <2>1. \A q \in Proc, x \in Places : At(q, x)' = At(q, x)
        BY <1>1, <1>2, <1>4 DEF At
    <2>2. Books' /\ IInv'
        BY <1>4, <2>1, BooksKept, HeapKept DEF MemInv, Undisturbed
    <2>3. MemTypeOK' /\ TablesSound'
        BY <1>1, <1>4, TablesKept DEF MemInv, MemTypeOK
    <2>4. PhasesSound'
        <3>1. ImageSound(p)' /\ CallSound'
            BY <1>1, <1>2 DEF ImageSound, CallSound, MemInv, PhasesSound
        <3>2. QED
            BY <1>1, <1>2, <2>1, <3>1, PhasesKept
    <2>5. QED
        BY <2>2, <2>3, <2>4 DEF MemInv
<1>5. QED
    BY <1>3, <1>4 DEF SysFree

-----------------------------------------------------------------------------
(***************************************************************************)
(* The steps of process_free_process.                                      *)
(***************************************************************************)
LEMMA TerminateAllocationKeeps ==
    ASSUME MemInv, TerminateAllocation
    PROVE  MemInv'
<1>1. PICK p \in Proc, i \in 0 .. MaxAllocations :
          /\ call = [op |-> "free", p |-> p, i |-> i] /\ Busy = {p} /\ p \notin running
          /\ i < MaxAllocations /\ FreedBelow(p, i)
    BY CallTyped DEF TerminateAllocation, MemInv, PhasesSound, CallSound
<1>2. i \in Index /\ At(p, i) = allocations[p][i]
    BY <1>1, AtPlaces, PlacesSplit, ProcessMemoryAssumption DEF Index
<1>3. /\ call' = [op |-> "free", p |-> p, i |-> i + 1]
      /\ UNCHANGED <<running, image, stack, program>>
    BY <1>1 DEF TerminateAllocation
<1>4. /\ Busy' = {p} /\ call'.op = "free" /\ call'.p = p /\ call'.i = i + 1
      /\ \A q \in Proc : InHand(q)' = InHand(q)
    BY <1>1, <1>3 DEF Busy, LoadOps, InHand
<1>5. /\ Books' /\ IInv' /\ TablesSound' /\ At(p, i)'.ptr = NoPtr
      /\ table' \in [Proc -> [Pages -> Entry]]
      /\ allocations' \in [Proc -> [Index -> Pieces]]
      /\ \A q \in Proc, x \in Places : At(q, x).ptr = NoPtr => At(q, x)'.ptr = NoPtr
    <2>1. CASE allocations[p][i].ptr # NoPtr /\ ProcessFree(p, allocations[p][i].ptr)
        <3>1. /\ Books' /\ IInv' /\ TablesSound'
              /\ table' \in [Proc -> [Pages -> Entry]]
              /\ allocations' \in [Proc -> [Index -> Pieces]]
              /\ \A q \in Proc, x \in Places : q # p \/ x \notin Index => At(q, x)' = At(q, x)
              /\ \A x \in Index : At(p, x).ptr \in {NoPtr, allocations[p][i].ptr}
                                      => At(p, x)'.ptr = NoPtr
            BY <1>3, <1>4, <2>1, ProcessFreeKeeps
        <3>2. QED
            BY <1>2, <3>1
    <2>2. CASE allocations[p][i].ptr = NoPtr /\ UNCHANGED <<entries, live, table, allocations>>
        <3>1. \A q \in Proc, x \in Places : At(q, x)' = At(q, x)
            BY <1>3, <1>4, <2>2 DEF At
        <3>2. Books' /\ IInv'
            BY <2>2, <3>1, BooksKept, HeapKept DEF MemInv, Undisturbed
        <3>3. TablesSound'
            BY <1>3, <2>2, TablesKept
        <3>4. At(p, i)'.ptr = NoPtr
            BY <1>2, <2>2, <3>1, PlacesSplit
        <3>5. QED
            BY <2>2, <3>1, <3>2, <3>3, <3>4 DEF MemInv, MemTypeOK
    <2>3. QED
        BY <1>1, <2>1, <2>2 DEF TerminateAllocation
<1>6. MemTypeOK'
    <2>1. i + 1 \in 0 .. MaxAllocations
        BY <1>1, ProcessMemoryAssumption
    <2>2. call' \in [op : {"free"}, p : Proc, i : 0 .. MaxAllocations]
        BY <1>3, <2>1
    <2>3. QED
        BY <1>3, <1>5, <2>2 DEF MemInv, MemTypeOK
<1>7. PhasesSound'
    <2>1. \A x \in Places : x < i + 1 => x < i \/ x = i
        BY <1>1, ProcessMemoryAssumption DEF Places
    <2>2. \A x \in Places : x < i + 1 => At(p, x)'.ptr = NoPtr
        BY <1>1, <1>5, <2>1 DEF FreedBelow
    <2>3. CallSound'
        BY <1>4, <2>2 DEF CallSound, FreedBelow
    <2>4. \A q \in Proc \ {p} : image'[q] = image[q] /\ program'[q] = program[q]
        BY <1>3
    <2>5. QED
        BY <1>1, <1>3, <1>4, <1>5, <2>3, <2>4, PhasesKept
<1>8. QED
    BY <1>5, <1>6, <1>7 DEF MemInv

LEMMA FreeImageKeeps ==
    ASSUME MemInv, FreeImage
    PROVE  MemInv'
<1>1. PICK p \in Proc : /\ call.op = "free" /\ call.p = p /\ Busy = {p} /\ p \notin running
                        /\ FreedBelow(p, MaxAllocations)
    BY CallTyped DEF FreeImage, MemInv, PhasesSound, CallSound
<1>2. /\ KFree(image[p].ptr) /\ image' = [image EXCEPT ![p] = Nothing]
      /\ program' = [program EXCEPT ![p] = NoFile] /\ call' = [op |-> "stack", p |-> p]
      /\ UNCHANGED <<running, allocations, stack, table>>
    BY <1>1 DEF FreeImage
<1>3. /\ Busy' = {p} /\ call.op # "give_back" /\ call'.op = "stack" /\ call'.p = p
      /\ \A q \in Proc : InHand(q)' = Nothing
    BY <1>1, <1>2 DEF Busy, LoadOps, InHand
<1>4. /\ Books' /\ IInv' /\ At(p, ImagePlace)' = Nothing
      /\ \A q \in Proc, x \in Places : q # p \/ x # ImagePlace => At(q, x)' = At(q, x)
    BY <1>2, <1>3, ImageEmptied
<1>5. MemTypeOK'
    <2>1. call' \in [op : LoadOps \cup {"stack"}, p : Proc]
        BY <1>2
    <2>2. QED
        BY <1>2, <2>1, NothingTyped DEF MemInv, MemTypeOK
<1>6. PhasesSound'
    <2>1. \A x \in Places : x # StackPlace => x < MaxAllocations \/ x = ImagePlace \/ x = HandPlace
        BY ProcessMemoryAssumption DEF Places, ImagePlace, StackPlace, HandPlace
    <2>2. At(p, HandPlace)'.ptr = NoPtr
        BY <1>3, PlacesSplit, NothingTyped DEF At
    <2>3. \A x \in Places : x # StackPlace => At(p, x)'.ptr = NoPtr
        BY <1>1, <1>4, <2>1, <2>2, NothingTyped DEF FreedBelow
    <2>4. CallSound'
        BY <1>3, <2>3 DEF CallSound, Only
    <2>5. \A q \in Proc \ {p} : image'[q] = image[q] /\ program'[q] = program[q]
        BY <1>2 DEF MemInv, MemTypeOK
    <2>6. QED
        BY <1>1, <1>2, <1>3, <1>4, <2>4, <2>5, PhasesKept
<1>7. TablesSound'
    BY <1>1, <1>2, TablesKept DEF MemInv, MemTypeOK
<1>8. QED
    BY <1>4, <1>5, <1>6, <1>7 DEF MemInv

LEMMA FreeStackKeeps ==
    ASSUME MemInv, FreeStack
    PROVE  MemInv'
<1>1. PICK p \in Proc : /\ call.op = "stack" /\ call.p = p /\ Busy = {p} /\ p \notin running
                        /\ Only(p, {StackPlace})
    BY CallTyped DEF FreeStack, MemInv, PhasesSound, CallSound
<1>2. /\ KFree(stack[p].ptr) /\ call' = Idle /\ stack' = [stack EXCEPT ![p] = Nothing]
      /\ table' = [table EXCEPT ![p] = Fresh]
      /\ UNCHANGED <<running, allocations, image, program>>
    BY <1>1 DEF FreeStack
<1>3. Busy' = {} /\ call'.op = "idle" /\ \A q \in Proc : InHand(q)' = InHand(q)
    BY <1>1, <1>2 DEF Busy, LoadOps, Idle, InHand
<1>4. At(p, StackPlace) = stack[p] /\ At(p, StackPlace)' = Nothing
    BY <1>2, PlacesSplit DEF At, MemInv, MemTypeOK
<1>5. \A q \in Proc, x \in Places : q # p \/ x # StackPlace => At(q, x)' = At(q, x)
    BY <1>2, <1>3, PlacesSplit DEF At, MemInv, MemTypeOK
<1>6. Books' /\ IInv'
    BY <1>2, <1>4, <1>5, PlaceEmptied, PlacesSplit
<1>7. MemTypeOK'
    BY <1>2, NothingTyped, FreshTyped DEF MemInv, MemTypeOK
<1>8. PhasesSound'
    <2>1. Only(p, {})' /\ CallSound'
        BY <1>1, <1>3, <1>4, <1>5, NothingTyped DEF Only, CallSound
    <2>2. QED
        BY <1>1, <1>2, <1>3, <1>5, <2>1, PhasesKept
<1>9. TablesSound'
    BY <1>1, <1>2, TablesKept DEF MemInv, MemTypeOK
<1>10. QED
    BY <1>6, <1>7, <1>8, <1>9 DEF MemInv

-----------------------------------------------------------------------------
LEMMA MemInvInit == MemInit => MemInv
<1> SUFFICES ASSUME MemInit PROVE MemInv
    OBVIOUS
<1>1. IInv /\ live = {}
    BY DEF MemInit, Init, IInv, TypeOK, TableEncodesLive, LiveDisjoint, FREE, Flags
<1>2. call = Idle /\ call.op = "idle" /\ running = {} /\ Busy = {}
    BY DEF MemInit, Idle, Busy, LoadOps
<1>3. MemTypeOK
    <2>1. [i \in Index |-> Nothing] \in [Index -> Pieces] /\ Nothing \in Pieces
        BY NothingTyped
    <2>2. QED
        BY <2>1, FreshTyped DEF MemInit, MemTypeOK
<1>4. \A p \in Proc, x \in Places : At(p, x).ptr = NoPtr
    BY <1>2, NothingTyped, PlacesSplit DEF MemInit, At, InHand
<1>5. Books
    BY <1>1, <1>4 DEF Books, PiecesLive, NothingLeaked, PlacesDistinct
<1>6. PhasesSound /\ TablesSound
    BY <1>2, <1>4 DEF PhasesSound, CallSound, Only, TablesSound
<1>7. QED
    BY <1>1, <1>3, <1>5, <1>6 DEF MemInv

LEMMA MemInvNext == RealRequests /\ MemInv /\ [MemNext]_allVars => MemInv'
<1> SUFFICES ASSUME RealRequests, MemInv, [MemNext]_allVars PROVE MemInv'
    OBVIOUS
<1>1. ASSUME NEW p \in Proc, NEW f \in Programs,
             ElfLoad(p, f) \/ ElfLoadLow(p, f) \/ ElfLoadWild(p, f)
      PROVE  MemInv'
    BY <1>1, ElfLoadKeeps, ElfLoadWildKeeps
<1>2. CASE NotElf \/ LoadBinary \/ LoadBinaryFails \/ ReadFails
    BY <1>2, NotElfKeeps, LoadBinaryKeeps, LoadBinaryFailsKeeps, ReadFailsKeeps
<1>3. CASE LoadStack \/ LoadStackFails \/ LoadFails \/ Register
    BY <1>3, LoadStackKeeps, LoadFailsKeeps, RegisterKeeps
<1>4. ASSUME NEW p \in Proc, NEW size \in RequestSizes,
             ProcessMalloc(p, size) \/ ProcessMallocFull(p, size)
      PROVE  MemInv'
    BY <1>4, ProcessMallocKeeps, ProcessMallocFullKeeps
<1>5. CASE UNCHANGED allVars
    <2>1. UNCHANGED <<entries, live, running, allocations, image, stack, program, table, call>>
        BY <1>5 DEF allVars, memory
    <2>2. /\ Busy' = Busy /\ \A q \in Proc : InHand(q)' = InHand(q)
        BY <2>1 DEF Busy, InHand
    <2>3. \A q \in Proc, x \in Places : At(q, x)' = At(q, x)
        BY <2>1, <2>2 DEF At
    <2>4. Books' /\ IInv'
        BY <2>1, <2>3, BooksKept, HeapKept DEF MemInv, Undisturbed
    <2>5. MemTypeOK' /\ TablesSound'
        BY <2>1, TablesKept DEF MemInv, MemTypeOK
    <2>6. PhasesSound'
        <3>1. \A p, n : FreedBelow(p, n)' <=> FreedBelow(p, n)
            BY <2>1, <2>2 DEF FreedBelow, At, InHand
        <3>2. \A p : ImageSound(p)' <=> ImageSound(p)
            BY <2>1 DEF ImageSound
        <3>3. QED
            BY <2>1, <2>2, <2>3, <3>1, <3>2
               DEF MemInv, PhasesSound, CallSound, Only, At, InHand
    <2>7. QED
        BY <2>4, <2>5, <2>6 DEF MemInv
<1>6. ASSUME NEW p \in Proc, NEW size \in RequestSizes, ProcessMallocFails(p, size)
      PROVE  MemInv'
    BY <1>5, <1>6 DEF ProcessMallocFails, MallocFail, allVars, vars
<1>7. CASE GiveBack
    BY <1>7, GiveBackKeeps
<1>8. ASSUME NEW p \in Proc, NEW ptr \in Blocks \cup {NoPtr}, SysFree(p, ptr) PROVE MemInv'
    BY <1>8, SysFreeKeeps
<1>9. ASSUME NEW p \in Proc, Terminate(p) PROVE MemInv'
    BY <1>9, TerminateKeeps
<1>10. CASE TerminateAllocation \/ FreeImage \/ FreeStack
    BY <1>10, TerminateAllocationKeeps, FreeImageKeeps, FreeStackKeeps
<1>11. QED
    BY <1>1, <1>2, <1>3, <1>4, <1>5, <1>6, <1>7, <1>8, <1>9, <1>10 DEF MemNext

LEMMA MemInductive == ASSUME RealRequests PROVE MemSpec => []MemInv
<1>1. MemInv /\ [MemNext]_allVars => MemInv'
    BY MemInvNext
<1>2. QED
    BY <1>1, MemInvInit, PTL DEF MemSpec

-----------------------------------------------------------------------------
(***************************************************************************)
(* What follows from the invariant.                                        *)
(***************************************************************************)
LEMMA HeldPlaces ==
    ASSUME NEW p \in Proc
    PROVE  \A h : h \in Held(p) <=> h.ptr # NoPtr /\ \E x \in Places : h = At(p, x)
<1>1. ASSUME NEW h, h \in Held(p) PROVE h.ptr # NoPtr /\ \E x \in Places : h = At(p, x)
    BY <1>1, AtPlaces, PlacesSplit DEF Held
<1>2. ASSUME NEW h, h.ptr # NoPtr, NEW x \in Places, h = At(p, x) PROVE h \in Held(p)
    BY <1>2, AtPlaces, PlacesSplit DEF Held
<1>3. QED
    BY <1>1, <1>2

LEMMA BooksAreBalanced == MemInv => BooksBalance
<1> SUFFICES ASSUME MemInv PROVE BooksBalance
    OBVIOUS
<1> DEFINE there == running \cup Busy
           held == UNION {{[start |-> h.ptr, len |-> BlocksFor(h.size)] : h \in Held(p)} : p \in there}
<1>1. there \subseteq Proc
    BY DEF MemInv, MemTypeOK, PhasesSound
<1>2. ASSUME NEW a \in live PROVE a \in held
    <2>1. PICK p \in Proc, x \in Places : At(p, x).ptr # NoPtr /\ a = BlocksOf(At(p, x))
        BY DEF MemInv, Books, NothingLeaked
    <2>2. p \in there /\ At(p, x) \in Held(p)
        BY <2>1, HeldPlaces DEF MemInv, PhasesSound, Only
    <2>3. QED
        BY <2>1, <2>2 DEF BlocksOf
<1>3. ASSUME NEW a \in held PROVE a \in live
    <2>1. PICK p \in there : \E h \in Held(p) : a = [start |-> h.ptr, len |-> BlocksFor(h.size)]
        OBVIOUS
    <2>2. PICK h \in Held(p) : a = [start |-> h.ptr, len |-> BlocksFor(h.size)]
        BY <2>1
    <2>3. PICK x \in Places : h = At(p, x) /\ h.ptr # NoPtr
        BY <1>1, <2>2, HeldPlaces
    <2>4. QED
        BY <1>1, <2>2, <2>3 DEF MemInv, Books, PiecesLive, BlocksOf
<1>4. live = held
    BY <1>2, <1>3
<1>5. \A p, q \in Proc : p # q => {h.ptr : h \in Held(p)} \cap {h.ptr : h \in Held(q)} = {}
    BY HeldPlaces DEF MemInv, Books, PlacesDistinct
<1>6. QED
    BY <1>4, <1>5 DEF BooksBalance, MemInv

LEMMA WritableAreHeld == MemInv => WritableIsHeld
<1> SUFFICES ASSUME MemInv, NEW p \in running, NEW n \in UserPages(p)
             PROVE  n \in HeldPages(p) \cup 0 .. HeapStart - 1 \cup Overrun(p)
    BY DEF WritableIsHeld
<1>1. p \in Proc /\ TableSound(p)
    BY DEF MemInv, MemTypeOK, TablesSound
<1>2. PICK v \in Pages : table[p][v].writable /\ n = table[p][v].page
    BY DEF UserPages
<1>3. ASSUME NEW x \in Places, n \in PagesOf(At(p, x)) PROVE n \in HeldPages(p)
    <2>1. At(p, x).ptr # NoPtr
        BY <1>3 DEF PagesOf
    <2>2. At(p, x) \in Held(p)
        BY <1>1, <2>1, HeldPlaces
    <2>3. QED
        BY <1>3, <2>2 DEF HeldPages
<1>4. ASSUME NEW i \in Index, n \in PagesOf(allocations[p][i]) PROVE n \in HeldPages(p)
    BY <1>1, <1>3, <1>4, AtPlaces, PlacesSplit
<1>5. n \in PagesOf(image[p]) \/ n \in PagesOf(stack[p]) => n \in HeldPages(p)
    BY <1>1, <1>3, AtPlaces, PlacesSplit
<1>6. QED
    BY <1>1, <1>2, <1>4, <1>5 DEF TableSound, LoadedPages

LEMMA PagesArePrivate == MemInv => PagesPrivate
<1> SUFFICES ASSUME MemInv, NEW p \in running, NEW q \in running, p # q,
                    NEW n \in UserPages(p), n \in HeldPages(q), n \notin Overrun(p)
             PROVE  FALSE
    BY DEF PagesPrivate
<1>1. p \in Proc /\ q \in Proc
    BY DEF MemInv, MemTypeOK
<1>2. ASSUME NEW r \in Proc, n \in HeldPages(r)
      PROVE  \E y \in Places : /\ At(r, y).ptr # NoPtr /\ BlocksOf(At(r, y)) \in live
                               /\ n >= HeapStart /\ n - HeapStart \in Span(BlocksOf(At(r, y)))
    <2>1. PICK h \in Held(r) : n \in PagesOf(h)
        BY <1>2 DEF HeldPages
    <2>2. PICK y \in Places : h = At(r, y) /\ h.ptr # NoPtr
        BY <2>1, HeldPlaces
    <2>3. h \in Pieces
        BY <2>2, AtTyped DEF MemInv
    <2>4. n >= HeapStart /\ n - HeapStart \in Span(BlocksOf(h))
        BY <2>1, <2>3, PagesOfPiece
    <2>5. QED
        BY <2>2, <2>4 DEF MemInv, Books, PiecesLive
<1>3. PICK y \in Places : /\ At(q, y).ptr # NoPtr /\ BlocksOf(At(q, y)) \in live
                          /\ n >= HeapStart /\ n - HeapStart \in Span(BlocksOf(At(q, y)))
    BY <1>1, <1>2
<1>4. n \in HeldPages(p)
    <2>1. n \notin 0 .. HeapStart - 1
        BY <1>3, NoPtrIsNoBlock
    <2>2. QED
        BY <2>1, WritableAreHeld DEF WritableIsHeld
<1>5. PICK x \in Places : /\ At(p, x).ptr # NoPtr /\ BlocksOf(At(p, x)) \in live
                          /\ n - HeapStart \in Span(BlocksOf(At(p, x)))
    BY <1>1, <1>2, <1>4
<1>6. BlocksOf(At(p, x)) = BlocksOf(At(q, y))
    BY <1>3, <1>5 DEF MemInv, IInv, LiveDisjoint
<1>7. At(p, x).ptr = At(q, y).ptr
    BY <1>6 DEF BlocksOf
<1>8. QED
    BY <1>1, <1>5, <1>7 DEF MemInv, Books, PlacesDistinct

\* Whatever is loaded, allocated, freed and stopped in whatever order, and at
\* whatever step a load or a malloc fails - before the stack, after it, or with
\* the allocations array full: the heap's outstanding allocations are those the
\* processes that are there have in their books (process.c:63-90, 308-560).
THEOREM MemoryBooks == RealRequests => (MemSpec => []BooksBalance)
<1>1. SUFFICES ASSUME RealRequests PROVE MemSpec => []BooksBalance
    OBVIOUS
<1>2. QED
    BY <1>1, BooksAreBalanced, MemInductive, PTL

\* No page stays writable after it was freed, although process_free unmaps and
\* releases in separate calls (process.c:298), for any programs.
THEOREM MemoryWritable == RealRequests => (MemSpec => []WritableIsHeld)
<1>1. SUFFICES ASSUME RealRequests PROVE MemSpec => []WritableIsHeld
    OBVIOUS
<1>2. QED
    BY <1>1, WritableAreHeld, MemInductive, PTL

\* The isolation of docs/api/paging_switch.md:35 as far as the code keeps it, for
\* any programs and whatever their headers say: a page of another process is
\* writable only where a segment longer in memory than the file reaches behind
\* the image (process.c:390).
THEOREM MemoryPrivate == RealRequests => (MemSpec => []PagesPrivate)
<1>1. SUFFICES ASSUME RealRequests PROVE MemSpec => []PagesPrivate
    OBVIOUS
<1>2. QED
    BY <1>1, PagesArePrivate, MemInductive, PTL

-----------------------------------------------------------------------------
(***************************************************************************)
(* The calls of processes are calls of the heap.                           *)
(***************************************************************************)
LEMMA PieceFreed ==
    ASSUME MemInv, NEW p \in Proc, NEW x \in Places, KFree(At(p, x).ptr)
    PROVE  [Next]_vars
<1>1. CASE At(p, x).ptr = NoPtr
    BY <1>1 DEF KFree
<1>2. CASE At(p, x).ptr # NoPtr
    <2> DEFINE a == BlocksOf(At(p, x))
    <2>1. a \in live /\ a.start = At(p, x).ptr
        BY <1>2 DEF MemInv, Books, PiecesLive, BlocksOf
    <2> HIDE DEF a
    <2>2. MarkFree(a.start) /\ live' = live \ {a}
        <3>1. IInv' /\ live' = live \ {a}
            BY <2>1, KFreeHeld DEF MemInv
        <3>2. QED
            BY <1>2, <2>1, <3>1 DEF KFree
    <2>3. QED
        BY <2>1, <2>2 DEF Free, Next
<1>3. QED
    BY <1>1, <1>2

LEMMA PieceAllocated ==
    ASSUME RealRequests, NEW size \in Sizes, NEW s \in Blocks, MallocAt(s, size)
    PROVE  [Next]_vars
BY DEF Malloc, MallocAt, Next

LEMMA HeapStep == MemInv /\ RealRequests /\ [MemNext]_allVars => [Next]_vars
<1> SUFFICES ASSUME MemInv, RealRequests, [MemNext]_allVars PROVE [Next]_vars
    OBVIOUS
<1>1. ASSUME NEW p \in Proc, NEW f \in Programs,
             ElfLoad(p, f) \/ ElfLoadLow(p, f) \/ ElfLoadWild(p, f)
      PROVE  [Next]_vars
    BY <1>1, PieceAllocated, ProcessMemoryAssumption DEF ElfLoad, ElfLoadLow, ElfLoadWild, MallocFail
<1>2. CASE NotElf \/ ReadFails \/ FreeImage
    <2>1. call.p \in Proc
        BY <1>2, CallTyped DEF NotElf, ReadFails, FreeImage, LoadOps, MemInv
    <2>2. KFree(image[call.p].ptr) /\ At(call.p, ImagePlace) = image[call.p]
        BY <1>2, <2>1, AtPlaces DEF NotElf, ReadFails, FreeImage
    <2>3. QED
        BY <2>1, <2>2, PieceFreed, PlacesSplit
<1>3. CASE LoadBinary
    <2>1. program[call.p].size \in Sizes
        <3>1. program[call.p] \in Programs
            BY <1>3 DEF LoadBinary, MemInv, PhasesSound, CallSound
        <3>2. QED
            BY <3>1, ProcessMemoryAssumption
    <2>2. QED
        BY <1>3, <2>1, PieceAllocated DEF LoadBinary
<1>4. CASE LoadStack
    BY <1>4, PieceAllocated, ProcessMemoryAssumption DEF LoadStack
<1>5. CASE LoadBinaryFails \/ LoadStackFails \/ LoadFails \/ Register
    BY <1>5 DEF LoadBinaryFails, LoadStackFails, LoadFails, Register, MallocFail
<1>6. ASSUME NEW p \in Proc, NEW size \in RequestSizes,
             \/ ProcessMalloc(p, size) \/ ProcessMallocFull(p, size) \/ ProcessMallocFails(p, size)
      PROVE  [Next]_vars
    BY <1>6, PieceAllocated, ProcessMemoryAssumption
       DEF ProcessMalloc, ProcessMallocFull, ProcessMallocFails, MallocFail
<1>7. CASE GiveBack
    <2>1. call.p \in Proc /\ At(call.p, HandPlace) = call.piece
        BY <1>7, CallTyped, AtPlaces DEF GiveBack, MemInv, InHand
    <2>2. QED
        BY <1>7, <2>1, PieceFreed, PlacesSplit DEF GiveBack
<1>8. ASSUME NEW p \in Proc, NEW ptr, ProcessFree(p, ptr) PROVE [Next]_vars
    <2>1. PICK i \in Index : allocations[p][i].ptr = ptr /\ KFree(ptr)
        BY <1>8 DEF ProcessFree, Found
    <2>2. At(p, i) = allocations[p][i]
        BY AtPlaces
    <2>3. QED
        BY <2>1, <2>2, PieceFreed, PlacesSplit
<1>9. ASSUME NEW p \in Proc, NEW ptr \in Blocks \cup {NoPtr}, SysFree(p, ptr) PROVE [Next]_vars
    BY <1>8, <1>9 DEF SysFree, vars
<1>10. ASSUME NEW p \in Proc, Terminate(p) PROVE [Next]_vars
    BY <1>10 DEF Terminate
<1>11. CASE TerminateAllocation
    <2>1. call.p \in Proc
        BY <1>11, CallTyped DEF TerminateAllocation, MemInv
    <2>2. QED
        BY <1>8, <1>11, <2>1 DEF TerminateAllocation, vars
<1>12. CASE FreeStack
    <2>1. call.p \in Proc /\ At(call.p, StackPlace) = stack[call.p]
        BY <1>12, CallTyped, AtPlaces DEF FreeStack, MemInv
    <2>2. QED
        BY <1>12, <2>1, PieceFreed, PlacesSplit DEF FreeStack
<1>13. CASE UNCHANGED allVars
    BY <1>13 DEF allVars, vars
<1>14. QED
    BY <1>1, <1>2, <1>3, <1>4, <1>5, <1>6, <1>7, <1>9, <1>10, <1>11, <1>12, <1>13 DEF MemNext

\* Loads, mallocs, frees and exits call the heap as Heap.tla says it is called: no
\* pointer is freed that is not outstanding, so what is proved of the heap holds
\* under the processes (process.c:83, 214-222, 298).
THEOREM MemoryUsesHeap == RealRequests => (MemSpec => Spec)
<1>1. SUFFICES ASSUME RealRequests PROVE MemSpec => Spec
    OBVIOUS
<1>2. MemInit => Init
    BY DEF MemInit
<1>3. MemInv /\ [MemNext]_allVars => [Next]_vars
    BY <1>1, HeapStep
<1>4. QED
    BY <1>1, <1>2, <1>3, MemInductive, PTL DEF MemSpec, Spec

-----------------------------------------------------------------------------
(***************************************************************************)
(* Where the bytes of a program are.                                       *)
(***************************************************************************)
\* A segment has a page for each of its own, from the one its offset is in.
LEMMA SegmentPages ==
    ASSUME NEW s \in Segment, SegmentLinked(s), NEW ptr \in Blocks \cup {NoPtr}
    PROVE  /\ DOMAIN SegmentMap(ptr, s) = VirtualPages(s)
           /\ \A v \in VirtualPages(s) :
                  SegmentMap(ptr, s)[v] =
                      HeapStart + ptr + (s.offset \div BlockSize) + v - (s.vaddr \div BlockSize)
<1> DEFINE B == BlockSize  b == HeapStart + ptr
           o == s.offset  m == s.memsz  r == o % B  qo == o \div B  qv == s.vaddr \div B
           phys == b * B + o
<1>1. /\ B \in Nat \ {0} /\ o \in Nat /\ m \in Nat /\ s.vaddr \in Nat /\ s.vaddr % B = r
    BY HeapAssumption DEF SegmentLinked, Segment
<1>2. /\ qo \in Int /\ r \in 0 .. B - 1 /\ o = qo * B + r
      /\ qv \in Int /\ s.vaddr = qv * B + r
      /\ LowerPage(s.vaddr) = qv * B
    <2>1. o \in Int /\ s.vaddr \in Int
        BY <1>1
    <2>2. qo \in Int /\ r \in 0 .. B - 1 /\ o = qo * B + r
        BY <2>1, LowerPageIs
    <2>3. /\ qv \in Int /\ s.vaddr = qv * B + (s.vaddr % B)
          /\ LowerPage(s.vaddr) = qv * B
        BY <2>1, LowerPageIs
    <2>4. QED
        BY <1>1, <2>2, <2>3
<1>3. b \in Int /\ Address(ptr) + o = phys
    <2>1. b \in Int
        BY NoPtrIsNoBlock
    <2>2. QED
        BY <2>1 DEF Address
<1>4. PICK k \in Int : PageUp(o + m) = k * B
    <2>1. o + m \in Int
        BY <1>1
    <2>2. QED
        BY <2>1, PageUpIs
<1> HIDE DEF b
<1>5. PageUp(phys + m) = (b + k) * B
    <2>1. phys + m = (o + m) + b * B /\ o + m \in Int
        BY <1>1, <1>3
    <2>2. PageUp(phys + m) = k * B + b * B
        BY <1>3, <1>4, <2>1, PageUpShift
    <2>3. QED
        BY <1>1, <1>3, <2>2
<1>6. PageUp(s.vaddr + m) = (k + qv - qo) * B
    <2>1. s.vaddr + m = (o + m) + (qv - qo) * B /\ o + m \in Int /\ qv - qo \in Int
        <3> HIDE DEF o, m, r, qo, qv, B
        <3>1. QED
            BY <1>1, <1>2
    <2>2. PageUp(s.vaddr + m) = k * B + (qv - qo) * B
        BY <1>4, <2>1, PageUpShift
    <2> HIDE DEF B, qo, qv
    <2>3. QED
        BY <1>1, <1>2, <2>2
<1>7. LowerPage(phys) = (b + qo) * B
    <2>1. phys = (b + qo) * B + r /\ b + qo \in Int
        <3> HIDE DEF o, m, r, qo, qv, B
        <3>1. QED
            BY <1>1, <1>2, <1>3
    <2>2. phys \div B = b + qo
        BY <1>2, <2>1, MultipleDiv
    <2>3. phys \in Int
        BY <1>1, <1>3
    <2>4. QED
        BY <2>2, <2>3, LowerPageIs
<1> HIDE DEF o, m, r, qo, qv, phys
<1>8. \A j \in Int : (j * B) \div B = j
    <2>1. \A j \in Int : (j * B + 0) \div B = j
        BY <1>1, MultipleDiv
    <2>2. \A j \in Int : j * B + 0 = j * B
        BY <1>1
    <2>3. QED
        BY <2>1, <2>2
<1>9. /\ LowerPage(s.vaddr) \div B = qv /\ LowerPage(phys) \div B = b + qo
      /\ PageUp(s.vaddr + m) \div B = k + qv - qo
      /\ (PageUp(phys + m) - LowerPage(phys)) \div B = k - qo
    <2>1. (b + k) * B - (b + qo) * B = (k - qo) * B
        BY <1>1, <1>2, <1>3, <1>4
    <2>2. b + qo \in Int /\ k + qv - qo \in Int /\ k - qo \in Int
        BY <1>2, <1>3, <1>4
    <2>3. QED
        BY <1>2, <1>5, <1>6, <1>7, <1>8, <2>1, <2>2
<1>10. VirtualPages(s) = qv .. k + qv - qo - 1
    <2>1. VirtualPages(s) = qv .. (PageUp(s.vaddr + m) \div B) - 1
        BY DEF VirtualPages, qv, m
    <2>2. (PageUp(s.vaddr + m) \div B) - 1 = k + qv - qo - 1
        BY <1>2, <1>4, <1>9
    <2>3. QED
        BY <2>1, <2>2
<1>11. SegmentMap(ptr, s) = [v \in qv .. qv + (k - qo) - 1 |-> b + qo + v - qv]
    BY <1>3, <1>9 DEF SegmentMap, MapTo, o, m
<1>12. qv .. qv + (k - qo) - 1 = qv .. k + qv - qo - 1
    BY <1>2, <1>4
<1>13. \A v \in qv .. k + qv - qo - 1 : SegmentMap(ptr, s)[v] = b + qo + v - qv
    BY <1>11, <1>12
<1>14. DOMAIN SegmentMap(ptr, s) = VirtualPages(s)
    BY <1>10, <1>11, <1>12
<1>15. QED
    BY <1>10, <1>13, <1>14 DEF qo, qv, o, b

\* The segments of a program of the disk.
LEMMA SegmentsTyped ==
    ASSUME NEW f \in Programs
    PROVE  Segments(f) \in Seq(Segment)
<1>1. CASE IsElf(f)
    BY <1>1, ProcessMemoryAssumption DEF Segments
<1>2. CASE ~IsElf(f)
    <2>1. f.size \in Nat /\ ProgramAddress \in Nat
        <3>1. f.size \in Sizes /\ ProgramAddress \in Nat
            BY ProcessMemoryAssumption
        <3>2. QED
            BY <3>1, SizesAreNat
    <2>2. [vaddr |-> ProgramAddress, offset |-> 0, filesz |-> f.size, memsz |-> f.size,
           writable |-> TRUE] \in Segment
        BY <2>1 DEF Segment
    <2>3. QED
        BY <1>2, <2>2 DEF Segments, Flat
<1>3. QED
    BY <1>1, <1>2

\* A linked program has an entry for each page of each of its segments.
LEMMA ImageEntries ==
    ASSUME NEW p, program[p] \in Programs, image[p].ptr \in Blocks \cup {NoPtr},
           Linked(Segments(program[p]))
    PROVE  \A i \in DOMAIN Segments(program[p]) :
               LET s == Segments(program[p])[i] IN
               \A v \in VirtualPages(s) :
                   /\ v \in DOMAIN ImageMap(p)
                   /\ ImageMap(p)[v].page = SegmentMap(image[p].ptr, s)[v]
                   /\ ImageMap(p)[v].writable = s.writable
<1> DEFINE segs == Segments(program[p])
           map == [i \in DOMAIN segs |-> SegmentMap(image[p].ptr, segs[i])]
           last(v) == Max({i \in DOMAIN map : v \in DOMAIN map[i]})
           pages == UNION {DOMAIN map[i] : i \in DOMAIN map}
<1>1. ImageMap(p) = [v \in pages |-> [page |-> map[last(v)][v], writable |-> segs[last(v)].writable]]
    BY DEF ImageMap
<1>2. /\ \A i \in DOMAIN segs : map[i] = SegmentMap(image[p].ptr, segs[i])
      /\ DOMAIN map = DOMAIN segs
    OBVIOUS
<1>3. DOMAIN segs \subseteq Nat /\ \A i \in DOMAIN segs : segs[i] \in Segment
    BY SegmentsTyped
<1>4. \A i \in DOMAIN segs : DOMAIN map[i] = VirtualPages(segs[i])
    BY <1>2, <1>3, SegmentPages DEF Linked
<1>5. \A i, j \in DOMAIN segs : i # j => VirtualPages(segs[i]) \cap VirtualPages(segs[j]) = {}
    BY DEF Linked
<1> HIDE DEF segs, map
<1>6. ASSUME NEW i \in DOMAIN segs, NEW v \in VirtualPages(segs[i])
      PROVE  last(v) = i /\ v \in pages
    <2>1. {j \in DOMAIN map : v \in DOMAIN map[j]} = {i}
        BY <1>2, <1>4, <1>5
    <2>2. i \in Nat
        BY <1>3
    <2>3. Max({i}) = i
        BY <2>2 DEF Max
    <2>4. QED
        BY <1>2, <1>4, <2>1, <2>3
<1>7. DOMAIN ImageMap(p) = pages
    BY <1>1
<1>8. ASSUME NEW i \in DOMAIN segs, NEW v \in VirtualPages(segs[i])
      PROVE  /\ v \in DOMAIN ImageMap(p)
             /\ ImageMap(p)[v].page = SegmentMap(image[p].ptr, segs[i])[v]
             /\ ImageMap(p)[v].writable = segs[i].writable
    <2>1. last(v) = i /\ v \in pages
        BY <1>6
    <2> HIDE DEF last, pages
    <2>2. ImageMap(p)[v] = [page |-> map[last(v)][v], writable |-> segs[last(v)].writable]
        BY <1>1, <2>1
    <2>3. QED
        BY <1>2, <1>7, <2>1, <2>2
<1>9. QED
    BY <1>8 DEF segs

\* An address of a segment lies in the pages that are mapped for it, in the page
\* of the image that has the byte the segment puts there.
LEMMA AddressInPage ==
    ASSUME NEW s \in Segment, SegmentLinked(s), NEW ptr \in Blocks \cup {NoPtr},
           NEW a \in s.vaddr .. s.vaddr + s.filesz - 1
    PROVE  /\ a \div BlockSize \in VirtualPages(s) /\ a \div BlockSize \in Nat
           /\ (SegmentMap(ptr, s)[a \div BlockSize] * BlockSize) + (a % BlockSize)
                  = Address(ptr) + s.offset + a - s.vaddr
<1> DEFINE B == BlockSize  o == s.offset  t == s.vaddr  m == s.memsz  b == HeapStart + ptr
           v == a \div B  r == t % B  qo == o \div B  qv == t \div B  ra == a % B
<1>1. /\ B \in Nat \ {0} /\ o \in Nat /\ t \in Nat /\ m \in Nat /\ a \in Nat
      /\ a >= t /\ a < t + m /\ o % B = r
    BY HeapAssumption DEF SegmentLinked, Segment
<1>2. v \in Int /\ ra \in 0 .. B - 1 /\ a = v * B + ra
    <2>1. a \in Int
        BY <1>1
    <2>2. QED
        BY <2>1, LowerPageIs
<1>3. qv \in Int /\ r \in 0 .. B - 1 /\ t = qv * B + r
    <2>1. t \in Int
        BY <1>1
    <2>2. QED
        BY <2>1, LowerPageIs
<1>4. qo \in Int /\ o = qo * B + r
    <2>1. o \in Int
        BY <1>1
    <2>2. qo \in Int /\ o = qo * B + (o % B)
        BY <2>1, LowerPageIs
    <2> HIDE DEF qo, o
    <2>3. QED
        BY <1>1, <2>2
<1>5. PICK k \in Int : PageUp(t + m) = k * B /\ t + m <= k * B
    <2>1. t + m \in Int
        BY <1>1
    <2>2. QED
        BY <2>1, PageUpIs
<1>6. b \in Int /\ Address(ptr) = b * B
    BY NoPtrIsNoBlock DEF Address
<1> HIDE DEF o, t, m, v, r, qo, qv, ra, b
<1>7. PageUp(t + m) \div B = k
    <2>1. k * B + 0 = k * B /\ 0 \in 0 .. B - 1
        BY <1>1
    <2>2. QED
        BY <1>5, <2>1, MultipleDiv
<1>8. qv <= v /\ v < k /\ v \in Nat
    <2>1. qv * B < (v + 1) * B /\ v * B < k * B /\ 0 * B < (v + 1) * B
        BY <1>1, <1>2, <1>3, <1>5
    <2>2. qv < v + 1 /\ v < k /\ 0 < v + 1
        BY <1>2, <1>3, <2>1, MultipleOrder
    <2>3. QED
        BY <1>2, <1>3, <2>2
<1>9. VirtualPages(s) = qv .. k - 1
    BY <1>7 DEF VirtualPages, qv, t, m
<1>10. v \in VirtualPages(s)
    BY <1>2, <1>3, <1>8, <1>9
<1>11. SegmentMap(ptr, s)[v] = b + qo + v - qv
    BY <1>10, SegmentPages DEF qo, qv, o, t, b
<1>12. (b + qo + v - qv) * B + ra = b * B + o + a - t
    BY <1>1, <1>2, <1>3, <1>4, <1>6
<1>13. QED
    BY <1>6, <1>8, <1>10, <1>11, <1>12 DEF v, ra, o, t

\* The entries of its segments stand while a process runs: what is mapped and
\* unmapped for its allocations lies in the heap or behind it.
StandIn(t, f, ptr) ==
    \A i \in DOMAIN Segments(f) :
        LET s == Segments(f)[i] IN
        \A v \in VirtualPages(s) \cap Nat :
            t[v].page = SegmentMap(ptr, s)[v] /\ t[v].writable = s.writable
SegmentsStand == \A p \in running : StandIn(table[p], program[p], image[p].ptr)

LEMMA SegmentsStandNext ==
    ASSUME MemInv, RealRequests, LinkedPrograms, SegmentsStand, [MemNext]_allVars
    PROVE  SegmentsStand'
<1> DEFINE Kept(p) == /\ image'[p] = image[p] /\ program'[p] = program[p]
                      /\ \A v \in Pages : v < HeapStart => table'[p][v] = table[p][v]
<1>1. ASSUME NEW p \in running
      PROVE  /\ program[p] \in Programs /\ Linked(Segments(program[p]))
             /\ image[p].ptr \in Blocks \cup {NoPtr}
    BY <1>1 DEF MemInv, MemTypeOK, PhasesSound, ImageSound, LinkedPrograms, Pieces
<1>2. \A v \in Nat : v < HeapStart => v \in Pages
    <2>1. /\ HeapStart \in Nat /\ Total \in Nat /\ WordSize \div BlockSize \in Int
          /\ HeapStart + Total <= WordSize \div BlockSize
        BY ProcessMemoryAssumption, HeapAssumption, PagesAreNat
    <2>2. QED
        BY <2>1 DEF Pages
<1>3. ASSUME running' \subseteq running, \A p \in running' : Kept(p) PROVE SegmentsStand'
    <2>1. ASSUME NEW p \in running' PROVE StandIn(table'[p], program[p], image[p].ptr)
        <3>1. ASSUME NEW i \in DOMAIN Segments(program[p]),
                     NEW v \in VirtualPages(Segments(program[p])[i]) \cap Nat
              PROVE  table'[p][v] = table[p][v]
            <4>1. SegmentLinked(Segments(program[p])[i])
                BY <1>1, <1>3 DEF Linked
            <4>2. v < HeapStart
                BY <4>1 DEF SegmentLinked
            <4>3. QED
                BY <1>2, <1>3, <4>2
        <3>2. StandIn(table[p], program[p], image[p].ptr)
            BY <1>3 DEF SegmentsStand
        <3>3. QED
            BY <3>1, <3>2 DEF StandIn
    <2>2. ASSUME NEW p \in running' PROVE StandIn(table[p], program[p], image[p].ptr)'
        BY <1>3, <2>1
    <2>3. QED
        BY <2>2 DEF SegmentsStand
<1>4. ASSUME NEW p \in Proc, p \notin running', running' \subseteq running,
             \A q \in Proc : q # p => /\ image'[q] = image[q] /\ program'[q] = program[q]
                                      /\ table'[q] = table[q]
      PROVE  SegmentsStand'
    BY <1>3, <1>4 DEF MemInv, MemTypeOK
<1>5. ASSUME NEW p \in Proc, NEW f \in Programs, NEW ptr, Loaded(p, f, ptr), p \notin running
      PROVE  SegmentsStand'
    BY <1>4, <1>5 DEF Loaded, MemInv, MemTypeOK
<1>6. CASE UNCHANGED <<running, image, program, table>>
    BY <1>3, <1>6
<1>7. ASSUME NEW p \in Proc, NEW f \in Programs,
             ElfLoad(p, f) \/ ElfLoadLow(p, f) \/ ElfLoadWild(p, f)
      PROVE  SegmentsStand'
    BY <1>5, <1>6, <1>7 DEF ElfLoad, ElfLoadLow, ElfLoadWild
<1>8. call.op \in LoadOps \cup {"free", "stack"} => call.p \in Proc /\ call.p \notin running
    BY CallTyped DEF MemInv, PhasesSound
<1>9. CASE NotElf \/ LoadBinaryFails \/ ReadFails \/ FreeImage \/ FreeStack
    <2>1. call.p \in Proc /\ call.p \notin running /\ running' = running
        BY <1>8, <1>9 DEF NotElf, LoadBinaryFails, ReadFails, FreeImage, FreeStack, LoadOps
    <2>2. \A q \in Proc : q # call.p => /\ image'[q] = image[q] /\ program'[q] = program[q]
                                        /\ table'[q] = table[q]
        BY <1>9, <2>1 DEF NotElf, LoadBinaryFails, ReadFails, FreeImage, FreeStack, MemInv, MemTypeOK
    <2>3. QED
        BY <1>4, <2>1, <2>2
<1>10. CASE LoadBinary
    <2>1. program[call.p] \in Programs /\ call.p \in Proc /\ call.p \notin running
        BY <1>8, <1>10 DEF LoadBinary, LoadOps, MemInv, PhasesSound, CallSound
    <2>2. QED
        BY <1>5, <1>10, <2>1 DEF LoadBinary
<1>11. CASE LoadStack \/ LoadStackFails \/ LoadFails \/ GiveBack
    BY <1>6, <1>11 DEF LoadStack, LoadStackFails, LoadFails, GiveBack
<1>12. ASSUME NEW p \in Proc, NEW t \in [Pages -> Entry], table' = [table EXCEPT ![p] = t],
              \A v \in Pages : v < HeapStart => t[v] = table[p][v],
              UNCHANGED <<running, image, program>>
       PROVE  SegmentsStand'
    <2>1. \A q \in running' : Kept(q)
        BY <1>12 DEF MemInv, MemTypeOK
    <2>2. QED
        BY <1>3, <1>12, <2>1
<1>13. ASSUME NEW p \in Proc, NEW size \in RequestSizes, ProcessMalloc(p, size)
       PROVE  SegmentsStand'
    <2>1. PICK piece \in Pieces :
              /\ table' = [table EXCEPT ![p] = Write(@, Identity(PagesOf(piece), TRUE))]
              /\ UNCHANGED <<running, image, program>>
        BY <1>13, ProcessMemoryAssumption DEF ProcessMalloc, Pieces
    <2> DEFINE t == Write(table[p], Identity(PagesOf(piece), TRUE))
    <2>2. table[p] \in [Pages -> Entry]
        BY DEF MemInv, MemTypeOK
    <2>3. t \in [Pages -> Entry] /\ \A v \in Pages \ PagesOf(piece) : t[v] = table[p][v]
        BY <2>2, IdentityWrites
    <2>4. table' = [table EXCEPT ![p] = t]
        BY <2>1
    <2> HIDE DEF t
    <2>5. \A v \in Pages : v < HeapStart => v \notin PagesOf(piece)
        BY PagesOfPiece, NoPtrIsNoBlock
    <2>6. \A v \in Pages : v < HeapStart => t[v] = table[p][v]
        BY <2>3, <2>5
    <2>7. UNCHANGED <<running, image, program>>
        BY <2>1
    <2>8. QED
        BY <1>12, <2>3, <2>4, <2>6, <2>7
<1>14. ASSUME NEW p \in Proc, NEW size \in RequestSizes,
              ProcessMallocFull(p, size) \/ ProcessMallocFails(p, size)
       PROVE  SegmentsStand'
    BY <1>6, <1>14 DEF ProcessMallocFull, ProcessMallocFails, memory
<1>15. ASSUME NEW p \in Proc, NEW ptr, ProcessFree(p, ptr), UNCHANGED <<running, image, program>>
       PROVE  SegmentsStand'
    <2>1. PICK i \in Index : Unmap(p, i)
        BY <1>15 DEF ProcessFree, Found
    <2> DEFINE piece == allocations[p][i]  t == Write(table[p], Identity(PagesOf(piece), FALSE))
    <2>2. table[p] \in [Pages -> Entry] /\ piece \in Pieces
        BY DEF MemInv, MemTypeOK
    <2>3. t \in [Pages -> Entry] /\ \A v \in Pages \ PagesOf(piece) : t[v] = table[p][v]
        BY <2>2, IdentityClears
    <2>4. table' = [table EXCEPT ![p] = t]
        BY <2>1 DEF Unmap
    <2> HIDE DEF t, piece
    <2>5. \A v \in Pages : v < HeapStart => v \notin PagesOf(piece)
        BY <2>2, PagesOfPiece, NoPtrIsNoBlock
    <2>6. QED
        BY <1>12, <1>15, <2>3, <2>4, <2>5
<1>16. ASSUME NEW p \in Proc, NEW ptr \in Blocks \cup {NoPtr}, SysFree(p, ptr)
       PROVE  SegmentsStand'
    BY <1>6, <1>15, <1>16 DEF SysFree
<1>17. ASSUME NEW p \in Proc, Terminate(p) PROVE SegmentsStand'
    BY <1>3, <1>17 DEF Terminate
<1>18. CASE TerminateAllocation
    <2>1. call.p \in Proc
        BY <1>8, <1>18 DEF TerminateAllocation
    <2>2. QED
        BY <1>6, <1>15, <1>18, <2>1 DEF TerminateAllocation
<1>19. CASE Register
    <2>1. PICK p \in Proc : /\ p = call.p /\ p \notin running /\ ImageSound(p)
                            /\ stack[p] \in Pieces /\ image[p].ptr \in Blocks \cup {NoPtr}
        BY <1>8, <1>19 DEF Register, LoadOps, MemInv, MemTypeOK, PhasesSound, CallSound, Pieces
    <2> DEFINE t == Write(Write(Fresh, ImageMap(p)), StackMap(p))
    <2>2. /\ running' = running \cup {p} /\ UNCHANGED <<image, program>>
          /\ table' = [table EXCEPT ![p] = t]
        BY <1>19, <2>1 DEF Register
    <2>3. \A v \in Pages : v \in DOMAIN ImageMap(p) /\ v \notin DOMAIN StackMap(p) => t[v] = ImageMap(p)[v]
        BY DEF Write
    <2> HIDE DEF t
    <2>4. table'[p] = t /\ \A q \in running : table'[q] = table[q]
        BY <2>1, <2>2 DEF MemInv, MemTypeOK
    <2>5. program[p] \in Programs /\ Linked(Segments(program[p]))
        BY <2>1 DEF ImageSound, LinkedPrograms
    <2>6. StandIn(t, program[p], image[p].ptr)
        <3>1. ASSUME NEW i \in DOMAIN Segments(program[p]),
                     NEW v \in VirtualPages(Segments(program[p])[i]) \cap Nat
              PROVE  /\ t[v].page = SegmentMap(image[p].ptr, Segments(program[p])[i])[v]
                     /\ t[v].writable = Segments(program[p])[i].writable
            <4>1. v < HeapStart /\ v \notin DOMAIN StackMap(p)
                BY <2>5 DEF Linked, SegmentLinked, StackMap
            <4>2. /\ v \in DOMAIN ImageMap(p)
                  /\ ImageMap(p)[v].page = SegmentMap(image[p].ptr, Segments(program[p])[i])[v]
                  /\ ImageMap(p)[v].writable = Segments(program[p])[i].writable
                BY <2>1, <2>5, ImageEntries
            <4>3. t[v] = ImageMap(p)[v]
                BY <1>2, <2>3, <4>1, <4>2
            <4>4. QED
                BY <4>2, <4>3
        <3>2. QED
            BY <3>1 DEF StandIn
    <2>7. ASSUME NEW q \in running' PROVE StandIn(table[q], program[q], image[q].ptr)'
        <3>1. CASE q = p
            BY <2>2, <2>4, <2>6, <3>1
        <3>2. CASE q # p
            BY <2>2, <2>4, <2>7, <3>2 DEF SegmentsStand
        <3>3. QED
            BY <3>1, <3>2
    <2>8. QED
        BY <2>7 DEF SegmentsStand
<1>20. CASE UNCHANGED allVars
    BY <1>6, <1>20 DEF allVars, memory
<1>21. QED
    BY <1>7, <1>9, <1>10, <1>11, <1>13, <1>14, <1>16, <1>17, <1>18, <1>19, <1>20 DEF MemNext

LEMMA StandingSegmentsMapped ==
    MemInv /\ LinkedPrograms /\ SegmentsStand => SegmentsMapped
<1> SUFFICES ASSUME MemInv, LinkedPrograms, SegmentsStand, NEW p \in running,
                    NEW i \in DOMAIN Segments(program[p]),
                    NEW a \in Segments(program[p])[i].vaddr ..
                              Segments(program[p])[i].vaddr + Segments(program[p])[i].filesz - 1
             PROVE  /\ (table[p][a \div BlockSize].page * BlockSize) + (a % BlockSize)
                           = Address(image[p].ptr) + Segments(program[p])[i].offset + a
                                 - Segments(program[p])[i].vaddr
                    /\ table[p][a \div BlockSize].writable = Segments(program[p])[i].writable
    BY DEF SegmentsMapped
<1> DEFINE s == Segments(program[p])[i]  v == a \div BlockSize
<1>1. program[p] \in Programs /\ image[p].ptr \in Blocks \cup {NoPtr}
    BY DEF MemInv, MemTypeOK, PhasesSound, ImageSound, Pieces
<1>2. s \in Segment /\ SegmentLinked(s)
    BY <1>1, SegmentsTyped DEF LinkedPrograms, Linked
<1>3. /\ v \in VirtualPages(s) /\ v \in Nat
      /\ (SegmentMap(image[p].ptr, s)[v] * BlockSize) + (a % BlockSize)
             = Address(image[p].ptr) + s.offset + a - s.vaddr
    BY <1>1, <1>2, AddressInPage
<1> HIDE DEF v
<1>4. table[p][v].page = SegmentMap(image[p].ptr, s)[v] /\ table[p][v].writable = s.writable
    BY <1>3 DEF SegmentsStand, StandIn
<1>5. QED
    BY <1>3, <1>4 DEF v

\* Each byte of a file stays at the address its segment gives it, wherever the
\* image was allocated and whatever the process maps and unmaps in its page table
\* (process.c:55-90, 281-299, 377-430), for programs linked as LinkedPrograms says.
THEOREM MemorySegments == RealRequests /\ LinkedPrograms => (MemSpec => []SegmentsMapped)
<1>1. SUFFICES ASSUME RealRequests, LinkedPrograms PROVE MemSpec => []SegmentsMapped
    OBVIOUS
<1>2. MemInit => SegmentsStand
    BY DEF MemInit, SegmentsStand
<1>3. MemInv /\ SegmentsStand /\ [MemNext]_allVars => SegmentsStand'
    BY <1>1, SegmentsStandNext
<1>4. MemInv /\ SegmentsStand => SegmentsMapped
    BY <1>1, StandingSegmentsMapped
<1>5. QED
    BY <1>1, <1>2, <1>3, <1>4, MemInductive, PTL DEF MemSpec
=============================================================================
