------------------------------ MODULE Allocator ------------------------------
(***************************************************************************)
(* What the kernel heap promises its callers, independently of how the     *)
(* block table records it: an allocation is a span of blocks, a new one    *)
(* shares no block with any allocation still outstanding, and releasing    *)
(* one leaves all the others alone.  Heap.tla implements this              *)
(* specification with the block table of memory/heap/heap.c.               *)
(***************************************************************************)
EXTENDS Integers

CONSTANTS
    Starts,     \* the blocks an allocation may start at
    Lengths     \* the numbers of blocks callers ask for

VARIABLE live   \* the outstanding allocations, records [start, len] of blocks

\* The blocks of an allocation.
Span(a) == a.start .. a.start + a.len - 1

Init == live = {}

Alloc(a) ==
    /\ \A b \in live : Span(a) \cap Span(b) = {}
    /\ live' = live \cup {a}

Release(a) ==
    /\ a \in live
    /\ live' = live \ {a}

Next == \/ \E s \in Starts, n \in Lengths : Alloc([start |-> s, len |-> n])
        \/ \E a \in live : Release(a)

Spec == Init /\ [][Next]_live
=============================================================================
