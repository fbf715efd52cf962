--------------------------- MODULE MCProcessMemory ---------------------------
(***************************************************************************)
(* ProcessMemory with pages of two bytes: two processes, two entries in    *)
(* the allocations array, requests that end inside a page and at the end   *)
(* of one; a flat program, one with a text and a data segment, and one     *)
(* that is a page longer in memory than in its file of three pages, and    *)
(* longer than the memory below the heap's table.                          *)
(***************************************************************************)
EXTENDS ProcessMemory, TLC

MCSizes == 1 .. 6
MCProgramAddress == 4

Text == [vaddr |-> 4, offset |-> 0, filesz |-> 2, memsz |-> 2, writable |-> FALSE]
\* The data starts in the middle of a page.
Data == [vaddr |-> 7, offset |-> 3, filesz |-> 1, memsz |-> 1, writable |-> TRUE]
WithBss == [vaddr |-> 4, offset |-> 0, filesz |-> 6, memsz |-> 8, writable |-> TRUE]

MCPrograms == {[size |-> 1, segments |-> <<>>],
               [size |-> 4, segments |-> <<Text, Data>>],
               [size |-> 6, segments |-> <<WithBss>>]}

\* What MemoryProofs.tla takes of requests and programs holds of these.
ASSUME MCProgramsLinked == RealRequests /\ LinkedPrograms

ProcSymmetry == Permutations(Proc)
=============================================================================
