---------------------------- MODULE ProcessMemory ----------------------------
(***************************************************************************)
(* The memory of processes: task/process.c on top of the kernel heap       *)
(* (Heap.tla) and of the page tables (memory/paging/paging.c).             *)
(*                                                                         *)
(* A process owns an image, a stack and the entries of its allocations     *)
(* array, and a page table that maps all addresses.  A fresh table maps    *)
(* every page to itself, and user mode may read it and not write it; the   *)
(* image and the stack are then mapped at fixed addresses, and what        *)
(* sys_malloc returns writable at its own.  Every entry is one entry of    *)
(* one table: a later write replaces an earlier one.                       *)
(*                                                                         *)
(* A handler runs with interrupts off.  One that allocates or frees more   *)
(* than once is modelled one call at a time under "call", and nothing else *)
(* happens until it is done.  What programs write is not modelled, only    *)
(* where they may; the pages of a table itself are not either.             *)
(***************************************************************************)
EXTENDS Heap, Sequences, FiniteSetsExt

CONSTANTS
    Proc,               \* process objects
    MaxAllocations,     \* VIOS_MAX_PROGRAM_ALLOCATIONS
    Programs,           \* the files on the disk: [size, segments], segments see below
    ProgramAddress,     \* VIOS_PROGRAM_VIRTUAL_ADDRESS
    StackAddress,       \* VIOS_PROGRAM_VIRTUAL_STACK_ADDRESS_END
    HeapStart,          \* VIOS_HEAP_ADDRESS, in blocks
    LowMemory,          \* the bytes below the boot signature, which ends below the heap's table
    StackSize,          \* VIOS_USER_PROGRAM_STACK_SIZE
    RequestSizes        \* the sizes sys_malloc is called with

\* What a program header says: which bytes of the file go to which addresses.
Segment == [vaddr : Nat, offset : Nat, filesz : Nat, memsz : Nat, writable : BOOLEAN]

ASSUME ProcessMemoryAssumption ==
    /\ MaxAllocations \in Nat \ {0}
    /\ \A f \in Programs : f.size \in Sizes /\ f.size > 0 /\ f.segments \in Seq(Segment)
    /\ ProgramAddress \in Nat /\ ProgramAddress % BlockSize = 0
    /\ StackAddress \in Nat /\ StackAddress % BlockSize = 0
    /\ HeapStart \in Nat \ {0} /\ HeapStart + Total <= WordSize \div BlockSize
    /\ LowMemory \in 0 .. HeapStart * BlockSize
    /\ StackSize \in Sizes
    /\ RequestSizes \subseteq Sizes

VARIABLES
    running,        \* the registered processes
    allocations,    \* the allocations array of each process
    image, stack,   \* the pieces of memory a process is loaded into
    program,        \* what is in its image
    table,          \* its page table: for each page, the page it is mapped to
    call            \* the handler in progress

memory == <<running, allocations, image, stack, program, table, call>>
allVars == <<entries, live, memory>>

NoPtr == -HeapStart     \* the null pointer; pointers are block numbers of the heap
Index == 0 .. MaxAllocations - 1
Nothing == [ptr |-> NoPtr, size |-> 0]
NoFile == [size |-> 0, segments |-> <<>>]
Idle == [op |-> "idle"]

\* The pages of the whole address space, and where a pointer points.
Pages == 0 .. (WordSize \div BlockSize) - 1
Address(ptr) == (HeapStart + ptr) * BlockSize

\* The pages paging_map_to maps from ptr up to paging_align_address(ptr + size):
\* a page is a block and ptr is aligned, so they are the blocks of the request.
PagesOf(piece) ==
    IF piece.ptr = NoPtr THEN {}
    ELSE HeapStart + piece.ptr .. HeapStart + piece.ptr + BlocksFor(piece.size) - 1

\* paging_new_4gb, and paging_set for every page a map names. Sums that wrap past
\* the last address are not modelled.
Fresh == [v \in Pages |-> [page |-> v, writable |-> FALSE]]
Write(t, map) == [v \in Pages |-> IF v \in DOMAIN map THEN map[v] ELSE t[v]]

-----------------------------------------------------------------------------
(***************************************************************************)
(* Where a program is mapped.  A file elf_validate_loaded does not accept  *)
(* has no segments; it is mapped as a flat binary, as if by one segment.   *)
(* The stack has addresses of its own.                                     *)
(***************************************************************************)
Flat(size) == <<[vaddr |-> ProgramAddress, offset |-> 0, filesz |-> size, memsz |-> size,
                 writable |-> TRUE]>>
IsElf(f) == f.segments # <<>>
Segments(f) == IF IsElf(f) THEN f.segments ELSE Flat(f.size)

LowerPage(a) == a - (a % BlockSize)
PageUp(a) == IF a % BlockSize = 0 THEN a ELSE a + BlockSize - (a % BlockSize)

\* paging_map_to: the page each virtual page from virt on is mapped to.
MapTo(virt, phys, end) ==
    LET first == virt \div BlockSize
        count == (end - phys) \div BlockSize
    IN  [v \in first .. first + count - 1 |-> (phys \div BlockSize) + v - first]

\* Seeded fault: the end is rounded down.
SegmentMapShort(ptr, s) ==
    LET phys == Address(ptr) + s.offset
    IN  MapTo(LowerPage(s.vaddr), LowerPage(phys), LowerPage(phys + s.memsz))
\* One iteration of process_map_elf, for an image at block ptr.
SegmentMap(ptr, s) ==
    LET phys == Address(ptr) + s.offset
    IN  MapTo(LowerPage(s.vaddr), LowerPage(phys), PageUp(phys + s.memsz))

\* The page table entries of a program, of which each is the one written last.
ImageMap(p) ==
    LET segments == Segments(program[p])
        map == [i \in DOMAIN segments |-> SegmentMap(image[p].ptr, segments[i])]
        last(v) == Max({i \in DOMAIN map : v \in DOMAIN map[i]})
    IN  [v \in UNION {DOMAIN map[i] : i \in DOMAIN map} |->
            [page |-> map[last(v)][v], writable |-> segments[last(v)].writable]]

\* The entries of its stack, and of pages mapped at their own address.
StackPage == StackAddress \div BlockSize
StackMap(p) ==
    [v \in StackPage .. StackPage + BlocksFor(StackSize) - 1 |->
        [page |-> HeapStart + stack[p].ptr + v - StackPage, writable |-> TRUE]]
Identity(pages, writable) == [v \in pages |-> [page |-> v, writable |-> writable]]

MemInit ==
    /\ Init
    /\ running = {}
    /\ allocations = [p \in Proc |-> [i \in Index |-> Nothing]]
    /\ image = [p \in Proc |-> Nothing]
    /\ stack = [p \in Proc |-> Nothing]
    /\ program = [p \in Proc |-> NoFile]
    /\ table = [p \in Proc |-> Fresh]
    /\ call = Idle

\* kfree of a pointer, whatever it points at by now. Of a null pointer it clears
\* the byte HeapStart entries below the table and goes on while it finds HAS_NEXT.
\* It gets no further than the boot signature right below the table, whose first
\* byte, 0x55, has no HAS_NEXT: the table is as it was, as long as nothing was
\* read over the signature (see LowMemory).
KFree(ptr) ==
    IF ptr = NoPtr THEN UNCHANGED vars
    ELSE MarkFree(ptr) /\ live' = {a \in live : a.start # ptr}

-----------------------------------------------------------------------------
(***************************************************************************)
(* process_load_for_slot, for one of the names it tries: the image first,  *)
(* then the stack, the task and its page table; an object that is new has  *)
(* an empty allocations array.  Every file is first taken for an ELF file. *)
(***************************************************************************)
Loaded(p, f, ptr) ==
    /\ image' = [image EXCEPT ![p] = [ptr |-> ptr, size |-> f.size]]
    /\ program' = [program EXCEPT ![p] = f]
    /\ UNCHANGED <<running, stack, table>>

AsElf(p, f) == call' = [op |-> IF IsElf(f) THEN "load" ELSE "not_elf", p |-> p]

\* elf_load: memory for the file, into which it is read.
ElfLoad(p, f) ==
    /\ call = Idle /\ p \notin running
    /\ allocations' = [allocations EXCEPT ![p] = [i \in Index |-> Nothing]]
    /\ AsElf(p, f)
    /\ \E s \in Blocks : MallocAt(s, f.size) /\ Loaded(p, f, s)

\* Without memory the file is read to address 0, and a program that fits below
\* the heap's table is loaded there.
ElfLoadLow(p, f) ==
    /\ call = Idle /\ p \notin running
    /\ MallocFail(f.size) /\ f.size <= LowMemory
    /\ allocations' = [allocations EXCEPT ![p] = [i \in Index |-> Nothing]]
    /\ AsElf(p, f)
    /\ Loaded(p, f, NoPtr)

\* A longer one is read over the table, and nothing can be said any more.
ElfLoadWild(p, f) ==
    /\ call = Idle /\ p \notin running
    /\ MallocFail(f.size) /\ f.size > LowMemory
    /\ call' = [op |-> "wild"]
    /\ UNCHANGED <<running, allocations, image, stack, program, table>>

\* elf_file_free, of a file that is not of the format.
NotElf ==
    /\ call.op = "not_elf"
    /\ KFree(image[call.p].ptr)
    /\ image' = [image EXCEPT ![call.p] = Nothing]
    /\ call' = [call EXCEPT !.op = "flat"]
    /\ UNCHANGED <<running, allocations, stack, program, table>>

\* process_load_binary.
LoadBinary ==
    /\ call.op = "flat"
    /\ \E s \in Blocks :
          LET f == program[call.p] IN MallocAt(s, f.size) /\ Loaded(call.p, f, s)
    /\ call' = [call EXCEPT !.op = "load"]
    /\ UNCHANGED allocations

LoadBinaryFails ==
    /\ call.op = "flat"
    /\ MallocFail(program[call.p].size)
    /\ program' = [program EXCEPT ![call.p] = NoFile]
    /\ call' = Idle
    /\ UNCHANGED <<running, allocations, image, stack, table>>

\* The file could not be read: elf_load or process_load_binary gives the memory
\* back, and the object that is freed has nothing else.
ReadFails ==
    /\ call.op \in {"not_elf", "load"}
    /\ KFree(image[call.p].ptr)
    /\ image' = [image EXCEPT ![call.p] = Nothing]
    /\ program' = [program EXCEPT ![call.p] = NoFile]
    /\ call' = Idle
    /\ UNCHANGED <<running, allocations, stack, table>>

LoadStack ==
    /\ call.op = "load"
    /\ \E s \in Blocks :
        /\ MallocAt(s, StackSize)
        /\ stack' = [stack EXCEPT ![call.p] = [ptr |-> s, size |-> StackSize]]
    /\ call' = [call EXCEPT !.op = "loaded"]
    /\ UNCHANGED <<running, allocations, image, program, table>>

\* process_free_process, called for an exit or for a load that failed: the
\* entries of the allocations array, then the image, then the stack and the task.
StartFree(p) == call' = [op |-> "free", p |-> p, i |-> 0]

LoadStackFails ==
    /\ call.op = "load"
    /\ MallocFail(StackSize)
    /\ StartFree(call.p)
    /\ UNCHANGED <<running, allocations, image, stack, program, table>>

\* task_new or process_map_memory fails: the stack is there as well.
LoadFails ==
    /\ call.op = "loaded"
    /\ StartFree(call.p)
    /\ UNCHANGED <<vars, running, allocations, image, stack, program, table>>

\* task_new, process_map_memory, and the process is in its slot.
Register ==
    /\ call.op = "loaded"
    /\ table' = [table EXCEPT ![call.p] =
                    Write(Write(Fresh, ImageMap(call.p)), StackMap(call.p))]
    /\ running' = running \cup {call.p}
    /\ call' = Idle
    /\ UNCHANGED <<vars, allocations, image, stack, program>>

-----------------------------------------------------------------------------
\* process_find_free_allocation_index: the first free entry.
FreeIndex(p) ==
    {i \in Index :
        allocations[p][i].ptr = NoPtr /\ \A j \in 0 .. i - 1 : allocations[p][j].ptr # NoPtr}

\* sys_malloc with a result.
ProcessMalloc(p, size) ==
    /\ call = Idle /\ p \in running
    /\ \E s \in Blocks, i \in FreeIndex(p) :
        LET piece == [ptr |-> s, size |-> size] IN
        /\ MallocAt(s, size)
        /\ table' = [table EXCEPT ![p] = Write(@, Identity(PagesOf(piece), TRUE))]
        /\ allocations' = [allocations EXCEPT ![p][i] = piece]
    /\ UNCHANGED <<running, image, stack, program, call>>

\* Seeded fault: the error path forgets the block it was given.
ProcessMallocFullLeaks(p, size) ==
    /\ call = Idle /\ p \in running
    /\ FreeIndex(p) = {}
    /\ Malloc(size)
    /\ UNCHANGED memory
\* sys_malloc with the array full: kzalloc comes first, so there is a block to
\* give back.
ProcessMallocFull(p, size) ==
    /\ call = Idle /\ p \in running
    /\ FreeIndex(p) = {}
    /\ \E s \in Blocks :
        /\ MallocAt(s, size)
        /\ call' = [op |-> "give_back", p |-> p, piece |-> [ptr |-> s, size |-> size]]
    /\ UNCHANGED <<running, allocations, image, stack, program, table>>

GiveBack ==
    /\ call.op = "give_back"
    /\ KFree(call.piece.ptr)
    /\ call' = Idle
    /\ UNCHANGED <<running, allocations, image, stack, program, table>>

\* sys_malloc when the heap has no memory.
ProcessMallocFails(p, size) ==
    /\ call = Idle /\ p \in running
    /\ MallocFail(size)
    /\ UNCHANGED memory

-----------------------------------------------------------------------------
\* The first entry with this pointer, as process_get_allocation_by_addr finds it.
Found(p, ptr) ==
    {i \in Index :
        allocations[p][i].ptr = ptr /\ \A j \in 0 .. i - 1 : allocations[p][j].ptr # ptr}

\* Seeded fault: the pages stay mapped.
UnmapNothing(p, i) == UNCHANGED table
\* Seeded fault: the end address is not rounded up, the last page stays mapped.
UnmapShort(p, i) ==
    LET pages == PagesOf(allocations[p][i])
        short == {v \in pages : v + 1 \in pages}
    IN  table' = [table EXCEPT ![p] = Write(@, Identity(short, FALSE))]
\* Mapping the entry's pages again, without a flag.
Unmap(p, i) ==
    table' = [table EXCEPT ![p] = Write(@, Identity(PagesOf(allocations[p][i]), FALSE))]

\* process_allocation_unjoin: every entry with this pointer is cleared.
Unjoin(p, ptr) ==
    allocations' = [allocations EXCEPT ![p] =
        [i \in Index |-> IF @[i].ptr = ptr THEN Nothing ELSE @[i]]]

\* process_free of a pointer the process has; the null pointer is found in the
\* first free entry.
ProcessFree(p, ptr) ==
    \E i \in Found(p, ptr) :
        /\ Unmap(p, i)
        /\ Unjoin(p, ptr)
        /\ KFree(ptr)

\* sys_free, with any pointer: one the process does not have is ignored.
SysFree(p, ptr) ==
    /\ call = Idle /\ p \in running
    /\ \/ ProcessFree(p, ptr)
       \/ Found(p, ptr) = {} /\ UNCHANGED <<entries, live, table, allocations>>
    /\ UNCHANGED <<running, image, stack, program, call>>

-----------------------------------------------------------------------------
\* process_terminate: the process is unregistered, then freed.
Terminate(p) ==
    /\ call = Idle /\ p \in running
    /\ running' = running \ {p}
    /\ StartFree(p)
    /\ UNCHANGED <<vars, allocations, image, stack, program, table>>

TerminateAllocation ==
    /\ call.op = "free" /\ call.i < MaxAllocations
    /\ LET ptr == allocations[call.p][call.i].ptr IN
        \/ ptr # NoPtr /\ ProcessFree(call.p, ptr)
        \/ ptr = NoPtr /\ UNCHANGED <<entries, live, table, allocations>>
    /\ call' = [call EXCEPT !.i = @ + 1]
    /\ UNCHANGED <<running, image, stack, program>>

FreeImage ==
    /\ call.op = "free" /\ call.i = MaxAllocations
    /\ KFree(image[call.p].ptr)
    /\ image' = [image EXCEPT ![call.p] = Nothing]
    /\ program' = [program EXCEPT ![call.p] = NoFile]
    /\ call' = [op |-> "stack", p |-> call.p]
    /\ UNCHANGED <<running, allocations, stack, table>>

\* The stack, if there is one, and the page table with the task.
FreeStack ==
    /\ call.op = "stack"
    /\ KFree(stack[call.p].ptr)
    /\ stack' = [stack EXCEPT ![call.p] = Nothing]
    /\ table' = [table EXCEPT ![call.p] = Fresh]
    /\ call' = Idle
    /\ UNCHANGED <<running, allocations, image, program>>

MemNext ==
    \/ \E p \in Proc, f \in Programs : ElfLoad(p, f) \/ ElfLoadLow(p, f) \/ ElfLoadWild(p, f)
    \/ NotElf \/ LoadBinary \/ LoadBinaryFails \/ ReadFails
    \/ LoadStack \/ LoadStackFails \/ LoadFails \/ Register
    \/ \E p \in Proc, size \in RequestSizes :
          ProcessMalloc(p, size) \/ ProcessMallocFull(p, size) \/ ProcessMallocFails(p, size)
    \/ GiveBack
    \/ \E p \in Proc, ptr \in Blocks \cup {NoPtr} : SysFree(p, ptr)
    \/ \E p \in Proc : Terminate(p)
    \/ TerminateAllocation \/ FreeImage \/ FreeStack

MemSpec == MemInit /\ [][MemNext]_allVars

-----------------------------------------------------------------------------
Pieces == [ptr : Blocks \cup {NoPtr}, size : Sizes \cup {0}]
Entry == [page : Nat, writable : BOOLEAN]
LoadOps == {"not_elf", "flat", "load", "loaded"}
\* The process that is loaded or freed just now.
Busy == IF call.op \in LoadOps \cup {"free", "stack"} THEN {call.p} ELSE {}

\* The pieces of memory a process has in the books; the last is one that
\* sys_malloc has no entry for.
InHand(p) == IF call.op = "give_back" /\ call.p = p THEN call.piece ELSE Nothing
Held(p) ==
    {h \in {allocations[p][i] : i \in Index} \cup {image[p], stack[p], InHand(p)} :
        h.ptr # NoPtr}
HeldPages(p) == UNION {PagesOf(h) : h \in Held(p)}

\* The pages user mode may write while this process runs.
UserPages(p) == {table[p][v].page : v \in {w \in Pages : table[p][w].writable}}

\* The pages behind its image that a writable segment reaches, because it is
\* longer in memory than the file: nothing was allocated for them.
ImageEnd(p) == HeapStart + image[p].ptr + BlocksFor(image[p].size)
Overrun(p) ==
    LET entry == ImageMap(p)
    IN  {entry[v].page : v \in {w \in DOMAIN entry : entry[w].writable}}
            \cap {n \in Nat : n >= ImageEnd(p)}

\* What the linker gives each segment of a program: the same place of a page in
\* the file and in memory, and addresses below the heap that neither the stack nor
\* another segment has.
VirtualPages(s) == s.vaddr \div BlockSize .. (PageUp(s.vaddr + s.memsz) \div BlockSize) - 1
SegmentLinked(s) ==
    /\ s.filesz <= s.memsz
    /\ s.vaddr % BlockSize = s.offset % BlockSize
    /\ \A v \in VirtualPages(s) :
           v < HeapStart /\ v \notin StackPage .. StackPage + BlocksFor(StackSize) - 1
Linked(segments) ==
    /\ \A i \in DOMAIN segments : SegmentLinked(segments[i])
    /\ \A i, j \in DOMAIN segments :
           i # j => VirtualPages(segments[i]) \cap VirtualPages(segments[j]) = {}
LinkedPrograms == \A f \in Programs : Linked(Segments(f))

\* Types of the memory of processes.
MemTypeOK ==
    /\ running \subseteq Proc
    /\ allocations \in [Proc -> [Index -> Pieces]]
    /\ image \in [Proc -> Pieces] /\ stack \in [Proc -> Pieces]
    /\ program \in [Proc -> Programs \cup {NoFile}]
    /\ table \in [Proc -> [Pages -> Entry]]
    /\ call \in {Idle, [op |-> "wild"]} \cup [op : LoadOps \cup {"stack"}, p : Proc]
                \cup [op : {"give_back"}, p : Proc, piece : Pieces]
                \cup [op : {"free"}, p : Proc, i : 0 .. MaxAllocations]

\* No process may write a page another one has, however loads, mallocs, frees and
\* exits interleave, also past the end of the pool - but for what a writable
\* segment reaches behind the process's own image. There the code does not
\* "isolate process memory spaces" (docs/api/paging_switch.md:35): a program with
\* uninitialised data gets the blocks behind its file's to write, whoever has them.
PagesPrivate ==
    \A p, q \in running : p # q => UserPages(p) \cap HeldPages(q) \subseteq Overrun(p)

\* A program finds every byte of its file that a segment names at the address
\* the segment says, wherever its image was allocated and whatever was mapped
\* since, and may write those of a writable segment (programs linked as
\* LinkedPrograms says).
SegmentsMapped ==
    \A p \in running : \A i \in DOMAIN Segments(program[p]) :
        LET s == Segments(program[p])[i] IN
        \A a \in s.vaddr .. s.vaddr + s.filesz - 1 :
            LET entry == table[p][a \div BlockSize] IN
            /\ (entry.page * BlockSize) + (a % BlockSize)
                   = Address(image[p].ptr) + s.offset + a - s.vaddr
            /\ entry.writable = s.writable

\* A page a process may write is its own: none stays writable after it has been
\* freed. The exceptions are the low memory, which an image without a block of
\* the heap lies in, and what is behind its image.
WritableIsHeld ==
    \A p \in running :
        UserPages(p) \subseteq HeldPages(p) \cup 0 .. HeapStart - 1 \cup Overrun(p)

\* The heap and the books agree: every outstanding allocation is held by exactly
\* one process that is there, and every piece held is outstanding. Nothing is
\* leaked by a load that fails at any of its steps, a full array or an exit.
BooksBalance ==
    /\ MemTypeOK
    /\ live = UNION {{[start |-> h.ptr, len |-> BlocksFor(h.size)] : h \in Held(p)} :
                     p \in running \cup Busy}
    /\ \A p, q \in Proc : p # q => {h.ptr : h \in Held(p)} \cap {h.ptr : h \in Held(q)} = {}
=============================================================================
