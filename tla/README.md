# A TLA+ development of the ViOS kernel

ViOS is a small 32-bit x86 kernel (`src/src`): one processor, no preemption, user programs that enter
the kernel through `int 0x80`, interrupts from keyboard and mouse, a block heap, a FAT16 reader, a frame
buffer, a PC speaker and a Sound Blaster. This
directory holds TLA+ modules of the parts with state and order worth arguing about, TLC
configurations that check them on small instances, and proofs that TLAPS checks for every value of the
constants. Source paths below are relative to `src/src`; documents are under `src/docs/api`.

## 1. Inventory

**What runs concurrently.** Every gate of the IDT has type 0xEE (`idt/idt.c`), an interrupt gate: a
system call, an exception or a device interrupt runs with interrupts off, to its end. The timer
interrupt is masked (`kernel.c:81`), and nothing else switches tasks: a task runs until it exits,
faults, or starts another program. Interleaving therefore happens *between* handlers (their order
is decided by programs and devices), between the devices and a handler that touches a port twice, and
between interrupts and the one loop that runs with interrupts enabled, `kernel_run_main_loop`.

| Component | State | Operations | Hard about it | What makes it correct |
|---|---|---|---|---|
| Kernel heap (`memory/heap`) | one byte of flags per block | malloc, zalloc, free | a free has only the flags to find an allocation's end; a short run at the end of the table | no block given twice, a free releases its allocation and no other, the table is the record of what is out |
| Processes and tasks (`task`, `isr80h/process.c`) | process table, `current_process`, task list with head, tail, current, next, prev | load, load+switch, invoke with arguments, exit, exception | three structures that refer to each other, freed and reused objects, error paths half way through a load | table, processes and tasks agree; the list is the live tasks in order; no freed task runs; panic only when nothing is left |
| Process memory (`task/process.c`, `isr80h/heap.c`, `loader/formats/elfloader.c`, `memory/paging`) | allocations array, image, stack, page table of each process | load (flat or ELF), malloc, free, terminate | heap, page tables and the array have to change together, one table that image, stack and allocations write into, error paths, exit half done | no page of another process writable, none writable after free, nothing leaked, every byte of a segment at its address |
| Keyboard buffers (`keyboard/keyboard.c`) | ring, head and tail of each process | push (interrupt), pop (getkey) | writer and reader use *different* notions of "current"; head and tail are never compared | FIFO, a key is read once, by the process it was typed for, and lost only to newer keys |
| PS/2 port (`keyboard/ps2_keyboard.c`, `mouse/ps2_mouse.c`, `kernel/mainloop.c`) | shift, caps, packet bytes and index, mouse position | two interrupt handlers and a polling loop | one port, three readers; the keyboard handler reads twice | packets are framed, shift is released, nothing blocks the controller, the mouse stays on the screen |
| Files (`fs/file.c`, `fs/pparser.c`, `fs/fat/fat16.c`, `disk/streamer.c`) | descriptor table, position of each open file, streams; the kernel memory of paths and directory entries | resolve, open, stat, seek, read, close | three splits of one read (records, clusters, sectors), damaged tables, a walk of which every step may find no memory | descriptors do not disturb each other; a path opens what it names; a read returns the file's bytes; a failed call moves nothing and keeps nothing; every read ends |
| Kernel terminal (`kernel/mainloop.c`) | screen, cursor, input line, color | print, edit, execute, draw | screen and input line are two records of one line, never compared | what is on the screen is what is executed |
| Interrupt dispatch, system call table (`idt`, `isr80h`) | callbacks, saved registers of the current task | register, dispatch | an interrupt while the kernel runs saves the kernel's frame | a task resumes with its own registers |
| Sound (`audio/audio.c`, `audio/sb16.c`) | device list, the driver's flags and buffers; the DSP, the DMA channel, the timer channel of the speaker | start, play, pause, stop, beep, reset, playback, shutdown, interrupt | a byte the device misses is given up; two ways to play and one flag; the millisecond sleep uses the speaker's timer | commands stay whole, stopped memory is not played, buffers are not lost, the tone is the one asked for, calls return |
| Graphics (`graphics/graphics.c`, `isr80h/vix_graphics.c`, `isr80h/io.c`, the user library's stubs) | two frame buffers, the clip rectangle | pixel, line, rectangle, circle, disc, text, print, clear, fill, blits, present | integer loops with an end test that must be met exactly; clipping by wrapping sums; arguments passed by hand through registers | the pixels of the shape asked for, inside screen and clip rectangle; drawing ends |
| Real-time clock (`rtc/rtc.c`) | none of its own; the chip's time | sleep | the clock goes on while it is read; midnight | a sleep ends, not late, in the second asked for |
| Strings, numbers, boot, debug output, `terminal/terminal.c`, `graphics/renderer.c` (nothing calls the last two) | | | pure or sequential | |

How they interact: system calls reach processes, heap, keyboard and files by direct calls on behalf of
`task_current()`; device interrupts reach the keyboard rings through `process_current()`; processes,
tasks, files and rings are all memory of the one heap; `process_terminate` runs through all of
them. The hazards each part is exposed to are listed, with their lines, in `PROJECT.json`.

**The kernel as configured.** The disk is not initialised (`kernel/init.c:84`), the TSS is not loaded
(`init.c:57`), no code loads a first program, and system calls 24 to 27 are not registered
(`isr80h/isr80h.c:86`). The kernel boots into its terminal. The modules model the handlers as they are
written, for a kernel that has a disk and whose boot code loads a first program and calls
`task_run_first_ever_task`; action `Boot` of `Process` stands for that.

## 2. Modules

| Module | Models | State and actions |
|---|---|---|
| `Allocator` | nothing in the code: the promise of an allocator | outstanding spans; `Alloc` gives one disjoint from all, `Release` takes one back |
| `Heap` | `memory/heap/heap.c` | `entries` is the block table, an entry the set of its flags; `live` remembers what callers hold. `Malloc`, `MallocFail`, `Free` are the calls, one step each |
| `TaskList` | `task/task.c` | operators on a list record, so that a handler that links and unlinks in one step composes them |
| `Process` | `task/process.c`, `isr80h/process.c`, the exception handler | process table, objects with addresses that are reused, `mode` (`user`, `panic`, or `wild` once the kernel has gone through a pointer to freed memory). `Boot`, `Start`, `InvokeWithoutArguments`, `LoadFails`, `LoadFailsMapping`, `Exit`, `ExitPanics` |
| `ProcessMemory` | `process_malloc`, `process_free`, load and terminate over `Heap`; page tables; flat and ELF programs | extends `Heap`: every allocation and release is the heap's own. A handler with several of them is stepped call by call under `call`; nothing interleaves. A load goes from `ElfLoad` over `NotElf` and `LoadBinary` to `LoadStack` and `Register`, with an action for each way it fails; a block that the array has no entry for is taken by `ProcessMallocFull` and freed by `GiveBack`. `table` is the one page table a process has, from the fresh one that maps each page to itself: image, stack and allocations are writes to it, the later replacing the earlier |
| `KeyQueue` | nothing in the code: a queue of keys per process | `Type`, `Read`, `Open`; `Overflow` ends the promise to a process that left more than `Size` keys unread |
| `Keyboard` | `keyboard/keyboard.c` with starts and exits | ring, head and tail of each process; `KeyboardPush` for `current_process`, `KeyboardPop` for the running task's process |
| `Ps2` | the handlers of keyboard and mouse, the polling loop; controller and devices external | the keyboard handler is two steps, one per read of the port; the poll is two, status and data |
| `OpenFiles` | nothing in the code: the promise of the file calls | descriptors with a file and a position each |
| `Files` | `fs/file.c`, `fs/fat/fat16.c`, `disk/streamer.c` | descriptor table over an image that may be damaged; `fread` one table entry or one sector per step |
| `PathLookup` | `fs/pparser.c`, `fopen` and `fclose` and FAT16's walk from the root directory, with the kernel memory they take | the blocks taken, what is behind each descriptor, the open in progress. `Resolve`; `ParsePart` and `Descend` are rounds of the two loops, the other actions ways an open ends |
| `LineEditor` | nothing in the code: the promise of a command line | `Type`, `Erase`, `Enter` on one line |
| `KernelTerminal` | `kernel/mainloop.c` except its polling of the port (`Ps2`) | characters with a cursor, the buffer and its index; one action per round of the main loop: no key, a character, an erasure, Enter with the command it runs |
| `Graphics` | `graphics/graphics.c` | both buffers, the clip rectangle, and the drawing loop in progress: an iteration is a step, so that a loop that never ends is one TLC sees. `drawn` collects what a call set, on the screen or off it |
| `Vix` | the drawing system calls: `vios.c` and `vios.asm` of the user library, `isr80h/vix_graphics.c`, print and putchar of `isr80h/io.c` | extends `Graphics`. A stub is a frame of registers, a command takes its arguments from there; the properties compare the pixels with the *program's* arguments |
| `Rtc` | `rtc/rtc.c` and the sleep call; clock chip external | the chip announces and makes updates while the kernel polls and reads register after register |
| `Sound` | `audio/audio.c`, `audio/sb16.c`, `sleep_ms` of `rtc/rtc.c`; DSP, timer and DMA controller external | a call puts the bytes it sends in `todo`; the DSP takes each or misses it. `blocks` is what the driver holds of the heap |
| `MC*` | the instances TLC checks | constants and symmetry |
| `MemoryProofs`, `ProcessProofs`, `KeyboardProofs`, `MainLoopProofs` (`Ps2`, `KernelTerminal`), `FilesProofs`, `PathLookupProofs`, `DeviceProofs` (`Sound`, `Rtc`), `VixProofs` (`Vix`, `Graphics`) | | theorems, with their inductive invariants (section 4) |

Abstractions that hold throughout: names, characters, bytes and addresses are members of small sets (a
byte of a disk is named by its place, a key by the order it was typed in, so that what is delivered
can be compared with what was meant); sizes keep their width where rounding could wrap (`Heap`);
memory that was freed keeps its old contents or is anything, which is mode `wild` in
`Process` and `astray` in `Files` and `PathLookup`. Operators under a comment "Seeded fault" are wrong variants of the
definition next to them; no specification uses them. They record what each property would notice.

Bounds that are part of a model and not of the code: `MaxKeys` (`Keyboard`, `Ps2`) and `MaxMoves`
bound the input, `MaxPos` the positions in files, `Calls` the drawing calls made one after another,
`MaxElapsed` the seconds a sleep is observed for. Every other constant is a constant of the code
made small, or a set of inputs: `RequestSizes`, `Programs`, `Requests`, `Delays`, `Sounds`, `Texts`, `Stale` (what a stack may hold above a
call's arguments), and the disks and paths of the file modules.

## 3. Runs

| Run | Instance | Shows |
|---|---|---|
| `process` | 3 slots, 4 task addresses, symmetric | agreement of table, processes and tasks on every path; list order; panics; failed loads |
| `tasklist_lost` | 4 slots, 4 task addresses, no load runs out of memory | **violation**: three starts and exits in the wrong order lose a live task, because `task_list_remove` never updates the `prev` of the following task (`task.c:77`) |
| `process_memory` | a heap of 6 pages of two bytes, 2 processes with 2 allocations each, requests of a page and of one and a half; a flat program, an ELF one whose data begin inside a page, and one that is longer in memory than its file | `Heap` under its callers: table and allocations agree, a free is exact, `Heap` implements `Allocator`; the books balance however a load fails, a full array gives its block back or an exit is half done; freed pages are not writable, and another process's only behind an image shorter than its segment; each byte of a file's segment is at its address |
| `keyboard` | rings of 3, 7 keys, 2 processes | `Keyboard` implements `KeyQueue` until a ring is lapped, and what still holds after |
| `ps2` | 3 key bytes, 4 mouse bytes, all orders | framing, shift, edges of the screen; no order blocks the port |
| `files` | 3 descriptors, 6 disks (split file, deleted entries, truncated, circular and broken chains) | `Files` implements `OpenFiles`, every read ends, failed opens have a reason |
| `path_lookup` | 31 blocks, 3 descriptors, directories in a directory, 5 paths | a descriptor is the file its path names although memory may fail at every step; every block is accounted for, the leaks named, until the second free of a directory takes a block from its new owner |
| `kernel_terminal` | a screen of 2 rows of 3 columns, lines of up to 4 characters out of 2 | `KernelTerminal` implements `LineEditor`; what Enter runs is what the frame shows, but for a line past the last row's end or erased past a row's beginning |
| `vix` | a screen of 4 by 3 pixels, a font of 2 by 2, int of 8 bits; one of 40-odd clip rectangles or pictures, then one of several hundred drawings on and off the screen, then a present | every call draws the shape its program asked for, and ends unless its sums pass the largest int; no pixel outside the screen or the clip rectangle; blits copy the source as it was unless they overlap down or right |
| `rtc` | a day of 44 seconds, both data modes, sleeps of none, one second, a day less one, a day, the largest int and a negative number | a sleep of less than a day returns, over midnight and never late; early only when an update tore a read |
| `sound` | timer counts of 4 bits, delays that fit and that wrap, 2 tones, 2 sounds, one buffer, with and without a device, every byte possibly missed | the DSP stays in step unless it missed a byte, nothing stopped is played, no buffer is lost, every call returns unless it sleeps with the timer's gate closed |
| `sleep_ms` | as `sound` | **violation**: a sleep of three milliseconds returns after half of them, because the timer is put into mode 3 and not, as the comment says, mode 0 (`rtc/rtc.c:104`) |

Why the bounds are enough. A heap of six blocks has room for two allocations with a gap on either side
and a request that fits none, and its callers free and allocate in every order. Three processes are the least for which the list has a middle task and
removals in both orders; the fourth task address lets a freed one be skipped or reused. Six pages
hold both processes with an allocation or two, or one process and a program that only half fits, so the
trailing-run case, a load that fails after its image, a full array and an ELF image without memory all
occur; requests of one and a half pages make a forgotten last page visible. The third program has four pages to the image's three, and is
longer than the memory below the table, so both what it may write and a load without memory show. Seven keys lap a
ring of three twice. On the disks a file's clusters are not neighbours, records are smaller than,
equal to and larger than a cluster, and sectors are half of one. Thirty-one blocks let the table of three
descriptors fill up, and are few enough that leaked paths exhaust them after some
opens, at each of the allocations in turn; three descriptors, of which two can be closed, are the least with which a
block freed twice can have a new owner in between. On six cells a line of four characters and a prompt wraps in both
rows, and whatever is printed scrolls. The end points of the lines `vix` draws lie in every octant, on
and off the screen; radii up to seven leave it on every side; rectangles have negative, zero-crossing and
largest-int corners and sizes, which is where the clip test's sums wrap. The day of `rtc` has seconds of
two digits, so that the two data modes differ, and updates may come between any two registers. In
`sound` a length contains the byte of a command, so that a parameter taken for a command does something,
and the three delays give a wave of a whole count, a truncated one and a count of zero. Deadlock is
checked except where input is bounded and the machine may really idle (`ps2`, `vix`) or where the code
really stops: in `sound`, a sleep with the gate closed.

Each run's properties have a seeded fault that breaks them on the same instance (`PROJECT.json`,
"mutants"): the run is large enough for the error to show.

**Fairness** is assumed in six modules. `Files`, `Vix` (the drawing loop), `Rtc` and `Sound` (the kernel's
steps): a function that has been called goes on, since interrupts are off and nothing can stop it. `Rtc`
also has a clock that runs. It says of the clock that a second is longer than a read of the registers
(a sleeping kernel completes one between two updates), which a handful of port reads justifies, but not that an
update never falls between two of them. `Keyboard`: the running program asks for keys
again and again, which is what `vios_getkeyblock` of the user library does
(`assets/programs/stdlib/src/vios.c:52`); programs that do not are not promised anything. `Ps2`: a
pending interrupt is served, since user mode and the main loop run with interrupts enabled; the
polling loop itself gets no fairness. No fairness is assumed of devices, users or programs starting
and exiting; `Sound` lets the DSP miss every byte.

### What the violations say, and what else the code does

`tasklist_lost` and `sleep_ms` take a sentence of the repository, of its documentation and of a comment, and show a behaviour of the code
that contradicts it; `PROJECT.json` ("findings") quotes them. The passing runs are stated
so that they describe what is true *next to* such behaviours: `ListInOrder` holds until the first
removal that follows an out-of-date `prev`, `QueueSpec` until a ring is lapped, `PacketsWhole` and
`ShiftReleased` as long as no reader took another's byte, `FitsWhenItCan` says that the heap leaves
its pool only when no free run is long enough. What was met while modelling and stands in the modules
as the code has it:

- Heap: a request larger than the free run at the table's end is granted (`memory/heap/heap.c:99`), where
  `heap_malloc.md:37` promises NULL.
- Process memory: a segment is mapped as long as it is in memory onto an image as long as the file (`task/process.c:390`). A program
  with uninitialised data (a `.bss`) thus gets the blocks behind its image to write, whoever has them, where `paging_switch.md:35`
  says that page tables "isolate process memory spaces". `PagesPrivate` says that *nothing else* of another process is writable; without
  its exception (`Overrun`) TLC finds the third program of the instance with the image of its neighbour to write. An ELF file loaded into a full heap is read to address 0
  (`loader/formats/elfloader.c:207`) and runs there, in memory that is nobody's; one that is longer than the memory below the heap's table is
  read over that table, and the model stops. The exit of the first one frees a null pointer: `heap_mark_blocks_free` starts far below
  the table and clears bytes until one has no has-next flag, at the latest the 0x55 of the boot signature right below the table, so the table is as it was.
- Opening files: when a directory's entries find no memory, the loader frees the directory and still returns it
  (`fs/fat/fat16.c:560`), so that the item keeps the pointer and `fclose` frees it again (`fat16.c:511`), by then perhaps as
  somebody else's block. An inductive proof of `BlocksAccounted` did not go through for an earlier form of the property;
  three descriptors showed the run why. It now says that hands are disjoint until such a free took a block (`lost.robbed`), and
  that no other cause takes one.
- Drawing: `vios_print` (`vios.asm:26-45`) pushes its arguments from one slot too high, so the kernel takes `x` for
  the text's address and whatever lies above the arguments for the scale; the model gives `print`
  the low memory it then reads, and `DrawsTheShape` makes no claim for it. `putchar` draws at (1,2), in
  color (3,4,5) and six times enlarged whatever it is asked (the comma operators of `isr80h/io.c:32-37`), a
  character its stub takes from the caller's own frame. Nothing is presented until
  a program calls present. A rectangle filled, a clear and a blit do not look at the clip rectangle; a
  clip rectangle that starts left of the surface keeps its width, and one whose end wraps hides
  everything. An outline of width or height 0 is drawn two pixels wide. A circle lies up to a
  pixel and a half inside the radius. A blend within one buffer that goes down or right mixes what it has just
  written, and can darken a pixel by more than the level that rounding costs.
- Drawing with large numbers: the loops reckon in ints, and the models wrap where they do. A line whose error can pass
  the largest int (three times its longer side, `graphics/graphics.c:417-429`) may leave its end point aside and never end, as `vix`'s line from (1,1) to
  (65,1) with an int of eight bits; nor does a disc whose radius is the largest int. `DrawingEnds` holds of all other calls (`EndFits`), and the instance has both sides of it. A circle
  reckons up to four times its radius, a disc with the radius squared. A text too wide for an int has
  a negative width (`graphics_text_width`), also where it would fit because it starts far left of the screen: trying to prove that
  a text lies within its width showed that the sum is taken from zero and not from the text's place. `ShapeOfCall` states the
  sums that must not wrap, and `TextFits` has both.
- Clock: with minutes of one second a torn read could not be told from a whole one, so `RtcConstants` has more than one.
  A read torn by an update can be up to an hour ahead, and a sleep then returns early. A target of a day
  or more ahead is never reached, one past the largest int is at once. `sys_sleep.md` says
  that the call yields; it waits in the kernel with interrupts off.
- Sound: `sleep_ms` programs a square wave, whose output falls after *half* the count: it waits half as
  long as its count, of which it keeps sixteen bits (run `sleep_ms`; `HalfTheSleep` and `NoSleepIsWhole` prove it of every sleep), changes the tone of a running beep, and never ends
  when a stop has closed the gate. A lost parameter byte is made up by the next command
  (the time constant of 22050 Hz is itself the command that turns the speaker off). `sb16_simple_playback` programs
  no DMA and does not set `playing`, so its sound is not stopped; a looping playback uses a DMA mode that does not
  loop. A shutdown keeps a beep's buffer for the next beep to free.

## 4. Proofs

Every safety property of the passing runs is a theorem, for every value of the constants; the list is in `PROJECT.json`. Nothing is
assumed but the named assumptions of the modules, which TLC evaluates on each instance, and, where a theorem says
so, a hypothesis on the requests or the programs that the instance also meets (`MCProgramsLinked`).

**`MemoryProofs`: the heap and the memory of processes** (any pool, block size and word size, any number of processes
and entries, any programs).

- `RealRequests` and `RealCalls`: no request rounds to zero blocks. Without them a block is handed out without being
  marked, as `sys_malloc(0)` does (`task/process.c:63`).
- `IInv` is `TypeOK`, `TableEncodesLive`, `LiveDisjoint` and positive lengths. Disjointness alone is not inductive: that
  a new allocation misses the old ones follows from the scan seeing their blocks taken, which is what `TableEncodesLive`
  says; that a free restores it follows from the chain being exactly the allocation's span (`ChainIsSpan`). An
  allocation that runs past the table is covered: a later one cannot start behind it (`ClaimedBlocksFree`). From it the
  heap's properties and `HeapImplementsAllocator`.
- `MemInv` puts on top of `IInv` the books: every image, stack, entry and block to give back is a live allocation and only one of them
  (`PiecesLive`, `PlacesDistinct`), no allocation is in none (`NothingLeaked`), and how much of this a load or an exit
  half way has done (`PhasesSound`). Each handler's calls of the heap are shown to be steps of `Heap` (`MemoryUsesHeap`), so what a give-back or a
  failed load leaves of the table is derived from `MarkFree` and not assumed. From it `MemoryBooks`.
- `TablesSound` is about the one page table and says which entries are writable and where they lead: into the image, behind it, into the stack, or
  a page of an entry of the array, mapped to itself. From it `MemoryWritable`, and with the books `MemoryPrivate`, for any
  programs at all.
- `MemorySegments` alone needs `LinkedPrograms`: a segment is at the same place of a page in the file and in memory, and its pages
  are its own, below the heap and not the stack's. Without it a later write to the table replaces a page of the image, which is what a linker
  is there to prevent.

**`ProcessProofs`** (any number of slots and addresses).

- `TableInv` adds to the properties that the history `order` lists the live tasks without repetition
  and that in user mode the current task is live. It is inductive whatever state the *list* is in,
  because a handler runs only for a live current task. From it `ProcessTypes`, `ProcessTable`, `ProcessCurrent`.
- `ListInv` says that, until a removal was misled, following `next` from head gives `order`, and that a
  `prev` is either right or points at a task that is no longer there. With `TableInv` it is inductive;
  the lemmas `AddLinked` and `RemoveLinked` are about the list operators alone. From it
  `TaskListOrder`, `NoFreedTaskRuns`, `PanicsOnlyAlone`, `FailedLoadRestoresList`.

**`KeyboardProofs`** (any number of processes, any size of ring, any number of keys). `RingInv` relates a ring to what was
sent to it and read from it: a slot holds a key sent to that slot, what was read is in no slot, a key is in its slot, read, or
followed by a ring of newer ones; and a ring that was never lapped holds the keys from head to tail and no
others. The arithmetic is one fact: two indexes less than `Size` apart have different slots. From it `KeyboardAccounts`,
and the refinement of `KeyQueue` step by step: a push that laps is `Overflow`, one before that `Type`; a pop is
`Read` of the queue from head to tail, and after a lap `ReadLapped`.

**`MainLoopProofs`: the port** (any number of bytes, any screen). As long as no byte has gone astray: an interrupt is pending exactly for
the byte in the port, the driver's packet is what was read of one report, and with no shift key held the scancode still on
its way leaves shift up. From it `PacketsAreReports`, `ShiftComesUp`.

**`FilesProofs`** (any disk with a table and a root directory, damaged or not, any sector and cluster size, any reads and seeks).
`FilesInv` says where a read in progress stands: how many links of the chain it has followed and to which
cluster, how much of the piece it has taken and from where, and that the bytes it has stored are its file's. The chain the table
tells is a recursive function; that following one more link gives its next value is proved by
induction. From it `ReadsStoreOwnBytes`, `OpensFailForAReason`, and `FilesImplementOpenFiles`: a step of a read is a
stutter of `OpenFiles`, its end moves one position or none.

**`PathLookupProofs`** (any tree, any paths, any number of descriptors, any amount of memory).

- A parse cut short by lack of memory yields a path of fewer parts, which might name something else. `WalkStands` says why it is
  never opened: the parse that was cut short had taken the last free block, nothing is given back until the
  walk ends, so the walk cannot take the first step. From it `OpensNamedFile`.
- `Accounts` says who has each block. Every action is made of three moves, a block given, taken back or handed over,
  and a lemma for each says what it does to the accounts. The
  directory that was freed and is still pointed to is in nobody's hands while its walk lasts; later
  it may be, and its second free is the one way a block gets a second user (section 3). From it `BlocksAreAccounted`.

**`MainLoopProofs`: the terminal** (any screen, any length of the command line, any commands and texts). `LineStands`: while the line is not
torn, the cells from the beginning of some row hold the prompt and then what the buffer holds.
That printing keeps the cursor on the screen and scrolls the line with it is proved by induction over the length
of the text. From it `TerminalShowsTheLine`, `TerminalImplementsLineEditor`.

**`DeviceProofs`: sound** (any timer, delays, tones, sounds and number of buffers). A call's output reaches the device long after the
driver's variables have changed, so an invariant that compares the two looks ahead: `Foreseen` says that what is left of the output leads
DSP and DMA, item by item, to a state that fits the driver's variables. Each call is composed of commands of
which this is a lemma. With `ToneKept`, `BlocksKept` and the count a poll waits for: `DriverInStep`, `SpeakerAsAsked`,
`BuffersAreKept`, `HalfTheSleep`, `NoSleepIsWhole`.

**`DeviceProofs`: the clock** (a day of any length, either data mode, any int). `ReadStands`: the registers read so far are the
clock's time, or an update came among them and they begin with the second before it. `Kept`: once the starting time is read,
the clock is at least as far from it as seconds have passed, exactly as far unless a read was torn, and less far than
was asked for as long as the last complete read is of the time now. That a torn starting time is never too close
follows from its second, which is that of before the update and so not the clock's; that no second is
missed, from the clock's updates being further apart than a read takes (`whole`). A sleep of a day or more measures less than a day
and does not return. From it `SleepsWakeOnTime`.

**`VixProofs`** (any screen, any font, any width of int, any sequence of calls with any coordinates).

- `CoreInv`: buffers, clip rectangle and loop are what they should be, the loop and the color are those of the call, and what
  `drawn` has of the visible part is in the call's color. It rests on the arithmetic of `Wrap`, of colors and of the clip rectangle, and gives
  `BuffersKeepTheirPixels`. `DrawingsStayInTheClip` adds that `set_pixel` sees a pixel exactly if it is in the
  rectangle asked for, wrapped or not, when that starts on the surface.
- `BlitsCopyTheSource`: by induction over the rows and columns in the order the loop takes them, each pixel that has a place has been copied
  from a pixel not written before, which is where it matters that the copy does not go down or right.
- `DrawingsHaveTheirShape`: an invariant for each kind of loop, which says what it has drawn so far and
  where it stands, and becomes the shape when the loop ends (`ShapeInv`). A disc is the rows above the loop's; a text the glyphs of the
  characters so far, with the next at its row and column. A line's error is `dx - dy` less `OffOf`, which is how far the pixel is from the line: the test on
  twice the error keeps it within half a pixel, a step is made along the longer side every time, and so the end point is met. A rectangle is four
  such lines from corner to corner. A circle's number is
  `2(x^2 + y^2 - r^2) + 8x - 6y + 4r + 3` (`Reckoned`): its bounds keep the pixel between a pixel and a half inside and half a pixel outside, and within an int. The columns
  so far and their mirror images are a ring whose every pixel has a neighbour on either side once the loop meets the
  diagonal (`ColumnHasTwo`).

The induction theorems of the library take an operator as a parameter, which the installed
provers cannot instantiate. Where induction is needed it is over a *set* of naturals, from the well-founded order of `Nat`
(`SetInduction`); it serves for what a recursive function does at one more step. No module uses a `RECURSIVE` operator.

Only model-checked:

- `EveryKeyIsRead`, `PortIsRead`, `ReadReturns`, `DrawingEnds`, `SleepReturns`, `CallsReturn`: liveness
  under fairness, which with anything that uses `ENABLED` is beyond this prover.
- `EveryTaskListed` is false (`tasklist_lost`), as is `SleepsAsAsked` (`sleep_ms`), of which `NoSleepIsWhole` proves the opposite.

The type invariant of `Vix` is a run's property and a theorem; those of `Heap` and `Process` are theorems and no longer
run; those of the other modules are conjuncts of a property that needs them (`KeysAccounted`, `PacketsWhole`, `StoresOwnBytes`, `EnterRunsWhatIsShown`,
`BlocksAccounted`, `BooksBalance`, `WakesOnTime`).

## 5. Not modelled, and why

- Frames: registers saved on entry and restored on return (`idt/idt.asm`, `task/task.asm`).
- Kernel objects on the heap: `ProcessMemory` has the image, the stack and the allocations of a process,
  `PathLookup` the paths, directory entries and descriptors of file calls; process and task objects and
  page directories are left out. Their out-of-memory paths (`task/task.c:100`,
  `memory/paging/paging.c:9`) are hazards without a property yet. What programs write is not modelled, only where they may; nor are sums of addresses past 2^32.
- In `Process` a load that finds no file has no effect. With a file system present the failing `fopen`
  closes an error code (`fs/file.c:198`), which `Files` models as surviving or not; the two
  modules are not composed.
- Directories longer than a cluster, the comparison of 8.3 names, the port protocols of disk, keyboard LEDs and mouse set-up.
- Graphics: scaled blits, the frame limiter and `renderer.c`, which nothing calls; the mouse pointer.
- The stub `vios_putchar` pops an `ebp` it has not pushed (`vios.asm:71`) and so does not return to its caller; the model ends with the character drawn.
- System calls: text pointers that the kernel dereferences under its own pages (`Texts` and `LowMemory` stand for what is
  there); the copying of file names and buffers out of a task (`task/task.c:150`); commands 24 to 27, which are not registered.
  The audio stubs of `stdlib++` use the numbers of drawing commands.
- Sound: volumes and the mixer, the driver's own control calls, the queue of buffers that nothing fills, and
  beep frequencies whose divisor is not a count (0 divides by zero). The clock's twelve-hour mode, for which
  the code does not test.
- Out-of-range arguments of `heap_free` (`memory/heap/heap.c:168`): a pointer outside the pool indexes the
  table out of bounds; `PathLookup` lets the kernel survive one or not where `fclose` frees a NULL entry.
- Numeric conversion, string functions, floating point but for the integer square root of a disc, boot assembly,
  debug output: pure or sequential.

## 6. Plan

The modules were written in the order heap, processes and tasks, process memory, input, files, terminal,
path lookup, drawing, clock, sound, and the proofs in the same order, drawing last. What comes next:

1. `Frames`: the saved registers of tasks over entry, switch and return (`idt/idt.asm`,
   `task/task.asm`, `task/task.c:150`).
2. Compositions: `Process` with `Keyboard`, replacing the free choice of the next current process;
   `Files` and `PathLookup` with loading, replacing the `fopen` that does nothing when it fails.
