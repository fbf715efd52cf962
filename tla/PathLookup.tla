----------------------------- MODULE PathLookup -----------------------------
(***************************************************************************)
(* What opening and closing a file does with kernel memory: the path       *)
(* parser (fs/pparser.c), fopen and fclose (fs/file.c), and the walk of    *)
(* fs/fat/fat16.c from the root directory down.                            *)
(*                                                                         *)
(* Every object on the way - the path, its parts and their strings, the    *)
(* entries looked up, their directories, the descriptors - is a heap block *)
(* of its own, taken first fit.  Any of them may be refused, and most      *)
(* refusals are handled by hand somewhere else.  One action is one round   *)
(* of a loop; a round that takes several blocks gets as many as there are. *)
(* Calls run to their end with interrupts off.                             *)
(*                                                                         *)
(* Files says what is read through a descriptor, and has the deleted       *)
(* entries and the damaged tables; here a directory lies in one cluster.   *)
(***************************************************************************)
EXTENDS Integers, Sequences, FiniteSets

CONSTANTS
    Total,              \* heap blocks
    MaxFds,             \* VIOS_MAX_FILE_DESCRIPTORS
    Directory, File,    \* what is on the disk
    Root,               \* the root directory
    Tree,               \* the entries of each directory, from names to Directory and File
    Paths,              \* the paths that are opened, sequences of names
    NoName,             \* what is between two slashes
    Nowhere

ASSUME PathLookupAssumption ==
    /\ Total \in Nat /\ MaxFds \in Nat \ {0}
    /\ Root \in Directory /\ Directory \cap File = {} /\ Nowhere \notin Directory \cup File
    /\ DOMAIN Tree = Directory
    /\ \A d \in Directory :
        /\ NoName \notin DOMAIN Tree[d]
        /\ \A name \in DOMAIN Tree[d] : Tree[d][name] \in Directory \cup File
    /\ Paths \subseteq Seq(STRING)

VARIABLES
    taken,      \* the blocks that are allocated
    mounted,    \* what fat16_resolve leaves: "no", "yes", or "never"
    open,       \* what is behind each descriptor
    call,       \* the fopen in progress
    ret,        \* what the last call returned
    lost,       \* history: blocks nobody points to, of paths and of anything else, and
                \* blocks that were freed while they were another's
    astray      \* memory that is no object was used as one, and the kernel did not survive it

vars == <<taken, mounted, open, call, ret, lost, astray>>

Blocks == 0 .. Total - 1
Fd == 1 .. MaxFds
Idle == [phase |-> "idle"]
NoFile == [node |-> Nowhere]
Ret(op, ok, d) == [op |-> op, ok |-> ok, fd |-> d]

\* kzalloc: the lowest free block; and what several calls in a row return.
Free == Blocks \ taken
Memory(n) == Cardinality(Free) >= n
NthFree(n) == CHOOSE b \in Free : Cardinality({a \in Free : a < b}) = n - 1
Alloc(n) == {NthFree(i) : i \in 1 .. n}

Ready == mounted # "no" /\ call = Idle /\ ~astray
-----------------------------------------------------------------------------
Init ==
    /\ taken = {} /\ mounted = "no"
    /\ open = [d \in Fd |-> NoFile]
    /\ call = Idle
    /\ ret = Ret("none", TRUE, 0)
    /\ lost = [path |-> {}, other |-> {}, robbed |-> {}]
    /\ astray = FALSE

(***************************************************************************)
(* fat16_resolve, at boot, with an empty heap: the private structure, its  *)
(* three streams, a stream to read the header with, the root directory.    *)
(***************************************************************************)
Resolve ==
    /\ mounted = "no" /\ Memory(6)
    /\ taken' = Alloc(6) \ {NthFree(5)}
    /\ mounted' = "yes"
    /\ UNCHANGED <<open, call, ret, lost, astray>>

\* The disk has another file system: the structure is freed, its streams are not.
ResolveNotUs ==
    /\ mounted = "no" /\ Memory(5)
    /\ taken' = Alloc(4) \ {NthFree(1)}
    /\ lost' = [lost EXCEPT !.other = taken']
    /\ mounted' = "never"
    /\ UNCHANGED <<open, call, ret, astray>>
-----------------------------------------------------------------------------
(***************************************************************************)
(* pathparser_parse: the root of the path, then a part and its string per  *)
(* component.  The end of the path, nothing between two slashes and no     *)
(* memory all end the list.                                                *)
(***************************************************************************)
Fopen(path) ==
    /\ Ready /\ mounted = "yes" /\ Memory(1)
    /\ taken' = taken \cup Alloc(1)
    /\ call' = [phase |-> "parse", path |-> path, parts |-> 0, own |-> Alloc(1)]
    /\ UNCHANGED <<mounted, open, ret, lost, astray>>

\* A path without drive or root, a drive without file system, a bad mode, or no
\* memory for the root: what was taken is given back.
FopenRefused ==
    /\ Ready
    /\ ret' = Ret("open", FALSE, 0)
    /\ UNCHANGED <<taken, mounted, open, call, lost, astray>>

More == call.parts < Len(call.path) /\ call.path[call.parts + 1] # NoName

ParsePart ==
    /\ call.phase = "parse" /\ More /\ Memory(2)
    /\ taken' = taken \cup Alloc(2)
    /\ call' = [call EXCEPT !.parts = @ + 1, !.own = @ \cup Alloc(2)]
    /\ UNCHANGED <<mounted, open, ret, lost, astray>>

\* A path without parts is refused.
ParseNothing ==
    /\ call.phase = "parse" /\ call.parts = 0 /\ ~(More /\ Memory(2))
    /\ taken' = taken \ call.own
    /\ call' = Idle
    /\ ret' = Ret("open", FALSE, 0)
    /\ UNCHANGED <<mounted, open, lost, astray>>

\* An item of the walk: the blocks it owns, and those it points to although they
\* have been freed. The root directory belongs to the file system.
RootItem == [node |-> Root, own |-> {}, stale |-> {}, loaded |-> TRUE]

\* The list is complete; fat16_open takes its descriptor.
ParseEnds ==
    /\ call.phase = "parse" /\ call.parts > 0 /\ ~(More /\ Memory(2))
    /\ Memory(1)
    /\ taken' = taken \cup Alloc(1)
    /\ call' = [phase |-> "walk", path |-> call.path, parts |-> call.parts, own |-> call.own,
                fat |-> Alloc(1), at |-> 0, item |-> RootItem]
    /\ UNCHANGED <<mounted, open, ret, lost, astray>>
-----------------------------------------------------------------------------
(***************************************************************************)
(* fopen after fat16_open has failed: the path is freed, and the error     *)
(* code is closed as if it were a descriptor, which the kernel may not     *)
(* survive.                                                                *)
(***************************************************************************)
OpenFails(blocks) ==
    /\ taken' = taken \ (blocks \cup call.own)
    /\ call' = Idle
    /\ ret' = Ret("open", FALSE, 0)
    /\ astray' \in BOOLEAN
    /\ UNCHANGED <<mounted, open>>

NoDescriptor ==
    /\ call.phase = "parse" /\ call.parts > 0 /\ ~Memory(1)
    /\ OpenFails({})
    /\ UNCHANGED lost

\* fat16_new_fat_item_for_directory_item: an item and the copy of a file's entry,
\* or an item, a directory and its entries. Without memory for the entries the
\* directory is freed and its address kept.
Need(node) == IF node \in Directory THEN 3 ELSE 2
NewItem(node) ==
    IF Memory(Need(node))
    THEN [node |-> node, own |-> Alloc(Need(node)), stale |-> {}, loaded |-> TRUE]
    ELSE [node |-> node, own |-> Alloc(1), loaded |-> FALSE,
          stale |-> IF Memory(2) THEN {NthFree(2)} ELSE {}]

\* fat16_fat_item_free.
ItemBlocks(item) == item.own \cup item.stale

\* fat16_find_item_in_directory. A directory that was not loaded has nothing in it:
\* its entries are looked for at address 0.
Found(item, name) == item.node \in Directory /\ item.loaded /\ name \in DOMAIN Tree[item.node]

Walking == call.phase = "walk" /\ call.at < call.parts

\* Seeded fault: the walk goes on with the first part again, not with the next.
NameFirstAgain == call.path[IF call.at = 0 THEN 1 ELSE call.at]
Name == call.path[call.at + 1]

\* One round of fat16_get_directory_entry.
Descend ==
    /\ Walking /\ Found(call.item, Name) /\ Memory(1)
    /\ LET next == NewItem(Tree[call.item.node][Name]) IN
        /\ taken' = (taken \cup next.own) \ ItemBlocks(call.item)
        /\ call' = [call EXCEPT !.item = next, !.at = @ + 1]
    /\ UNCHANGED <<mounted, open, ret, lost, astray>>

\* No such entry, or no memory for its item. With parts left the type is read
\* through a null pointer.
NotFound ==
    /\ Walking /\ call.item.node \in Directory
    /\ ~(Found(call.item, Name) /\ Memory(1))
    /\ OpenFails(ItemBlocks(call.item) \cup call.fat)
    /\ UNCHANGED lost

\* A file where the path goes on: the walk ends, and forgets the file's item.
NotADirectory ==
    /\ Walking /\ call.item.node \in File
    /\ OpenFails(call.fat)
    /\ lost' = [lost EXCEPT !.other = @ \cup call.item.own]
-----------------------------------------------------------------------------
Walked == call.phase = "walk" /\ call.at = call.parts

\* file_new_descriptor: the first free entry of the table.
FreeDescriptors == {d \in Fd : open[d] = NoFile /\ \A e \in 1 .. d - 1 : open[e] # NoFile}

\* Freeing the entry of a file that has none frees a null pointer.
Freed(item) == astray' \in {FALSE} \cup (IF item.node \in File /\ ~item.loaded THEN {TRUE} ELSE {})

\* Nobody frees the path.
FopenDone ==
    /\ Walked /\ Memory(1)
    /\ \E d \in FreeDescriptors :
        /\ open' = [e \in Fd \cup {d} |->
              IF e # d THEN open[e]
              ELSE [node |-> call.item.node, path |-> call.path, item |-> call.item,
                    fat |-> call.fat, desc |-> Alloc(1)]]
        /\ ret' = Ret("open", TRUE, d)
    /\ taken' = taken \cup Alloc(1)
    /\ lost' = [lost EXCEPT !.path = @ \cup call.own]
    /\ call' = Idle
    /\ UNCHANGED <<mounted, astray>>

\* Without memory the descriptor is written to and read back from address 0: its
\* number is returned, but the table has no such descriptor.
FopenPhantom ==
    /\ Walked /\ ~Memory(1)
    /\ \E d \in FreeDescriptors : ret' = Ret("open", TRUE, d)
    /\ lost' = [lost EXCEPT !.path = @ \cup call.own,
                            !.other = @ \cup call.item.own \cup call.fat]
    /\ call' = Idle
    /\ UNCHANGED <<taken, mounted, open, astray>>

\* Seeded fault: the file is not closed again.
FopenFullKeepsItem ==
    /\ Walked /\ FreeDescriptors = {}
    /\ taken' = taken \ call.own
    /\ call' = Idle
    /\ ret' = Ret("open", FALSE, 0)
    /\ UNCHANGED <<mounted, open, lost, astray>>
\* The table is full: path and file are given back.
FopenFull ==
    /\ Walked /\ FreeDescriptors = {}
    /\ taken' = taken \ (call.own \cup call.fat \cup ItemBlocks(call.item))
    /\ Freed(call.item)
    /\ call' = Idle
    /\ ret' = Ret("open", FALSE, 0)
    /\ UNCHANGED <<mounted, open, lost>>

\* file_get_descriptor: it refuses the last descriptor of the table.
Descriptor(d) == IF d > 0 /\ d < MaxFds THEN open[d] ELSE NoFile

FcloseRefused(d) ==
    /\ Ready /\ Descriptor(d) = NoFile
    /\ ret' = Ret("close", FALSE, d)
    /\ UNCHANGED <<taken, mounted, open, call, lost, astray>>

\* A directory that was freed before is freed again, whoever has its block by now;
\* what was written there since is taken for the address of its entries.
Fclose(d) ==
    /\ Ready /\ Descriptor(d) # NoFile
    /\ LET file == open[d] IN
        /\ taken' = taken \ (ItemBlocks(file.item) \cup file.fat \cup file.desc)
        /\ lost' = [lost EXCEPT !.robbed =
                        @ \cup ((file.item.stale \cap taken) \ (file.item.own \cup file.fat \cup file.desc))]
        /\ \/ Freed(file.item)
           \/ file.item.stale # {} /\ astray' = TRUE
    /\ open' = [open EXCEPT ![d] = NoFile]
    /\ ret' = Ret("close", TRUE, d)
    /\ UNCHANGED <<mounted, call>>

Halted == astray /\ UNCHANGED vars

Next ==
    \/ Resolve \/ ResolveNotUs
    \/ \E path \in Paths : Fopen(path)
    \/ FopenRefused \/ ParsePart \/ ParseNothing \/ ParseEnds
    \/ NoDescriptor \/ Descend \/ NotFound \/ NotADirectory
    \/ FopenDone \/ FopenPhantom \/ FopenFull
    \/ \E d \in 0 .. MaxFds : Fclose(d) \/ FcloseRefused(d)
    \/ Halted

Spec == Init /\ [][Next]_vars
-----------------------------------------------------------------------------
Items == [node : Directory \cup File, own : SUBSET Blocks, stale : SUBSET Blocks, loaded : BOOLEAN]

\* Types of the heap, the descriptors and a walk in progress.
LookupTypeOK ==
    /\ taken \subseteq Blocks /\ mounted \in {"no", "yes", "never"}
    /\ DOMAIN open = Fd /\ \A d \in Fd : open[d] # NoFile => open[d].item \in Items
    /\ call # Idle =>
        /\ call.path \in Paths /\ call.parts \in 0 .. Len(call.path)
        /\ call.phase = "walk" => call.item \in Items /\ call.at \in 0 .. call.parts
    /\ astray \in BOOLEAN

\* What the file system itself has of the heap.
FileSystem == IF mounted = "yes" THEN (0 .. 5) \ {4} ELSE {}

\* Who has which blocks: the file system and what is lost, the call in progress,
\* and each descriptor.
NoBlocks == [own |-> {}, fat |-> {}, item |-> {}]
CallBlocks(c) ==
    CASE c = Idle -> NoBlocks
      [] c # Idle /\ c.phase = "parse" -> [NoBlocks EXCEPT !.own = c.own]
      [] OTHER -> [own |-> c.own, fat |-> c.fat, item |-> c.item.own]
FileBlocks(file) ==
    IF file = NoFile THEN NoBlocks
    ELSE [own |-> file.desc, fat |-> file.fat, item |-> file.item.own]
Held(d) ==
    CASE d = -1 -> [own |-> lost.path, fat |-> FileSystem, item |-> lost.other]
      [] d = 0 -> CallBlocks(call)
      [] OTHER -> FileBlocks(open[d])
Users == (-1 .. MaxFds) \X {"own", "fat", "item"}
Uses == [u \in Users |-> Held(u[1])[u[2]]]

(***************************************************************************)
(* However short the memory is, a block that is taken is in the hands of   *)
(* somebody or lost in one of three ways: the path of every open, a file   *)
(* that was walked through, all of an open whose descriptor found no       *)
(* memory.  A failed open gives back all it took (file.c:188, pparser.c:   *)
(* 153).  And a block has one user, until a close frees the directory that *)
(* could not be loaded a second time (fat16.c:560) when its block is in    *)
(* other hands.                                                            *)
(***************************************************************************)
BlocksAccounted ==
    /\ LookupTypeOK
    /\ LET uses == Uses IN
       ~astray =>
        /\ taken \subseteq UNION {uses[u] : u \in Users}
        /\ lost.robbed = {} =>
            /\ UNION {uses[u] : u \in Users} \subseteq taken
            /\ \A u, v \in Users : u # v => uses[u] \cap uses[v] = {}

\* What a path leads to, from its first component to the last before an empty one.
Before(path) ==
    CHOOSE n \in 0 .. Len(path) :
        /\ \A i \in 1 .. n : path[i] # NoName
        /\ n = Len(path) \/ path[n + 1] = NoName
Step(node, name) ==
    IF node \in Directory /\ name \in DOMAIN Tree[node] THEN Tree[node][name] ELSE Nowhere
LeadsTo(path) ==
    LET f[i \in 0 .. Len(path)] == IF i = 0 THEN Root ELSE Step(f[i - 1], path[i])
    IN  f
Leads(path) == LeadsTo(path)[Before(path)]

(***************************************************************************)
(* The file behind a descriptor is the one its path names, up to an empty  *)
(* component.  A parse cut short by lack of memory (pparser.c:44, :81) also*)
(* yields a path, of fewer parts; it never opens the directory those name, *)
(* because the memory that was missing then is missing for the walk.       *)
(***************************************************************************)
OpensWhatItNames == \A d \in Fd : open[d] # NoFile => open[d].node = Leads(open[d].path)
=============================================================================
