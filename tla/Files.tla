-------------------------------- MODULE Files --------------------------------
(***************************************************************************)
(* Open files: the descriptor table of fs/file.c over the FAT16 reader of  *)
(* fs/fat/fat16.c and the byte stream of disk/streamer.c.                  *)
(*                                                                         *)
(* The disk is an image that never changes: a file allocation table and    *)
(* the entries of the root directory, chosen at the start among images     *)
(* that need not be well formed.  A byte is named by its place on the      *)
(* disk, so that what a read returns tells where it came from.             *)
(*                                                                         *)
(* The calls run with interrupts off, one at a time.  fread is modelled    *)
(* step by step under "call": one entry of the table or one sector of the  *)
(* disk per step.  Paths lead to files in the root directory.              *)
(***************************************************************************)
EXTENDS Integers, Sequences, FiniteSets

CONSTANTS
    MaxFds,         \* VIOS_MAX_FILE_DESCRIPTORS
    SectorSize,     \* VIOS_SECTOR_SIZE
    ClusterSize,    \* sectors_per_cluster * sector_size
    LastCluster,    \* the last data cluster; the first is 2
    Images,         \* the disks: records [fat, root]
    Name,           \* the names files are opened by
    NoName,
    RecordSizes, Counts, Offsets,   \* arguments of fread and fseek
    MaxPos          \* bound on the positions in files

\* Entries of the table: a cluster; Stop for the values the code ends a chain
\* at (0, 0xFFF8, 0xFFFF and those it takes for bad and reserved); Beyond for any
\* other value, which it takes for a cluster although the disk has none there.
Cluster == 2 .. LastCluster
Stop == 0
Beyond == LastCluster + 1

ASSUME FilesAssumption ==
    /\ MaxFds \in Nat \ {0} /\ SectorSize \in Nat \ {0} /\ LastCluster \in Nat \ {0, 1}
    /\ ClusterSize \in Nat \ {0} /\ ClusterSize % SectorSize = 0
    /\ RecordSizes \subseteq Nat \ {0} /\ Counts \subseteq Nat \ {0} /\ Offsets \subseteq Nat
    /\ NoName \notin Name /\ MaxPos \in Nat
    /\ Images \subseteq [fat : [Cluster -> Cluster \cup {Stop, Beyond}],
                        root : Seq([name : Name \cup {NoName}, first : Nat, size : Nat])]
    /\ \A image \in Images : \A i \in DOMAIN image.root :
          image.root[i].name \in Name => image.root[i].first \in Cluster \cup {Beyond}

VARIABLES
    fat, root,          \* the disk
    content,            \* the size and the bytes of its files (derived once from it)
    file_descriptors,   \* what is behind each descriptor: the file and the position
    call,               \* the fread in progress
    ret,                \* what the last call returned; a read fails until it is done
    astray              \* an error pointer was closed and the kernel did not survive it

disk == <<fat, root, content>>
vars == <<fat, root, content, file_descriptors, call, ret, astray>>

Fd == 1 .. MaxFds
Closed == [name |-> NoName, pos |-> 0]
Idle == [phase |-> "idle"]
Ret(op, d, ok, data) == [op |-> op, fd |-> d, ok |-> ok, data |-> data]

-----------------------------------------------------------------------------
(***************************************************************************)
(* The root directory.  The number of its items leaves out deleted ones,   *)
(* and a search looks at that many entries from the start, deleted ones    *)
(* included; the last match counts.                                        *)
(***************************************************************************)
Deleted(i) == root[i].name = NoName
TotalItems == Cardinality({i \in DOMAIN root : ~Deleted(i)})

\* Seeded fault: the search stops one entry early.
FoundShort(n) == {i \in 1 .. TotalItems - 1 : root[i].name = n}
Found(n) == {i \in 1 .. TotalItems : root[i].name = n}
Item(n) == root[CHOOSE i \in Found(n) : \A j \in Found(n) : j <= i]

NoByte == -1
AnyByte == -2

\* The clusters of the file that starts at first, as far as the table tells.
Chain(first) ==
    LET f[i \in 0 .. MaxPos] ==
            IF i = 0 THEN first
            ELSE IF f[i - 1] \in Cluster THEN fat[f[i - 1]]
            ELSE IF f[i - 1] = Stop THEN Stop ELSE AnyByte
    IN  f

\* The k-th byte of a file.
FileByte(n, k) ==
    IF Found(n) = {} THEN NoByte
    ELSE LET c == Chain(Item(n).first)[k \div ClusterSize]
         IN  CASE c = Stop -> NoByte
               [] c = AnyByte -> AnyByte
               [] OTHER -> c * ClusterSize + (k % ClusterSize)

Init ==
    /\ \E image \in Images : fat = image.fat /\ root = image.root
    /\ content = [n \in Name |-> [size |-> IF Found(n) = {} THEN 0 ELSE Item(n).size,
                                 bytes |-> [k \in 0 .. MaxPos |-> FileByte(n, k)]]]
    /\ file_descriptors = [d \in Fd |-> Closed]
    /\ call = Idle
    /\ ret = Ret("none", 0, TRUE, 0)
    /\ astray = FALSE

-----------------------------------------------------------------------------
\* file_new_descriptor: the first free entry of the table.
FreeDescriptors ==
    {d \in Fd : file_descriptors[d] = Closed /\ \A e \in 1 .. d - 1 : file_descriptors[e] # Closed}

\* file_get_descriptor: it refuses the last descriptor of the table.
Descriptor(d) == IF d > 0 /\ d < MaxFds THEN file_descriptors[d] ELSE Closed

Ready == call = Idle /\ ~astray

\* fopen of a file that is there.
Fopen(n) ==
    /\ Ready /\ Found(n) # {}
    /\ \E d \in FreeDescriptors :
        /\ file_descriptors' = [e \in Fd \cup {d} |->
              IF e = d THEN [name |-> n, pos |-> 0] ELSE file_descriptors[e]]
        /\ ret' = Ret("open", d, TRUE, n)
    /\ UNCHANGED <<disk, call, astray>>

\* The table is full: the opened file is closed again and 0 is returned.
FopenFull(n) ==
    /\ Ready /\ Found(n) # {} /\ FreeDescriptors = {}
    /\ ret' = Ret("open", 0, FALSE, n)
    /\ UNCHANGED <<disk, file_descriptors, call, astray>>

\* A path, disk or mode string that is refused before the file system is asked.
FopenRefused ==
    /\ Ready
    /\ ret' = Ret("refused", 0, FALSE, NoName)
    /\ UNCHANGED <<disk, file_descriptors, call, astray>>

\* fat16_open fails: no such file, or a mode other than "r". fopen then closes the
\* error code as if it were a pointer: what that does depends on what memory
\* holds there, from nothing to the end of the kernel.
FopenFails(op, n) ==
    /\ Ready
    /\ op = "open" => Found(n) = {}
    /\ ret' = Ret(op, 0, FALSE, n)
    /\ astray' \in BOOLEAN
    /\ UNCHANGED <<disk, file_descriptors, call>>

\* fstat.
Fstat(d) ==
    /\ Ready
    /\ ret' = IF Descriptor(d) = Closed THEN Ret("stat", d, FALSE, 0)
              ELSE Ret("stat", d, TRUE, Item(Descriptor(d).name).size)
    /\ UNCHANGED <<disk, file_descriptors, call, astray>>

\* Where SEEK_SET and SEEK_CUR lead; SEEK_END is not implemented.
SeekTarget(d, whence, k) == IF whence = "SET" THEN k ELSE Descriptor(d).pos + k

\* fseek. The offset is compared with the size of the file, whatever it is added to.
Fseek(d, whence, k) ==
    /\ Ready /\ Descriptor(d) # Closed /\ whence # "END"
    /\ k < Item(Descriptor(d).name).size
    /\ SeekTarget(d, whence, k) <= MaxPos
    /\ file_descriptors' = [file_descriptors EXCEPT ![d].pos = SeekTarget(d, whence, k)]
    /\ ret' = Ret("seek", d, TRUE, 0)
    /\ UNCHANGED <<disk, call, astray>>

FseekFails(d, whence, k) ==
    /\ Ready
    /\ \/ Descriptor(d) = Closed \/ whence = "END"
       \/ Descriptor(d) # Closed /\ k >= Item(Descriptor(d).name).size
    /\ ret' = Ret("seek", d, FALSE, 0)
    /\ UNCHANGED <<disk, file_descriptors, call, astray>>

\* fclose.
Fclose(d) ==
    /\ Ready
    /\ IF Descriptor(d) = Closed
       THEN ret' = Ret("close", d, FALSE, 0) /\ UNCHANGED file_descriptors
       ELSE /\ file_descriptors' = [file_descriptors EXCEPT ![d] = Closed]
            /\ ret' = Ret("close", d, TRUE, 0)
    /\ UNCHANGED <<disk, call, astray>>

-----------------------------------------------------------------------------
(***************************************************************************)
(* fread: fat16_read reads record by record, each from the file's first    *)
(* cluster on; fat16_read_internal_from_stream follows the chain to the    *)
(* cluster of the offset, reads at most a cluster's worth of bytes from    *)
(* there and starts over for the rest of the record.                       *)
(***************************************************************************)
First(c) == Item(file_descriptors[c.fd].name).first
Offset(c) == file_descriptors[c.fd].pos + c.record * c.size + c.done

\* fat16_get_cluster_for_offset starts at the first cluster.
ChainStart(c) ==
    [c EXCEPT !.phase = "chain", !.cluster = First(c), !.ahead = Offset(c) \div ClusterSize]

Fread(d, size, count) ==
    /\ Ready /\ Descriptor(d) # Closed
    /\ Descriptor(d).pos + size * count <= MaxPos
    /\ call' = ChainStart([phase |-> "chain", fd |-> d, size |-> size, count |-> count,
                           record |-> 0, done |-> 0, cluster |-> 0, ahead |-> 0,
                           at |-> 0, want |-> 0, out |-> << >>])
    /\ ret' = Ret("read", d, FALSE, << >>)
    /\ UNCHANGED <<disk, file_descriptors, astray>>

\* No such descriptor, or a size or count of zero.
FreadRefused(d) ==
    /\ Ready
    /\ ret' = Ret("read", d, FALSE, << >>)
    /\ UNCHANGED <<disk, file_descriptors, call, astray>>

\* fat16_get_fat_entry; outside the table any value can be found.
FatEntries(c) == IF c \in Cluster THEN {fat[c]} ELSE {Stop, Beyond} \cup Cluster

\* Seeded fault: the cluster is followed but not counted.
FollowChainUncounted ==
    /\ call.phase = "chain" /\ call.ahead > 0
    /\ \E entry \in FatEntries(call.cluster) \ {Stop} :
          call' = [call EXCEPT !.cluster = entry]
    /\ UNCHANGED <<disk, file_descriptors, ret, astray>>
\* One iteration of fat16_get_cluster_for_offset.
FollowChain ==
    /\ call.phase = "chain" /\ call.ahead > 0
    /\ \E entry \in FatEntries(call.cluster) \ {Stop} :
          call' = [call EXCEPT !.cluster = entry, !.ahead = @ - 1]
    /\ UNCHANGED <<disk, file_descriptors, ret, astray>>

\* Seeded fault: the position moves by what was read before the chain ended.
ChainEndsMoved ==
    /\ call.phase = "chain" /\ call.ahead > 0
    /\ Stop \in FatEntries(call.cluster)
    /\ file_descriptors' = [file_descriptors EXCEPT ![call.fd].pos = Offset(call)]
    /\ call' = Idle
    /\ UNCHANGED <<disk, ret, astray>>
\* The chain ends before the offset: -EIO, the position stays.
ChainEnds ==
    /\ call.phase = "chain" /\ call.ahead > 0
    /\ Stop \in FatEntries(call.cluster)
    /\ call' = Idle
    /\ UNCHANGED <<disk, file_descriptors, ret, astray>>

\* The bytes of the record still to read, at most a cluster's worth.
Piece(c) == IF c.size - c.done > ClusterSize THEN ClusterSize ELSE c.size - c.done

\* diskstreamer_seek to the offset's place in the cluster that was found.
StreamSeek ==
    /\ call.phase = "chain" /\ call.ahead = 0
    /\ call' = [call EXCEPT !.phase = "data", !.want = Piece(call),
                            !.at = call.cluster * ClusterSize + (Offset(call) % ClusterSize)]
    /\ UNCHANGED <<disk, file_descriptors, ret, astray>>

\* diskstreamer_read calls itself again when the bytes reach the sector's end,
\* even when no byte is left to read.
Overflows == (call.at % SectorSize) + call.want >= SectorSize

\* Seeded fault: a full sector is taken although the stream is inside it.
SectorShareWhole == IF Overflows THEN SectorSize ELSE call.want
\* How many bytes are taken from the sector the stream is in.
SectorShare == IF Overflows THEN SectorSize - (call.at % SectorSize) ELSE call.want

\* The bytes of the sector, behind those read before.
Taken == call.out \o [i \in 1 .. SectorShare |-> call.at + i - 1]

\* One call of diskstreamer_read that goes on in the next sector.
ReadSector ==
    /\ call.phase = "data" /\ Overflows
    /\ call' = [call EXCEPT !.out = Taken, !.at = @ + SectorShare, !.want = @ - SectorShare]
    /\ UNCHANGED <<disk, file_descriptors, ret, astray>>

\* The call once the piece is read: the rest of the record, or the next record.
Continued ==
    LET done == call.done + Piece(call) IN
    IF done < call.size THEN ChainStart([call EXCEPT !.out = Taken, !.done = done])
    ELSE ChainStart([call EXCEPT !.out = Taken, !.done = 0, !.record = @ + 1])

\* The last call of diskstreamer_read for the piece, and more is to read.
ReadSectorLast ==
    /\ call.phase = "data" /\ ~Overflows
    /\ Continued.record < call.count
    /\ call' = Continued
    /\ UNCHANGED <<disk, file_descriptors, ret, astray>>

\* The last record is read: the position moves.
FreadDone ==
    /\ call.phase = "data" /\ ~Overflows
    /\ Continued.record = call.count
    /\ ret' = Ret("read", call.fd, TRUE, Taken)
    /\ file_descriptors' = [file_descriptors EXCEPT ![call.fd].pos = @ + call.size * call.count]
    /\ call' = Idle
    /\ UNCHANGED <<disk, astray>>

Fread_step ==
    FollowChain \/ ChainEnds \/ StreamSeek \/ ReadSector \/ ReadSectorLast \/ FreadDone

\* The kernel does not come back.
Halted == astray /\ UNCHANGED vars

Next ==
    \/ \E n \in Name : Fopen(n) \/ FopenFull(n) \/ FopenFails("open", n) \/ FopenFails("write", n)
    \/ FopenRefused
    \/ \E d \in 0 .. MaxFds :
        \/ Fstat(d) \/ Fclose(d) \/ FreadRefused(d)
        \/ \E whence \in {"SET", "CUR", "END"}, k \in Offsets :
              Fseek(d, whence, k) \/ FseekFails(d, whence, k)
        \/ \E size \in RecordSizes, count \in Counts : Fread(d, size, count)
    \/ Fread_step
    \/ Halted

\* A call runs to its end.
Spec == Init /\ [][Next]_vars /\ WF_vars(Fread_step)

-----------------------------------------------------------------------------
\* Types of the descriptor table and of a read in progress.
FilesTypeOK ==
    /\ [fat |-> fat, root |-> root] \in Images
    /\ file_descriptors \in [Fd -> [name : Name \cup {NoName}, pos : 0 .. MaxPos]]
    /\ call # Idle =>
        /\ call.phase \in {"chain", "data"} /\ Descriptor(call.fd) # Closed
        /\ call.record < call.count /\ call.done < call.size
        /\ call.cluster \in Cluster \cup {Beyond} /\ call.ahead \in Nat /\ call.want \in Nat
    /\ astray \in BOOLEAN

\* The file calls keep the promise of OpenFiles.tla, on well-formed and on damaged
\* disks: descriptors do not disturb each other, a read returns the file's bytes
\* whenever its records lie in a cluster or start one, a failed call moves nothing.
Promise == INSTANCE OpenFiles WITH open <- file_descriptors
OpenFilesSpec == Promise!Spec

\* Whatever way a read will end, what it has stored for the caller so far are
\* bytes of the file it was asked for, in order; its file stays open meanwhile
\* (file.c:265, fat16.c:700-722).
StoresOwnBytes ==
    /\ FilesTypeOK
    /\ LET from == file_descriptors[call.fd].pos IN
       call # Idle /\ Promise!Promised(from, call.size, call.count) =>
           \A i \in 1 .. Len(call.out) :
               content[file_descriptors[call.fd].name].bytes[from + i - 1] \in {call.out[i], AnyByte}

\* Opening for reading fails only when the table is full, when the directory
\* has no such file, or when a deleted entry comes before it.
FailedOpenJustified ==
    ret.op = "open" /\ ~ret.ok =>
        \/ \A d \in Fd : file_descriptors[d] # Closed
        \/ \A j \in DOMAIN root : root[j].name = ret.data => \E i \in 1 .. j - 1 : Deleted(i)

\* A read comes to its end on every disk, one with a chain that runs in circles
\* included.
ReadReturns == call # Idle ~> call = Idle
=============================================================================
