------------------------------ MODULE OpenFiles ------------------------------
(***************************************************************************)
(* What the file calls promise their callers: every open descriptor has a  *)
(* file and a position of its own, a read returns the bytes of that file   *)
(* from that position on and moves only that position, and a call that     *)
(* fails changes nothing.  Files.tla implements it on a FAT16 disk.        *)
(***************************************************************************)
EXTENDS Integers, Sequences

CONSTANTS
    Fd,             \* file descriptors
    Name,           \* file names
    Closed,         \* what is behind a descriptor that is not open
    RecordSizes, Counts, Offsets,   \* arguments of the calls
    ClusterSize,    \* a record is promised when it lies in a cluster or starts one
    NoByte, AnyByte \* where a file has no byte, where it has any

VARIABLES
    content,            \* the size and the bytes of every file
    open,               \* the open descriptors, records [name, pos]
    ret                 \* what the last call returned

vars == <<content, open, ret>>

Ret(op, d, ok, data) == [op |-> op, fd |-> d, ok |-> ok, data |-> data]

Init == open = [d \in Fd |-> Closed] /\ ret = Ret("none", 0, TRUE, 0)

\* A failed call leaves every position where it was.
Refuse ==
    /\ ~ret'.ok
    /\ UNCHANGED open

Open(d, n) ==
    /\ open[d] = Closed
    /\ open' = [open EXCEPT ![d] = [name |-> n, pos |-> 0]]
    /\ ret' = Ret("open", d, TRUE, n)

Stat(d) ==
    /\ open[d] # Closed
    /\ ret' = Ret("stat", d, TRUE, content[open[d].name].size)
    /\ UNCHANGED open

MoveTo(d, pos) == open' = [open EXCEPT ![d].pos = pos]

SeekTo(d, k) ==
    /\ ret' = Ret("seek", d, TRUE, 0)
    /\ open[d] # Closed /\ k < content[open[d].name].size
    /\ MoveTo(d, k) \/ MoveTo(d, open[d].pos + k)

\* Records within a cluster, or starting at the start of one.
Promised(from, size, count) ==
    \A r \in 0 .. count - 1 :
        LET o == (from + r * size) % ClusterSize IN o = 0 \/ o + size <= ClusterSize

Read(d, size, count) ==
    /\ ret'.op = "read" /\ ret'.fd = d /\ ret'.ok /\ Len(ret'.data) = size * count
    /\ open[d] # Closed
    /\ MoveTo(d, open[d].pos + size * count)
    /\ Promised(open[d].pos, size, count) =>
          \A i \in 1 .. size * count :
              LET b == content[open[d].name].bytes[open[d].pos + i - 1]
              IN  b # NoByte /\ ret'.data[i] \in {b} \cup (IF b = AnyByte THEN {ret'.data[i]} ELSE {})

Close(d) ==
    /\ open[d] # Closed
    /\ open' = [open EXCEPT ![d] = Closed]
    /\ ret' = Ret("close", d, TRUE, 0)

Next ==
    /\ UNCHANGED content
    /\ \/ Refuse
       \/ \E d \in Fd :
            \/ \E n \in Name : Open(d, n)
            \/ Stat(d) \/ Close(d)
            \/ \E k \in Offsets : SeekTo(d, k)
            \/ \E size \in RecordSizes, count \in Counts : Read(d, size, count)

Spec == Init /\ [][Next]_vars
=============================================================================
