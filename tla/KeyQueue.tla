------------------------------ MODULE KeyQueue ------------------------------
(***************************************************************************)
(* What the keyboard promises a process: the keys typed while it is the    *)
(* current process come out of its queue once each and in order, as long   *)
(* as it never leaves more than Size of them unread.                       *)
(***************************************************************************)
EXTENDS Naturals, Sequences

CONSTANTS Proc, Size, Key, NoKey

VARIABLES
    queue,      \* the unread keys of each process
    lapped,     \* the processes that left too many unread: no promise to them
    got         \* what the last read returned

Init ==
    /\ queue = [p \in Proc |-> <<>>]
    /\ lapped = {}
    /\ got = NoKey

\* A process starts, with nothing to read.
Open(p) ==
    /\ queue' = [queue EXCEPT ![p] = <<>>]
    /\ lapped' = lapped \ {p}
    /\ UNCHANGED got

Type(p, k) ==
    /\ p \notin lapped /\ Len(queue[p]) < Size
    /\ queue' = [queue EXCEPT ![p] = Append(@, k)]
    /\ UNCHANGED <<lapped, got>>

\* One key more than fits.
Overflow(p) ==
    /\ p \notin lapped /\ Len(queue[p]) = Size
    /\ lapped' = lapped \cup {p}
    /\ queue' = [queue EXCEPT ![p] = <<>>]
    /\ UNCHANGED got

Read(p) ==
    /\ p \notin lapped
    /\ IF queue[p] = <<>>
       THEN got' = NoKey /\ UNCHANGED queue
       ELSE got' = Head(queue[p]) /\ queue' = [queue EXCEPT ![p] = Tail(@)]
    /\ UNCHANGED lapped

ReadLapped(p) ==
    /\ p \in lapped
    /\ got' \in Key \cup {NoKey}
    /\ UNCHANGED <<queue, lapped>>

Next == \E p \in Proc :
    \/ Open(p) \/ (\E k \in Key : Type(p, k)) \/ Overflow(p)
    \/ Read(p) \/ ReadLapped(p)

Spec == Init /\ [][Next]_<<queue, lapped, got>>
=============================================================================
