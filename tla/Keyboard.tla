------------------------------ MODULE Keyboard ------------------------------
(***************************************************************************)
(* The keyboard buffers of processes: keyboard/keyboard.c.                 *)
(*                                                                         *)
(* The keyboard interrupt puts a character into the ring of the CURRENT    *)
(* process; the getkey system call takes one from the ring of the process  *)
(* of the CURRENT TASK.  Which processes these are is decided by starts    *)
(* and exits (Process.tla has the code's own choice; here any other        *)
(* process may follow one that exits).                                     *)
(*                                                                         *)
(* head and tail only ever grow and are reduced modulo the ring's size on  *)
(* use.  Nothing compares them: an empty slot, one that holds the zero     *)
(* character, is what tells a reader to stop, and nothing stops a writer.  *)
(* Characters are numbered in the order they are typed.                    *)
(***************************************************************************)
EXTENDS Integers, Sequences

CONSTANTS
    Proc,       \* process objects
    NULL,       \* no process
    Size,       \* VIOS_KEYBOARD_BUFFER_SIZE
    MaxKeys     \* bound on the characters typed in a behaviour

ASSUME KeyboardAssumption == NULL \notin Proc /\ Size \in Nat \ {0} /\ MaxKeys \in Nat

VARIABLES
    processes,          \* the registered processes
    current_process,    \* NULL until the first load
    current_task,       \* the process of the running task
    buffer, head, tail, \* the ring of each process
    got,                \* what the last keyboard_pop returned
    typed,              \* how many characters have been typed
    lapped,             \* history: processes that had an unread key overwritten
    sent, delivered     \* history: what was pushed to and read by each process

who == <<processes, current_process, current_task>>
ring == <<buffer, head, tail>>
vars == <<processes, current_process, current_task, buffer, head, tail, got,
          typed, lapped, sent, delivered>>

NoKey == 0                  \* the zero character
Key == 1 .. MaxKeys
Slots == 0 .. Size - 1
HeadSlot(p) == head[p] % Size
TailSlot(p) == tail[p] % Size

Init ==
    /\ processes = {} /\ current_process = NULL /\ current_task = NULL
    /\ buffer = [p \in Proc |-> [i \in Slots |-> NoKey]]
    /\ head = [p \in Proc |-> 0] /\ tail = [p \in Proc |-> 0]
    /\ got = NoKey /\ typed = 0 /\ lapped = {}
    /\ sent = [p \in Proc |-> <<>>] /\ delivered = [p \in Proc |-> <<>>]

-----------------------------------------------------------------------------
\* Seeded fault: the object's old head is left in place.
FreshKeepsHead(p) ==
    /\ p \notin processes
    /\ processes' = processes \cup {p}
    /\ buffer' = [buffer EXCEPT ![p] = [i \in Slots |-> NoKey]]
    /\ tail' = [tail EXCEPT ![p] = 0]
    /\ lapped' = lapped \ {p}
    /\ sent' = [sent EXCEPT ![p] = <<>>] /\ delivered' = [delivered EXCEPT ![p] = <<>>]
    /\ UNCHANGED <<head, got, typed>>
\* A new process object is zeroed: an empty ring, head and tail at 0.
Fresh(p) ==
    /\ p \notin processes
    /\ processes' = processes \cup {p}
    /\ buffer' = [buffer EXCEPT ![p] = [i \in Slots |-> NoKey]]
    /\ head' = [head EXCEPT ![p] = 0] /\ tail' = [tail EXCEPT ![p] = 0]
    /\ lapped' = lapped \ {p}
    /\ sent' = [sent EXCEPT ![p] = <<>>] /\ delivered' = [delivered EXCEPT ![p] = <<>>]
    /\ UNCHANGED <<got, typed>>

\* A process is started: it becomes current and its task runs.
Start(p) == Fresh(p) /\ current_process' = p /\ current_task' = p

\* Its arguments cannot be stored: it is current, but its caller runs on.
StartWithoutArguments(p) ==
    /\ processes # {}
    /\ Fresh(p) /\ current_process' = p /\ UNCHANGED current_task

\* The running process exits and q runs; if it was current, some other one is.
Exit(q) ==
    /\ processes' = processes \ {current_task}
    /\ q \in processes' /\ current_task' = q
    /\ IF current_process = current_task
       THEN current_process' \in processes'
       ELSE UNCHANGED current_process
    /\ UNCHANGED <<buffer, head, tail, got, typed, lapped, sent, delivered>>

-----------------------------------------------------------------------------
\* Seeded fault: a full ring takes no character, but tail moves on.
StoredUnlessFull(p, k) ==
    [buffer EXCEPT ![p][TailSlot(p)] = IF @ = NoKey THEN k ELSE @]
\* The slot tail points at, whatever is in it.
Stored(p, k) == [buffer EXCEPT ![p][TailSlot(p)] = k]

\* keyboard_push with the next character.
KeyboardPush ==
    LET p == current_process  k == typed + 1 IN
    /\ p # NULL /\ k \in Key
    /\ buffer' = Stored(p, k)
    /\ tail' = [tail EXCEPT ![p] = @ + 1]
    /\ typed' = k
    /\ lapped' = IF buffer[p][TailSlot(p)] = NoKey THEN lapped ELSE lapped \cup {p}
    /\ sent' = [sent EXCEPT ![p] = Append(@, k)]
    /\ UNCHANGED <<who, head, got, delivered>>

\* keyboard_push without a current process drops the character.
KeyboardPushDropped ==
    /\ current_process = NULL /\ typed + 1 \in Key
    /\ typed' = typed + 1
    /\ UNCHANGED <<who, ring, got, lapped, sent, delivered>>

\* The slot that was read is empty again.
Cleared(p) == [buffer EXCEPT ![p][HeadSlot(p)] = NoKey]

\* keyboard_pop by the running task: the slot head points at, if it has a character.
KeyboardPop ==
    LET p == current_task  k == buffer[p][HeadSlot(p)] IN
    /\ p # NULL
    /\ got' = k
    /\ \/ k = NoKey /\ UNCHANGED <<ring, delivered>>
       \/ /\ k # NoKey
          /\ buffer' = Cleared(p)
          /\ head' = [head EXCEPT ![p] = @ + 1]
          /\ delivered' = [delivered EXCEPT ![p] = Append(@, k)]
          /\ UNCHANGED tail
    /\ UNCHANGED <<who, typed, lapped, sent>>

Next ==
    \/ \E p \in Proc : Start(p) \/ StartWithoutArguments(p) \/ Exit(p)
    \/ KeyboardPush \/ KeyboardPushDropped \/ KeyboardPop

\* A program that waits for a key calls getkey again and again
\* (assets/programs/stdlib/src/vios.c, vios_getkeyblock).
Spec == Init /\ [][Next]_vars /\ WF_vars(KeyboardPop)

-----------------------------------------------------------------------------
\* Types of the rings and of who is current.
KeyboardTypeOK ==
    /\ processes \subseteq Proc
    /\ current_process \in processes \cup {NULL}
    /\ current_task \in processes \cup {NULL}
    /\ (current_process = NULL) <=> (current_task = NULL)
    /\ buffer \in [Proc -> [Slots -> Key \cup {NoKey}]]
    /\ head \in [Proc -> Nat] /\ tail \in [Proc -> Nat]
    /\ got \in Key \cup {NoKey} /\ typed \in Key \cup {0}
    /\ lapped \subseteq Proc

Unread(p) == {buffer[p][i] : i \in Slots} \ {NoKey}

\* The characters from head up to tail.
Contents(p) ==
    [i \in 1 .. tail[p] - head[p] |-> buffer[p][(head[p] + i - 1) % Size]]

\* As long as a process never had an unread character overwritten, its ring is
\* a first-in first-out queue: keyboard_push and keyboard_pop keep it although
\* they never compare head with tail.
Queue == INSTANCE KeyQueue WITH
    queue <- [p \in Proc |-> IF p \in lapped THEN <<>> ELSE Contents(p)]
QueueSpec == Queue!Spec

\* A process reads no character twice and none that was typed for another, even
\* after its ring was lapped.
KeyReadOnce ==
    \A p \in Proc : \A i, j \in DOMAIN delivered[p] :
        /\ \E n \in DOMAIN sent[p] : sent[p][n] = delivered[p][i]
        /\ i # j => delivered[p][i] # delivered[p][j]

\* A character is lost only to Size further ones typed for the same process.
LostOnlyToNewerKeys ==
    \A p \in Proc : \A n \in DOMAIN sent[p] :
        \/ sent[p][n] \in Unread(p)
        \/ \E i \in DOMAIN delivered[p] : delivered[p][i] = sent[p][n]
        \/ n + Size <= Len(sent[p])

\* What the rings keep whatever happens, lapped or not: their types, no character
\* read twice or by another process, none lost but to newer ones
\* (keyboard.c:63-100).
KeysAccounted == KeyboardTypeOK /\ KeyReadOnce /\ LostOnlyToNewerKeys

\* A character typed for a process that runs and keeps asking is read in the
\* end, unless the ring is lapped or the process stops running.
EveryKeyIsRead ==
    \A p \in Proc, k \in Key :
        k \in Unread(p) /\ current_task = p
            ~> k \notin Unread(p) \/ p \in lapped \/ current_task # p
=============================================================================
