---------------------------- MODULE ProcessProofs ----------------------------
(***************************************************************************)
(* For any number of processes and any addresses: the process table, the   *)
(* process objects and the task objects agree, input always has a          *)
(* registered process to go to, and the task list is in order until a      *)
(* removal follows an out-of-date prev pointer.                            *)
(***************************************************************************)
EXTENDS Process, SequenceTheorems, WellFoundedInduction, TLAPS

-----------------------------------------------------------------------------
\* The part of the argument that needs no list order: it holds even when the
\* list is broken, because a handler runs only for a live current task.
OrderInv ==
    /\ liveTasks = {order[k] : k \in 1 .. Len(order)}
    /\ \A j, k \in 1 .. Len(order) : order[j] = order[k] => j = k

TableInv ==
    /\ TypeOK
    /\ OrderInv
    /\ TableSound
    /\ CurrentProcessRegistered
    /\ mode = "boot" => liveTasks = {} /\ liveProcs = {} /\ tasks = EmptyList /\ order = << >>
    /\ mode = "user" => tasks.current \in liveTasks

LEMMA LeastNatural ==
    ASSUME NEW S \in SUBSET Nat, S # {} PROVE \E n \in S : \A m \in S : n <= m
<1>1. IsWellFoundedOn(OpToRel(<, Nat), Nat)
    BY NatLessThanWellFounded
<1>2. PICK n \in S : \A m \in S : ~ (<<m, n>> \in OpToRel(<, Nat))
    BY <1>1, WFMin
<1>3. \A m \in S : ~ (m < n)
    BY <1>2 DEF OpToRel
<1>4. QED
    BY <1>3

LEMMA StoreType ==
    ASSUME NEW f \in [Task -> TaskPtr], NEW ptr \in TaskPtr, NEW v \in TaskPtr
    PROVE  Store(f, ptr, v) \in [Task -> TaskPtr]
BY DEF Store

LEMMA TaskNewType ==
    ASSUME NEW L \in Lists, NEW t \in Task
    PROVE  TaskNew(L, t) \in Lists
<1>1. t \in TaskPtr /\ NULL \in TaskPtr
    BY DEF TaskPtr
<1>2. Store(L.next, t, NULL) \in [Task -> TaskPtr] /\ Store(L.prev, t, NULL) \in [Task -> TaskPtr]
    BY <1>1, StoreType DEF Lists
<1>3. Store(Store(L.next, t, NULL), L.tail, t) \in [Task -> TaskPtr]
    BY <1>1, <1>2, StoreType DEF Lists
<1>4. Store(L.prev, t, L.tail) \in [Task -> TaskPtr]
    BY <1>1, StoreType DEF Lists
<1>5. QED
    BY <1>1, <1>2, <1>3, <1>4 DEF TaskNew, Lists

LEMMA TaskListRemoveType ==
    ASSUME NEW L \in Lists, NEW t \in Task
    PROVE  TaskListRemove(L, t) \in Lists
<1>1. L.next[t] \in TaskPtr /\ L.prev[t] \in TaskPtr
    BY DEF Lists
<1>2. Store(L.next, L.prev[t], L.next[t]) \in [Task -> TaskPtr]
    BY <1>1, StoreType DEF Lists
<1>3. QED
    BY <1>1, <1>2 DEF TaskListRemove, NextOrHead, Lists

LEMMA TaskSwitchType ==
    ASSUME NEW L \in Lists, NEW t \in TaskPtr
    PROVE  TaskSwitch(L, t) \in Lists /\ TaskSwitch(L, t).current = t
BY DEF TaskSwitch, Lists

LEMMA TaskAfterType ==
    ASSUME TypeOK, NEW t \in Task PROVE TaskAfter(t) \in TaskPtr
<1>1. TaskListRemove(tasks, t) \in Lists
    BY TaskListRemoveType DEF TypeOK
<1>2. QED
    BY <1>1 DEF TaskAfter, TaskGetNext, NextOrHead, Lists, TaskPtr

\* Leaving out one element of a sequence.
LEMMA WithoutType ==
    ASSUME NEW S, NEW seq \in Seq(S), NEW k \in 1 .. Len(seq)
    PROVE  /\ Without(seq, k) \in Seq(S)
           /\ Len(Without(seq, k)) = Len(seq) - 1 /\ Len(seq) \in Nat
           /\ \A j \in 1 .. Len(seq) - 1 :
                 Without(seq, k)[j] = IF j < k THEN seq[j] ELSE seq[j + 1]
<1> DEFINE n == Len(seq) - 1
           w == Without(seq, k)
<1>1. Len(seq) \in Nat /\ n \in Nat /\ \A j \in 1 .. Len(seq) : seq[j] \in S
    OBVIOUS
<1>2. w = [j \in 1 .. n |-> IF j < k THEN seq[j] ELSE seq[j + 1]]
    BY DEF Without
<1>3. w \in [1 .. n -> S]
    BY <1>1, <1>2
<1>4. w \in Seq(S)
    BY <1>1, <1>3, SeqDef
<1>5. Len(w) = n
    BY <1>1, <1>3, <1>4, LenProperties
<1>6. QED
    BY <1>1, <1>2, <1>4, <1>5

\* Where a live task stands in the list.
LEMMA PositionType ==
    ASSUME TypeOK, OrderInv, NEW t \in liveTasks
    PROVE  /\ Position(t) \in 1 .. Len(order) /\ order[Position(t)] = t
           /\ \A k \in 1 .. Len(order) : order[k] = t => k = Position(t)
<1>1. \E k \in 1 .. Len(order) : order[k] = t
    BY DEF OrderInv
<1>2. Position(t) \in 1 .. Len(order) /\ order[Position(t)] = t
    BY <1>1 DEF Position
<1>3. QED
    BY <1>2 DEF OrderInv

\* A new task goes to the end of the order; one that exits leaves it.
LEMMA AppendOrder ==
    ASSUME TypeOK, OrderInv, NEW t \in Task, t \notin liveTasks,
           order' = Append(order, t), liveTasks' = liveTasks \cup {t}
    PROVE  /\ order' \in Seq(Task) /\ Len(order') = Len(order) + 1 /\ Len(order) \in Nat
           /\ \A k \in 1 .. Len(order) + 1 :
                 order'[k] = IF k = Len(order) + 1 THEN t ELSE order[k]
           /\ OrderInv'
<1>1. /\ order' \in Seq(Task) /\ Len(order') = Len(order) + 1 /\ Len(order) \in Nat
      /\ \A k \in 1 .. Len(order) + 1 : order'[k] = IF k = Len(order) + 1 THEN t ELSE order[k]
    BY AppendProperties, LenProperties DEF TypeOK
<1>2. liveTasks' = {order'[k] : k \in 1 .. Len(order')}
    <2>1. \A u \in liveTasks' : \E k \in 1 .. Len(order') : order'[k] = u
        BY <1>1 DEF OrderInv
    <2>2. \A k \in 1 .. Len(order') : order'[k] \in liveTasks'
        BY <1>1 DEF OrderInv
    <2>3. QED
        BY <2>1, <2>2
<1>3. \A j, k \in 1 .. Len(order') : order'[j] = order'[k] => j = k
    BY <1>1 DEF OrderInv
<1>4. QED
    BY <1>1, <1>2, <1>3 DEF OrderInv

LEMMA WithoutOrder ==
    ASSUME TypeOK, OrderInv, NEW t \in liveTasks,
           order' = Without(order, Position(t)), liveTasks' = liveTasks \ {t}
    PROVE  /\ order' \in Seq(Task) /\ Len(order') = Len(order) - 1 /\ Len(order) \in Nat
           /\ \A k \in 1 .. Len(order) - 1 :
                 order'[k] = IF k < Position(t) THEN order[k] ELSE order[k + 1]
           /\ OrderInv'
<1> DEFINE p == Position(t)
           n == Len(order)
<1>1. p \in 1 .. n /\ order[p] = t /\ \A k \in 1 .. n : order[k] = t => k = p
    BY PositionType
<1>2. /\ order' \in Seq(Task) /\ Len(order') = n - 1 /\ n \in Nat
      /\ \A k \in 1 .. n - 1 : order'[k] = IF k < p THEN order[k] ELSE order[k + 1]
    BY <1>1, WithoutType DEF TypeOK
<1>3. liveTasks' = {order'[k] : k \in 1 .. Len(order')}
    <2>1. ASSUME NEW u \in liveTasks' PROVE \E k \in 1 .. Len(order') : order'[k] = u
        <3>1. PICK k \in 1 .. n : order[k] = u /\ k # p
            BY <1>1, <2>1 DEF OrderInv
        <3>2. CASE k < p
            BY <1>1, <1>2, <3>1, <3>2
        <3>3. CASE k > p
            <4>1. k - 1 \in 1 .. n - 1 /\ ~ (k - 1 < p) /\ (k - 1) + 1 = k
                BY <1>1, <1>2, <3>1, <3>3
            <4>2. order'[k - 1] = u
                BY <1>2, <3>1, <4>1
            <4>3. QED
                BY <1>2, <4>1, <4>2
        <3>4. QED
            BY <1>1, <1>2, <3>1, <3>2, <3>3
    <2>2. \A k \in 1 .. Len(order') : order'[k] \in liveTasks'
        BY <1>1, <1>2 DEF OrderInv
    <2>3. QED
        BY <2>1, <2>2
<1>4. \A j, k \in 1 .. Len(order') : order'[j] = order'[k] => j = k
    BY <1>1, <1>2 DEF OrderInv
<1>5. QED
    BY <1>2, <1>3, <1>4 DEF OrderInv

\* The table, once a process is loaded.
LEMMA LoadedTable ==
    ASSUME TableInv, mode \in {"boot", "user"}, NEW p \in Proc, NEW t \in Task, Loaded(p, t)
    PROVE  /\ processes' \in [Slots -> Proc \cup {NULL}]
           /\ current_process' \in Proc
           /\ proc' \in [Proc -> [id : Slots, task : TaskPtr]]
           /\ owner' \in [Task -> Proc \cup {NULL}]
           /\ liveProcs' \subseteq Proc /\ liveTasks' \subseteq Task
           /\ order' \in Seq(Task) /\ OrderInv'
           /\ mode' \in {"user", "wild"} /\ misled' \in BOOLEAN
           /\ \A s \in Slots : processes'[s] # NULL => proc'[processes'[s]].id = s
           /\ liveProcs' = Registered'
           /\ \A q \in liveProcs' : proc'[q].task \in liveTasks' /\ owner'[proc'[q].task] = q
           /\ \A u \in liveTasks' : owner'[u] \in liveProcs' /\ proc'[owner'[u]].task = u
           /\ current_process' \in Registered'
<1>1. PICK s \in FreeSlots :
        /\ p \notin liveProcs /\ t \notin liveTasks
        /\ liveProcs' = liveProcs \cup {p}
        /\ liveTasks' = liveTasks \cup {t}
        /\ proc' = [proc EXCEPT ![p] = [id |-> s, task |-> t]]
        /\ owner' = [owner EXCEPT ![t] = p]
        /\ processes' = [processes EXCEPT ![s] = p]
        /\ current_process' = p
        /\ order' = Append(order, t)
        /\ mode' \in {"user", "wild"}
        /\ misled' = misled
    BY DEF Loaded, Mode
<1>2. s \in Slots /\ processes[s] = NULL /\ p # NULL
    BY <1>1, ProcessAssumption DEF FreeSlots
<1>3. liveProcs = Registered
    BY DEF TableInv, TableSound
<1>4. Registered' = Registered \cup {p}
    BY <1>1, <1>2 DEF Registered, TableInv, TypeOK
<1>5. /\ processes' \in [Slots -> Proc \cup {NULL}] /\ current_process' \in Proc
      /\ owner' \in [Task -> Proc \cup {NULL}]
      /\ liveProcs' \subseteq Proc /\ liveTasks' \subseteq Task
      /\ order' \in Seq(Task) /\ OrderInv' /\ misled' \in BOOLEAN
    BY <1>1, <1>2, AppendOrder DEF TableInv, TypeOK
<1>6. proc' \in [Proc -> [id : Slots, task : TaskPtr]]
    <2>1. [id |-> s, task |-> t] \in [id : Slots, task : TaskPtr]
        BY <1>2 DEF TaskPtr
    <2>2. QED
        BY <1>1, <2>1 DEF TableInv, TypeOK
<1>7. \A r \in Slots : processes'[r] # NULL => proc'[processes'[r]].id = r
    <2> SUFFICES ASSUME NEW r \in Slots, processes'[r] # NULL PROVE proc'[processes'[r]].id = r
        OBVIOUS
    <2>1. CASE r = s
        BY <1>1, <1>2, <2>1 DEF TableInv, TypeOK
    <2>2. CASE r # s
        <3>1. processes'[r] = processes[r] /\ processes[r] \in liveProcs
            BY <1>1, <1>3, <2>2 DEF Registered, TableInv, TypeOK
        <3>2. processes[r] # p /\ processes[r] \in Proc
            BY <1>1, <3>1 DEF TableInv, TypeOK
        <3>3. QED
            BY <1>1, <3>1, <3>2 DEF TableInv, TableSound, TypeOK
    <2>3. QED
        BY <2>1, <2>2
<1>8. \A q \in liveProcs' : proc'[q].task \in liveTasks' /\ owner'[proc'[q].task] = q
    <2> SUFFICES ASSUME NEW q \in liveProcs' PROVE proc'[q].task \in liveTasks' /\ owner'[proc'[q].task] = q
        OBVIOUS
    <2>1. CASE q = p
        BY <1>1, <2>1 DEF TableInv, TypeOK
    <2>2. CASE q # p
        <3>1. q \in liveProcs /\ proc'[q] = proc[q] /\ proc[q].task \in liveTasks
            BY <1>1, <2>2 DEF TableInv, TableSound, TypeOK
        <3>2. QED
            BY <1>1, <3>1 DEF TableInv, TableSound, TypeOK
    <2>3. QED
        BY <2>1, <2>2
<1>9. \A u \in liveTasks' : owner'[u] \in liveProcs' /\ proc'[owner'[u]].task = u
    <2> SUFFICES ASSUME NEW u \in liveTasks' PROVE owner'[u] \in liveProcs' /\ proc'[owner'[u]].task = u
        OBVIOUS
    <2>1. CASE u = t
        BY <1>1, <2>1 DEF TableInv, TypeOK
    <2>2. CASE u # t
        <3>1. u \in liveTasks /\ owner'[u] = owner[u] /\ owner[u] \in liveProcs
            BY <1>1, <2>2 DEF TableInv, TableSound, TypeOK
        <3>2. QED
            BY <1>1, <3>1 DEF TableInv, TableSound, TypeOK
    <2>3. QED
        BY <2>1, <2>2
<1>10. QED
    BY <1>1, <1>3, <1>4, <1>5, <1>6, <1>7, <1>8, <1>9

LEMMA BootTable ==
    ASSUME TableInv, NEW p \in Proc, NEW t \in Task, Boot(p, t) PROVE TableInv'
<1>1. mode = "boot" /\ tasks = EmptyList /\ Loaded(p, t)
    BY DEF Boot, TableInv
<1>2. liveTasks' = liveTasks \cup {t}
    BY <1>1 DEF Loaded
<1>3. tasks' \in Lists /\ tasks'.current = t
    <2>1. TaskNew(tasks, t) \in Lists /\ TaskNew(tasks, t).head = t
        BY <1>1, TaskNewType DEF TaskNew, EmptyList, TableInv, TypeOK
    <2>2. QED
        BY <2>1, TaskSwitchType DEF Boot, TaskPtr
<1>4. QED
    BY <1>1, <1>2, <1>3, LoadedTable DEF TableInv, TypeOK, TableSound, CurrentProcessRegistered

LEMMA StartTable ==
    ASSUME TableInv, NEW p \in Proc, NEW t \in Task, Start(p, t) PROVE TableInv'
<1>1. mode = "user" /\ Loaded(p, t)
    BY DEF Start
<1>2. liveTasks' = liveTasks \cup {t}
    BY <1>1 DEF Loaded
<1>3. tasks' \in Lists /\ tasks'.current = t
    BY TaskNewType, TaskSwitchType DEF Start, TaskPtr, TableInv, TypeOK
<1>4. QED
    BY <1>1, <1>2, <1>3, LoadedTable DEF TableInv, TypeOK, TableSound, CurrentProcessRegistered

LEMMA InvokeTable ==
    ASSUME TableInv, NEW p \in Proc, NEW t \in Task, InvokeWithoutArguments(p, t) PROVE TableInv'
<1>1. mode = "user" /\ Loaded(p, t)
    BY DEF InvokeWithoutArguments
<1>2. liveTasks' = liveTasks \cup {t}
    BY <1>1 DEF Loaded
<1>3. tasks' \in Lists
    BY TaskNewType DEF InvokeWithoutArguments, TableInv, TypeOK
<1>4. tasks'.current \in {t, tasks.current}
    BY DEF InvokeWithoutArguments, TaskNew, TableInv, TypeOK, Lists
<1>5. QED
    BY <1>1, <1>2, <1>3, <1>4, LoadedTable
    DEF TableInv, TypeOK, TableSound, CurrentProcessRegistered

LEMMA MappingTable ==
    ASSUME TableInv, NEW t \in Task, LoadFailsMapping(t) PROVE TableInv'
<1>1. tasks' \in Lists
    BY TaskNewType, TaskListRemoveType DEF LoadFailsMapping, TableInv, TypeOK
<1>2. owner' = [owner EXCEPT ![t] = NULL] /\ t \notin liveTasks
    BY DEF LoadFailsMapping
<1>3. UNCHANGED <<processes, current_process, proc, liveProcs, liveTasks, order, misled>>
    BY DEF LoadFailsMapping
<1>4. mode = "user" /\ mode' \in {"user", "wild"} /\ (mode' = "user" => tasks'.current \in liveTasks)
    BY DEF LoadFailsMapping, Mode
<1>5. \A u \in liveTasks : owner'[u] = owner[u]
    BY <1>2 DEF TableInv, TypeOK
<1>6. TypeOK'
    BY <1>1, <1>2, <1>3, <1>4 DEF TableInv, TypeOK
<1>7. TableSound'
    BY <1>3, <1>4, <1>5 DEF TableInv, TableSound, Registered
<1>8. QED
    BY <1>3, <1>4, <1>6, <1>7 DEF TableInv, CurrentProcessRegistered, Registered, OrderInv

\* The running task's process, as exit finds it.
LEMMA RunningProcess ==
    ASSUME TableInv, mode = "user"
    PROVE  /\ tasks.current \in liveTasks /\ tasks.current \in Task
           /\ owner[tasks.current] \in liveProcs /\ owner[tasks.current] \in Proc
           /\ proc[owner[tasks.current]].task = tasks.current
           /\ proc[owner[tasks.current]].id \in Slots
           /\ processes[proc[owner[tasks.current]].id] = owner[tasks.current]
           /\ \A r \in Slots : processes[r] = owner[tasks.current] => r = proc[owner[tasks.current]].id
<1> DEFINE p == owner[tasks.current]
<1>1. tasks.current \in liveTasks /\ p \in liveProcs /\ proc[p].task = tasks.current
    BY DEF TableInv, TableSound
<1>2. p \in Registered /\ p \in Proc /\ tasks.current \in Task
    BY <1>1 DEF TableInv, TableSound, TypeOK
<1>3. PICK s \in Slots : processes[s] = p /\ p # NULL
    BY <1>2 DEF Registered
<1>4. proc[p].id = s
    BY <1>3 DEF TableInv, TableSound
<1>5. \A r \in Slots : processes[r] = p => r = proc[p].id
    BY <1>3 DEF TableInv, TableSound
<1>6. QED
    BY <1>1, <1>2, <1>3, <1>4, <1>5

\* What process_unlink leaves registered.
LEMMA UnlinkRegistered ==
    ASSUME TableInv, mode = "user", Unlink(owner[tasks.current])
    PROVE  /\ processes' \in [Slots -> Proc \cup {NULL}]
           /\ Registered' = Registered \ {owner[tasks.current]}
           /\ \A r \in Slots : processes'[r] # NULL => processes'[r] = processes[r]
<1> DEFINE p == owner[tasks.current]
<1>1. processes' = [processes EXCEPT ![proc[p].id] = NULL]
    BY DEF Unlink
<1>2. p # NULL
    BY RunningProcess, ProcessAssumption
<1>3. \A r \in Slots : processes'[r] = IF r = proc[p].id THEN NULL ELSE processes[r]
    BY <1>1 DEF TableInv, TypeOK
<1>4. QED
    BY <1>1, <1>2, <1>3, RunningProcess DEF Registered, TableInv, TypeOK

LEMMA ExitTable == ASSUME TableInv, Exit PROVE TableInv'
<1> DEFINE t == tasks.current
           p == owner[t]
<1>1. mode = "user" /\ UNCHANGED <<proc, owner>>
    BY DEF Exit
<1>2. /\ t \in liveTasks /\ t \in Task /\ p \in liveProcs /\ p \in Proc /\ proc[p].task = t
    BY <1>1, RunningProcess
<1>3. /\ Unlink(p) /\ current_process' \in SwitchToAny(p)
      /\ liveProcs' = liveProcs \ {p} /\ liveTasks' = liveTasks \ {t}
      /\ tasks' = TaskSwitch(TaskListRemove(tasks, t), TaskAfter(t))
      /\ mode' \in {"user", "panic", "wild"} /\ (mode' = "user" => TaskAfter(t) \in liveTasks')
      /\ order' = Without(order, Position(t))
      /\ misled' = (misled \/ PrevOutOfDate(t))
    BY <1>2 DEF Exit, ModeAfter, Mode
<1>4. /\ processes' \in [Slots -> Proc \cup {NULL}]
      /\ Registered' = Registered \ {p}
      /\ \A r \in Slots : processes'[r] # NULL => processes'[r] = processes[r]
    BY <1>1, <1>3, UnlinkRegistered
<1>5. tasks' \in Lists /\ tasks'.current = TaskAfter(t)
    <2>1. TaskListRemove(tasks, t) \in Lists /\ TaskAfter(t) \in TaskPtr
        BY <1>2, TaskListRemoveType, TaskAfterType DEF TableInv, TypeOK
    <2>2. QED
        BY <1>3, <2>1, TaskSwitchType
<1>6. current_process' \in Registered'
    <2>1. CASE current_process # p
        BY <1>1, <1>3, <1>4, <2>1 DEF SwitchToAny, TableInv, CurrentProcessRegistered
    <2>2. CASE current_process = p
        BY <1>3, <1>4, <2>2 DEF SwitchToAny, Registered, TableInv, TypeOK
    <2>3. QED
        BY <2>1, <2>2
<1>7. current_process' \in Proc \cup {NULL}
    BY <1>4, <1>6 DEF Registered
<1>8. order' \in Seq(Task) /\ OrderInv'
    BY <1>2, <1>3, WithoutOrder DEF TableInv
<1>9. TypeOK'
    BY <1>1, <1>3, <1>4, <1>5, <1>7, <1>8 DEF TableInv, TypeOK
<1>10. TableSound'
    <2>1. \A s \in Slots : processes'[s] # NULL => proc'[processes'[s]].id = s
        BY <1>1, <1>4 DEF TableInv, TableSound
    <2>2. liveProcs' = Registered'
        BY <1>1, <1>3, <1>4 DEF TableInv, TableSound
    <2>3. \A q \in liveProcs' : proc'[q].task \in liveTasks' /\ owner'[proc'[q].task] = q
        BY <1>1, <1>2, <1>3 DEF TableInv, TableSound
    <2>4. \A u \in liveTasks' : owner'[u] \in liveProcs' /\ proc'[owner'[u]].task = u
        BY <1>1, <1>2, <1>3 DEF TableInv, TableSound
    <2>5. QED
        BY <2>1, <2>2, <2>3, <2>4 DEF TableSound
<1>11. QED
    BY <1>3, <1>5, <1>6, <1>8, <1>9, <1>10 DEF TableInv, CurrentProcessRegistered

LEMMA ExitPanicsTable == ASSUME TableInv, ExitPanics PROVE TableInv'
<1>1. mode = "user" /\ mode' = "panic" /\ Unlink(owner[tasks.current])
    BY DEF ExitPanics
<1>2. processes' \in [Slots -> Proc \cup {NULL}]
    BY <1>1, UnlinkRegistered
<1>3. UNCHANGED <<current_process, proc, owner, liveProcs, liveTasks, tasks, order, misled>>
    BY DEF ExitPanics
<1>4. QED
    BY <1>1, <1>2, <1>3
    DEF TableInv, TypeOK, OrderInv, TableSound, CurrentProcessRegistered

LEMMA TableInitially == Init => TableInv
<1> SUFFICES ASSUME Init PROVE TableInv
    OBVIOUS
<1>1. 0 \in Slots /\ MaxProcesses \in Nat
    BY ProcessAssumption DEF Slots
<1>2. tasks \in Lists
    BY DEF Init, EmptyList, Lists, TaskPtr
<1>3. order \in Seq(Task) /\ Len(order) = 0
    BY DEF Init
<1>4. TypeOK
    <2>1. proc \in [Proc -> [id : Slots, task : TaskPtr]]
        BY <1>1 DEF Init, TaskPtr
    <2>2. QED
        BY <1>2, <1>3, <2>1 DEF Init, TypeOK
<1>5. OrderInv
    BY <1>3 DEF Init, OrderInv
<1>6. Registered = {}
    BY DEF Init, Registered
<1>7. QED
    BY <1>4, <1>5, <1>6 DEF Init, TableInv, TableSound, CurrentProcessRegistered

LEMMA TableStep == TableInv /\ [Next]_vars => TableInv'
<1> SUFFICES ASSUME TableInv, [Next]_vars PROVE TableInv'
    OBVIOUS
<1>1. ASSUME NEW p \in Proc, NEW t \in Task, Boot(p, t) PROVE TableInv'
    BY <1>1, BootTable
<1>2. ASSUME NEW p \in Proc, NEW t \in Task, Start(p, t) PROVE TableInv'
    BY <1>2, StartTable
<1>3. ASSUME NEW p \in Proc, NEW t \in Task, InvokeWithoutArguments(p, t) PROVE TableInv'
    BY <1>3, InvokeTable
<1>4. ASSUME NEW t \in Task, LoadFailsMapping(t) PROVE TableInv'
    BY <1>4, MappingTable
<1>5. CASE Exit
    BY <1>5, ExitTable
<1>6. CASE ExitPanics
    BY <1>6, ExitPanicsTable
<1>7. CASE UNCHANGED vars
    BY <1>7 DEF vars, TableInv, TypeOK, OrderInv, TableSound, CurrentProcessRegistered, Registered
<1>8. QED
    BY <1>1, <1>2, <1>3, <1>4, <1>5, <1>6, <1>7 DEF Next, LoadFails, Halted

LEMMA TableAlways == Spec => []TableInv
BY TableInitially, TableStep, PTL DEF Spec

\* The types of task/process.c and task/task.c hold always.
THEOREM ProcessTypes == Spec => []TypeOK
<1>1. TableInv => TypeOK
    BY DEF TableInv
<1>2. QED
    BY <1>1, TableAlways, PTL

\* The process table, the process objects and the task objects always agree, so
\* that process_terminate frees exactly what the load allocated (task/process.c).
THEOREM ProcessTable == Spec => []TableSound
<1>1. TableInv => TableSound
    BY DEF TableInv
<1>2. QED
    BY <1>1, TableAlways, PTL

\* keyboard_push always finds a registered process (task/process.c,
\* process_switch_to_any; keyboard/keyboard.c).
THEOREM ProcessCurrent == Spec => []CurrentProcessRegistered
<1>1. TableInv => CurrentProcessRegistered
    BY DEF TableInv
<1>2. QED
    BY <1>1, TableAlways, PTL

-----------------------------------------------------------------------------
(***************************************************************************)
(* The order of the task list.  prev of a live task is set, except of the  *)
(* oldest, and as long as no removal followed an out-of-date prev, next,   *)
(* head and tail spell the order.                                          *)
(***************************************************************************)
Linked(L, seq) ==
    /\ L.head = seq[1] /\ L.tail = seq[Len(seq)]
    /\ \A k \in 1 .. Len(seq) : L.next[seq[k]] = IF k = Len(seq) THEN NULL ELSE seq[k + 1]
    /\ \A k \in 2 .. Len(seq) : L.prev[seq[k]] # NULL

ListInv ==
    ~ misled =>
        /\ mode # "wild"
        /\ Len(order) > 0 => Linked(tasks, order) /\ tasks.current \in liveTasks
        /\ Len(order) = 0 => mode = "boot"

Distinct(seq) == \A j, k \in 1 .. Len(seq) : seq[j] = seq[k] => j = k

LEMMA FirstLinked ==
    ASSUME NEW t \in Task, NEW seq \in Seq(Task), Len(seq) = 1, seq[1] = t
    PROVE  Linked(TaskNew(EmptyList, t), seq)
BY DEF Linked, TaskNew, EmptyList, Store

LEMMA AddLinked ==
    ASSUME NEW L \in Lists, NEW t \in Task, NEW seq \in Seq(Task), NEW new \in Seq(Task),
           Len(seq) > 0, Distinct(seq), Linked(L, seq),
           \A k \in 1 .. Len(seq) : seq[k] # t,
           Len(new) = Len(seq) + 1,
           \A k \in 1 .. Len(seq) + 1 : new[k] = IF k = Len(seq) + 1 THEN t ELSE seq[k]
    PROVE  Linked(TaskNew(L, t), new) /\ TaskNew(L, t).current = L.current
<1> DEFINE n == Len(seq)
           M == TaskNew(L, t)
<1>1. n \in Nat /\ n >= 1 /\ \A k \in 1 .. n : seq[k] \in Task /\ seq[k] # NULL
    BY TaskListAssumption
<1>2. L.head = seq[1] /\ L.tail = seq[n] /\ L.head # NULL
    BY <1>1 DEF Linked
<1>3. /\ M.head = L.head /\ M.tail = t /\ M.current = L.current
      /\ M.next = Store(Store(L.next, t, NULL), L.tail, t)
      /\ M.prev = Store(L.prev, t, L.tail)
    BY <1>2 DEF TaskNew, Lists
<1>4. \A u \in Task : M.next[u] = IF u = L.tail THEN t ELSE IF u = t THEN NULL ELSE L.next[u]
    BY <1>3 DEF Store
<1>5. \A u \in Task : M.prev[u] = IF u = t THEN L.tail ELSE L.prev[u]
    BY <1>3 DEF Store
<1>6. M.head = new[1] /\ M.tail = new[n + 1]
    BY <1>1, <1>2, <1>3
<1>7. \A k \in 1 .. n + 1 : M.next[new[k]] = IF k = n + 1 THEN NULL ELSE new[k + 1]
    <2> SUFFICES ASSUME NEW k \in 1 .. n + 1
                 PROVE  M.next[new[k]] = IF k = n + 1 THEN NULL ELSE new[k + 1]
        OBVIOUS
    <2>1. CASE k = n + 1
        BY <1>1, <1>2, <1>4, <2>1
    <2>2. CASE k = n
        BY <1>1, <1>2, <1>4, <2>2
    <2>3. CASE k \in 1 .. n - 1
        <3>1. seq[k] # L.tail /\ seq[k] # t /\ new[k] = seq[k] /\ new[k + 1] = seq[k + 1]
            BY <1>1, <1>2, <2>3 DEF Distinct
        <3>2. L.next[seq[k]] = seq[k + 1]
            BY <1>1, <2>3 DEF Linked
        <3>3. QED
            BY <1>1, <1>4, <2>3, <3>1, <3>2
    <2>4. QED
        BY <1>1, <2>1, <2>2, <2>3
<1>8. \A k \in 2 .. n + 1 : M.prev[new[k]] # NULL
    BY <1>1, <1>2, <1>5 DEF Linked
<1>9. QED
    BY <1>3, <1>6, <1>7, <1>8 DEF Linked

LEMMA RemoveLinked ==
    ASSUME NEW L \in Lists, NEW seq \in Seq(Task), NEW new \in Seq(Task), NEW p \in 1 .. Len(seq),
           Len(seq) > 1, Distinct(seq), Linked(L, seq),
           L.prev[seq[p]] = IF p = 1 THEN NULL ELSE seq[p - 1],
           Len(new) = Len(seq) - 1,
           \A k \in 1 .. Len(seq) - 1 : new[k] = IF k < p THEN seq[k] ELSE seq[k + 1]
    PROVE  /\ Linked(TaskListRemove(L, seq[p]), new)
           /\ TaskListRemove(L, seq[p]).current =
                 IF seq[p] # L.current THEN L.current
                 ELSE IF p = Len(seq) THEN new[1] ELSE seq[p + 1]
<1> DEFINE n == Len(seq)
           t == seq[p]
           M == TaskListRemove(L, t)
<1>1. n \in Nat /\ n >= 2 /\ p \in 1 .. n /\ \A k \in 1 .. n : seq[k] \in Task /\ seq[k] # NULL
    BY TaskListAssumption
<1>2. /\ L.head = seq[1] /\ L.tail = seq[n]
      /\ L.next[t] = IF p = n THEN NULL ELSE seq[p + 1]
      /\ \A k \in 1 .. n : L.next[seq[k]] = IF k = n THEN NULL ELSE seq[k + 1]
    BY <1>1 DEF Linked
<1>3. M.head = IF t = L.head THEN L.next[t] ELSE L.head
    BY DEF TaskListRemove
<1>4. M.tail = IF t = L.tail THEN L.prev[t] ELSE L.tail
    BY DEF TaskListRemove
<1>5. M.prev = L.prev /\ M.next = Store(L.next, L.prev[t], L.next[t])
    BY DEF TaskListRemove
<1>6. M.current = IF t = L.current THEN NextOrHead(L.next[t], M.head) ELSE L.current
    BY DEF TaskListRemove
<1>7. (t = L.head <=> p = 1) /\ (t = L.tail <=> p = n)
    BY <1>1, <1>2 DEF Distinct
<1>8. M.head = new[1]
    BY <1>1, <1>2, <1>3, <1>7
<1>9. M.tail = new[n - 1]
    BY <1>1, <1>2, <1>4, <1>7
<1>10. \A u \in Task : M.next[u] = IF u = L.prev[t] THEN L.next[t] ELSE L.next[u]
    BY <1>5 DEF Store
<1>11. \A k \in 1 .. n - 1 : M.next[new[k]] = IF k = n - 1 THEN NULL ELSE new[k + 1]
    <2> SUFFICES ASSUME NEW k \in 1 .. n - 1
                 PROVE  M.next[new[k]] = IF k = n - 1 THEN NULL ELSE new[k + 1]
        OBVIOUS
    <2>1. CASE k = p - 1
        <3>1. new[k] = L.prev[t] /\ new[k] \in Task
            BY <1>1, <2>1
        <3>2. M.next[new[k]] = L.next[t]
            BY <1>10, <3>1
        <3>3. QED
            BY <1>1, <1>2, <2>1, <3>2
    <2>2. CASE k # p - 1
        <3>1. new[k] # L.prev[t]
            <4>1. CASE p = 1
                BY <1>1, <4>1
            <4>2. CASE p # 1
                <5>1. L.prev[t] = seq[p - 1] /\ p - 1 \in 1 .. n
                    BY <1>1, <4>2
                <5>2. CASE k < p
                    BY <1>1, <2>2, <5>1, <5>2 DEF Distinct
                <5>3. CASE ~ (k < p)
                    BY <1>1, <5>1, <5>3 DEF Distinct
                <5>4. QED
                    BY <5>2, <5>3
            <4>3. QED
                BY <4>1, <4>2
        <3>2. new[k] \in Task /\ M.next[new[k]] = L.next[new[k]]
            BY <1>1, <1>10, <3>1
        <3>3. CASE k < p
            <4>1. new[k] = seq[k] /\ k + 1 < p
                BY <1>1, <2>2, <3>3
            <4>2. new[k + 1] = seq[k + 1] /\ k # n - 1
                BY <1>1, <3>3, <4>1
            <4>3. QED
                BY <1>1, <1>2, <3>2, <4>1, <4>2
        <3>4. CASE ~ (k < p)
            <4>1. new[k] = seq[k + 1] /\ k + 1 \in 1 .. n
                BY <1>1, <3>4
            <4>2. k # n - 1 => new[k + 1] = seq[k + 2]
                BY <1>1, <3>4
            <4>3. L.next[seq[k + 1]] = IF k + 1 = n THEN NULL ELSE seq[k + 2]
                BY <1>2, <4>1
            <4>4. QED
                BY <1>1, <3>2, <4>1, <4>2, <4>3
        <3>5. QED
            BY <3>3, <3>4
    <2>3. QED
        BY <2>1, <2>2
<1>12. \A k \in 2 .. n - 1 : M.prev[new[k]] # NULL
    <2>1. \A k \in 2 .. n : L.prev[seq[k]] # NULL
        BY DEF Linked
    <2>2. QED
        BY <1>1, <1>5, <2>1
<1>13. M.current = IF t # L.current THEN L.current ELSE IF p = n THEN new[1] ELSE seq[p + 1]
    BY <1>1, <1>2, <1>6, <1>8 DEF NextOrHead
<1>14. QED
    BY <1>8, <1>9, <1>11, <1>12, <1>13 DEF Linked

\* Loading a program keeps the list in order, whichever caller does it.
LEMMA LoadedList ==
    ASSUME TableInv, ListInv, mode \in {"boot", "user"}, ~ misled', NEW p \in Proc, NEW t \in Task,
           Loaded(p, t)
    PROVE  /\ Linked(TaskNew(tasks, t), order') /\ Len(order') > 0 /\ mode' = "user"
           /\ mode = "user" => TaskNew(tasks, t).current = tasks.current
           /\ t \in liveTasks' /\ liveTasks \subseteq liveTasks'
<1>1. /\ t \notin liveTasks /\ liveTasks' = liveTasks \cup {t} /\ order' = Append(order, t)
      /\ misled' = misled /\ mode' \in Mode("user", Freed(tasks.tail, liveTasks))
    BY DEF Loaded
<1>2. /\ order' \in Seq(Task) /\ Len(order') = Len(order) + 1 /\ Len(order) \in Nat
      /\ \A k \in 1 .. Len(order) + 1 : order'[k] = IF k = Len(order) + 1 THEN t ELSE order[k]
    BY <1>1, AppendOrder DEF TableInv
<1>3. tasks \in Lists /\ order \in Seq(Task) /\ Distinct(order)
    BY DEF TableInv, TypeOK, OrderInv, Distinct
<1>4. \A k \in 1 .. Len(order) : order[k] \in liveTasks
    BY DEF TableInv, OrderInv
<1>5. ~ Freed(tasks.tail, liveTasks)
    <2>1. CASE Len(order) = 0
        BY <1>1, <2>1 DEF ListInv, TableInv, EmptyList, Freed
    <2>2. CASE Len(order) > 0
        <3>1. Linked(tasks, order)
            BY <1>1, <2>2 DEF ListInv
        <3>2. QED
            BY <1>2, <1>4, <2>2, <3>1 DEF Linked, Freed
    <2>3. QED
        BY <1>2, <2>1, <2>2
<1>6. Linked(TaskNew(tasks, t), order') /\ (mode = "user" => TaskNew(tasks, t).current = tasks.current)
    <2>1. CASE Len(order) = 0
        <3>1. tasks = EmptyList /\ mode = "boot"
            BY <1>1, <2>1 DEF ListInv, TableInv
        <3>2. QED
            BY <1>2, <2>1, <3>1, FirstLinked
    <2>2. CASE Len(order) > 0
        <3>1. Linked(tasks, order)
            BY <1>1, <2>2 DEF ListInv
        <3>2. \A k \in 1 .. Len(order) : order[k] # t
            BY <1>1, <1>4
        <3>3. QED
            BY <1>2, <1>3, <2>2, <3>1, <3>2, AddLinked
    <2>3. QED
        BY <1>2, <2>1, <2>2
<1>7. QED
    BY <1>1, <1>2, <1>5, <1>6 DEF Mode

LEMMA StartsList ==
    ASSUME TableInv, ListInv, NEW p \in Proc, NEW t \in Task,
           Boot(p, t) \/ Start(p, t) \/ InvokeWithoutArguments(p, t)
    PROVE  ListInv'
<1> SUFFICES ASSUME ~ misled' PROVE ListInv'
    BY DEF ListInv
<1> DEFINE L == TaskNew(tasks, t)
<1>1. mode \in {"boot", "user"} /\ Loaded(p, t)
    BY DEF Boot, Start, InvokeWithoutArguments
<1>2. /\ Linked(L, order') /\ Len(order') > 0 /\ mode' = "user"
      /\ mode = "user" => L.current = tasks.current
      /\ t \in liveTasks' /\ liveTasks \subseteq liveTasks'
    BY <1>1, LoadedList
<1>3. TableInv'
    BY BootTable, StartTable, InvokeTable
<1>4. Linked(tasks', order')
    <2>1. L \in Lists
        BY TaskNewType DEF TableInv, TypeOK
    <2>2. \A u \in TaskPtr : Linked(TaskSwitch(L, u), order')
        BY <1>2, <2>1 DEF TaskSwitch, Linked, Lists
    <2>3. L.head \in TaskPtr /\ t \in TaskPtr
        BY <2>1 DEF Lists, TaskPtr
    <2>4. QED
        BY <1>2, <2>2, <2>3 DEF Boot, Start, InvokeWithoutArguments
<1>5. tasks'.current \in liveTasks'
    BY <1>2, <1>3 DEF TableInv
<1>6. QED
    BY <1>2, <1>4, <1>5 DEF ListInv

\* A load that fails when the program is mapped leaves the list as it was.
LEMMA MappingList ==
    ASSUME TableInv, ListInv, NEW t \in Task, LoadFailsMapping(t), ~ misled
    PROVE  /\ ListInv'
           /\ tasks'.head = tasks.head /\ tasks'.tail = tasks.tail /\ tasks'.current = tasks.current
           /\ \A u \in liveTasks : tasks'.next[u] = tasks.next[u]
<1> DEFINE n == Len(order)
           L == TaskNew(tasks, t)
<1>1. /\ mode = "user" /\ t \notin liveTasks /\ tasks' = TaskListRemove(L, t)
      /\ UNCHANGED <<liveTasks, order, misled>>
      /\ mode' \in Mode(IF tasks'.current \in liveTasks THEN "user" ELSE "wild",
                       Freed(tasks.tail, liveTasks))
    BY DEF LoadFailsMapping
<1>2. n \in Nat /\ order \in Seq(Task) /\ tasks \in Lists /\ n > 0
    BY <1>1 DEF TableInv, TypeOK, ListInv
<1>3. Linked(tasks, order) /\ tasks.current \in liveTasks
    BY <1>2 DEF ListInv
<1>4. /\ \A k \in 1 .. n : order[k] \in liveTasks /\ order[k] \in Task /\ order[k] # t /\ order[k] # NULL
      /\ \A u \in liveTasks : \E k \in 1 .. n : order[k] = u
    BY <1>1, <1>2, TaskListAssumption DEF TableInv, OrderInv, TypeOK
<1>5. tasks.head = order[1] /\ tasks.tail = order[n] /\ 1 \in 1 .. n /\ n \in 1 .. n
    BY <1>2, <1>3 DEF Linked
<1>6. tasks.head # NULL /\ tasks.head # t /\ tasks.tail # t /\ tasks.tail \in liveTasks /\ tasks.tail \in Task
    BY <1>4, <1>5
<1>7. /\ L.head = tasks.head /\ L.tail = t /\ L.current = tasks.current
      /\ L.next = Store(Store(tasks.next, t, NULL), tasks.tail, t)
      /\ L.prev = Store(tasks.prev, t, tasks.tail)
    BY <1>2, <1>6 DEF TaskNew, Lists
<1>8. L.prev[t] = tasks.tail /\ L.next[t] = NULL
    BY <1>6, <1>7 DEF Store
<1>9. tasks'.head = tasks.head /\ tasks'.tail = tasks.tail /\ tasks'.current = tasks.current
    BY <1>1, <1>3, <1>6, <1>7, <1>8 DEF TaskListRemove
<1>10. tasks.next[tasks.tail] = NULL
    BY <1>3, <1>5 DEF Linked
<1>11. \A u \in liveTasks : tasks'.next[u] = tasks.next[u] /\ tasks'.prev[u] = tasks.prev[u]
    <2>1. tasks'.next = Store(L.next, L.prev[t], L.next[t]) /\ tasks'.prev = L.prev
        BY <1>1 DEF TaskListRemove
    <2>2. liveTasks \subseteq Task
        BY DEF TableInv, TypeOK
    <2>3. QED
        BY <1>1, <1>7, <1>8, <1>10, <2>1, <2>2 DEF Store
<1>12. Linked(tasks', order)
    <2>1. \A k \in 2 .. n : k \in 1 .. n
        BY <1>2
    <2>2. \A k \in 1 .. n : k # n => k + 1 \in 1 .. n
        BY <1>2
    <2>3. QED
        BY <1>3, <1>4, <1>9, <1>11, <2>1, <2>2 DEF Linked
<1>13. mode' = "user"
    BY <1>1, <1>3, <1>6, <1>9 DEF Mode, Freed
<1>14. QED
    BY <1>1, <1>2, <1>3, <1>9, <1>11, <1>12, <1>13 DEF ListInv

\* Another process takes over when one exits, so there is another task.
LEMMA AnotherTask ==
    ASSUME TableInv, Exit PROVE \E u \in liveTasks : u # tasks.current
<1> DEFINE p == owner[tasks.current]
<1>1. mode = "user" /\ current_process' \in SwitchToAny(p)
    BY DEF Exit
<1>2. PICK q \in Registered : q # p
    <2>1. CASE current_process # p
        BY <1>1, <2>1 DEF TableInv, CurrentProcessRegistered
    <2>2. CASE current_process = p
        BY <1>1, <2>2 DEF SwitchToAny, Registered
    <2>3. QED
        BY <2>1, <2>2
<1>3. q \in liveProcs
    BY <1>1, <1>2 DEF TableInv, TableSound
<1>4. proc[q].task \in liveTasks /\ owner[proc[q].task] = q
    BY <1>1, <1>3 DEF TableInv, TableSound
<1>5. QED
    BY <1>2, <1>4

LEMMA ExitList ==
    ASSUME TableInv, ListInv, Exit PROVE ListInv' /\ (~ misled' => mode' = "user")
<1> SUFFICES ASSUME ~ misled' PROVE ListInv' /\ mode' = "user"
    BY DEF ListInv
<1> DEFINE t == tasks.current
           n == Len(order)
           k == Position(t)
           L == TaskListRemove(tasks, t)
<1>1. mode = "user" /\ t \in liveTasks /\ t \in Task
    BY RunningProcess DEF Exit
<1>2. /\ liveTasks' = liveTasks \ {t} /\ tasks' = TaskSwitch(L, TaskAfter(t))
      /\ mode' \in ModeAfter(t) /\ order' = Without(order, k)
      /\ ~ misled /\ ~ PrevOutOfDate(t)
    BY <1>1, RunningProcess DEF Exit
<1>3. k \in 1 .. n /\ order[k] = t /\ order \in Seq(Task) /\ Distinct(order) /\ tasks \in Lists
    BY <1>1, PositionType DEF TableInv, TypeOK, OrderInv, Distinct
<1>4. /\ order' \in Seq(Task) /\ Len(order') = n - 1 /\ n \in Nat
      /\ \A j \in 1 .. n - 1 : order'[j] = IF j < k THEN order[j] ELSE order[j + 1]
      /\ liveTasks' = {order'[j] : j \in 1 .. Len(order')}
    BY <1>1, <1>2, WithoutOrder DEF TableInv, OrderInv
<1>5. n > 1
    <2>1. PICK u \in liveTasks : u # t
        BY AnotherTask
    <2>2. PICK j \in 1 .. n : order[j] = u
        BY DEF TableInv, OrderInv
    <2>3. QED
        BY <1>3, <1>4, <2>1, <2>2
<1>6. Linked(tasks, order)
    BY <1>2, <1>5 DEF ListInv
<1>7. tasks.prev[t] = IF k = 1 THEN NULL ELSE order[k - 1]
    <2>1. CASE k = 1
        BY <1>2, <2>1 DEF PrevOutOfDate
    <2>2. CASE k # 1
        <3>1. tasks.prev[t] # NULL
            BY <1>3, <1>4, <1>6, <2>2 DEF Linked
        <3>2. QED
            BY <1>2, <2>2, <3>1 DEF PrevOutOfDate
    <2>3. QED
        BY <2>1, <2>2
<1>8. Linked(L, order') /\ L.current = IF k = n THEN order'[1] ELSE order[k + 1]
    <2>1. tasks.prev[order[k]] = IF k = 1 THEN NULL ELSE order[k - 1]
        BY <1>3, <1>7
    <2>2. /\ Linked(TaskListRemove(tasks, order[k]), order')
          /\ TaskListRemove(tasks, order[k]).current =
                IF order[k] # tasks.current THEN tasks.current
                ELSE IF k = Len(order) THEN order'[1] ELSE order[k + 1]
        BY <1>3, <1>4, <1>5, <1>6, <2>1, RemoveLinked
    <2>3. QED
        BY <1>3, <2>2
<1>9. PICK j \in 1 .. n - 1 : L.current = order'[j]
    <2>1. CASE k = n
        BY <1>4, <1>5, <1>8, <2>1
    <2>2. CASE k # n
        BY <1>3, <1>4, <1>8, <2>2
    <2>3. QED
        BY <2>1, <2>2
<1>10. liveTasks' \subseteq Task /\ NULL \notin liveTasks' /\ L.current \in liveTasks'
    BY <1>2, <1>4, <1>9, TaskListAssumption DEF TableInv, TypeOK
<1>11. TaskAfter(t) \in liveTasks'
    <2>1. L.head \in liveTasks'
        BY <1>4, <1>5, <1>8 DEF Linked
    <2>2. L.next[L.current] = NULL \/ L.next[L.current] \in liveTasks'
        <3>1. L.next[L.current] = IF j = n - 1 THEN NULL ELSE order'[j + 1]
            BY <1>4, <1>8, <1>9 DEF Linked
        <3>2. j # n - 1 => order'[j + 1] \in liveTasks'
            BY <1>4
        <3>3. QED
            BY <3>1, <3>2
    <2>3. QED
        BY <1>10, <2>1, <2>2 DEF TaskAfter, TaskGetNext, NextOrHead
<1>12. mode' = "user"
    <2>1. ~ Freed(tasks.prev[t], liveTasks)
        BY <1>3, <1>4, <1>7 DEF Freed, TableInv, OrderInv
    <2>2. QED
        BY <1>2, <1>10, <1>11, <2>1 DEF ModeAfter, Mode
<1>13. Linked(tasks', order') /\ tasks'.current \in liveTasks'
    <2>1. L \in Lists /\ TaskAfter(t) \in TaskPtr
        BY <1>1, <1>3, <1>10, <1>11, TaskListRemoveType DEF TaskPtr
    <2>2. QED
        BY <1>2, <1>8, <1>11, <2>1 DEF TaskSwitch, Linked, Lists
<1>14. QED
    BY <1>4, <1>5, <1>12, <1>13 DEF ListInv

LEMMA ListInitially == Init => ListInv
BY DEF Init, ListInv

LEMMA ListStep == TableInv /\ ListInv /\ [Next]_vars => ListInv'
<1> SUFFICES ASSUME TableInv, ListInv, [Next]_vars PROVE ListInv'
    OBVIOUS
<1>1. ASSUME NEW p \in Proc, NEW t \in Task,
             Boot(p, t) \/ Start(p, t) \/ InvokeWithoutArguments(p, t)
      PROVE  ListInv'
    BY <1>1, StartsList
<1>2. ASSUME NEW t \in Task, LoadFailsMapping(t) PROVE ListInv'
    <2>1. CASE misled
        BY <1>2, <2>1 DEF LoadFailsMapping, ListInv
    <2>2. CASE ~ misled
        BY <1>2, <2>2, MappingList
    <2>3. QED
        BY <2>1, <2>2
<1>3. CASE Exit
    BY <1>3, ExitList
<1>4. CASE ExitPanics
    <2>1. mode = "user" /\ mode' = "panic" /\ UNCHANGED <<liveTasks, tasks, order, misled>>
        BY <1>4 DEF ExitPanics
    <2>2. QED
        BY <2>1 DEF ListInv, Linked
<1>5. CASE UNCHANGED vars
    BY <1>5 DEF vars, ListInv, Linked
<1>6. QED
    BY <1>1, <1>2, <1>3, <1>4, <1>5 DEF Next, LoadFails, Halted

LEMMA ListAlways == Spec => [](TableInv /\ ListInv)
<1>1. Init => TableInv /\ ListInv
    BY TableInitially, ListInitially
<1>2. TableInv /\ ListInv /\ [Next]_vars => TableInv' /\ ListInv'
    BY TableStep, ListStep
<1>3. QED
    BY <1>1, <1>2, PTL DEF Spec

\* task_head, the next pointers and task_tail spell the live tasks in the order
\* they were created, until a removal follows an out-of-date prev (task/task.c,
\* task_new and task_list_remove).
THEOREM TaskListOrder == Spec => []ListInOrder
<1>1. TableInv /\ ListInv => ListInOrder
    BY DEF TableInv, OrderInv, ListInv, Linked, ListInOrder
<1>2. QED
    BY <1>1, ListAlways, PTL

\* task_next never switches to a task that has been freed before such a removal
\* (task/task.c).
THEOREM NoFreedTaskRuns == Spec => []FreedTaskRunsOnlyMisled
<1>1. ListInv => FreedTaskRunsOnlyMisled
    BY DEF ListInv, FreedTaskRunsOnlyMisled
<1>2. QED
    BY <1>1, ListAlways, PTL

\* No process but the last brings the machine to "No processes to switch too" or
\* "No more tasks!" before such a removal (task/process.c, task/task.c).
THEOREM PanicsOnlyAlone == Spec => PanicOnlyAlone
<1> DEFINE Alone == mode' = "panic" /\ ~ misled' => liveProcs = {owner[tasks.current]}
<1>1. TableInv /\ ListInv /\ [Next]_vars => [Alone]_vars
    <2> SUFFICES ASSUME TableInv, ListInv, Next, mode' = "panic", ~ misled', ~ UNCHANGED vars
                 PROVE  liveProcs = {owner[tasks.current]}
        OBVIOUS
    <2>1. CASE ExitPanics
        <3> DEFINE p == owner[tasks.current]
                   Others == {s \in Slots : processes[s] \notin {NULL, p}}
        <3>1. mode = "user" /\ SwitchToAny(p) = {}
            BY <2>1 DEF ExitPanics
        <3>2. Others = {}
            <4>1. SUFFICES ASSUME Others # {} PROVE FALSE
                OBVIOUS
            <4>2. Others \in SUBSET Nat
                BY DEF Slots
            <4>3. PICK s \in Others : \A r \in Others : s <= r
                BY <4>1, <4>2, LeastNatural
            <4>4. \A r \in 0 .. s - 1 : r \in Slots /\ r \notin Others
                BY <4>3, ProcessAssumption DEF Slots
            <4>5. processes[s] \in SwitchToAny(p)
                BY <3>1, <4>3, <4>4 DEF SwitchToAny
            <4>6. QED
                BY <3>1, <4>5
        <3>3. liveProcs = Registered /\ p \in liveProcs
            BY <3>1, RunningProcess DEF TableInv, TableSound
        <3>4. QED
            BY <3>2, <3>3 DEF Registered
    <2>2. CASE Exit
        BY <2>2, ExitList
    <2>3. QED
        BY <2>1, <2>2 DEF Next, Boot, Start, InvokeWithoutArguments, LoadFails, LoadFailsMapping,
                         Loaded, Mode, Halted
<1>2. QED
    BY <1>1, ListAlways, PTL DEF Spec, PanicOnlyAlone

\* A load that fails after its task was listed leaves head, tail, current and the
\* next pointers as it found them, before such a removal (task/process.c,
\* process_load_for_slot; task/task.c, task_free).
THEOREM FailedLoadRestoresList == Spec => FailedLoadLeavesList
<1> DEFINE Kept == /\ tasks'.head = tasks.head /\ tasks'.tail = tasks.tail
                   /\ tasks'.current = tasks.current
                   /\ \A t \in liveTasks : tasks'.next[t] = tasks.next[t]
<1>1. TableInv /\ ListInv /\ [Next]_vars => [processes' = processes /\ ~ misled => Kept]_vars
    <2> SUFFICES ASSUME TableInv, ListInv, Next, processes' = processes, ~ misled PROVE Kept
        OBVIOUS
    <2>1. ASSUME NEW p \in Proc, NEW t \in Task,
                 Boot(p, t) \/ Start(p, t) \/ InvokeWithoutArguments(p, t)
          PROVE  FALSE
        <3>1. PICK s \in FreeSlots : processes' = [processes EXCEPT ![s] = p]
            BY <2>1 DEF Boot, Start, InvokeWithoutArguments, Loaded
        <3>2. processes[s] = NULL /\ processes'[s] = p
            BY <3>1 DEF FreeSlots, TableInv, TypeOK
        <3>3. QED
            BY <3>2, ProcessAssumption
    <2>2. ASSUME NEW t \in Task, LoadFailsMapping(t) PROVE Kept
        BY <2>2, MappingList
    <2>3. ASSUME mode = "user", Unlink(owner[tasks.current]) PROVE FALSE
        <3> DEFINE p == owner[tasks.current]
        <3>1. p \in Registered /\ p \notin Registered'
            BY <2>3, RunningProcess, UnlinkRegistered DEF TableInv, TableSound
        <3>2. QED
            BY <3>1 DEF Registered
    <2>4. CASE Exit
        BY <2>3, <2>4 DEF Exit
    <2>5. CASE ExitPanics
        BY <2>3, <2>5 DEF ExitPanics
    <2>6. CASE UNCHANGED vars
        BY <2>6 DEF vars
    <2>7. QED
        BY <2>1, <2>2, <2>4, <2>5, <2>6 DEF Next, LoadFails, Halted
<1>2. QED
    BY <1>1, ListAlways, PTL DEF Spec, FailedLoadLeavesList

=============================================================================
