------------------------------ MODULE Process ------------------------------
(***************************************************************************)
(* Processes and tasks: the process table and current_process of           *)
(* task/process.c, the task list and current_task of task/task.c, and the  *)
(* system calls and exceptions that change them (isr80h/process.c,         *)
(* idt/idt.c).                                                             *)
(*                                                                         *)
(* System calls and exceptions enter through interrupt gates, which mask   *)
(* interrupts, and there is no timer preemption: a handler is one step,    *)
(* and a task runs until it exits, faults or starts another program.       *)
(***************************************************************************)
EXTENDS Integers, Sequences, TaskList

CONSTANTS
    Proc,           \* the addresses process objects are allocated at
    MaxProcesses,   \* VIOS_MAX_PROCESSES
    MemoryRunsOut   \* whether an allocation for a new program's arguments may fail

ASSUME ProcessAssumption ==
    /\ NULL \notin Proc
    /\ MaxProcesses \in Nat \ {0}
    /\ MemoryRunsOut \in BOOLEAN

VARIABLES
    processes,          \* the process table
    current_process,    \* the process keyboard input goes to
    proc,               \* the id and task fields of each process object
    owner,              \* the process field of each task object
    liveProcs,          \* the process objects allocated and not freed
    liveTasks,          \* the task objects allocated and not freed
    tasks,              \* the task list (TaskList.tla)
    mode,               \* "boot", "user", "panic" (halted) or "wild" (see Mode)
    order,              \* history: the live tasks, oldest first
    misled              \* history: a removal followed an out-of-date prev

vars == <<processes, current_process, proc, owner, liveProcs, liveTasks,
          tasks, mode, order, misled>>

Slots    == 0 .. MaxProcesses - 1
Registered == {processes[s] : s \in Slots} \ {NULL}

Init ==
    /\ processes = [s \in Slots |-> NULL]
    /\ current_process = NULL
    /\ proc = [p \in Proc |-> [id |-> 0, task |-> NULL]]
    /\ owner = [t \in Task |-> NULL]
    /\ liveProcs = {} /\ liveTasks = {}
    /\ tasks = EmptyList
    /\ mode = "boot"
    /\ order = << >>
    /\ misled = FALSE

\* process_get_free_slot: the first empty slot, if any.
FreeSlots == {s \in Slots : processes[s] = NULL /\ \A r \in 0 .. s - 1 : processes[r] # NULL}

(***************************************************************************)
(* Where a handler leaves the machine.  Memory that was a task and has     *)
(* been freed may still hold the old task or be anything by now: a handler *)
(* that goes through such a pointer may do what it would have done with    *)
(* the old task, or anything at all, which is mode "wild".                 *)
(***************************************************************************)
Freed(ptr, live) == ptr \notin live \cup {NULL}
Mode(normal, stale) == {normal} \cup (IF stale THEN {"wild"} ELSE {})

-----------------------------------------------------------------------------
(***************************************************************************)
(* process_load_switch when every step of it succeeds: a process object    *)
(* and a task object at addresses the heap has free, the task linked into  *)
(* the list, the process registered in the first free slot and made the    *)
(* current process.  What it does to the list besides TaskNew is up to the *)
(* caller; TaskNew writes through task_tail.                               *)
(***************************************************************************)
Loaded(p, t) ==
    \E s \in FreeSlots :
        /\ p \notin liveProcs /\ t \notin liveTasks
        /\ liveProcs' = liveProcs \cup {p}
        /\ liveTasks' = liveTasks \cup {t}
        /\ proc' = [proc EXCEPT ![p] = [id |-> s, task |-> t]]
        /\ owner' = [owner EXCEPT ![t] = p]
        /\ processes' = [processes EXCEPT ![s] = p]
        /\ current_process' = p
        /\ order' = Append(order, t)
        /\ mode' \in Mode("user", Freed(tasks.tail, liveTasks))
        /\ UNCHANGED misled

\* The kernel loads the first program and task_run_first_ever_task enters it.
Boot(p, t) ==
    /\ mode = "boot"
    /\ Loaded(p, t)
    /\ tasks' = LET L == TaskNew(tasks, t) IN TaskSwitch(L, L.head)

\* process_load_start, and invoke_system_command when the arguments were
\* injected: the new task runs at once, its parent stays in the list.
Start(p, t) ==
    /\ mode = "user"
    /\ Loaded(p, t)
    /\ tasks' = TaskSwitch(TaskNew(tasks, t), t)

\* invoke_system_command when process_inject_arguments fails: the error is
\* returned to the caller, the new process stays registered, listed and current.
InvokeWithoutArguments(p, t) ==
    /\ mode = "user" /\ MemoryRunsOut
    /\ Loaded(p, t)
    /\ tasks' = TaskNew(tasks, t)

\* A load that fails before there is a task: no slot, no such file under any of
\* the three names tried, no memory for the stack.  What was allocated is freed.
LoadFails ==
    /\ mode = "user"
    /\ UNCHANGED vars

\* A load that fails when the program is mapped: the new task was listed already
\* and process_free_process takes it out again.
LoadFailsMapping(t) ==
    /\ mode = "user"
    /\ FreeSlots # {}
    /\ t \notin liveTasks
    /\ tasks' = TaskListRemove(TaskNew(tasks, t), t)
    /\ owner' = [owner EXCEPT ![t] = NULL]
    /\ mode' \in Mode(IF tasks'.current \in liveTasks THEN "user" ELSE "wild",
                      Freed(tasks.tail, liveTasks))
    /\ UNCHANGED <<processes, current_process, proc, liveProcs, liveTasks, order, misled>>

-----------------------------------------------------------------------------
\* Position of a task in the list as the history knows it.
Position(t) == CHOOSE k \in 1 .. Len(order) : order[k] = t
Without(seq, k) == [j \in 1 .. Len(seq) - 1 |-> IF j < k THEN seq[j] ELSE seq[j + 1]]

\* The prev of this task is set and is not the task before it in the list.
PrevOutOfDate(t) ==
    /\ tasks.prev[t] # NULL
    /\ LET k == Position(t) IN k = 1 \/ tasks.prev[t] # order[k - 1]

\* Seeded fault: the slot is not given back.
UnlinkKeepsSlot(p) == UNCHANGED processes
\* process_unlink, the table part of it.
Unlink(p) == processes' = [processes EXCEPT ![proc[p].id] = NULL]

\* Seeded fault: the current process is not replaced.
SwitchToAnySkipped(p) == {current_process}
\* Seeded fault: the last slot is not looked at.
SwitchToAnyShort(p) ==
    IF current_process # p THEN {current_process}
    ELSE {processes[s] : s \in {s \in 0 .. MaxProcesses - 2 :
              /\ processes[s] \notin {NULL, p}
              /\ \A r \in 0 .. s - 1 : processes[r] \in {NULL, p}}}
\* process_unlink and process_switch_to_any: the current process stays unless it
\* is the one that goes, then the first one left in the table takes over.  No
\* process left is a panic.
SwitchToAny(p) ==
    IF current_process # p THEN {current_process}
    ELSE {processes[s] : s \in {s \in Slots :
              /\ processes[s] \notin {NULL, p}
              /\ \A r \in 0 .. s - 1 : processes[r] \in {NULL, p}}}

\* The task task_next switches to when t leaves the list: task_list_remove has
\* already moved current_task on from t, and task_next moves it on once more.
\* With no current task task_next reads a next pointer from address zero; NULL
\* stands for whatever it finds there.
TaskAfter(t) ==
    LET L == TaskListRemove(tasks, t) IN
    IF L.current = NULL THEN NULL ELSE TaskGetNext(L)

\* task_next panics when it is given no task, and what runs when it is given a
\* freed one is arbitrary.
ModeAfter(t) ==
    LET live == liveTasks \ {t}
        passed == TaskListRemove(tasks, t).current
    IN  Mode(CASE TaskAfter(t) = NULL -> "panic"
               [] TaskAfter(t) \in live -> "user"
               [] OTHER -> "wild",
             Freed(tasks.prev[t], liveTasks) \/ passed \notin live)

(***************************************************************************)
(* sys_exit and idt_handle_exception: process_terminate of the running     *)
(* task's process, then task_next.                                         *)
(***************************************************************************)
Exit ==
    /\ mode = "user"
    /\ LET t == tasks.current
           p == owner[t]
       IN  /\ Unlink(p)
           /\ current_process' \in SwitchToAny(p)
           /\ liveProcs' = liveProcs \ {p}
           /\ liveTasks' = liveTasks \ {proc[p].task}
           /\ tasks' = TaskSwitch(TaskListRemove(tasks, t), TaskAfter(t))
           /\ mode' \in ModeAfter(t)
           /\ order' = Without(order, Position(t))
           /\ misled' = (misled \/ PrevOutOfDate(t))
    /\ UNCHANGED <<proc, owner>>

\* Exit of the last process: process_switch_to_any panics before anything is freed.
ExitPanics ==
    /\ mode = "user"
    /\ SwitchToAny(owner[tasks.current]) = {}
    /\ Unlink(owner[tasks.current])
    /\ mode' = "panic"
    /\ UNCHANGED <<current_process, proc, owner, liveProcs, liveTasks, tasks, order, misled>>

\* panic() and wild execution never come back.
Halted == mode \in {"panic", "wild"} /\ UNCHANGED vars

Next ==
    \/ \E p \in Proc, t \in Task : Boot(p, t) \/ Start(p, t) \/ InvokeWithoutArguments(p, t)
    \/ LoadFails
    \/ \E t \in Task : LoadFailsMapping(t)
    \/ Exit
    \/ ExitPanics
    \/ Halted

Spec == Init /\ [][Next]_vars

-----------------------------------------------------------------------------
\* Types of the table, the objects and the list.
TypeOK ==
    /\ processes \in [Slots -> Proc \cup {NULL}]
    /\ current_process \in Proc \cup {NULL}
    /\ proc \in [Proc -> [id : Slots, task : TaskPtr]]
    /\ owner \in [Task -> Proc \cup {NULL}]
    /\ liveProcs \subseteq Proc
    /\ liveTasks \subseteq Task
    /\ tasks \in Lists
    /\ mode \in {"boot", "user", "panic", "wild"}
    /\ order \in Seq(Task)
    /\ misled \in BOOLEAN

\* The table, the process objects and the task objects agree: a slot holds a
\* live process that knows its slot, each has one live task that knows it, and
\* nothing allocated is left outside the table, on any path, failed loads and
\* failed invocations included.
TableSound == mode \in {"boot", "user"} =>
    /\ liveProcs = Registered
    /\ \A s \in Slots : processes[s] # NULL => proc[processes[s]].id = s
    /\ \A p \in liveProcs : proc[p].task \in liveTasks /\ owner[proc[p].task] = p
    /\ \A t \in liveTasks : owner[t] \in liveProcs /\ proc[owner[t]].task = t

\* Input always has a registered process to go to once user mode is entered:
\* keyboard_push never writes into a freed process.
CurrentProcessRegistered == mode = "user" => current_process \in Registered

\* As long as no removal followed an out-of-date prev pointer, the list is the
\* live tasks in the order they were created, and the current task is in it.
ListInOrder ==
    LET n == Len(order) IN
    /\ liveTasks = {order[k] : k \in 1 .. n}
    /\ ~ misled /\ n > 0 =>
        /\ tasks.head = order[1] /\ tasks.tail = order[n] /\ tasks.current \in liveTasks
        /\ \A k \in 1 .. n : tasks.next[order[k]] = IF k = n THEN NULL ELSE order[k + 1]

\* A task that has been freed only ever runs after such a removal.
FreedTaskRunsOnlyMisled == mode = "wild" => misled

\* The machine panics for want of processes or tasks only when the process that
\* exits is the only one there is, until such a removal.
PanicOnlyAlone ==
    [][mode' = "panic" /\ ~ misled' => liveProcs = {owner[tasks.current]}]_vars

\* What the list links changes only with the table: a load that fails leaves no
\* trace in it.
FailedLoadLeavesList ==
    [][processes' = processes /\ ~ misled =>
          /\ tasks'.head = tasks.head /\ tasks'.tail = tasks.tail
          /\ tasks'.current = tasks.current
          /\ \A t \in liveTasks : tasks'.next[t] = tasks.next[t]]_vars

-----------------------------------------------------------------------------
\* The tasks task_next can ever reach: those linked from task_head.
Walk[n \in Nat] ==
    IF n = 0 THEN tasks.head
    ELSE IF Walk[n - 1] = NULL THEN NULL ELSE tasks.next[Walk[n - 1]]

\* "Adds the task to the global task linked list for scheduling"
\* (docs/api/task_new.md:34): a live task is found from the head of the list.
EveryTaskListed ==
    mode = "user" => \A t \in liveTasks : \E n \in 0 .. Len(order) : Walk[n] = t
=============================================================================
