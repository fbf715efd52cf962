------------------------------ MODULE TaskList ------------------------------
(***************************************************************************)
(* The kernel's list of tasks, task/task.c: a doubly linked list through   *)
(* the next and prev fields of the task objects, with task_head, task_tail *)
(* and current_task.  A list is a record, so that a handler that changes   *)
(* it several times in one step composes these operators.                  *)
(*                                                                         *)
(* The pointer fields are defined for every address a task object can      *)
(* have, freed ones included: kfree does not clear an object, and a stale  *)
(* pointer reads and writes what is left there.                            *)
(***************************************************************************)
CONSTANTS
    Task,       \* the addresses task objects are allocated at
    NULL        \* the null pointer

ASSUME TaskListAssumption == NULL \notin Task

TaskPtr == Task \cup {NULL}

Lists == [head : TaskPtr, tail : TaskPtr, current : TaskPtr,
          next : [Task -> TaskPtr], prev : [Task -> TaskPtr]]

EmptyList == [head |-> NULL, tail |-> NULL, current |-> NULL,
              next |-> [t \in Task |-> NULL], prev |-> [t \in Task |-> NULL]]

\* Storing through a task pointer; through NULL it changes no task.
Store(field, ptr, value) == [t \in Task |-> IF t = ptr THEN value ELSE field[t]]

(***************************************************************************)
(* task_new: the object is zeroed, then linked behind task_tail.  The      *)
(* first task of an empty list becomes the current one.                    *)
(***************************************************************************)
TaskNew(L, t) ==
    IF L.head = NULL
    THEN [head |-> t, tail |-> t, current |-> t,
          next |-> Store(L.next, t, NULL), prev |-> Store(L.prev, t, NULL)]
    ELSE [L EXCEPT !.tail = t,
                   !.next = Store(Store(L.next, t, NULL), L.tail, t),
                   !.prev = Store(L.prev, t, L.tail)]

\* task_get_next, for a current task with this next pointer.
NextOrHead(next, head) == IF next = NULL THEN head ELSE next
TaskGetNext(L) == NextOrHead(L.next[L.current], L.head)

\* Seeded faults: the tail pointer is left on the removed task; the
\* predecessor is not linked to the successor.
TaskListRemoveKeepsTail(L, t) ==
    LET head == IF t = L.head THEN L.next[t] ELSE L.head IN
    [head    |-> head,
     tail    |-> L.tail,
     current |-> IF t = L.current THEN NextOrHead(L.next[t], head) ELSE L.current,
     next    |-> Store(L.next, L.prev[t], L.next[t]),
     prev    |-> L.prev]
TaskListRemoveNoUnlink(L, t) ==
    LET head == IF t = L.head THEN L.next[t] ELSE L.head IN
    [head    |-> head,
     tail    |-> IF t = L.tail THEN L.prev[t] ELSE L.tail,
     current |-> IF t = L.current THEN NextOrHead(L.next[t], head) ELSE L.current,
     next    |-> L.next,
     prev    |-> L.prev]

(***************************************************************************)
(* task_list_remove.  The predecessor is linked to the successor, but the  *)
(* successor's prev keeps pointing at the removed task, which task_free    *)
(* then gives back to the heap.                                            *)
(***************************************************************************)
TaskListRemove(L, t) ==
    LET head == IF t = L.head THEN L.next[t] ELSE L.head IN
    [head    |-> head,
     tail    |-> IF t = L.tail THEN L.prev[t] ELSE L.tail,
     current |-> IF t = L.current THEN NextOrHead(L.next[t], head) ELSE L.current,
     next    |-> Store(L.next, L.prev[t], L.next[t]),
     prev    |-> L.prev]

\* task_switch.
TaskSwitch(L, t) == [L EXCEPT !.current = t]
=============================================================================
