SPECIFICATION Spec
CONSTANTS
    NULL = NULL
    Proc = {p1, p2, p3}
    Task = {t1, t2, t3, t4}
    MaxProcesses = 3
    MemoryRunsOut = TRUE
SYMMETRY Symmetry
INVARIANTS
    TableSound
    CurrentProcessRegistered
    ListInOrder
    FreedTaskRunsOnlyMisled
PROPERTIES
    PanicOnlyAlone
    FailedLoadLeavesList
