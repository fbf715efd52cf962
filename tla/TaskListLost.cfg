SPECIFICATION Spec
CONSTANTS
    NULL = NULL
    Proc = {p1, p2, p3, p4}
    Task = {t1, t2, t3, t4}
    MaxProcesses = 4
    MemoryRunsOut = FALSE
SYMMETRY Symmetry
INVARIANT EveryTaskListed
