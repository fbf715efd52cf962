SPECIFICATION MemSpec
CONSTANTS
    Total = 6
    BlockSize = 2
    WordSize = 32
    Sizes <- MCSizes
    Proc = {p1, p2}
    MaxAllocations = 2
    Programs <- MCPrograms
    ProgramAddress <- MCProgramAddress
    StackAddress = 2
    HeapStart = 6
    LowMemory = 5
    StackSize = 2
    RequestSizes = {2, 3}
SYMMETRY ProcSymmetry
INVARIANTS
    TableEncodesLive
    PagesPrivate
    WritableIsHeld
    BooksBalance
    SegmentsMapped
PROPERTIES
    FitsWhenItCan
    FreeReleasesExactly
    AllocatorSpec
CHECK_DEADLOCK FALSE
