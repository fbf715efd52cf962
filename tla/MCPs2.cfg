SPECIFICATION Ps2Spec
CONSTANTS
    MaxKeys = 3
    MaxMoves = 4
    Width = 3
    Step = 3
INVARIANTS
    PacketsWhole
    ShiftReleased
PROPERTY PortIsRead
CHECK_DEADLOCK FALSE
