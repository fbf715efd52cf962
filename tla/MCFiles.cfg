SPECIFICATION Spec
CONSTANTS
    MaxFds = 3
    SectorSize = 2
    ClusterSize = 4
    LastCluster = 4
    Images <- MCImages
    Name <- MCName
    NoName = "none"
    RecordSizes = {1, 4, 5}
    Counts = {1, 2}
    Offsets = {3, 6}
    MaxPos = 9
INVARIANTS
    StoresOwnBytes
    FailedOpenJustified
PROPERTIES
    OpenFilesSpec
    ReadReturns
