SPECIFICATION Spec
CONSTANTS
    Total = 31
    MaxFds = 3
    Directory = {"root", "D", "E"}
    File = {"A", "B", "C"}
    Root = "root"
    Tree <- MCTree
    Paths <- MCPaths
    NoName = ""
    Nowhere = "nowhere"
INVARIANTS
    BlocksAccounted
    OpensWhatItNames
