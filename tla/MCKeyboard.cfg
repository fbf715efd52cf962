SPECIFICATION Spec
CONSTANTS
    Proc = {p1, p2}
    NULL = NULL
    Size = 3
    MaxKeys = 7
INVARIANT
    KeysAccounted
PROPERTIES
    QueueSpec
    EveryKeyIsRead
