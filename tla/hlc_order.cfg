SPECIFICATION HlcSpec
CONSTANTS
    WriterNode = {a}
    Threads = 2
    Wall = {0, 1}
    Remotes = {0, 1, 2}
    Cap = 1
    MaxLogical = 3
    MaxIssued = 3
CHECK_DEADLOCK FALSE
INVARIANTS
    HlcTypeOK
    BoundedDrift
PROPERTY StampsIncrease
