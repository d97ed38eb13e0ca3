SPECIFICATION Spec
CONSTANTS
    Branch = 2
    MaxLevel = 2
    word = word
    Content <- MCContent
    Table <- MCTable
    MaxSegments = 4
    MaxLsn = 2
    MaxLost = 1
    None = None
INVARIANTS
    RootsDecide
    DiffIsExact
    PullCompletes
CHECK_DEADLOCK FALSE
