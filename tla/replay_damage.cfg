SPECIFICATION Spec
CONSTANTS
    Shard = {s1, s2}
    Kind = {k1, k2}
    Junk = Junk
    MaxLsn = 3
    MaxFaults = 2
    MaxReplays = 2
CHECK_DEADLOCK FALSE
SYMMETRY Symmetry
INVARIANTS
    FailClosed
    CompleteIsWhole
    FailuresAreExplained
