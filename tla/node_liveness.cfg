SPECIFICATION FairSpec
CONSTANTS
    N = 3
    MaxLsn = 3
    MaxRejected = 1
    MaxRestarts = 1
CHECK_DEADLOCK FALSE
INVARIANTS
    HolesAreRejected
    SettledIsComplete
PROPERTY EntriesArrive
