SPECIFICATION Spec
CONSTANTS
    Peer = {p1, p2}
    Txn = {x1, x2}
    OutboxCapacity = 1
    Burst = 2
    InitialLsn = 0
    MaxLsn = 2
    AckLsn = {0, 1}
    MaxCommits = 2
    MaxAcks = 1
    MaxErrors = 1
SYMMETRY Symmetry
INVARIANTS
    TypeOK
    NothingSentTwice
    NoSilentGap
