SPECIFICATION Spec
CONSTANTS
    Peer = {p1}
    Txn = {x1, x2}
    OutboxCapacity = 2
    Burst = 2
    InitialLsn = 0
    MaxLsn = 2
    AckLsn = {}
    MaxCommits = 2
    MaxAcks = 0
    MaxErrors = 0
INVARIANT OutboxInLsnOrder
