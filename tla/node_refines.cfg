SPECIFICATION Spec
CONSTANTS
    N = 4
    MaxLsn = 4
    MaxRejected = 0
    MaxRestarts = 1
CHECK_DEADLOCK FALSE
INVARIANT PrefixReplicas
PROPERTY ImplementsReplicaChain
