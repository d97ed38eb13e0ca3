SPECIFICATION Spec
CONSTANTS
    Node = {n1, n2}
    NoNode = NoNode
    Shard = {s1}
    Kind = {}
    Tracker = {k1, k2}
    Attestation <- FirstTermAttestations
    Lease = 1
    MaxSkew = 1
    MaxClock = 1
    MaxTerm = 2
    MaxCalls = 1
    MaxSubmits = 1
    MaxWal = 0
INVARIANT NonceSingleUse
