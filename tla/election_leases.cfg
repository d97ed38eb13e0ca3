SPECIFICATION Spec
CONSTANTS
    Node = {n1, n2}
    NoNode = NoNode
    Shard = {s1}
    Kind = {"register", "revoke", "drain"}
    Tracker = {k1}
    Attestation <- FirstTermAttestations
    Lease = 2
    MaxSkew = 1
    MaxClock = 2
    MaxTerm = 2
    MaxCalls = 2
    MaxSubmits = 1
    MaxWal = 1
SYMMETRY Symmetry
INVARIANTS
    OneLeaderPerTerm
    LeaseBehindEveryWrite
    NonceSingleUse
PROPERTIES
    LeaseHonoured
    HeartbeatExtendsLease
