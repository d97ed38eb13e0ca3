SPECIFICATION Spec
CONSTANTS
    Peer = {p1, p2}
    Engine = {"executes", "logs"}
    Threshold = 1
    MaxTime = 3
    MaxLsn = 1
SYMMETRY Symmetry
INVARIANTS
    StreamingIsVerified
    ApartOnlyByOverlap
PROPERTY TerminatedStays
