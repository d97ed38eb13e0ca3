SPECIFICATION ReaderSpec
CONSTANTS
    Sender = {p1, p2}
    CacheSize = 1
    MaxCommitted = 2
    MaxDamaged = 1
    MaxRestarts = 1
SYMMETRY Symmetry
INVARIANTS
    PassedIsHeld
    ReaderTypeOK
