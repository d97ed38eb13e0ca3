SPECIFICATION FairSpec
CONSTANTS
    NoCall = NoCall
    Call = {first, retry}
    Id = {x}
    IdOf <- MCIdOf
    NSenders = 2
    Timeout = 1
    SweepAge = 2
    MaxReplies = 2
    LastSend = 2
INVARIANTS
    RegistryMatchesChannels
    DeliveredIsReturned
    ClosedIsExplained
PROPERTIES
    CallsReturn
CHECK_DEADLOCK FALSE
