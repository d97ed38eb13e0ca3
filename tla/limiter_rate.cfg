SPECIFICATION LimiterSpec
CONSTANTS
    Rate = 400
    Burst = 2
    Paths = {"check", "check_at"}
    Start = 4
    MaxLag = 3
    MaxTime = 12
INVARIANT SustainedRate
