SPECIFICATION Spec
CONSTANTS
    e1 = e1
    e2 = e2
    e3 = e3
    e4 = e4
    k1 = k1
    k2 = k2
    t = t
    NoTeam = NoTeam
    Nobody = Nobody
    NoEvent = NoEvent
    Worker = {w1, w2}
    Key = {k1, k2}
    Team = {t}
    Event = {e1, e2, e3, e4}
    KeyOf <- MCKeyOf
    TeamOf <- MCTeamOf
    RequestOf <- MCRequestOf
    CostOf <- MCCostOf
    Limit = {1, 2}
    TeamLimit = 2
    IntMax = 3
    Purse = 0
    Price = 1
    MaxOps = 4
INVARIANTS
    ChargedOnce
    CounterIsExact
PROPERTIES
    KeyBudgetHolds
    UnpaidNeedsCredit
CHECK_DEADLOCK FALSE
