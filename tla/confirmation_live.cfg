SPECIFICATION FairSpec
CONSTANTS
    r1 = r1
    r2 = r2
    Run = {r1, r2}
    None = None
    Orphan = Orphan
    MaxCalls = 2
    MaxTokens = 3
    MaxResends = 1
    MaxPresets = 0
    MaxFaults = 0
INVARIANTS
    SeatBeforeLink
    LinksResolve
PROPERTIES
    EventuallyConfirmed
CHECK_DEADLOCK FALSE
