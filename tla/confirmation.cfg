SPECIFICATION Spec
CONSTANTS
    r1 = r1
    r2 = r2
    Run = {r1, r2}
    None = None
    Orphan = Orphan
    MaxCalls = 1
    MaxTokens = 4
    MaxResends = 1
    MaxPresets = 1
    MaxFaults = 1
SYMMETRY Symm
INVARIANTS
    TypeOK
    LockExclusive
    
PROPERTY ImplementsRegistration
CHECK_DEADLOCK FALSE
