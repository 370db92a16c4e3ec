\* One user, two messages, no faults.
SPECIFICATION Spec
CONSTANTS
    User = {u1}
    Field = {name}
    Run = {r1}
    Nobody = Nobody
    MaxTime = 3
    MaxSent = 2
    MaxFaults = 0
INVARIANT SkippedIsStale
CHECK_DEADLOCK FALSE
