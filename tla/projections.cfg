\* Two users and the event settings, two messages, two handlers.
SPECIFICATION FairSpec
CONSTANTS
    User = {u1, u2}
    Field = {name, deadline}
    Run = {r1, r2}
    Nobody = Nobody
    MaxTime = 3
    MaxSent = 2
    MaxFaults = 1
INVARIANTS
    TypeOK
    PermissionsAreNewest
PROPERTIES
    RolesGoBackInRacesOnly
    SettingsGoBackByCreationOnly
    AccessCatchesUp
CHECK_DEADLOCK FALSE
