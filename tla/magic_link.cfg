\* Three requests of two addresses, windows of three, up to three invitations that
\* differ in name, kinship, age, status, account and end.
SPECIFICATION FairSpec
CONSTANTS
    Ip = {ip1, ip2}
    NoIp = NoIp
    Request = {q1, q2, q3}
    Invitation = {i1, i2, i3}
    anna = anna
    Row <- MCRow
    Name = {anna}
    None = None
    MaxPerWindow = 3
    MaxTime = 2
    MaxFaults = 1
INVARIANTS
    TypeOK
    WindowBounded
    ChosenIsPinnedDown
    PinnedDownIsChosen
PROPERTY LimitLifts
CHECK_DEADLOCK FALSE
