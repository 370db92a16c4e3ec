\* Fair handlers on one invitation.
SPECIFICATION FairSpec
CONSTANTS
    Invitation = {guest}
    Child = {}
    Request = {q1, q2}
    None = None
    MaxFaults = 1
CHECK_DEADLOCK FALSE
PROPERTY AutoApprovalCompletes
