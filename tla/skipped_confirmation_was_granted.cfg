SPECIFICATION Spec
CONSTANTS
    Invitation = {plusOne}
    Child = {plusOne}
    Request = {q1, q2}
    None = None
    MaxFaults = 0
CHECK_DEADLOCK FALSE
INVARIANT SkippedConfirmationWasGranted
