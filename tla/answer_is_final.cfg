SPECIFICATION Spec
CONSTANTS
    Invitation = {guest}
    Child = {}
    Request = {q1, q2}
    None = None
    MaxFaults = 0
CHECK_DEADLOCK FALSE
PROPERTY AnswerIsFinal
