\* A guest and a plus-one of the guest's RSVP, two requests at a time.
SPECIFICATION Spec
CONSTANTS
    Invitation = {guest, plusOne}
    Child = {plusOne}
    Request = {q1, q2}
    None = None
    MaxFaults = 1
SYMMETRY RequestSymmetry
CHECK_DEADLOCK FALSE
INVARIANTS
    TypeOK
    StatusMatchesAnswer
    FactsMatchAnswer
    
PROPERTY ImplementsGuestAnswer
