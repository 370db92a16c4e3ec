\* Two invitations, three contacts, two requests.
SPECIFICATION Spec
CONSTANTS
    i1 = i1
    i2 = i2
    q1 = q1
    q2 = q2
    n1 = n1
    n2 = n2
    None = None
    Invitation <- MCInvitation
    Name = {n1, n2}
    NameOf <- MCNameOf
    File <- MCFile
    Request = {q1, q2}
    MaxTokens = 3
    MaxFaults = 1
INVARIANTS
    TypeOK
    
    
    
    AskedAreGone
    
SYMMETRY Symmetric
CHECK_DEADLOCK FALSE
