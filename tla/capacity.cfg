SPECIFICATION Spec
CONSTANTS
    Parent = {p1}
    Kid = {k1, k2, k3}
    Request = {q1, q2}
    None = None
    MaxLimit = 2
SYMMETRY CapacitySymmetry
INVARIANTS
    TypeOK
    CapacityAccounted
    PlusOnesWithinLimit
    RoomStaysValid
