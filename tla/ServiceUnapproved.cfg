SPECIFICATION Spec
CONSTANTS
    Device = {d1, d2}
    Attempt = {a1, a2}
    None = None
    d1 = d1
    d2 = d2
    a1 = a1
    a2 = a2
SYMMETRY Symmetry
INVARIANTS
    ReceivesFromApproved
CHECK_DEADLOCK FALSE
