SPECIFICATION Spec
CONSTANTS
    Process = {p1, p2}
    MaxMade = 3
    Absent = Absent
    Broken = Broken
    p1 = p1
    p2 = p2
SYMMETRY Symmetry
INVARIANTS
    TypeOK
    ServesMatchedPair
    ServedIsStored
    GeneratedOnce
PROPERTIES
    StuckStays
