SPECIFICATION FairSpec
CONSTANTS
    Device = {d1}
    Attempt = {a1, a2}
    None = None
    d1 = d1
    a1 = a1
    a2 = a2
PROPERTIES
    AttemptsEnd
CHECK_DEADLOCK FALSE
