SPECIFICATION HangUpSpec
CONSTANTS
    Conn = {c1, c2, c3}
    Senders = {s1, s2}
    None = None
    c1 = c1
    c2 = c2
    c3 = c3
    s1 = s1
    s2 = s2
INVARIANTS
    TypeOK
    OneSession
    WriteHoldsSession
    OneWriter
    StopReleasesAll
PROPERTIES
    SessionHandover
    ImplementsSlot
    StopReturns
    QueueMoves
