SPECIFICATION ThreadSpec
CONSTANTS
    Conn = {c1, c2}
    Senders = {s1}
    None = None
    c1 = c1
    c2 = c2
    s1 = s1
PROPERTIES
    StopCancelsRead
