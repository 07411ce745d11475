SPECIFICATION Spec
CONSTANTS
    Instance = {i1, i2}
    Host = {h1, h2}
    Port = {p1}
    Address = {a1, a2}
    NoHost = NoHost
    NoPort = NoPort
    Ttl = {0, 9}
    MaxTtl = 1
    MaxEntries = 1
    MaxAddresses = 1
    MaxNow = 1
    i1 = i1
    i2 = i2
    h1 = h1
    h2 = h2
    p1 = p1
    a1 = a1
    a2 = a2
SYMMETRY Symmetry
INVARIANTS
    TypeOK
    ReadyWasAnnounced
PROPERTIES
    ExpireIsInvisible
