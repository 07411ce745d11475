SPECIFICATION Spec
CONSTANTS
    c1 = c1
    c2 = c2
    t1 = t1
    t2 = t2
    Capture = {c1, c2}
    Thread = {t1, t2}
    Null = Null
    Port = {51820}
    Codec = {"pcm16", "opus"}
    Pcm16 = "pcm16"
    Format = {"played", "odd"}
    Supported = {"played"}
    Silent = "silent"
    Size = {0, 2}
    BufferFrames = 1
SYMMETRY Symmetry
CHECK_DEADLOCK FALSE
INVARIANTS
    TypeOK
    StartedIsHooked
    DestroyedIsUnreferenced
    AdvertisedIsListening
    RendererRests
