SPECIFICATION Spec
CONSTANTS
    Threads = {main, nsd, io}
    main = main
    nsd = nsd
    io = io
SYMMETRY Symmetry
INVARIANTS
    TypeOK
    ObserverInSync
    StopHolds
