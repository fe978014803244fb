CONSTANTS
    Parts = {"partials"}
    a1 = a1  a2 = a2  a3 = a3  a4 = a4
    r1 = r1  r2 = r2
    ta = ta  tb = tb  tc = tc
    Addr <- MCAddr
    Requests <- MCRequests
    FirstWord <- MCFirstWord
    Length <- MCLength
    FastExtensions = TRUE
    PieceSize = 3
    ControlSize = 2
    BufferSize = 2
    MaxQueued = 3
SPECIFICATION MCSpec
PROPERTY
    AllPartialsReturn
