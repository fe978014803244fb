CONSTANTS
    c1 = c1  c2 = c2
    Chunks = {c1, c2}
    NumPieces = 2
    RecheckAt = 1
    Environments <- AllEnvironments
SPECIFICATION FairSpec
CHECK_DEADLOCK FALSE
INVARIANTS
    VerifiedIsGood
    MissingCanBeFetched
PROPERTIES
    AllDownloaded
