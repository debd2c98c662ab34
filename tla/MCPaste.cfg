CONSTANTS
    c1 = c1
    c2 = c2
    c3 = c3
    c4 = c4
    Client = {c1, c2, c3}
    Supports <- MCSupports
    None = none
    MaxPastes = 2
    MaxChanges = 2
    MaxNoise = 1
SPECIFICATION FairSpec
INVARIANTS TypeOK RenderedIsCurrent OwnerIsPasted
PROPERTIES OthersDataStays PasteEnds
CHECK_DEADLOCK FALSE
