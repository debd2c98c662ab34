CONSTANTS
    Client = {c1, c2}
    Key = {k1}
    NULL = NULL
    MaxEvents = 3
    MaxGrabs = 1
SPECIFICATION FairSpec
INVARIANTS
    TypeOK
    GrabsAgree
    WaitsForAThaw
    InOrder
    GrabsHaveOwners
PROPERTIES
    OthersKeepTheirs
    QueueIsPlayed
