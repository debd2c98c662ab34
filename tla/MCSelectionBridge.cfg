CONSTANTS
    Client = {c1, c2}
    Bridge = bridge
    App = app
    None = none
    MaxOps = 3
SPECIFICATION FairSpec
INVARIANTS TypeOK QuietClaimStands
PROPERTIES NoEcho TextCopyReachesX OtherCopyReleases
CHECK_DEADLOCK FALSE
