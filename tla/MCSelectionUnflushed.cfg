CONSTANTS
    Client = {c1}
    Bridge = bridge
    App = app
    None = none
    MaxOps = 3
SPECIFICATION FairSpec
PROPERTY ReleaseArrives
CHECK_DEADLOCK FALSE
