CONSTANTS
    Client = {c1}
    Key = {k1}
    NULL = NULL
    MaxEvents = 1
    MaxGrabs = 1
SPECIFICATION Spec
INVARIANT FrozenIsSilent
