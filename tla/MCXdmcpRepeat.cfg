CONSTANTS
    Manager = {m1}
    Local = {c1}
    NULL = NULL
    MaxSession = 3
    MaxKey = 3
    MaxTrouble = 1
    MaxLogout = 0
SPECIFICATION Spec
CHECK_DEADLOCK FALSE
INVARIANT RepeatedRequestIsHarmless
