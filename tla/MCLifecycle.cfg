CONSTANTS
    Thread = {t1, t2}
    NULL = NULL
    MaxGen = 3
    MaxConns = 4
SPECIFICATION FairSpec
INVARIANTS TypeOK OrigPresent OneLaunch FirstLaunches
PROPERTY ShutdownReturns
CHECK_DEADLOCK FALSE
