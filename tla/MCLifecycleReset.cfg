CONSTANTS
    Thread = {t1}
    NULL = NULL
    MaxGen = 2
    MaxConns = 1
SPECIFICATION FairSpec
PROPERTY ResetCompletes
CHECK_DEADLOCK FALSE
