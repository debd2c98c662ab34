CONSTANTS
    Manager = {m1}
    Local = {c1}
    NULL = NULL
    MaxSession = 3
    MaxKey = 3
    MaxTrouble = 2
    MaxLogout = 1
SPECIFICATION FairSpec
CHECK_DEADLOCK FALSE
INVARIANTS
    TypeOK
    OneSessionConnected
    RunsTheGrantedSession
    LoginNeverFails
PROPERTIES
    ManagerPromise
    SessionEndsByItself
    SessionComes
