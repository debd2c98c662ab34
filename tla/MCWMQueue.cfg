CONSTANTS
    Producer = {xserver, xmsg}
    WM = wm
    Node = {n1, n2, n3}
    Message = {raise, map}
    NULL = NULL
SPECIFICATION FairSpec
INVARIANTS TypeOK ListIsChain OneOwner NoLostWakeup
PROPERTY FifoPromise
