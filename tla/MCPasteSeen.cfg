CONSTANTS
    c1 = c1
    c2 = c2
    c3 = c3
    c4 = c4
    Client = {c1}
    Supports <- MCSupports
    None = none
    MaxPastes = 1
    MaxChanges = 1
    MaxNoise = 0
SPECIFICATION Spec
PROPERTY AnswerIsSeen
CHECK_DEADLOCK FALSE
