\* The window manager threads from start to the coming and going of others.
SPECIFICATION FairSpec
CONSTANTS
    MaxSends = 2
    MaxEvents = 2
    MaxStarts = 2
INVARIANTS
    TypeOK
    StartsInTurn
    OneMoreMessage
PROPERTIES
    FlagsStayTogether
    FlagSettles
    WorkGetsDone
\* Both threads may exit, and then nothing is left to do.
CHECK_DEADLOCK FALSE
