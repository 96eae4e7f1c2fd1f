SPECIFICATION FairSpec
CONSTANTS
    MaxFrames = 2
    Capacity = 2
INVARIANTS NothingLost Faithful
PROPERTIES EndPropagates Delivered ShutdownEndsRelay
CHECK_DEADLOCK FALSE
