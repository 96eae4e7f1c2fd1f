SPECIFICATION Spec
CONSTANTS
    MaxTurns = 2
    MaxItems = 2
    MaxDeltas = 2
    MaxInbox = 2
    MaxLosses = 1
INVARIANTS NoHoles Converges
PROPERTY FinishedItemsStay
CHECK_DEADLOCK FALSE
