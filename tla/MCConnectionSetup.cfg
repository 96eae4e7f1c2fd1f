SPECIFICATION SetupSpec
CONSTANTS
    MaxSockets = 3
    MaxRequests = 3
    MaxAttempts = 1
    ReservedCodeThrows = FALSE
    Local = local
    Targets = {t}
    Nowhere = nowhere
    Slots = {j1, j2}
    MaxSaves = 1
SYMMETRY Symmetry
CHECK_DEADLOCK FALSE
INVARIANTS SwitchesInOrder RightServer
