SPECIFICATION FairSpec
CONSTANTS
    MaxSockets = 2
    MaxRequests = 2
    MaxAttempts = 1
    ReservedCodeThrows = TRUE
PROPERTIES
    InitializationEnds
