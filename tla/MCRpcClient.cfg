SPECIFICATION FairSpec
CONSTANTS
    MaxSockets = 3
    MaxRequests = 3
    MaxAttempts = 1
    ReservedCodeThrows = FALSE
INVARIANTS
    TypeOK
    PendingExact
    OneLoop
    ReadyIsInitialized
    ConnectionInv
PROPERTIES
    OnlyCurrentAnswers
    SettledOnce
    ImplementsContract
    ImplementsLink
    CallersReturn
    RecoveryEnds
