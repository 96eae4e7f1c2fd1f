SPECIFICATION FairSpec
CONSTANTS
    MaxLinks = 2
    MaxRuns = 2
    Length = 3
    MaxWire = 2
    Calls <- TheCalls
    Wide <- TheWide
INVARIANT TerminalTruthful
PROPERTY TerminateEnds
CHECK_DEADLOCK FALSE
