SPECIFICATION Spec
CONSTANTS
    Threads = {a, b}
    Fresh = {n}
    None = none
    MaxTurns = 2
    Slots = {c1, c2}
    MaxLosses = 1
SYMMETRY Symmetry
CHECK_DEADLOCK FALSE
INVARIANTS LoadingTruthful LatestOpenWins MirrorsServer
