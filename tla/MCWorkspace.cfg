SPECIFICATION FairSpec
CONSTANTS
    MaxLinks = 3
    MaxPrompts = 2
INVARIANTS PromptsAreCurrent NothingHidden CleanHandOver
PROPERTY RestoreEnds
CHECK_DEADLOCK FALSE
