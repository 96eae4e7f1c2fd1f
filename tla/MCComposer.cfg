SPECIFICATION Spec
CONSTANTS
    Tree <- MCTree
    HostFiles <- MCHostFiles
    Uploads = {"photo", "notes"}
    Images = {"photo"}
    Jobs = {j1, j2}
    CwdOf <- MCCwdOf
    MaxOpenings = 2
    MaxMessages = 2
    MaxAwaited = 3
INVARIANTS MessagesAccounted BusyTruthful
PROPERTIES SendsWhatIsShown FilesLand
CHECK_DEADLOCK FALSE
SYMMETRY Symmetry
