SPECIFICATION FairSshSpec
CONSTANTS
    Handlers = {h1, h2}
    Ports = {p1, p2}
    Local = Local
    None = None
    MaxChildren = 2
    Cancellable = TRUE
INVARIANTS
    OneOwner
    UpstreamFollowsSlot
PROPERTIES
    HandlersFinish
