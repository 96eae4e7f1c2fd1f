SPECIFICATION SshSpec
CONSTANTS
    Handlers = {h1, h2}
    Ports = {p1, p2}
    Local = Local
    None = None
    MaxChildren = 2
    Cancellable = FALSE
SYMMETRY Symmetry
INVARIANTS
    EmptySlotMeansLocal
