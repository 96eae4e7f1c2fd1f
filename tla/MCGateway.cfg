SPECIFICATION FairSpec
CONSTANTS
    Handlers = {h1, main}
    Main = main
    Ports = {p1, p2}
    Local = local
    None = none
    MaxChildren = 2
    Cancellable = FALSE
    AutoStart = TRUE
INVARIANTS ShutdownStopsChildren
PROPERTIES StartupEnds ShutdownEnds
