SPECIFICATION CliSpec
CONSTANTS
    None = None
    NodeNumber <- MCNodeNumber
    SolidReport = {1}
    Probe = {c1, c2}
    MaxStreams = 1
INVARIANTS
    PipelineUp
    ReadyStays
PROPERTIES
    WatchConverges
    InterruptStops
CHECK_DEADLOCK FALSE
