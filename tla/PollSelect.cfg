SPECIFICATION Spec
CONSTANTS
    Sock = {s}
    ReadEnd = {r}
    WriteEnd = {w}
    Plain = {file}
    Device = {dev}
    Closed = {none}
    Negative = {neg}
    Loops <- Pairs
    Capacity = 1
    GuestBytes = 2
    PeerBytes = 1
    Extras <- OneExtra
    Timeouts <- Times
    MaxUpsets = 1
    NULL = null
CHECK_DEADLOCK FALSE
INVARIANTS ReportedIsReady ZeroMeansTimedOut
PROPERTIES CallReturns LoopEnds
