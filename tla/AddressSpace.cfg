SPECIFICATION Spec
CONSTANTS
    NumPages = 10
    MmapBase = 5
    MmapMax = 7
    StackBase = 8
    StackPages = 1
    Images <- Programs
    BrkArg = {0, 6, 7, 9, 11, 19}
    AddrArg = {6, 11}
    LenArg = {0, 1, 3, 17}
    ProtArg <- Prots
CHECK_DEADLOCK FALSE
INVARIANT PromisedIsMapped
PROPERTY NewPagesAreFresh
