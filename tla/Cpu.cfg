SPECIFICATION Spec
CONSTANTS
    ByteBits = 2
    PageBytes = 16
    NumPages = 4
    Runs <- AllRuns
    CallResults = {0, 5}
    CallPages = {1}
CHECK_DEADLOCK FALSE
INVARIANTS FlagsTell BitsAgree OperandsAgree StringsStop LanesAgree FloatsAgree VexClosuresAgree
PROPERTIES UpperHalves VectorFaultIsClean
