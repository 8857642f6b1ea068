SPECIFICATION Spec
CONSTANTS
    ByteBits = 2
    PageBytes = 16
    NumPages = 4
    Runs <- VexRuns
    CallResults = {0, 5}
    CallPages = {1}
CHECK_DEADLOCK FALSE
PROPERTY VexExecuted
