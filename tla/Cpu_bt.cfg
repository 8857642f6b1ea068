SPECIFICATION Spec
CONSTANTS
    ByteBits = 2
    PageBytes = 16
    NumPages = 4
    Runs <- BitmapRuns
    CallResults = {0, 5}
    CallPages = {1}
CHECK_DEADLOCK FALSE
PROPERTY CachedAsFresh
