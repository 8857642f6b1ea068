SPECIFICATION Spec
CONSTANTS
    Path <- PathSet
    NewPath <- NewSet
    TmpPath <- TmpSet
    Data = {"empty", "full"}
CHECK_DEADLOCK FALSE
INVARIANT EntryHasHost
PROPERTIES LocalEffect FailureIsClean RenameMoves
