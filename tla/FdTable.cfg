SPECIFICATION Safety
CONSTANTS
    Root = root
    Child = {c1}
    Stdin = stdin
    Stdout = stdout
    Stderr = stderr
    Fresh = {f1}
    NoFile = nofile
    MaxFd = 3
    ArgFd = {1, 3}
    Proc <- ProcSet
    File <- FileSet
CHECK_DEADLOCK FALSE
INVARIANTS CountsAreReferences NeverClosedInUse CloexecIsOpen
PROPERTIES NoClobber LifetimeSafety
