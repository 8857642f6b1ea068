SPECIFICATION PSpec
CONSTANTS
    Root = shell
    Writer = writer
    Reader = reader
    Stdin = stdin
    Stdout = stdout
    Stderr = stderr
    PipeR = r
    PipeW = w
    NoFile = nofile
    MaxFd = 4
    ArgFd = {0, 1, 3, 4}
    Bytes = 3
    Limits = {1, 4}
    Capacity = 1
    MayFault = {writer}
    Proc <- ProcSet
    File <- FileSet
CHECK_DEADLOCK FALSE
INVARIANT NoEarlyEof
PROPERTIES ImplementsLifetime ExitEmptiesTable PipelineEnds DeathIsNoticed
