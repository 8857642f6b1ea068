SPECIFICATION Spec
CONSTANTS
    Root = root
    NoProc = noproc
    Child = {c1, c2}
    RootPid = 1
    PidBase = 10
    ExitArg = {257}
    WaitArg <- AnyOrFirst
    Proc <- ProcSet
CHECK_DEADLOCK FALSE
INVARIANTS ReapsOwnZombie StatusIsExitCode OneParentOnePid
PROPERTIES NoMissedZombie ImplementsWait BlockedWaitReturns
