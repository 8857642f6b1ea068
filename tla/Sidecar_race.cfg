SPECIFICATION Spec
CONSTANTS
    Proc = {p1, p2}
    Name = {"a", "b"}
    TmpName = {}
    Op = {"stat"}
    Together = {"stat"}
    Inode = {i1, i2, i3}
    MaxCrash = 0
    None = none
CHECK_DEADLOCK FALSE
INVARIANT AckedKeptByAll
