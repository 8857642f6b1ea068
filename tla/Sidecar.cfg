SPECIFICATION Spec
CONSTANTS
    Proc = {p1, p2}
    Name = {"a", "b"}
    TmpName = {"b"}
    Op = {"stat", "create", "symlink", "unlink", "setmeta"}
    Together = {"stat", "create"}
    Inode = {i1, i2, i3}
    MaxCrash = 2
    None = none
CHECK_DEADLOCK FALSE
SYMMETRY Sym
INVARIANTS AckedKept NoTmpLeft
