SPECIFICATION Spec
CONSTANTS
    NumPages = 2
    PageSize = 2
    Unit = {"op", "jump", "sys"}
    Perms = {{"w", "x"}, {"w"}}
    Zero = "op"
    Long = {"jump"}
    Branch = {"jump"}
    Hook = {"sys"}
    Slots = 1
    MaxBlock = 2
    MaxGen = 2
    None = "none"
CHECK_DEADLOCK FALSE
INVARIANTS CachesCurrent BlockFollowsRip
PROPERTY ImplementsPlain
