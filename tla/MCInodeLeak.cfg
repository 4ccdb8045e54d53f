SPECIFICATION TSpec
CONSTANTS
    p1 = p1
    p2 = p2
    Callers = {p1, p2}
    Names = {"a", "d"}
    NI = 2
    NFILE = 1
    NOFILE = 2
    Starts <- MCFresh
    Calls <- MCCalls
    MaxCalls = 4
    MayCrash = FALSE
    None = None
INVARIANT NoOrphans
CHECK_DEADLOCK FALSE
