SPECIFICATION FairSpec
CONSTANTS
    Procs = {p1, p2}
    Creator = p1
    Bytes = {b0}
    NoProc = NoProc
    PIPESIZE = 1
    UintMod = 2
    MaxN = 2
    Killed = {p1}
PROPERTY CallsReturn
CHECK_DEADLOCK FALSE
