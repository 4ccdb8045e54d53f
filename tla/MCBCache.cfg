SPECIFICATION FairSpec
CONSTANTS
    Procs = {p1, p2}
    Blocks = {b1, b2, b3}
    Vals = {v0, v1}
    NBUF = 2
    MaxPinned = 1
    NoProc = NoProc
    NoBlock = NoBlock
INVARIANTS BCacheInv PanicOnlyWhenExhausted
PROPERTIES ImplementsLockedStore SleepersWoken
CHECK_DEADLOCK FALSE
