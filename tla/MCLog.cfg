SPECIFICATION FairSpec
CONSTANTS
    Procs = {p1, p2}
    Blocks = {b1, b2, b3}
    Vals = {v0, v1}
    NoProc = NoProc
    NoVal = NoVal
    MAXOPBLOCKS = 2
    LOGSIZE = 4
    NLog = 4
    OpBlocks = 1
INVARIANTS IInv NoPanic
PROPERTIES ImplementsAtomicDisk SleeperIsWoken CommitFinishes
