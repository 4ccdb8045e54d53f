SPECIFICATION USpec
CONSTANTS
    Procs = {p1, p2}
    p1 = p1
    p2 = p2
    initproc = p1
    PGSIZE = 8
    FAN = 3
    NPAGES = 17
    UintMod = 192
    Uint64Mod = 1024
    ALIGN = 2
    MAXARG = 3
    ExecCalls <- MCExecCalls
    Deltas <- MCDeltas
    Addrs <- MCAddrs
    CopyAddrs <- MCCopyAddrs
    CopyLens = {1, 3, 9}
    MaxCalls = 4
    MAXARGS = 3
    Commands <- MCCommands
    LineChars = {"a", " ", "|", "<", ">", "&", ";", "(", ")"}
    MaxLine = 5
    NPROC = 6
    NPIPE = 2
    NOFILE = 5
    CAP = 1
    Bytes = 2
    MaxLines = 2
    HEAP = 2
    TOP = 12
    MINUNITS = 3
    INTUNITS = 16
    Sizes = {2, 4}
    Gap = 1
    M = 4
    Chars = {0, 1, 2}
    DIRSIZ = 2
    Slash = 1
    Width = 5
    PatChars = {"a", ".", "*", "^", "$"}
    MaxPat = 3
    TextChars = {"a", " ", "nl"}
    MaxText = 4
    BUF = 4
INVARIANTS MemoryInv SeesItsMemory ParsesLine ShellInv HeapInv StringsExact TextExact
PROPERTIES ArgumentsReachMain PromptReturns OrphansReaped
CHECK_DEADLOCK FALSE
