SPECIFICATION FSpec
CONSTANTS
    p1 = p1
    p2 = p2
    f1 = f1
    f2 = f2
    Callers = {p1, p2}
    Names = {"a", "d"}
    NI = 4
    NFILE = 2
    NOFILE = 2
    Starts <- MCStarts
    Calls <- MCCalls
    MaxCalls = 4
    MayCrash = TRUE
    None = None
    Writers = {p1, p2}
    Byte <- MCByte
    Files = {f1, f2}
    Ip <- MCIp
    FilesOf <- MCFilesOf
    Contents <- MCContents
    BSIZE = 2
    NDIRECT = 2
    NBLOCKS = 7
    NINODES = 3
    Lengths <- MCLengths
    Uint = 16
    MAXOPBLOCKS = 6
    BPB = 1
    MaxIO = 3
    Procs = {p1, p2}
    Creator = p1
    Bytes = {b0, b1}
    NoProc = NoProc
    PIPESIZE = 2
    UintMod = 4
    MaxN = 2
    Killed = {p1}
INVARIANTS TreeSound RefCountsExact NoLocksInCircle BlocksSound FilesReadBack ChunksFit PipeInv
PROPERTIES ImplementsFifo EofOnlyAtEnd
CHECK_DEADLOCK FALSE
