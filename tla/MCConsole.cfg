SPECIFICATION MCSpec
CONSTANTS
    Readers = {p1}
    Writers = {p2}
    Intr = Intr
    Printf = Printf
    NBytes = 4
    INPUT_BUF = 3
    UintMod = 6
    UART_TX_BUF_SIZE = 2
    Uint64Mod = 4
    BsEcho = 3
    ReadSizes = {2}
    Killed = {p1}
    None = None
INVARIANT ConsoleInv
PROPERTIES ImplementsLines OutputInOrder
