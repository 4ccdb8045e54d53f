SPECIFICATION FairSpec
CONSTANTS
    Bufs = {b1, b2, b3}
    NUM = 8
    Uint16 = 8
    None = None
    Handler = Handler
    Watched = b1
INVARIANT VirtioInv
PROPERTY RequestsFinish
