CONSTANTS
    Chip = "bcm4358"
    Null = Null
    Chanspec <- MCChanspec
    BwCode <- MCBwCode
    Buf <- MCBuf
    HeapFails = FALSE
    AnyBuffer = FALSE
    Radio <- MCRadio
    MaxFrames = 2
    FifoDepth = 60
    Request = {}
    MaxIoctls = 0
    InitShm <- MCShm
    Lossy = FALSE
SPECIFICATION RSpec
INVARIANTS ExtractsCompletedFrame
PROPERTIES ImplementsService
