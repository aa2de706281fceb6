CONSTANTS
    Chip = "bcm4366c0"
    Null = Null
    Chanspec <- MCChanspec
    BwCode <- MCBwCode
    Buf <- MCBuf
    HeapFails = FALSE
    AnyBuffer = FALSE
    Radio <- MCTwoStations
    MaxFrames = 1
    FifoDepth = 1
    Request <- MCForceClean
    MaxIoctls = 2
    InitShm <- MCTwoStreams
SPECIFICATION FairSpec
PROPERTIES HearsAgain CleanDeafTakesEffect
