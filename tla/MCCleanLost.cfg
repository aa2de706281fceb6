CONSTANTS
    Chip = "bcm43455c0"
    Null = Null
    Chanspec <- MCChanspec
    BwCode <- MCBwCode
    Buf <- MCBuf
    HeapFails = FALSE
    AnyBuffer = FALSE
    Radio <- MCTwoStations
    MaxFrames = 2
    FifoDepth = 1
    Request <- MCForceClean
    MaxIoctls = 2
    InitShm <- MCStationA
SPECIFICATION FairSpec
PROPERTIES CleanDeafTakesEffect
