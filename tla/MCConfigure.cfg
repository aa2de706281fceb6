CONSTANTS
    Chip = "bcm43455c0"
    Null = Null
    Chanspec <- MCChanspec
    BwCode <- MCBwCode
    Buf <- MCTwoBuffers
    HeapFails = TRUE
    AnyBuffer = FALSE
    Radio <- MCTwoStations
    MaxFrames = 2
    FifoDepth = 1
    Request <- MCSetAB
    MaxIoctls = 2
    InitShm <- MCReset
SPECIFICATION Spec
INVARIANTS TypeOK HookAssumptionsMet SpliceNeedsBurst CsiConfReadable FrameControlOfFrame AcknowledgedConfigHolds
