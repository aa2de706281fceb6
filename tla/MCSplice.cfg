CONSTANTS
    Chip = "bcm43455c0"
    Null = Null
    Chanspec <- MCChanspec
    BwCode <- MCBwCode
    Buf <- MCBuf
    HeapFails = FALSE
    AnyBuffer = FALSE
    Radio <- MCRadio
    MaxFrames = 2
    FifoDepth = 1
    Request = {}
    MaxIoctls = 0
    InitShm <- MCStationA
SPECIFICATION Spec
INVARIANTS OneMeasurementPerPacket
