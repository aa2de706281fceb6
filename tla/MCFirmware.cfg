CONSTANTS
    Chip = "bcm43455c0"
    b1 = b1
    b2 = b2
    b3 = b3
    f1 = f1
    Null = Null
    Buf <- MCBuf
    Frame <- MCFrame
    Chanspec <- MCChanspec
    BwCode <- MCBwCode
    Packet <- MCPacket
    HeapFails = TRUE
    AnyBuffer = TRUE
SPECIFICATION FwSpec
INVARIANTS FwTypeOK ConstructionOK BuffersOwnedOnce WritesInBounds BlocksInPlace
