CONSTANTS
    Chip = "bcm4366c0"
    Null = Null
    Chanspec <- MCChanspec
    Request <- MCRequest
    MaxIoctls = 3
SPECIFICATION IoSpec
INVARIANTS AcknowledgedIsInstalled
PROPERTIES ErrorLeavesMicrocodeAlone
