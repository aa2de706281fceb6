CONSTANTS
    Null = Null
    Interface = {i1, i2}
    SDPCM_SEQ_WRAP = 8
    TXCTL_CREDITS = 2
    TXQLEN = 3
    TXHI = 3
    TXLOW = 1
    RXBOUND = 1
    TXBOUND = 2
    TXMINMAX = 1
    Glom = 2
    Credits = 2
    Load <- MCLoad
    Caller = {c1}
    IdMod = 2
SPECIFICATION FairSpec
INVARIANTS
    TypeOK
    AnswersOwnRequest
    UnsentNeverSent
    WindowKept
    NothingForgotten
    PendCoversFlight
    StopIsKnown
PROPERTIES
    CallsReturn
    StoppedIsReleased
    DropsOnlyBehindStale
\* The system stops when the frames and requests of its load are through.
CHECK_DEADLOCK FALSE
