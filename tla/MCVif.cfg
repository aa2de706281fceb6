CONSTANTS
    Null = Null
    Bss = {0, 2, 3}
    Ifidx = {0, 1, 2}
    Ifp = {1, 2, 3, 4}
    Vif = {1, 2, 3, 4}
    Load <- MCLoad
SPECIFICATION FairSpec
INVARIANTS
    TypeOK
    TableIsLive
    RegisteredHasVif
    HandlerFindsVif
    AgreesWithChip
PROPERTIES
    NoneFreedTwice
    CallsReturn
    EventsHandled
\* The system stops when the calls of its load are through.
CHECK_DEADLOCK FALSE
