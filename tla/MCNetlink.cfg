CONSTANTS
    Null = Null
    Bss = {0, 2, 3}
    Ifidx = {0, 1, 2}
    Ifp = {1, 2, 3, 4}
    Vif = {1, 2, 3, 4}
    Load <- MCStale
SPECIFICATION FairSpec
INVARIANT NetlinkInterfaceIsLive
CHECK_DEADLOCK FALSE
