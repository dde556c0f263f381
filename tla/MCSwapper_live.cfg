SPECIFICATION FairSpec
CONSTANTS
    k1 = k1
    k2 = k2
    Slots <- OneSlot
    BTimeout = 1
    LockTimeTaker = 1
    LockTimeMaker = 1
    RestoreGrace = 0
    MaxStart = 0
    MaxClock = 2
    StoreErrors = TRUE
    MaxCrashes = 1
PROPERTIES
    Resolved
    SearchEnds
CHECK_DEADLOCK FALSE
