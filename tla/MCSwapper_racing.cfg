SPECIFICATION Spec
CONSTANTS
    k1 = k1
    k2 = k2
    Slots <- TwoSlots
    BTimeout = 1
    LockTimeTaker = 1
    LockTimeMaker = 1
    RestoreGrace = 0
    MaxStart = 0
    MaxClock = 2
    StoreErrors = TRUE
    MaxCrashes = 0
INVARIANTS
    OneSearchPerAction
    MakerGetsFullTimeout
CHECK_DEADLOCK FALSE
SYMMETRY SlotSymmetry
