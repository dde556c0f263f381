SPECIFICATION Spec
CONSTANTS
    k1 = k1
    k2 = k2
    Slots <- OneSlot
    BTimeout = 1
    LockTimeTaker = 2
    LockTimeMaker = 3
    RestoreGrace = 0
    MaxStart = 0
    MaxClock = 4
    StoreErrors = TRUE
    MaxCrashes = 2
INVARIANTS
    AtMostOneFault
    TrackedIsRestorable
    NoFaultAfterAcceptance
    CreditXorFault
    SettledOnce
PROPERTY
    ImplementsSettlement
CHECK_DEADLOCK FALSE
