CONSTANTS
    oA = oA
    MaxEpoch = 4
    MarketOrders <- MCOrders
    Epochs <- MCEpochs
    Dur = 2
    MaxTime = 8
    MaxSuspends = 1
    MaxResumes = 1
    Failures = TRUE
SPECIFICATION FairSpec
INVARIANTS NeverPastFinalEpoch
PROPERTIES SuspendIsKept NoOrderLeftBehind CleanStopDropsOnlyLateOrders BookAtRestWhenSuspended ImplementsQueue
CHECK_DEADLOCK FALSE
