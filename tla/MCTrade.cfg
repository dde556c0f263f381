SPECIFICATION Spec
CONSTANTS
  AccountSides <- MCAccountSides
  MaxFaults = 1
  SecondAudits = FALSE
  WalletDown = FALSE
INVARIANTS  NoneLeftWaiting 
PROPERTIES ImplementsAtomicSwap SwapsOnce
CHECK_DEADLOCK FALSE
