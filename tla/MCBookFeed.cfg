SPECIFICATION Spec
CONSTANTS
  oA = oA
  oB = oB
  Orders <- MCOrders
  Lots = 2
  MaxEpochs = 2
  MaxMishaps = 1
INVARIANTS StorageMatchesBook RouterCopiesBook ClientFollowsRouter
CHECK_DEADLOCK FALSE
