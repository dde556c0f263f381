SPECIFICATION Spec
CONSTANTS
  LotSize = 2
  RateFactor = 2
  Rates = {2, 3, 4}
  Quantities = {2, 4, 6}
  SellQuantities = {3, 4}
  Budgets = {3, 8}
  MaxOrders = 3
  MaxEpochs = 2
INVARIANTS NotCrossed FillsAddUp SlicesTellTheStory
 
CHECK_DEADLOCK FALSE
