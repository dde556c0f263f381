SPECIFICATION WaitSpec
CONSTANTS
  Waiters = {"a", "b", "c"}
  Expiration <- MCExpiration
  Cap = 3
  LastTime = 2
INVARIANTS EndsOnce
PROPERTIES WaiterEnds QueueReturns
CHECK_DEADLOCK FALSE
