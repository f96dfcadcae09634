SPECIFICATION FairSpec
CONSTANTS
  Orders <- RingOrders
  MaxOrders = 2
  MaxPresses = 2
  MaxTime = 2
CHECK_DEADLOCK FALSE
INVARIANTS TypeOK LockAccounted SyncExact
PROPERTIES MarksConverge HandlerReturns OneUserAtATime
