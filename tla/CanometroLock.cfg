SPECIFICATION Spec
CONSTANTS
  Orders <- RingOrders
  MaxOrders = 2
  MaxPresses = 1
  MaxTime = 2
CHECK_DEADLOCK FALSE
INVARIANT FreeBetweenOperations
