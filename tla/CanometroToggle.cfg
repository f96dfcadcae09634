SPECIFICATION Spec
CONSTANTS
  Orders <- ManualStart
  MaxOrders = 2
  MaxPresses = 1
  MaxTime = 2
CHECK_DEADLOCK FALSE
PROPERTY StartKeepsRunning
