SPECIFICATION Spec
CONSTANTS
  Configured <- ConsoleAndChrono
  Networked = FALSE
  Sends <- EarlySends
  MaxRequests = 1
CHECK_DEADLOCK FALSE
INVARIANT ReadyWhenDispatched
