SPECIFICATION FairSpec
CONSTANTS
  Configured <- FourManagers
  Networked = TRUE
  Sends <- FourSends
  MaxRequests = 2
CHECK_DEADLOCK FALSE
INVARIANTS TypeOK RequestAccounting FanOutComplete DeliveredInOrder
PROPERTIES EveryRequestAnswered ExitEndsProgram
