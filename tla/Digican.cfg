SPECIFICATION Spec
CONSTANTS
  Orders <- RoundOrders
  Calls <- RoundCalls
  MaxOrders = 4
  MaxLines = 2
CHECK_DEADLOCK FALSE
INVARIANTS TypeOK CountsArePanel MarksShown
