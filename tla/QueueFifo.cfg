SPECIFICATION Spec
CONSTANTS
  Http = {h1}
  MaxItems = 3
CHECK_DEADLOCK FALSE
INVARIANT Fifo
