SPECIFICATION Spec
CONSTANTS
  MaxCommands = 3
  Seconds = 1
CHECK_DEADLOCK FALSE
INVARIANT ResetStops
