SPECIFICATION FairSpec
CONSTANTS
  MaxCommands = 7
  Seconds = 2
CHECK_DEADLOCK FALSE
INVARIANTS TypeOK RunningClockTicks
PROPERTIES IntermediateEnds FinalShown
