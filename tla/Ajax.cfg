SPECIFICATION FairSpec
CONSTANTS
  OperatorEvents <- RoundEvents
  LocalCommands <- LocalMarks
  MaxEvents = 4
  MaxLocal = 2
  MaxBatch = 2
CHECK_DEADLOCK FALSE
INVARIANTS TypeOK ScoreAgrees EventsOnce
PROPERTIES EventsReachHub UnlicensedExits
