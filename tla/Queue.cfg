SPECIFICATION Spec
CONSTANTS
  Http = {h1, h2}
  MaxItems = 4
CHECK_DEADLOCK FALSE
INVARIANTS TypeOK NoUseAfterFree
PROPERTY AtMostOnceInOrder
