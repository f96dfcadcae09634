SPECIFICATION FairSpec
CONSTANTS
  Browser = {b1}
  MaxMessages = 4
  MaxRestarts = 2
INVARIANTS TypeOK PrefixUntilExpiry SkipsOnlyRemoved IntactUnlessCut
PROPERTY EveryMessageShown
