CONSTANTS
  History = 2
  PageSize = 1
  MaxPrompts = 1
  MaxParts = 1
  MaxLoads = 1
  MaxBreaks = 1
  MayGo = TRUE
  InOrder = TRUE
SPECIFICATION FairSpec
CHECK_DEADLOCK FALSE
INVARIANTS NothingSkipped NotBoth GoneEndsTheRun
PROPERTY LoadEnds
