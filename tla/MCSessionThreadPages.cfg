SPECIFICATION Spec
CONSTANTS
  History = 3
  PageSize = 2
  MaxPrompts = 2
  MaxParts = 1
  MaxLoads = 1
  MaxBreaks = 0
  MayGo = FALSE
  InOrder = TRUE
CHECK_DEADLOCK FALSE
INVARIANT NothingSkipped
