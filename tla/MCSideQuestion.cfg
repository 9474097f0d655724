CONSTANTS
  MaxFaults = 2
  MaxTurnSteps = 2
SPECIFICATION FairSpec
CHECK_DEADLOCK FALSE
INVARIANTS KeptStaysKept NothingLeftBehind RunningForkIsStopped
PROPERTIES EndIsSeen CallsEnd
