CONSTANTS
  N = 3
  MaxExtras = 1
SPECIFICATION FairSpec
CHECK_DEADLOCK FALSE
INVARIANTS OnePlace NoOvertaking
PROPERTIES KeepsOutbox QueueDrains
