CONSTANTS
  N = 3
  MaxExtras = 0
SPECIFICATION Spec
CHECK_DEADLOCK FALSE
INVARIANT EverySendCarriesAllThatWaits
