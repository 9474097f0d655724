CONSTANTS
  MaxCaptures = 2
  MaxExtras = 1
SPECIFICATION Spec
CHECK_DEADLOCK FALSE
INVARIANTS MicIsReleased TurnIsTheOperators OnlyItsReplyIsRead ScreenIsHeld
