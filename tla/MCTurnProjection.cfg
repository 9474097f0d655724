CONSTANTS
  MaxTurns = 2
  MaxReplies = 2
  MaxAsides = 1
  ShownFirst = TRUE
SPECIFICATION Spec
CHECK_DEADLOCK FALSE
INVARIANTS OnlyTheRunIsOpen RunReadsOpen TurnKeepsItsEnd GroupsAgree
