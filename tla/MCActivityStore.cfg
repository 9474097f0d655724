CONSTANTS
  Turns = {1}
  Requests = {2}
  EndIds = {1, 2}
  None = None
  Limit = 1
  Age = 2
  MaxTime = 3
  StartTimes = {0, 1}
  RequestTimes = {0}
SPECIFICATION Spec
CHECK_DEADLOCK FALSE
INVARIANTS EndIsTold AnsweredIsQuiet
PROPERTIES ToldOnce UnansweredStays
