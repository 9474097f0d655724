CONSTANTS
  Tab = {t1, t2, t3}
  Alert = {a1}
  Timely = {"events", "messages"}
  MaxFaults = 1
SPECIFICATION FairSpec
CHECK_DEADLOCK FALSE
INVARIANTS RaisedOnce DeliveredWasShown
PROPERTY AlertComes
