CONSTANTS
  Sessions = {s1, s2}
  Interviews = {i1}
  Agent = a
  Creator = c
  None = None
  MaxAsks = 3
  MaxFails = 1
SPECIFICATION FairSpec
CHECK_DEADLOCK FALSE
INVARIANTS LatestWins DraftIsShown DraftIsItsAgents
 
