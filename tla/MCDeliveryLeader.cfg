CONSTANTS
  None = None
  Id = {t1, t2, t3}
  Throttled = {t3}
  Lease = 2
  MaxRefusals = 1
SPECIFICATION LeaseFairSpec
CHECK_DEADLOCK FALSE
INVARIANT OneActs
PROPERTIES HoldsOneByOne LeaderComes
