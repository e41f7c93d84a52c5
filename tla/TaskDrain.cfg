SPECIFICATION Spec
CONSTANTS
  Workers = {w1, w2}
  Lanes = {l1}
  MaxTasks = 2
  MaxRoots = 1
  MaxAttempts = 1
  MaxInfra = 1
  MaxCopies = 1
  MaxFaults = 1
  Outcomes = {"completed", "failed"}
  RedisLease = TRUE
  Former = Former
  NoOwner = NoOwner
  NoKey = NoKey
  Orphan = Orphan
PROPERTIES ReapedOnlyWhenDead
CHECK_DEADLOCK FALSE
