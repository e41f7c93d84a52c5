SPECIFICATION FairSpec
CONSTANTS
  Workers = {w1}
  Lanes = {l1}
  MaxTasks = 3
  MaxRoots = 1
  MaxAttempts = 1
  MaxInfra = 1
  MaxCopies = 1
  MaxFaults = 2
  Outcomes = {"failed", "broken", "cancelled"}
  RedisLease = FALSE
  Former = Former
  NoOwner = NoOwner
  NoKey = NoKey
  Orphan = Orphan
INVARIANTS  OneSuccessor
PROPERTIES ImplementsLineage EventuallyTerminal
CHECK_DEADLOCK FALSE
