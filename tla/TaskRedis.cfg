SPECIFICATION Spec
CONSTANTS
  Workers = {w1, w2}
  Lanes = {l1}
  MaxTasks = 3
  MaxRoots = 1
  MaxAttempts = 1
  MaxInfra = 1
  MaxCopies = 1
  MaxFaults = 1
  Outcomes = {"completed", "failed"}
  RedisLease = TRUE
  Former = Former
  NoOwner = NoOwner
  NoKey = NoKey
  Orphan = Orphan
SYMMETRY WorkerSymmetry
INVARIANTS TypeOK OneSuccessor 
PROPERTIES ImplementsLineage
CHECK_DEADLOCK FALSE
