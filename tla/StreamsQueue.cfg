SPECIFICATION Spec
CONSTANTS
  MaxIds = 2
  MaxSends = 2
  Procs = {p1, p2}
  MaxRetries = 2
  Batch = 2
  MaxLen = 1
  HardMaxLen = 2
  MaxFaults = 1
  BadPayload = {}
  Leaving = {p1, p2}
  Window = FALSE
  Former = Former
  NoProc = NoProc
SYMMETRY Symmetry
INVARIANTS  StartsBounded 
PROPERTIES PendingSpared
