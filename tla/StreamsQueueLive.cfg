SPECIFICATION FairSpec
CONSTANTS
  MaxIds = 3
  MaxSends = 2
  Procs = {p1}
  MaxRetries = 1
  Batch = 2
  MaxLen = 1
  HardMaxLen = 2
  MaxFaults = 1
  BadPayload = {2}
  Leaving = {p1}
  Window = TRUE
  Former = Former
  NoProc = NoProc
INVARIANTS TypeOK Conserved
PROPERTIES EventuallySettled
