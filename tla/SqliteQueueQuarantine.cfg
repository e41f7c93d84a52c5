SPECIFICATION Spec
CONSTANTS
  MaxMsgs = 2
  Procs = {p1, p2}
  Tokens = {t1, t2, t3}
  MaxRetries = 2
  DlqMax = 1
  MaxFaults = 1
  CrashQuarantine = TRUE
  BadPayload = {}
  BadFormat = {2}
  Leaving = {p1, p2}
  Former = Former
  NoProc = NoProc
  NoToken = NoToken
  NoLease = NoLease
SYMMETRY Symmetry
INVARIANTS TypeOK NoInheritedAloneMark HolderUnlessLapsed RetryLeft
