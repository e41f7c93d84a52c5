SPECIFICATION FairSpec
CONSTANTS
  MaxMsgs = 2
  Procs = {p1}
  Tokens = {t1, t2, t3}
  MaxRetries = 2
  DlqMax = 1
  MaxFaults = 2
  CrashQuarantine = FALSE
  BadPayload = {2}
  BadFormat = {}
  Leaving = {p1}
  Former = Former
  NoProc = NoProc
  NoToken = NoToken
  NoLease = NoLease
INVARIANTS RetryLeft NothingLost HolderUnlessLapsed LastAttemptAccurate
PROPERTIES EventuallySettled
