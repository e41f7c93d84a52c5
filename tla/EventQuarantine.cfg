SPECIFICATION QSpec
CONSTANTS
  MaxMsgs = 2
  Procs = {p1}
  Tokens = {t1, t2, t3}
  MaxRetries = 2
  DlqMax = 2
  MaxFaults = 2
  CrashQuarantine = TRUE
  BadPayload = {}
  BadFormat = {}
  Leaving = {}
  Former = Former
  NoProc = NoProc
  NoToken = NoToken
  NoLease = NoLease
SYMMETRY Symmetry
INVARIANTS SettledBeforeRedelivery
 
