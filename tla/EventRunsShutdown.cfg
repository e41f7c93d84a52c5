SPECIFICATION Spec
CONSTANTS
  Workers = {w1, w2}
  Handlers = {h1}
  MaxEvents = 2
  MaxAttempts = 1
  MaxDeliveries = 3
  MaxFaults = 1
  NoWorker = NoWorker
  NoRun = NoRun
INVARIANTS InterruptedRunRetried
CHECK_DEADLOCK FALSE
