SPECIFICATION Spec
CONSTANTS
  Workers = {w1, w2}
  Handlers = {h1, h2}
  MaxEvents = 3
  MaxAttempts = 1
  MaxDeliveries = 2
  MaxFaults = 1
  NoWorker = NoWorker
  NoRun = NoRun
SYMMETRY Symmetry
INVARIANTS TypeOK OneRetryPerRun  FinishedNotRepeated
PROPERTIES EndIsFinal
CHECK_DEADLOCK FALSE
