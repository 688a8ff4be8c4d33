SPECIFICATION Spec
CONSTANTS
  Client = {c1, c2}
  MaxWorkers = 2
  QueueMax = 1
  MaxBatch = 1
  MaxSignals = 2
INVARIANTS TypeOK ExitClean StorageExclusive
PROPERTIES SignalStops StopRefuses
CHECK_DEADLOCK FALSE
