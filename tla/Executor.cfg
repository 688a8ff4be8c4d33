CONSTANTS
  Worker = {w1, w2, w3}
  Task = {t1, t2, t3, t4}
  Stopper = {s1, s2}
  NoTask = NoTask
  Low = 1
  High = 3
  MaxQueue = 2
SPECIFICATION Spec
INVARIANTS
  TypeOK
  NoOrphanTask
  PoolAccounted
  StopMeansStopped
PROPERTIES
  AcceptedTasksRun
  StopReturns
