SPECIFICATION FairSpec
CONSTANTS
  Workers = {w1, w2}
  Clients = {c1}
  Tasks = {t1, t2, t3}
  NoTask = NoTask
INVARIANT PoolInv
PROPERTIES ImplementsWorkerPool TasksRun
CHECK_DEADLOCK FALSE
