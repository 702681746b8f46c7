SPECIFICATION FairSpec
CONSTANTS
  NumWorkers = 2
  Callers <- TwoCallers
  Tasks <- FourTasks
  Idle = Idle
  c1 = c1
  c2 = c2
  t1 = t1
  t2 = t2
  t3 = t3
  t4 = t4
INVARIANTS
  TypeOK
  FifoDispatch
  RunOnce
  DrainedOnJoin
  WorkConserving
  NoSleeperLeftBehind
PROPERTIES
  ShutdownReturns
  ImplementsTaskQueue
