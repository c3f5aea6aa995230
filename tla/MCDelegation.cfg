SPECIFICATION FairSpec
CONSTANTS
  t1 = t1
  t2 = t2
  t3 = t3
  Ids = {t1, t2, t3}
  SplitGoals = {t3}
  Callers = {main, host}
  Batches <- SomeBatches
  MaxWorkers = 1
  CanCrash = TRUE
  MaxRuns = 2
INVARIANTS TypeOK OneLiveRun ActiveMeansLive PendingIsLive
PROPERTY CallsReturn
CHECK_DEADLOCK FALSE
