SPECIFICATION FairSpec
CONSTANTS
  Workers = {w1, w2, w3}
  MaxLeases = 1
INVARIANTS TypeOK ExclusiveUnlessStolen
PROPERTIES AskReturns DeadLeaseIsReclaimed
CHECK_DEADLOCK FALSE
