SPECIFICATION FairSpec
CONSTANTS
  success = success
  failure = failure
  preference = preference
  Candidates <- MCCandidates
  KindOf <- MCKindOf
  SessionOf <- MCSessionOf
  Workers = {w1, w2}
  Keep = 1
  Separators = TRUE
  MaxCalls = 3
  MaxTorn = 1
INVARIANTS TypeOK PromotedOnce LedgeredIsRecallable
PROPERTIES LockComesFree
CHECK_DEADLOCK FALSE
