SPECIFICATION FairSpec
CONSTANTS
  v1 = v1
  v2 = v2
  Values <- TwoValues
  None = None
  Failed = Failed
  MaxEvents = 2
INVARIANTS TypeOK ShownIsTrue NothingLost
PROPERTIES IsCall NoLateWrite OperationReturns WatcherEnds
CHECK_DEADLOCK FALSE
