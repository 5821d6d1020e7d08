SPECIFICATION FairSpec
CONSTANTS
  p1 = p1
  p2 = p2
  i1 = i1
  Workers = {w1, w2}
  Threads = {t1}
  Requests <- ProvidersOnly
  Plugins <- OnePlugin
  Infos <- OneInfo
  Info <- SameInfo
  MaxHosts = 2
  None = None
PROPERTY CancelReturns
CHECK_DEADLOCK FALSE
