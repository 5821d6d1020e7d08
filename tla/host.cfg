SPECIFICATION FairSpec
CONSTANTS
  p1 = p1
  p2 = p2
  i1 = i1
  Workers = {w1}
  Threads = {t1, t2}
  Requests <- Requested
  Plugins <- TwoPlugins
  Infos <- OneInfo
  Info <- SameInfo
  MaxHosts = 1
  None = None
INVARIANTS TypeOK HostsClose ReportedOnce SignalledAreOpen HostIInv CancelIsTaken
PROPERTIES CloseEnds CallsEnd
CHECK_DEADLOCK FALSE
