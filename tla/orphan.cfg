SPECIFICATION Spec
CONSTANTS
  p1 = p1
  p2 = p2
  i1 = i1
  Workers = {w1}
  Threads = {t1}
  Requests <- ProvidersOnly
  Plugins <- TwoPlugins
  Infos <- OneInfo
  Info <- SameInfo
  MaxHosts = 1
  None = None
INVARIANT LoadedIsAll
CHECK_DEADLOCK FALSE
