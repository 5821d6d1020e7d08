SPECIFICATION Spec
CONSTANTS
  Managers = {m1}
  Resources = {root, r1, r2}
  r1 = r1
  r2 = r2
  Root = root
  Programs <- ManyPrograms
  MaxGen = 2
  MaxTouches = 1
  Flushes = {"keep"}
  MaxSnapshots = 3
  Faults = {"provider", "call", "save", "lost", "crash"}
  MaxFaults = 1
VIEW View
INVARIANTS TypeOK CheckpointExact FinalizerGuardsCloud NothingForgotten
PROPERTIES CleanRelease IsJournal TrueWhenCurrent
CHECK_DEADLOCK FALSE
