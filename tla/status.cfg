SPECIFICATION Spec
CONSTANTS
  Managers = {m1}
  Resources = {root, r1, r2}
  r1 = r1
  r2 = r2
  Root = root
  Programs <- ManyPrograms
  MaxGen = 2
  MaxTouches = 0
  Flushes = {}
  MaxSnapshots = 0
  Faults = {}
  MaxFaults = 0
CHECK_DEADLOCK FALSE
INVARIANT TrueStatus
