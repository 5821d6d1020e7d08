SPECIFICATION Spec
CONSTANTS
  Managers = {m1, m2}
  Resources = {root, r1}
  Root = root
  Programs <- OneProgram
  MaxGen = 1
  MaxTouches = 0
  Flushes = {"keep", "forget"}
  MaxSnapshots = 5
  Faults = {}
  MaxFaults = 0
  r1 = r1
  r2 = r2
INVARIANT Sound
PROPERTY SnapshotNeverGoesBackwards
CONSTRAINT Early
VIEW View
SYMMETRY ManagerSymmetry
CHECK_DEADLOCK FALSE
