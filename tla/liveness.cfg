SPECIFICATION FairSpec
CONSTANTS
  Managers = {m1}
  Resources = {root, r1}
  r1 = r1
  r2 = r2
  Root = root
  Programs <- OnOff
  MaxGen = 2
  MaxTouches = 0
  Flushes = {}
  MaxSnapshots = 0
  Faults = {"provider", "call", "save", "lost", "crash"}
  MaxFaults = 2
CHECK_DEADLOCK FALSE
PROPERTIES DeletionCompletes Settles ObservedEventually Converges
