SPECIFICATION FairSpec
CONSTANTS
  Keys = {k1, k2}
  FirstKey = k1
  Folders = {root, f}
  Root = root
  Intervals = {15, 30}
  DefaultInterval = 15
  Commands = {"folders"}
  Faults = {"lost", "overlap"}
  None = None
INVARIANTS ReportsRunningConfig
PROPERTIES EditApplied RotationCompletes
