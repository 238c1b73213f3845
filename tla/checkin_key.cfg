SPECIFICATION Spec
CONSTANTS
  Keys = {k1, k2}
  FirstKey = k1
  Folders = {root, f}
  Root = root
  Intervals = {15}
  DefaultInterval = 15
  Commands = {"folders"}
  Faults = {"overlap"}
  None = None
INVARIANTS KeyOnDiskValid
