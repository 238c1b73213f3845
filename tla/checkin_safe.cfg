SPECIFICATION Spec
CONSTANTS
  Keys = {k1, k2, k3}
  FirstKey = k1
  Folders = {root, f}
  Root = root
  Intervals = {15, 30}
  DefaultInterval = 15
  Commands = {"folders","init"}
  Faults = {"crash","save","lost"}
  None = None
INVARIANTS TypeOK KeyOnDiskValid RootNotWatched
PROPERTIES NoFailureForgotten
