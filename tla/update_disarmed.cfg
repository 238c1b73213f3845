SPECIFICATION Spec
CONSTANTS
  v1 = v1
  v2 = v2
  v3 = v3
  Versions = {v1, v2, v3}
  Original = v1
  Worlds <- MCPlainWorlds
  MaxUpdateAttempts = 3
  MaxUpdates = 1
  Missing = Missing
  Corrupt = Corrupt
INVARIANTS RollbackArmed
