SPECIFICATION FairSpec
CONSTANTS
  v1 = v1
  v2 = v2
  v3 = v3
  Versions = {v1, v2, v3}
  Original = v1
  MaxUpdateAttempts = 3
  MaxUpdates = 4
  Missing = Missing
  Corrupt = Corrupt
  Worlds <- MCWorlds
INVARIANTS TypeOK NeverStranded SomeCopyRemains
PROPERTIES RollbackHasFullBudget NoRollbackOfProven ImplementsRegister CrashLoopEnds
CHECK_DEADLOCK FALSE
