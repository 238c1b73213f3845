SPECIFICATION Spec
CONSTANTS
  t1 = t1
  t2 = t2
  Terminals = {t1, t2}
  Worlds <- MCWorlds
INVARIANTS TypeOK RunningIsInstalled StatusTellsTruth
PROPERTIES StartRuns StopStops ChangeTakesEffect InitKeepsService
