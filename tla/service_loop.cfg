SPECIFICATION FairSpec
CONSTANTS
  Cap = 2
  MaxEvents = 4
  FaultSets <- MCFaultSets
  Unreadable = Unreadable
INVARIANTS TypeOK LogNewestFirst LogComplete
PROPERTIES TermIsGraceful TermEnds CheckInsGoOn RoundsGoOn
