SPECIFICATION FairRounds
CONSTANTS
  Procs = {d}
  Daemons = {d}
  Paths = {x, y}
  Contents = {a, b}
  Oversized = {}
  IgnoreChoices = {{}}
  MaxRetryAttempts = 2
  Faults = {"crash", "unmount"}
  Nil = Nil
INVARIANTS RoundSettles
PROPERTIES ImplementsLedger RecordedNotReuploaded EventuallySynced
