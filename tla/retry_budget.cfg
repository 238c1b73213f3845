SPECIFICATION BudgetSpec
CONSTANTS
  Procs = {d}
  Daemons = {d}
  Paths = {x}
  Contents = {a}
  Oversized = {}
  IgnoreChoices = {{}}
  MaxRetryAttempts = 2
  Faults = {}
  Nil = Nil
INVARIANTS AutomaticRetriesStop
