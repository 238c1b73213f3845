SPECIFICATION Spec
CONSTANTS
  Procs = {d}
  Daemons = {d}
  Paths = {x}
  Contents = {a, b}
  Oversized = {}
  IgnoreChoices = {{}}
  MaxRetryAttempts = 2
  Faults = {"race"}
  Nil = Nil
INVARIANTS NoMissedChange
