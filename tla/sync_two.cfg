SPECIFICATION Spec
CONSTANTS
  Procs = {d, c}
  Daemons = {d}
  Paths = {x}
  Contents = {a, b, big}
  Oversized = {big}
  IgnoreChoices = {{}, {x}}
  MaxRetryAttempts = 2
  Faults = {"crash", "persist", "load", "hash", "walk", "unmount"}
  Nil = Nil
SYMMETRY ContentSymmetry
INVARIANTS TypeOK ManifestBacked NoMissedChange
