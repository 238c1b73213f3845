SPECIFICATION Spec
CONSTANTS
  Names <- MCNames
  Dotted = {1}
  Locks = {4}
  Trees <- MCTrees
  PatternSets <- MCPatternSets
INVARIANTS TypeOK ScanFindsAll ErrorsReported IgnoredSubtree
CHECK_DEADLOCK FALSE
