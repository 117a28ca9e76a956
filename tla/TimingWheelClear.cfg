\* A wheel is cleared at any time.
CONSTANTS
  Width = 3
  Configs <- SmallConfigs
  Starts = {0}
  Cells = {c1, c2}
  ClearsCached = TRUE
SPECIFICATION Spec
INVARIANTS
  MinFound
