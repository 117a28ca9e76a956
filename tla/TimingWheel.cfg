\* Three alarms on wheels over eight times; a wheel is cleared when no minimum
\* is cached.
CONSTANTS
  Width = 3
  Configs <- SmallConfigs
  Starts = {0}
  Cells = {c1, c2, c3}
  ClearsCached = FALSE
SYMMETRY Symmetry
SPECIFICATION Spec
INVARIANTS
  WheelConsistent
  MinFound
PROPERTIES
  StopsInFirstInterval
  ImplementsAlarmSet
