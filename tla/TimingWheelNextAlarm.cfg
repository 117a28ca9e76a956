\* Two alarms; an interval of two times may have one in each of two levels.
CONSTANTS
  Width = 3
  Configs <- SmallConfigs
  Starts = {0}
  Cells = {c1, c2}
  ClearsCached = FALSE
SPECIFICATION Spec
PROPERTIES
  StopsAtNextAlarm
