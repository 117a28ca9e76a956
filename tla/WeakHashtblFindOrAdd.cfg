\* The instance of WeakHashtbl.cfg.
CONSTANTS
  Keys = {k1, k2}
  Data = {d1, d2}
  Static = {d2}
  Entries = {e1, e2}
  None = None
  MaxCleanups = 2
  MaxQueue = 2
  MaxDepth = 1
SPECIFICATION FairSpec
PROPERTY AddedIsFound
