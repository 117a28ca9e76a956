\* One block of the heap and one outside it, each of which may be under both keys.  No
\* symmetry, since liveness is checked.
CONSTANTS
  Keys = {k1, k2}
  Data = {d1, d2}
  Static = {d2}
  Entries = {e1, e2}
  None = None
  MaxCleanups = 2
  MaxQueue = 2
  MaxDepth = 1
SPECIFICATION FairSpec
INVARIANTS
  StoredDataFound
  UnusedKeysKnown
PROPERTIES
  UnusedKeysReclaimed
