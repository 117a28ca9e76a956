\* Two machines; a pid is in use again after a restart, and start times tell.  No
\* symmetry, since liveness is checked.
CONSTANTS
  Procs = {p1, p2}
  HostOf <- OwnHost
  Pids = {1}
  Inodes = {i1, i2, i3}
  NoFile = NoFile
  Empty = Empty
  HasSysinfo = TRUE
  MaxEnds = 1
  MaxErrors = 1
SPECIFICATION FairSpec
INVARIANTS
  Exclusion
  LockIsOurs
PROPERTIES
  StaleReclaimed
