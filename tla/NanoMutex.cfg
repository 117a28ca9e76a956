\* Three threads and two mutexes that share the pool of blockers; a thread that has
\* one mutex does not wait for the other.  No symmetry, since liveness is checked.
CONSTANTS
  Threads = {t1, t2, t3}
  Mutexes = {m1, m2}
  Blockers = {b1, b2, b3}
  NoThread = NoThread
  NoMutex = NoMutex
  NoBlocker = NoBlocker
  LockOrder <- NoNesting
SPECIFICATION FairSpec
INVARIANTS
  MutualExclusion
  BlockerInOnePlace
  NoLostWakeup
PROPERTIES
  ImplementsMutexSpec
