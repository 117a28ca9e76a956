\* Two threads may sleep on a condition while a third feeds the queue.  No
\* symmetry, since liveness is checked.
CONSTANTS
  Threads = {t1, t2, t3}
  NoThread = NoThread
  Elements = {e1, e2}
  Batches <- OneOrTwo
  MaxSizes = {0, 1, 2}
SPECIFICATION FairSpec
INVARIANTS
  NoLostWakeup
PROPERTIES
  ImplementsBoundedQueueSpec
