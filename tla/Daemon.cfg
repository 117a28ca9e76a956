\* The program exits well or badly, any process is killed at any time.
CONSTANTS
  Codes = {0, 1}
  Signals <- KillingSignals
SPECIFICATION DaemonFairSpec
INVARIANTS
  VerdictJustified
  DetachedWhenTold
  ReleaseHarmless
PROPERTIES
  VerdictReached
