SPECIFICATION FairSpec
CONSTANTS
  Seeds = {a, b}
  Workers = {w1, w2}
  TaskCount = 2
  Classes = {e}
  MaxFailureRetries = 1
  None = None
  MaxLosses = 1
  MaxOverrides = 1
INVARIANTS Safety
PROPERTIES NothingSentAfterSignal RunEnds
CHECK_DEADLOCK FALSE
