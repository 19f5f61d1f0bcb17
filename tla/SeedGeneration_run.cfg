SPECIFICATION FairSpec
CONSTANTS
  Requests = {q1, q2, q3, q4, q5}
  Workers = {w1, w2}
  Targets = {3, 4}
  Offset = 1
  LegacyRows = {q1}
  Rounds = 3
  Quarantine = TRUE
  NoIndex = NoIndex
  MaxRejections = 2
INVARIANTS SeedSafety
PROPERTIES RunEnds
CHECK_DEADLOCK FALSE
