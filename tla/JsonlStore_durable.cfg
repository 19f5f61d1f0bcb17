SPECIFICATION Spec
CONSTANTS
  r1 = r1
  r2 = r2
  r3 = r3
  s1 = s1
  s2 = s2
  None = None
  Records = {r1, r2, r3}
  Stores = {s1, s2}
  PowerLoss = TRUE
  MaxChunks = 4
INVARIANTS Safety
PROPERTIES ImplementsDurableLog
SYMMETRY Symmetry
CHECK_DEADLOCK FALSE
