SPECIFICATION Spec
CONSTANTS
  None = None
  Seeds = {a}
  FirstSeeds = {a}
  StageSeeds <- Stages
  GoldFloor = 1
  TaskCount = 2
  MaxRounds = 2
  Texts = {x}
  Restores = TRUE
INVARIANTS HistoryRecoverable Safety HiddenRowsAreFlagged
SYMMETRY Symmetry
CHECK_DEADLOCK FALSE
