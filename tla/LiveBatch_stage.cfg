SPECIFICATION BatchSpec
CONSTANTS
  a = a
  b = b
  c = c
  copy = copy
  held = held
  None = None
  Stages <- MCStages
  Manifests <- MCManifests
  TaskOf <- MCTaskOf
  HeldOut <- MCHeldOut
  MinimumRate = 50
  Outcomes = {"good", "weakened", "toolError", "noLint", "unsafe"}
  OutcomeOf <- MCOutcomeOf
  MaxRuns = 2
  MaxWorkspaces = 4
  MaxPartitions = 1
INVARIANTS GoldIsProven StageOpensAfterPass PartitionIsExact
PROPERTIES GoldNeverRewritten
CHECK_DEADLOCK FALSE
SYMMETRY Symmetry
