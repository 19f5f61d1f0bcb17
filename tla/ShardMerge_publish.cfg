SPECIFICATION MergeSpec
CONSTANTS
  Seeds = {1, 2, 3}
  Minimum = 2
  Missing = none
  none = none
  Mergers = {m1, m2}
  Inputs <- MCInputs
  Settings <- MCSettings
INVARIANTS PublishedMergeIsSound GoldIsWhole ReadinessAgrees
PROPERTIES TargetNeverReplaced
CHECK_DEADLOCK FALSE
SYMMETRY Symmetry
