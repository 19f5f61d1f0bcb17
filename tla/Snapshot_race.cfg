SPECIFICATION SnapshotSpec
CONSTANTS
  Commands = {p1, p2}
  Collections = {1, 2}
  Bytes <- MCBytes
  RawCount <- MCRawCount
  ReadyOnes = {1, 2}
  MaxPartitions = 2
  Nothing = Nothing
  Gold <- MCGold
  Sidecars <- MCSidecars
INVARIANTS SnapshotIsOnePartition
PROPERTIES SnapshotNeverReplaced SuccessIsVerified
CHECK_DEADLOCK FALSE
SYMMETRY Symmetry
