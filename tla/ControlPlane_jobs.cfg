SPECIFICATION FairSpec
CONSTANTS
  Runs = {r1, r2}
  Bases <- MCBases
  Offsets = {0, 3, 5}
  NoRun = NoRun
  MaxJobs = 3
  MaxReconnects = 1
  AttachFails = FALSE
INVARIANTS Safety ReservationsDisjoint
PROPERTIES StoppedStaysStopped NothingLingers
CHECK_DEADLOCK FALSE
