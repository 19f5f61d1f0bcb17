SPECIFICATION Spec
CONSTANTS
  Seeds = {1, 2}
  Tasks = 2
  Contracts <- MCContracts
  MaxRounds = 1
  MaxStagnant = 1
  MaxFailures = 2
  MaxRetries = 1
  Cooldown = 1
  Policies = {"collect", "gate"}
  Bindings = {"current", "schema1", "binding1"}
  MaxCrashes = 1
  MaxEpochs = 2
  MaxLimits = 1
  MaxOffline = 1
INVARIANTS CompleteIsReady RetriesBounded QuotaEndIsPartitioned EventsLeadStatus
PROPERTIES RunEnds
CHECK_DEADLOCK FALSE
