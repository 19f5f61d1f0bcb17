SPECIFICATION FairSpec
CONSTANTS
  w1 = w1
  w2 = w2
  Workers = {w1, w2}
  MaxRequests = 7
  MaxOutputTokens = 3
  MaxRetries = 1
  RequestInterval = 2
  TokenInterval = 2
  AnswerTokens = {1}
  StageJobs = 4
  MaxCrashes = 1
INVARIANTS Safety EpochWithinBudget SpendAccounted
PROPERTIES UsageBecomesDurable
CHECK_DEADLOCK FALSE
