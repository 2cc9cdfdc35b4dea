SPECIFICATION Spec
CONSTANTS
  Candidates = {1, 2}
  MaxLoops = 2
  UniqueActiveIndex = FALSE
  Clients = {k1}
  Modes = {"auto"}
  LowRisk = {1}
  InitialStatus <- FirstProposed
  DailyLoopBudget = 3
  TokenBudget = 2
  OpenDraftPrLimit = 1
  FailureLimit = 2
  RetryLimit = 1
  TokenUsage = {0, 2}
  Quota <- SafetyQuota
  MaxDay = 0
  MaxCrashes = 0
  MaxErrors = 0
  QuietStart = FALSE
INVARIANTS
  TypeOK
  RunningCandidateIsDrained
  ActiveLoopIsDrained
  CurrentLoopIsDrained
  PrOnlyForUncancelledLoop
  RetriesBounded
PROPERTIES
  KillSwitchHolds
  
CHECK_DEADLOCK FALSE
