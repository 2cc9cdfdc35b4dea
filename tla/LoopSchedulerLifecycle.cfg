SPECIFICATION Spec
CONSTANTS
  Candidates = {1, 2}
  MaxLoops = 3
  UniqueActiveIndex = TRUE
  Clients = {k1}
  Modes = {"supervised"}
  LowRisk = {1}
  InitialStatus <- Approved
  DailyLoopBudget = 1
  TokenBudget = 2
  OpenDraftPrLimit = 2
  FailureLimit = 2
  RetryLimit = 1
  TokenUsage = {0, 2}
  Quota <- QuietQuota
  MaxDay = 1
  MaxCrashes = 1
  MaxErrors = 1
  QuietStart = TRUE
INVARIANTS
  DailyBudgetHolds
PROPERTIES
  
  RecoveryLeavesNothingRunning
CHECK_DEADLOCK FALSE
