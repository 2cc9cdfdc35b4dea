SPECIFICATION Spec
CONSTANTS
  Candidates = {1, 2}
  MaxLoops = 2
  UniqueActiveIndex = FALSE
  Clients = {k1}
  Modes = {"supervised"}
  LowRisk = {1}
  InitialStatus <- Approved
  DailyLoopBudget = 3
  TokenBudget = 2
  OpenDraftPrLimit = 1
  FailureLimit = 2
  RetryLimit = 1
  TokenUsage = {0}
  Quota <- StartOnce
  MaxDay = 0
  MaxCrashes = 1
  MaxErrors = 0
  QuietStart = FALSE
PROPERTIES
  RecoveryLeavesNoZombieLoop
CHECK_DEADLOCK FALSE
