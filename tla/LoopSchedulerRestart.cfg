SPECIFICATION Spec
CONSTANTS
  Candidates = {1, 2}
  MaxLoops = 2
  UniqueActiveIndex = FALSE
  Clients = {k1}
  Modes = {"supervised"}
  LowRisk = {1}
  InitialStatus <- Approved
  DailyLoopBudget = 1
  TokenBudget = 2
  OpenDraftPrLimit = 1
  FailureLimit = 2
  RetryLimit = 1
  TokenUsage = {0}
  Quota <- StartTwice
  MaxDay = 0
  MaxCrashes = 0
  MaxErrors = 0
  QuietStart = FALSE
INVARIANTS
  DailyBudgetHolds
CHECK_DEADLOCK FALSE
