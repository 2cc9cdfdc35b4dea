SPECIFICATION Spec
CONSTANTS
  Candidates = {1, 2}
  MaxLoops = 2
  UniqueActiveIndex = FALSE
  Clients = {k1}
  Modes = {"supervised"}
  LowRisk = {1}
  InitialStatus <- Approved
  DailyLoopBudget = 3
  TokenBudget = 2
  OpenDraftPrLimit = 1
  FailureLimit = 2
  RetryLimit = 1
  TokenUsage = {0}
  Quota <- StartAndCancel
  MaxDay = 0
  MaxCrashes = 0
  MaxErrors = 0
  QuietStart = FALSE
PROPERTIES
  NoPrForCancelledLoop
CHECK_DEADLOCK FALSE
