SPECIFICATION FairSpec
CONSTANTS
  Candidates = {1, 2}
  MaxLoops = 3
  UniqueActiveIndex = FALSE
  Clients = {k1}
  Modes = {"auto"}
  LowRisk = {1}
  InitialStatus <- Approved
  DailyLoopBudget = 3
  TokenBudget = 2
  OpenDraftPrLimit = 1
  FailureLimit = 3
  RetryLimit = 2
  TokenUsage = {0}
  Quota <- LivenessQuota
  MaxDay = 0
  MaxCrashes = 0
  MaxErrors = 0
  QuietStart = FALSE
PROPERTIES
  AbortedDrainEnds
  
CHECK_DEADLOCK FALSE
