SPECIFICATION FairSpec
CONSTANTS
  Candidates = {1, 2}
  MaxLoops = 2
  UniqueActiveIndex = TRUE
  Clients = {k1, k2}
  Keys = {1}
  Bodies = {1}
  Quota <- ServiceQuota
  MaxErrors = 1
  MaxCrashes = 1
INVARIANTS
  TypeOK
  NoDuplicateJob
  DrivenLoopHasDriver
  CancelledRunIsAborted
  CancelDuringRunSticks
PROPERTIES
  QueuedLoopIsServed
CHECK_DEADLOCK FALSE
