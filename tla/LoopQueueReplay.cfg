SPECIFICATION Spec
CONSTANTS
  Candidates = {1}
  MaxLoops = 2
  UniqueActiveIndex = TRUE
  Clients = {k1, k2}
  Keys = {1}
  Bodies = {1, 2}
  Quota <- CreateTwice
  MaxErrors = 0
  MaxCrashes = 0
PROPERTIES
  ReplayReturnsTheLoop
CHECK_DEADLOCK FALSE
