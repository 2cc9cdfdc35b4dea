SPECIFICATION FairSpec
CONSTANTS
  Runs = {r1, r2}
  Worktrees <- AllWorktrees
  Gates <- KernelGates
  EvalOnlyRuns = {r2}
  TestedRuns = {}
  FixTask = TRUE
  MetaTask = FALSE
  HumanApproval = FALSE
  StrictVerifier = FALSE
  BaselineGates = {2}
  RedOnBase = {}
  MaxFaults = 1
PROPERTIES
  FixEvidenceIsReal
CHECK_DEADLOCK FALSE
