SPECIFICATION FairSpec
CONSTANTS
  Runs = {r1, r2}
  Worktrees <- AllWorktrees
  Gates <- KernelGates
  EvalOnlyRuns = {r2}
  TestedRuns = {r1}
  FixTask = FALSE
  MetaTask = FALSE
  HumanApproval = FALSE
  StrictVerifier = FALSE
  BaselineGates = {2}
  RedOnBase = {}
  MaxFaults = 1
INVARIANTS
  TypeOK
  LockExclusive
  ReturnedLeavesNoWorktree
  
  EvaluatedTreeIsQuiet
  RecordsAgree
PROPERTIES
  AcceptIsEarned
  AbortedRunIsNotJudged
  
CHECK_DEADLOCK FALSE
