CONSTANTS
    Options <- CliOptions
    Totals = {1, 2}
    Patches <- SmallPatches
    MaxCandidates = 3
    MaxFaults = 2
    MaxIssues = 2
SPECIFICATION Spec
INVARIANTS
    TypeOK
    
    PickIsBest
    StackFollowsBranch
PROPERTIES
    InterruptedPromotesNothing
    ReportIsEarned
CHECK_DEADLOCK FALSE
