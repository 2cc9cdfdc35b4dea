SPECIFICATION Spec
CONSTANTS
  Loops = {l1}
  Callers = {k1, k2, k3}
  MaxCalls = 4
  MaxFaults = 2
SYMMETRY Symmetric
INVARIANTS
  TypeOK
  CreatingHasCaller
  RecordedDraftExists
  LonelyCallSucceeds
PROPERTIES
  RecordedDraftStays
  SecondRowNeedsOverlap
CHECK_DEADLOCK FALSE
