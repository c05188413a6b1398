SPECIFICATION Spec
CONSTANTS
  Kinds <- MCKinds
  MaxDeaths = 2
  MaxCalls = 2
INVARIANT RefusedByOldOnly
INVARIANT TotalIsTold
CHECK_DEADLOCK FALSE
