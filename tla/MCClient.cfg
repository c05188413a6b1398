SPECIFICATION Spec
CONSTANTS
  Kinds <- MCKinds
  MaxDeaths = 2
  MaxCalls = 2
INVARIANT CachesAreOfThisDaemon
INVARIANT InStep
INVARIANT RightPage
INVARIANT OneEndSurvived
PROPERTY Answered
CHECK_DEADLOCK FALSE
