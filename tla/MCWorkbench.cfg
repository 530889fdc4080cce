SPECIFICATION FairSpec
CONSTANT MaxRuns = 3
CHECK_DEADLOCK FALSE
INVARIANTS
  TypeOK
  ActiveRunIsShown
  OneRequestAtATime
  SourceIsTheChosenOne
  RecoveryIsHonest
PROPERTIES
  ScreenSettles
  FailureIsRetained
  ImplementsContract
