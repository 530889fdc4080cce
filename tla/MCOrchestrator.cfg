SPECIFICATION MCSpec
CONSTANTS
  TotalTimeout = 9
  QuoteTimeout = 4
  Reserve = 1
  Horizon = 12
CHECK_DEADLOCK FALSE
INVARIANTS
  TypeOK
  NoStageAfterFailure
  ManualReviewIsEarned
  AbortMeansTimeout
  LateTimersKeepReserve
  ReserveIsEnough
PROPERTIES
  EveryRunAnswers
  AnswerIsFinal
  ImplementsContract
