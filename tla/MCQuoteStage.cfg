SPECIFICATION FairSpec
CONSTANTS
  MaxUint = 3
  Candidates = {1, 2}
  Requests <- MCRequests
  Catalogs <- MCCatalogs
  SourceAnswers <- MCAnswers
  CandidateDeadline = 2
  StageBudgets = {0, 1, 2}
  Horizon = 4
CHECK_DEADLOCK FALSE
INVARIANTS
  PartialResultsSurvive
  SelectionIsBest
  EveryWaitHasADeadline
PROPERTIES
  CollectionEnds
  OutcomesAreFinal
