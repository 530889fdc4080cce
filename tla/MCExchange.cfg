SPECIFICATION ExchangeSpec
CONSTANTS
  MaxRuns = 2
  MaxRequest = 2
  MaxResponse = 4
  MaxDeploys = 1
  Requests <- MCRequests
  Results <- MCResults
  PageResults <- MCPageResults
CHECK_DEADLOCK FALSE
INVARIANTS
  ResponsesAreAccepted
  DeliveredIfSound
  ShownIsServed
  VerdictIsOfTheCopy
