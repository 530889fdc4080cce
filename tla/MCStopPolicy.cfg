SPECIFICATION Spec
CONSTANTS
  References = {ref1, ref2}
  Sources <- MCSources
  MaxDeviations = 2
CHECK_DEADLOCK FALSE
INVARIANTS
  EngineIsNeverRefused
  ReadersSeeTheEngineDecision
  NoReviewOverStopEvidence
