SPECIFICATION MCSpec
CONSTANTS
  References <- Paths
  Intents <- MCIntents
  Selections <- MCSelections
  Policies <- AllPolicies
  Trees <- MCTrees
  Simulations <- MCSimulations
  EvmAddresses = {"token", "router", "other"}
  MaxChanges = 2
  MaxDeviations = 2
CHECK_DEADLOCK FALSE
INVARIANTS
  ReviewIsSupported
  CleanRunIsReviewed
  FactsAreAccepted
  ReferencesResolve
  OneChangeIsCaught
  LoneAnswerIsConstructed
  TimelineIsFaithful
