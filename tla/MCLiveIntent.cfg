SPECIFICATION Spec
CONSTANTS
  References <- Paths
  Intents <- MCIntents
  Selections <- SoundSelections
  Policies <- MCPolicies
  Trees <- MCTrees
  Simulations <- MCSimulations
  EvmAddresses = {"token", "router", "other"}
  MaxChanges = 0
  MaxDeviations = 0
CHECK_DEADLOCK FALSE
INVARIANTS
  IntentMismatchStops
