SPECIFICATION Spec
CONSTANTS
  References <- Paths
  Intents <- OneIntent
  Selections <- SoundSelections
  Policies <- MCPolicies
  Trees <- FewTrees
  Simulations <- MCSimulations
  EvmAddresses = {"token", "router", "other"}
  MaxChanges = 2
  MaxDeviations = 0
CHECK_DEADLOCK FALSE
INVARIANTS
  IntegrityEvidenceStops
