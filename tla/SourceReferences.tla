--------------------------- MODULE SourceReferences ---------------------------
(***************************************************************************)
(* packages/preflight-core/src/source-references.ts: which paths of the    *)
(* report an alignment check may rest on and cite.  A JSON Pointer is the  *)
(* sequence of its segments; a document maps every path that resolves in   *)
(* it to the value found there.  Check identifiers drop their version.     *)
(***************************************************************************)
EXTENDS Integers, FiniteSets, SequencesExt

(* Checks whose evidence lies in the capability, in both, or in the        *)
(* simulation.                                                             *)
CapabilityChecks ==
  {"operation", "account", "inputAsset", "outputAsset", "amountIn",
   "slippage", "allowedProtocol", "recipient", "approvalSpender",
   "approvalAmount"}
JointChecks == {"fundsMovement", "transactionSet", "capabilityIntegrity"}
SimulationChecks ==
  {"warningPresence", "receiptAvailability", "coverage", "ordering",
   "stateContinuity"}

CheckIds == CapabilityChecks \cup JointChecks \cup SimulationChecks

FactRoles == {"expected", "observed", "permitted"}

(* The last segments that name the evidence of a check.                    *)
CapabilityLeaves ==
  [operation |-> {"method", "operation"}, account |-> {"account"},
   inputAsset |-> {"inputAsset"}, outputAsset |-> {"outputAsset"},
   amountIn |-> {"amountIn", "inputAmount"},
   slippage |-> {"maxSlippageBps", "slippageBps"},
   allowedProtocol |-> {"protocolId"}, recipient |-> {"recipient"},
   approvalSpender |->
     {"approvalSpenderExpected", "approvalSpenderObserved", "spender"},
   approvalAmount |-> {"approvalAmount"},
   fundsMovement |-> {"permittedMovements"},
   capabilityIntegrity |-> {"capabilityIntegrity"},
   transactionSet |-> {"expectedTransactionTargets"}]

SimulationLeaves ==
  [fundsMovement |-> {"observedMovements"},
   capabilityIntegrity |-> {"capabilityIntegrity"},
   transactionSet |-> {"observed", "observedTransactionTargets"},
   warningPresence |-> {"warnings"}, receiptAvailability |-> {"receipts"},
   coverage |-> {"coverage", "receiptCoverage"}, ordering |-> {"ordering"},
   stateContinuity |-> {"stateContinuity"}]

IsQuoteRaw(path) ==
  Len(path) >= 3 /\ path[1] = "quotes" /\ path[3] = "raw"
IsCapabilityRaw(path) == IsPrefix(<<"capability", "raw">>, path)
IsListItem(path, list) ==
  Len(path) >= 4 /\ SubSeq(path, 1, 3) = <<"simulation", list, "items">>
IsSimulationRaw(path) ==
  \/ IsPrefix(<<"simulation", "raw">>, path)
  \/ \E component \in {"coverage", "ordering", "stateContinuity"} :
       IsPrefix(<<"simulation", component, "raw">>, path)
  \/ IsListItem(path, "receipts") /\ Len(path) >= 5 /\ path[5] = "raw"
  \/ IsListItem(path, "warnings")

(* Where the fact with this role is to be found.                           *)
FromQuote(check, role) == check = "operation" /\ role = "expected"
FromCapability(check, role) ==
  \/ check \in CapabilityChecks /\ ~FromQuote(check, role)
  \/ check = "fundsMovement" /\ role = "permitted"
  \/ check = "transactionSet" /\ role = "expected"
  \/ check = "capabilityIntegrity"
FromSimulation(check, role) ==
  \/ check \in SimulationChecks \cup {"capabilityIntegrity"}
  \/ check = "fundsMovement" /\ role # "permitted"
  \/ check = "transactionSet" /\ role # "expected"

RawRelevant(check, role, path) ==
  \/ /\ FromQuote(check, role)
     /\ IsQuoteRaw(path)
     /\ Last(path) \in {"method", "operation"}
  \/ /\ FromCapability(check, role)
     /\ IsCapabilityRaw(path)
     /\ Last(path) \in CapabilityLeaves[check]
  \/ /\ FromSimulation(check, role)
     /\ IsSimulationRaw(path)
     /\ \/ Last(path) \in SimulationLeaves[check]
        \/ check = "warningPresence" /\ IsListItem(path, "warnings")

SimulationAvailability(path) ==
  /\ path[1] = "simulation"
  /\ Last(path) = "availability"
  /\ \/ Len(path) = 2
     \/ /\ Len(path) = 3
        /\ path[2] \in {"coverage", "ordering", "outcomes", "receipts",
                        "stateContinuity", "warnings"}

AvailabilityRelevant(check, path) ==
  \/ /\ check \in CapabilityChecks \cup JointChecks
     /\ path = <<"capability", "availability">>
  \/ /\ check \in JointChecks \cup SimulationChecks
     /\ SimulationAvailability(path)

(* parseReference: no segment that belongs to the report itself.           *)
Forbidden ==
  {"__proto__", "constructor", "prototype", "alignment", "decision",
   "display", "extension", "extensions", "limitations", "prose",
   "sourceReferences"}
Parsed(path) == path # <<>> /\ \A i \in DOMAIN path : path[i] \notin Forbidden

(* validateFactReferenceV0_1: a fact rests on a path that may hold such    *)
(* evidence, that resolves, and that holds the value it claims.            *)
FactReferenceValid(document, check, role, fact) ==
  LET path == fact.sourceReference
  IN  /\ Parsed(path)
      /\ IF fact.availability = "AVAILABLE"
         THEN RawRelevant(check, role, path)
         ELSE AvailabilityRelevant(check, path)
      /\ path \in DOMAIN document
      /\ document[path] = IF fact.availability = "AVAILABLE"
                          THEN fact.value ELSE fact.availability

(* What a check may cite besides its facts.                                *)
IntentPrefixes(check) ==
  CASE check = "operation" -> {<<"selection">>}
    [] check \in {"account", "inputAsset", "outputAsset"} ->
         {<<"intent", check>>}
    [] check \in {"amountIn", "approvalAmount"} ->
         {<<"intent", "inputAmount">>}
    [] check = "slippage" -> {<<"intent", "maxSlippageBps">>}
    [] check = "allowedProtocol" -> {<<"intent", "allowedProtocols">>}
    [] check = "recipient" ->
         {<<"intent", "recipient">>, <<"intent", "account">>}
    [] check = "fundsMovement" -> {<<"intent">>}
    [] OTHER -> {}

OutputReferenceRelevant(check, path) ==
  \/ \E role \in FactRoles : RawRelevant(check, role, path)
  \/ AvailabilityRelevant(check, path)
  \/ \E prefix \in IntentPrefixes(check) : IsPrefix(prefix, path)

OutputReferencesValid(document, check, references) ==
  /\ references # {}
  /\ \A path \in references :
       /\ Parsed(path)
       /\ OutputReferenceRelevant(check, path)
       /\ path \in DOMAIN document

=============================================================================
