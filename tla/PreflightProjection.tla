-------------------------- MODULE PreflightProjection --------------------------
(***************************************************************************)
(* projectPreflightReportV0_1 (apps/web/src/server/preflight-projection.ts)*)
(* turns what the stages of a LIVE run acquired into a source report: the  *)
(* public evidence, the contexts kept beside the raw evidence, and the     *)
(* observations the alignment checks rest on.                              *)
(*                                                                         *)
(* stages.quote, .capability and .simulation say how each stage ended;     *)
(* .policy is the session's capability policy, .snapshot the tree as the   *)
(* action returned it, .tree the same object now, .evidence the mapped     *)
(* simulation.                                                             *)
(***************************************************************************)
EXTENDS MossEvidence, Alignment, DecisionEngine, ReportSchema

Method == "swap"   \* the only method a quote request asks for

Selected(stages) == stages.quote = "SELECTED"
HasCapability(stages) == stages.capability = "AVAILABLE"
HasSimulation(stages) == stages.simulation = "AVAILABLE"

(* approvalFacts: no approve node, or one whose spender can be read.       *)
ApprovalProven(tree) ==
  \/ Len(tree.approvals) = 0
  \/ Len(tree.approvals) = 1 /\ tree.approvals[1] # "MALFORMED"

Spender(tree) ==
  IF ApprovalProven(tree) /\ Len(tree.approvals) = 1
  THEN tree.approvals[1] ELSE "NONE"

(* What constructCapabilityV0_1 compared with the policy.                  *)
AsExpected(policy, snapshot) ==
  /\ snapshot.capabilityNodes = policy.capabilityNodes
  /\ Len(snapshot.transactions) = policy.transactionNodes
  /\ Targets(snapshot.transactions) = policy.targets

(* Slip: the integrity of the tree without a look at what it is now.       *)
IntegrityAtConstruction(tree, snapshot) == TRUE

(* verifyCurrentIntegrity: the object still has the digest it had.         *)
VerifyCurrentIntegrity(tree, snapshot) ==
  CurrentDigest(tree) = {Content(snapshot)}

(* projectCapability: the context of an available capability.              *)
CapabilityContext(stages) ==
  LET intent == stages.intent
      tree == stages.tree
      spender == Spender(tree)
  IN  [operation |-> Method, account |-> intent.account,
       inputAsset |-> intent.inputAsset, outputAsset |-> intent.outputAsset,
       amountIn |-> intent.inputAmount,
       slippageBps |-> intent.maxSlippageBps,
       protocolId |-> stages.policy.protocolId,
       recipient |-> intent.recipient,
       approvalSpenderExpected |-> spender,
       approvalSpenderObserved |-> spender,
       approvalAmount |->
         [amount |-> IF spender = "NONE" THEN {} ELSE {intent.inputAmount},
          unbounded |-> FALSE],
       permittedMovements |-> NativeMovements(tree.transactions),
       capabilityIntegrity |->
         IF /\ VerifyCurrentIntegrity(tree, stages.snapshot)
            /\ AsExpected(stages.policy, stages.snapshot)
         THEN "PROVEN" ELSE "FAILED",
       expectedTransactionTargets |-> stages.policy.targets]

(* projectSimulation: the lists and flags a reader of the report sees.     *)
Statuses(results, kind) ==
  LET receipted == Receipted(results)
  IN  [availability |-> "AVAILABLE", size |-> Len(receipted),
       failed |-> {i - 1 : i \in {j \in DOMAIN receipted :
                                    receipted[j][kind] # "SUCCESS"}}]

Proof(status) == [availability |-> "AVAILABLE", holds |-> status = "PROVEN"]

ExecutionFailed(results) ==
  \/ Statuses(results, "receipt").failed # {}
  \/ Statuses(results, "outcome").failed # {}
  \/ Warned(results, "REVERTED")

AvailableSimulation(evidence) ==
  LET results == evidence.results
      continuity == evidence.stateContinuity
  IN  [availability |-> "AVAILABLE",
       executionStatus |-> CASE continuity = "FAILED" -> "INTERRUPTED"
                             [] continuity # "FAILED"
                                /\ ExecutionFailed(results) -> "FAILED"
                             [] OTHER -> "SUCCESS",
       warnings |-> [availability |-> "AVAILABLE",
                     size |-> Cardinality(Warnings(results)), failed |-> {}],
       receipts |-> Statuses(results, "receipt"),
       outcomes |-> Statuses(results, "outcome"),
       coverage |-> Proof(evidence.receiptCoverage),
       ordering |-> Proof(evidence.ordering),
       stateContinuity |->
         [availability |-> "AVAILABLE",
          holds |-> continuity \in {"PROVEN", "NOT_APPLICABLE"}]]

(* Evidence that is not there has no components.                           *)
MissingSimulation(availability) ==
  LET none == [availability |-> availability, size |-> 0, failed |-> {}]
      never == [availability |-> availability, holds |-> FALSE]
  IN  [availability |-> availability, executionStatus |-> "FAILED",
       warnings |-> none, receipts |-> none, outcomes |-> none,
       coverage |-> never, ordering |-> never, stateContinuity |-> never]

ProjectSimulation(stages) ==
  IF HasSimulation(stages) THEN AvailableSimulation(stages.evidence)
  ELSE MissingSimulation(stages.simulation)

ProvenOrFailed(status) == IF status = "PROVEN" THEN "PROVEN" ELSE "FAILED"

SimulationContext(stages) ==
  LET evidence == stages.evidence
      results == evidence.results
      transactions == [i \in DOMAIN results |-> results[i].transaction]
      receipts == Statuses(results, "receipt")
  IN  [observedMovements |-> NativeMovements(transactions),
       observedTransactionTargets |->
         [i \in DOMAIN results |-> results[i].transaction.to],
       warnings |-> Cardinality(Warnings(results)),
       receipts |-> [expectedCount |-> Len(stages.snapshot.transactions),
                     observedCount |-> receipts.size,
                     allSuccessful |-> receipts.failed = {}],
       coverage |-> ProvenOrFailed(evidence.receiptCoverage),
       ordering |-> ProvenOrFailed(evidence.ordering),
       stateContinuity |-> evidence.stateContinuity]

-----------------------------------------------------------------------------
(* alignmentObservations.  A gap has the availability of its evidence, or  *)
(* UNPROVABLE when the evidence is there and does not show the fact.       *)
Gap(component, availability) ==
  [availability |-> IF availability = "AVAILABLE"
                    THEN "UNPROVABLE" ELSE availability,
   sourceReference |-> <<component, "availability">>, value |-> "NONE"]

AvailableFact(value, path) ==
  [availability |-> "AVAILABLE", sourceReference |-> path, value |-> value]

(* Slip: the path of a context value without the context.                  *)
FactFromRaw(component, availability, context, key) ==
  IF availability = "AVAILABLE"
  THEN AvailableFact(context[key], <<component, "raw", key>>)
  ELSE Gap(component, availability)

(* A fact from a context, which is there when its component is.            *)
FactFrom(component, availability, context, key) ==
  IF availability = "AVAILABLE"
  THEN AvailableFact(context[key], <<component, "raw", "context", key>>)
  ELSE Gap(component, availability)

QuotePath == <<"quotes", "0", "raw", "context", "operation">>

AlignmentObservations(stages) ==
  LET seen(fact) == [observed |-> fact]
      capContext == CapabilityContext(stages)
      simContext == SimulationContext(stages)
      capability(key) ==
        FactFrom("capability", stages.capability, capContext, key)
      simulation(key) ==
        FactFrom("simulation", stages.simulation, simContext, key)
      approval(key) ==
        IF HasCapability(stages) /\ ~ApprovalProven(stages.tree)
        THEN Gap("capability", stages.capability) ELSE capability(key)
  IN  [operation |->
         [expected |-> IF Selected(stages) THEN AvailableFact(Method, QuotePath)
                       ELSE Gap("capability", stages.capability),
          observed |-> capability("operation")],
       account |-> seen(capability("account")),
       inputAsset |-> seen(capability("inputAsset")),
       outputAsset |-> seen(capability("outputAsset")),
       amountIn |-> seen(capability("amountIn")),
       slippage |-> seen(capability("slippageBps")),
       allowedProtocol |-> seen(capability("protocolId")),
       recipient |-> seen(capability("recipient")),
       approvalSpender |->
         [expected |-> approval("approvalSpenderExpected"),
          observed |-> approval("approvalSpenderObserved")],
       approvalAmount |-> seen(approval("approvalAmount")),
       fundsMovement |-> [permitted |-> capability("permittedMovements"),
                          observed |-> simulation("observedMovements")],
       capabilityIntegrity |-> seen(capability("capabilityIntegrity")),
       transactionSet |->
         [expected |-> capability("expectedTransactionTargets"),
          observed |-> simulation("observedTransactionTargets")],
       warningPresence |-> seen(simulation("warnings")),
       receiptAvailability |-> seen(simulation("receipts")),
       coverage |-> seen(simulation("coverage")),
       ordering |-> seen(simulation("ordering")),
       stateContinuity |-> seen(simulation("stateContinuity"))]

(* The paths of the report that exist, with what they hold.                *)
IntentPaths(intent) ==
  {"account", "inputAsset", "outputAsset", "inputAmount", "maxSlippageBps",
   "allowedProtocols"} \cup (IF intent.recipientGiven THEN {"recipient"} ELSE {})

ContextPaths(component, context) ==
  {<<component, "raw", "context", key>> : key \in DOMAIN context}

Document(stages) ==
  LET intent == stages.intent
      context == [capability |-> CapabilityContext(stages),
                  simulation |-> SimulationContext(stages)]
      paths ==
        {<<"intent">>, <<"selection">>,
         <<"capability", "availability">>, <<"simulation", "availability">>}
        \cup {<<"intent", key>> : key \in IntentPaths(intent)}
        \cup (IF Selected(stages) THEN {QuotePath} ELSE {})
        \cup (IF HasCapability(stages)
              THEN ContextPaths("capability", context.capability) ELSE {})
        \cup (IF HasSimulation(stages)
              THEN ContextPaths("simulation", context.simulation) ELSE {})
  IN  [path \in paths |->
         IF path = <<"intent">> THEN intent
         ELSE IF path[1] = "intent" THEN intent[path[2]]
         ELSE IF path[1] = "selection" THEN stages.quote
         ELSE IF path = QuotePath THEN Method
         ELSE IF path[2] = "availability" THEN stages[path[1]]
         ELSE context[path[1]][path[4]]]

AlignmentInput(stages) ==
  [intent |-> stages.intent, simulation |-> ProjectSimulation(stages),
   observations |-> AlignmentObservations(stages),
   document |-> Document(stages)]

(* SimulationSchema.parse refuses a null outcome, evaluateAlignmentV0_1 an *)
(* input outside its schema.                                               *)
ProjectionAccepted(stages, EvmAddresses) ==
  /\ HasSimulation(stages) =>
       \A i \in DOMAIN Receipted(stages.evidence.results) :
         Receipted(stages.evidence.results)[i].outcome # "NULL"
  /\ AlignmentInputAccepted(AlignmentInput(stages), EvmAddresses)

ProjectReport(stages) ==
  [selection |-> IF Selected(stages) THEN "SELECTED" ELSE "NOT_SELECTED",
   capability |-> stages.capability,
   simulation |-> ProjectSimulation(stages),
   checks |-> EvaluateAlignment(AlignmentInput(stages))]

=============================================================================
