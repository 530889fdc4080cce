---------------------------- MODULE DecisionEngine ----------------------------
(***************************************************************************)
(* evaluateDecisionV0_1 (packages/decision-engine/src/evaluate.ts): every  *)
(* stop condition that a source report triggers, with the evidence that    *)
(* triggers it, in canonical rank order; MANUAL_REVIEW when there is none. *)
(***************************************************************************)
EXTENDS ReportModel, Subsequences

(* The codes in the order of STOP_REASON_RANK.                             *)
RankOrder ==
  <<"NO_VALID_SELECTION", "CAPABILITY_FAILED", "CAPABILITY_MISSING",
    "CAPABILITY_UNPROVABLE", "SIMULATION_ACQUISITION_FAILED",
    "SIMULATION_MISSING", "SIMULATION_UNPROVABLE",
    "SIMULATION_EXECUTION_FAILED", "SIMULATION_INTERRUPTED",
    "WARNING_PRESENT", "RECEIPT_FAILED", "RECEIPT_SET_INCOMPLETE",
    "OUTCOME_FAILED", "OUTCOME_SET_INCOMPLETE", "COVERAGE_INCOMPLETE",
    "ORDERING_INVALID", "STATE_CONTINUITY_INTERRUPTED",
    "CRITICAL_ALIGNMENT_FAIL", "CRITICAL_ALIGNMENT_REVIEW",
    "REQUIRED_EVIDENCE_FAILED", "REQUIRED_EVIDENCE_MISSING",
    "REQUIRED_EVIDENCE_UNPROVABLE">>

CapabilityCode ==
  [FAILED |-> "CAPABILITY_FAILED", MISSING |-> "CAPABILITY_MISSING",
   UNPROVABLE |-> "CAPABILITY_UNPROVABLE"]

SimulationCode ==
  [FAILED |-> "SIMULATION_ACQUISITION_FAILED",
   MISSING |-> "SIMULATION_MISSING", UNPROVABLE |-> "SIMULATION_UNPROVABLE"]

RequiredEvidenceCode ==
  [FAILED |-> "REQUIRED_EVIDENCE_FAILED",
   MISSING |-> "REQUIRED_EVIDENCE_MISSING",
   UNPROVABLE |-> "REQUIRED_EVIDENCE_UNPROVABLE"]

(* addReason(code, references) when a condition holds: <<code, reference>> *)
(* for each of them.                                                       *)
When(condition, code, references) ==
  {<<code, ref>> : ref \in IF condition THEN references ELSE {}}

Available(component) == component.availability = "AVAILABLE"

(* The reason for evidence that is not there, by why it is not.            *)
AvailabilityReasons(availability, code, reference) ==
  UNION {When(availability = a, code[a], {reference}) : a \in Unavailable}

AcquisitionReasons(source) ==
  When(source.selection = "NOT_SELECTED", "NO_VALID_SELECTION",
       {<<"selection", "status">>})
  \cup AvailabilityReasons(source.capability, CapabilityCode,
                           <<"capability", "availability">>)
  \cup AvailabilityReasons(source.simulation.availability, SimulationCode,
                           <<"simulation", "availability">>)

ComponentReasons(simulation) ==
  UNION {AvailabilityReasons(simulation[name].availability,
                             RequiredEvidenceCode,
                             <<"simulation", name, "availability">>) :
         name \in Components}

(* Slip the runs must notice: an empty list taken for a clean one.         *)
FailuresOnly(simulation, name, emptyCode, failedCode) ==
  When(Available(simulation[name]), failedCode,
       {<<"simulation", name, "items", i>> : i \in simulation[name].failed})

(* An empty list proves nothing, and every failed item is cited.           *)
ListReasons(simulation, name, emptyCode, failedCode) ==
  LET list == simulation[name]
  IN  When(Available(list) /\ list.size = 0, emptyCode,
           {<<"simulation", name, "items">>})
      \cup
      When(Available(list), failedCode,
           {<<"simulation", name, "items", i>> : i \in list.failed})

SimulationReasons(simulation) ==
  When(simulation.executionStatus = "FAILED", "SIMULATION_EXECUTION_FAILED",
       {<<"simulation", "executionStatus">>})
  \cup
  When(simulation.executionStatus = "INTERRUPTED", "SIMULATION_INTERRUPTED",
       {<<"simulation", "executionStatus">>})
  \cup ComponentReasons(simulation)
  \cup
  When(Available(simulation.warnings), "WARNING_PRESENT",
       {<<"simulation", "warnings", "items", i>>
        : i \in Indices(simulation.warnings)})
  \cup ListReasons(simulation, "receipts", "RECEIPT_SET_INCOMPLETE",
                   "RECEIPT_FAILED")
  \cup ListReasons(simulation, "outcomes", "OUTCOME_SET_INCOMPLETE",
                   "OUTCOME_FAILED")
  \cup
  When(Available(simulation.coverage) /\ ~simulation.coverage.holds,
       "COVERAGE_INCOMPLETE", {<<"simulation", "coverage">>})
  \cup
  When(Available(simulation.ordering) /\ ~simulation.ordering.holds,
       "ORDERING_INVALID", {<<"simulation", "ordering">>})
  \cup
  When(Available(simulation.stateContinuity)
         /\ ~simulation.stateContinuity.holds,
       "STATE_CONTINUITY_INTERRUPTED", {<<"simulation", "stateContinuity">>})

AlignmentReasons(checks) ==
  UNION {When(c.critical /\ c.status = "FAIL", "CRITICAL_ALIGNMENT_FAIL",
              c.sourceReferences)
         \cup
         When(c.critical /\ c.status = "REVIEW", "CRITICAL_ALIGNMENT_REVIEW",
              c.sourceReferences) : c \in checks}

CollectReasons(source) ==
  AcquisitionReasons(source)
  \cup (IF Available(source.simulation)
        THEN SimulationReasons(source.simulation) ELSE {})
  \cup AlignmentReasons(source.checks)

(* parseDecisionInputV0_1: no decision without a critical check.           *)
Accepted(source) == CriticalChecks(source) # {}

ManualReview == [status |-> "MANUAL_REVIEW", reasons |-> <<>>]

BuildDecision(reasons) ==
  LET codes == {reason[1] : reason \in reasons}
      order == ItemsAt(RankOrder,
                       {i \in DOMAIN RankOrder : RankOrder[i] \in codes})
  IN  IF reasons = {}
      THEN ManualReview
      ELSE [status |-> "STOP",
            reasons |->
              [i \in DOMAIN order |->
                 [code |-> order[i],
                  sourceReferences |->
                    {reason[2] : reason \in {p \in reasons : p[1] = order[i]}}]]]

EvaluateDecision(source) == BuildDecision(CollectReasons(source))

=============================================================================
