----------------------------- MODULE ReportSchema -----------------------------
(***************************************************************************)
(* The checks of PreflightReportSchema on a decision                       *)
(* (packages/report-schema/src/report.ts).  They do not call the engine:   *)
(* MANUAL_REVIEW has its own list of requirements, and STOP its own table  *)
(* of expected reasons.  Every reader of a report applies them: the        *)
(* assembler, the HTTP handler, the browser and the credential service.    *)
(***************************************************************************)
EXTENDS ReportModel

STOP_REASON_RANK ==
  [NO_VALID_SELECTION |-> 10, CAPABILITY_FAILED |-> 20,
   CAPABILITY_MISSING |-> 21, CAPABILITY_UNPROVABLE |-> 22,
   SIMULATION_ACQUISITION_FAILED |-> 30, SIMULATION_MISSING |-> 31,
   SIMULATION_UNPROVABLE |-> 32, SIMULATION_EXECUTION_FAILED |-> 40,
   SIMULATION_INTERRUPTED |-> 41, WARNING_PRESENT |-> 50,
   RECEIPT_FAILED |-> 60, RECEIPT_SET_INCOMPLETE |-> 61,
   OUTCOME_FAILED |-> 70, OUTCOME_SET_INCOMPLETE |-> 71,
   COVERAGE_INCOMPLETE |-> 80, ORDERING_INVALID |-> 90,
   STATE_CONTINUITY_INTERRUPTED |-> 100, CRITICAL_ALIGNMENT_FAIL |-> 110,
   CRITICAL_ALIGNMENT_REVIEW |-> 111, REQUIRED_EVIDENCE_FAILED |-> 120,
   REQUIRED_EVIDENCE_MISSING |-> 121, REQUIRED_EVIDENCE_UNPROVABLE |-> 122]

Codes == DOMAIN STOP_REASON_RANK

(* Slip the runs must notice: requirements that hold of a report without   *)
(* any receipt or outcome.                                                 *)
ManualReviewOfNothing(source) ==
  LET simulation == source.simulation
  IN  /\ source.selection = "SELECTED"
      /\ source.capability = "AVAILABLE"
      /\ simulation.availability = "AVAILABLE"
      /\ simulation.executionStatus = "SUCCESS"
      /\ \A name \in Components : simulation[name].availability = "AVAILABLE"
      /\ simulation.warnings.size = 0
      /\ \A name \in {"receipts", "outcomes"} : simulation[name].failed = {}
      /\ \A name \in {"coverage", "ordering", "stateContinuity"} :
           simulation[name].holds
      /\ \A c \in CriticalChecks(source) : c.status = "PASS"

(* validateManualReview, with no issue to report.                          *)
ManualReviewAllowed(source) ==
  LET simulation == source.simulation
  IN  /\ source.selection = "SELECTED"
      /\ source.capability = "AVAILABLE"
      /\ simulation.availability = "AVAILABLE"
      /\ simulation.executionStatus = "SUCCESS"
      /\ \A name \in Components : simulation[name].availability = "AVAILABLE"
      /\ simulation.warnings.size = 0
      /\ \A name \in {"receipts", "outcomes"} :
           simulation[name].size # 0 /\ simulation[name].failed = {}
      /\ simulation.coverage.holds
      /\ simulation.ordering.holds
      /\ simulation.stateContinuity.holds
      /\ CriticalChecks(source) # {}
      /\ \A c \in CriticalChecks(source) : c.status = "PASS"

(* collectStopExpectations, one code at a time: the references a reason    *)
(* with that code must cite, none when the code is not triggered.          *)
AvailabilityExpectation(source, a, code) ==
  CASE code \in {"CAPABILITY_FAILED", "CAPABILITY_MISSING",
                 "CAPABILITY_UNPROVABLE"} ->
         IF source.capability = a
         THEN {<<"capability", "availability">>} ELSE {}
    [] code \in {"SIMULATION_ACQUISITION_FAILED", "SIMULATION_MISSING",
                 "SIMULATION_UNPROVABLE"} ->
         IF source.simulation.availability = a
         THEN {<<"simulation", "availability">>} ELSE {}
    [] OTHER ->
         {<<"simulation", name, "availability">> :
          name \in {n \in Components :
                      /\ source.simulation.availability = "AVAILABLE"
                      /\ source.simulation[n].availability = a}}

ListExpectation(simulation, name, code) ==
  LET list == simulation[name]
  IN  IF list.availability # "AVAILABLE" THEN {}
      ELSE CASE code \in {"RECEIPT_SET_INCOMPLETE",
                          "OUTCOME_SET_INCOMPLETE"} ->
                  IF list.size = 0 THEN {<<"simulation", name, "items">>} ELSE {}
             [] code = "WARNING_PRESENT" ->
                  {<<"simulation", name, "items", i>> : i \in Indices(list)}
             [] OTHER ->
                  {<<"simulation", name, "items", i>> : i \in list.failed}

FlagExpectation(simulation, name) ==
  IF simulation[name].availability = "AVAILABLE" /\ ~simulation[name].holds
  THEN {<<"simulation", name>>} ELSE {}

SimulationExpectation(simulation, code) ==
  CASE code = "SIMULATION_EXECUTION_FAILED" ->
         IF simulation.executionStatus = "FAILED"
         THEN {<<"simulation", "executionStatus">>} ELSE {}
    [] code = "SIMULATION_INTERRUPTED" ->
         IF simulation.executionStatus = "INTERRUPTED"
         THEN {<<"simulation", "executionStatus">>} ELSE {}
    [] code = "WARNING_PRESENT" ->
         ListExpectation(simulation, "warnings", code)
    [] code \in {"RECEIPT_FAILED", "RECEIPT_SET_INCOMPLETE"} ->
         ListExpectation(simulation, "receipts", code)
    [] code \in {"OUTCOME_FAILED", "OUTCOME_SET_INCOMPLETE"} ->
         ListExpectation(simulation, "outcomes", code)
    [] code = "COVERAGE_INCOMPLETE" -> FlagExpectation(simulation, "coverage")
    [] code = "ORDERING_INVALID" -> FlagExpectation(simulation, "ordering")
    [] OTHER -> FlagExpectation(simulation, "stateContinuity")

StopExpectation(source, code) ==
  CASE code = "NO_VALID_SELECTION" ->
         IF source.selection = "NOT_SELECTED"
         THEN {<<"selection", "status">>} ELSE {}
    [] code \in {"CAPABILITY_FAILED", "SIMULATION_ACQUISITION_FAILED",
                 "REQUIRED_EVIDENCE_FAILED"} ->
         AvailabilityExpectation(source, "FAILED", code)
    [] code \in {"CAPABILITY_MISSING", "SIMULATION_MISSING",
                 "REQUIRED_EVIDENCE_MISSING"} ->
         AvailabilityExpectation(source, "MISSING", code)
    [] code \in {"CAPABILITY_UNPROVABLE", "SIMULATION_UNPROVABLE",
                 "REQUIRED_EVIDENCE_UNPROVABLE"} ->
         AvailabilityExpectation(source, "UNPROVABLE", code)
    [] code = "CRITICAL_ALIGNMENT_FAIL" ->
         UNION {c.sourceReferences :
                c \in {k \in CriticalChecks(source) : k.status = "FAIL"}}
    [] code = "CRITICAL_ALIGNMENT_REVIEW" ->
         UNION {c.sourceReferences :
                c \in {k \in CriticalChecks(source) : k.status = "REVIEW"}}
    [] OTHER ->
         IF source.simulation.availability = "AVAILABLE"
         THEN SimulationExpectation(source.simulation, code) ELSE {}

(* Slip: reasons that are checked one by one, and never for omissions.     *)
StopReasonsJustified(source, reasons) ==
  /\ reasons # <<>>
  /\ \A i \in 1 .. Len(reasons) - 1 :
       STOP_REASON_RANK[reasons[i].code] < STOP_REASON_RANK[reasons[i + 1].code]
  /\ \A i \in 1 .. Len(reasons) :
       /\ reasons[i].sourceReferences # {}
       /\ reasons[i].sourceReferences
            = StopExpectation(source, reasons[i].code)

(* validateStopReasonReferences: rank order, no code twice, no reason      *)
(* without a trigger, exactly the triggering references, none omitted; a   *)
(* STOP has at least one reason.                                           *)
StopReasonsValid(source, reasons) ==
  LET code(i) == reasons[i].code
  IN  /\ reasons # <<>>
      /\ \A i \in 1 .. Len(reasons) - 1 :
           STOP_REASON_RANK[code(i)] < STOP_REASON_RANK[code(i + 1)]
      /\ \A i \in 1 .. Len(reasons) :
           /\ reasons[i].sourceReferences # {}
           /\ reasons[i].sourceReferences = StopExpectation(source, code(i))
      /\ \A c \in Codes : StopExpectation(source, c) # {} =>
           \E i \in 1 .. Len(reasons) : code(i) = c

DecisionValid(source, decision) ==
  IF decision.status = "MANUAL_REVIEW"
  THEN ManualReviewAllowed(source)
  ELSE StopReasonsValid(source, decision.reasons)

=============================================================================
