------------------------------ MODULE StopPolicy ------------------------------
(***************************************************************************)
(* From a source report to a report somebody reads.  The assembler         *)
(* (packages/preflight-core/src/assembler.ts) evaluates the decision and   *)
(* validates the whole report.  What a reader parses (the browser, the     *)
(* fixture service, the credential service) may be that report, or one     *)
(* whose decision another producer wrote: a stored fixture, a report of an *)
(* engine that has drifted from the schema.  Every reader validates it.    *)
(***************************************************************************)
EXTENDS SequencesExt, DecisionEngine, ReportSchema

CONSTANT Sources   \* the source reports of the model

(* A source report has passed DecisionInputV0_1Schema, critical check      *)
(* apart.                                                                  *)
ASSUME SourcesAssumption ==
  \A report \in Sources : report \in Source /\ WellFormed(report)

VARIABLES
  source,     \* everything in the report except the decision
  decision,   \* the decision, once there is one
  at          \* how far the report has come

vars == <<source, decision, at>>

NoDecision == [status |-> "NONE", reasons |-> <<>>]

Init ==
  /\ source \in Sources
  /\ decision = NoDecision
  /\ at = "SOURCE"

(* evaluateDecisionV0_1 throws on an input without a critical check.       *)
Evaluate ==
  /\ at = "SOURCE"
  /\ IF Accepted(source)
     THEN /\ decision' = EvaluateDecision(source)
          /\ at' = "DECIDED"
     ELSE /\ at' = "INVALID_DECISION_INPUT"
          /\ UNCHANGED decision
  /\ UNCHANGED source

(* PreflightReportSchema.safeParse at the end of the assembler.            *)
Assemble ==
  /\ at = "DECIDED"
  /\ at' = IF DecisionValid(source, decision)
           THEN "REPORT" ELSE "INVALID_PREFLIGHT_REPORT"
  /\ UNCHANGED <<source, decision>>

(* Decisions another producer may write beside the same evidence: a reason *)
(* or a reference too few or too many, a reason twice, another order, or   *)
(* MANUAL_REVIEW.                                                          *)
OtherDecisions(d) ==
  LET reasons == d.reasons
      refs(i) == reasons[i].sourceReferences
      stop(rs) == [status |-> "STOP", reasons |-> rs]
      cite(i, cited) ==
        stop([reasons EXCEPT ![i] = [code |-> reasons[i].code,
                                     sourceReferences |-> cited]])
      spurious(code) ==
        [code |-> code, sourceReferences |-> {<<"selection", "status">>}]
  IN  {ManualReview}
      \cup {stop(RemoveAt(reasons, i)) : i \in DOMAIN reasons}
      \cup {stop(Append(reasons, reasons[i])) : i \in DOMAIN reasons}
      \cup {stop(Append(reasons, spurious(code))) : code \in Codes}
      \cup {stop(Reverse(reasons))}
      \cup UNION {{cite(i, refs(i) \ {ref}) : ref \in refs(i)}
                  \cup {cite(i, refs(i) \cup {<<"simulation", "coverage">>})}
                  : i \in DOMAIN reasons}

(* A reader is handed the report, or one with another decision.            *)
Travel ==
  /\ at = "REPORT"
  /\ at' = "RECEIVED"
  /\ decision' \in {decision} \cup OtherDecisions(decision)
  /\ UNCHANGED source

(* PreflightReportSchema.parse by the reader.                              *)
Read ==
  /\ at = "RECEIVED"
  /\ at' = IF DecisionValid(source, decision) THEN "READ" ELSE "REFUSED"
  /\ UNCHANGED <<source, decision>>

Next == Evaluate \/ Assemble \/ Travel \/ Read

Spec == Init /\ [][Next]_vars

-----------------------------------------------------------------------------
Points == {"SOURCE", "DECIDED", "REPORT", "RECEIVED", "READ", "REFUSED",
           "INVALID_DECISION_INPUT", "INVALID_PREFLIGHT_REPORT"}

TypeOK ==
  /\ source \in Sources
  /\ decision.status \in {"NONE", "STOP", "MANUAL_REVIEW"}
  /\ \A i \in DOMAIN decision.reasons : decision.reasons[i].code \in Codes
  /\ at \in Points

(* The engine and the schema hold the stop policy twice, in two packages:  *)
(* no decision of the engine is ever refused by the schema, or the run     *)
(* would end in an error instead of a report.                              *)
EngineIsNeverRefused == at # "INVALID_PREFLIGHT_REPORT"

(* Whoever wrote the decision of a report, the decision a reader accepts   *)
(* is the one the engine derives from the evidence beside it.              *)
ReadersSeeTheEngineDecision ==
  at = "READ" => decision = EvaluateDecision(source)

(* docs/architecture.md, "Result invariant": whoever wrote the decision of *)
(* a report, nobody is shown MANUAL_REVIEW beside evidence in which the    *)
(* engine finds a stop condition.                                          *)
NoReviewOverStopEvidence ==
  at = "READ" /\ decision.status = "MANUAL_REVIEW" =>
    CollectReasons(source) = {}

=============================================================================
