----------------------------- MODULE MCStopPolicy -----------------------------
(* The source reports that differ from a clean one in up to MaxDeviations  *)
(* fields: every stop condition alone, and every combination of two.       *)
EXTENDS StopPolicy

CONSTANT MaxDeviations

Clean ==
  [selection |-> "SELECTED", capability |-> "AVAILABLE",
   availability |-> "AVAILABLE", executionStatus |-> "SUCCESS",
   warnings |-> [availability |-> "AVAILABLE", size |-> 0, failed |-> {}],
   receipts |-> [availability |-> "AVAILABLE", size |-> 2, failed |-> {}],
   outcomes |-> [availability |-> "AVAILABLE", size |-> 1, failed |-> {}],
   coverage |-> [availability |-> "AVAILABLE", holds |-> TRUE],
   ordering |-> [availability |-> "AVAILABLE", holds |-> TRUE],
   stateContinuity |-> [availability |-> "AVAILABLE", holds |-> TRUE],
   checks |-> {[checkId |-> "a", critical |-> TRUE, status |-> "PASS",
                sourceReferences |-> References]}]

NoItems == {[availability |-> a, size |-> 0, failed |-> {}] : a \in Unavailable}
NoVerdict == {[availability |-> a, holds |-> FALSE] : a \in Unavailable}
Broken == [availability |-> "AVAILABLE", holds |-> FALSE]
List(n, failed) == [availability |-> "AVAILABLE", size |-> n, failed |-> failed]

ACheck(id, critical, status, refs) ==
  [checkId |-> id, critical |-> critical, status |-> status,
   sourceReferences |-> refs]

OtherChecks ==
  {{ACheck("a", TRUE, status, References)} : status \in {"FAIL", "REVIEW"}}
  \cup {{ACheck("a", FALSE, "FAIL", References)}}
  \cup {{ACheck("a", TRUE, "PASS", References), ACheck("b", FALSE, status, {r})} :
        status \in {"FAIL", "REVIEW"}, r \in References}
  \cup {{ACheck("a", TRUE, "FAIL", {r}), ACheck("b", TRUE, status, References)} :
        status \in {"FAIL", "REVIEW"}, r \in References}

Alternatives ==
  [selection |-> {"NOT_SELECTED"}, capability |-> Unavailable,
   availability |-> Unavailable, executionStatus |-> {"FAILED", "INTERRUPTED"},
   warnings |-> NoItems \cup {List(1, {}), List(2, {})},
   receipts |-> NoItems \cup {List(0, {}), List(2, {1}), List(2, {0, 1})},
   outcomes |-> NoItems \cup {List(0, {}), List(1, {0})},
   coverage |-> NoVerdict \cup {Broken}, ordering |-> NoVerdict \cup {Broken},
   stateContinuity |-> NoVerdict \cup {Broken},
   checks |-> OtherChecks]

Deviate(reports) ==
  UNION {{[r EXCEPT ![f] = v] : v \in Alternatives[f]} :
         r \in reports, f \in DOMAIN Clean}

Deviations ==
  LET d[n \in 0 .. MaxDeviations] ==
        IF n = 0 THEN {Clean} ELSE d[n - 1] \cup Deviate(d[n - 1])
  IN  d[MaxDeviations]

AsSource(r) ==
  [selection |-> r.selection, capability |-> r.capability,
   checks |-> r.checks,
   simulation |->
     [availability |-> r.availability, executionStatus |-> r.executionStatus,
      warnings |-> r.warnings, receipts |-> r.receipts,
      outcomes |-> r.outcomes, coverage |-> r.coverage,
      ordering |-> r.ordering, stateContinuity |-> r.stateContinuity]]

MCSources == {AsSource(r) : r \in Deviations}

=============================================================================
