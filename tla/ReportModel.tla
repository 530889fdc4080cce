------------------------------ MODULE ReportModel ------------------------------
(***************************************************************************)
(* The part of a PreflightReport v0.1 that a decision depends on           *)
(* (packages/report-schema/src/evidence.ts and report.ts).  A list of      *)
(* receipts, outcomes or warnings is its length and the indices of its     *)
(* failed items; coverage, ordering and state continuity are one flag;     *)
(* a source reference is the path of its JSON Pointer.                     *)
(***************************************************************************)
EXTENDS Integers, Sequences, FiniteSets

CONSTANT References   \* what an alignment check may cite as its evidence

Unavailable == {"FAILED", "MISSING", "UNPROVABLE"}
Availability == {"AVAILABLE"} \cup Unavailable

Items == [availability : Availability, size : Nat, failed : SUBSET Nat]
Verdict == [availability : Availability, holds : BOOLEAN]

Check == [checkId : STRING, critical : BOOLEAN,
          status : {"PASS", "FAIL", "REVIEW"},
          sourceReferences : (SUBSET References) \ {{}}]

Simulation ==
  [availability : Availability,
   executionStatus : {"SUCCESS", "FAILED", "INTERRUPTED"},
   warnings : Items, receipts : Items, outcomes : Items,
   coverage : Verdict, ordering : Verdict, stateContinuity : Verdict]

Source ==
  [selection : {"SELECTED", "NOT_SELECTED"},
   capability : Availability,
   simulation : Simulation,
   checks : SUBSET Check]

(* The six components of the simulation that a decision needs.             *)
Components == {"warnings", "receipts", "outcomes", "coverage", "ordering",
               "stateContinuity"}

CriticalChecks(source) == {c \in source.checks : c.critical}

(* The indices of a list, from zero as in a JSON Pointer.                  *)
Indices(list) == 0 .. list.size - 1

(* Available lists index their failed items; check identifiers are unique. *)
WellFormed(source) ==
  /\ \A name \in {"warnings", "receipts", "outcomes"} :
       LET list == source.simulation[name]
       IN  list.failed \subseteq Indices(list)
  /\ \A c, d \in source.checks : c.checkId = d.checkId => c = d

=============================================================================
