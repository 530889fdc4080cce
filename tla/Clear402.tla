-------------------------------- MODULE Clear402 --------------------------------
(***************************************************************************)
(* Clear402 credentials: issued by OfflineCredentialService                *)
(* (apps/web/src/server/credential-service.ts), verified by                *)
(* packages/clear402-profile/src/integrity.ts, and changed on purpose by   *)
(* the demonstration of client/credential-actions.ts.                      *)
(*                                                                         *)
(* A credential keeps a report, the digest stored with it, and whether its *)
(* version, type, profile and assurance are the literals of v0.1.  SHA-256 *)
(* over the RFC 8785 form is a digest of the report's contents: equal for  *)
(* equal reports only, whatever the order in which their keys were sent.   *)
(***************************************************************************)

Digest(report) == <<"sha256", report>>

Credential(report, digest) ==
  [report |-> report, digest |-> digest, literals |-> TRUE]

(* A report is `canonical' when the third-party canonicalizer takes it.    *)
CanIssue(report) == report.valid /\ report.canonical

Issue(report) == Credential(report, Digest(report))

(* Clear402MonadActionCredentialV0_1Schema.                                *)
SchemaValid(credential) == credential.literals /\ credential.report.valid

Verify(credential) ==
  IF ~SchemaValid(credential) \/ ~credential.report.canonical
  THEN "SCHEMA_INVALID"
  ELSE IF Digest(credential.report) # credential.digest
  THEN "DIGEST_INVALID"
  ELSE "VALID"

(* tamperProtectedReportCopy writes a date that differs from the report's. *)
OtherDate(date) == IF date = "2031" THEN "2032" ELSE "2031"

TamperCopy(credential) ==
  LET report == credential.report
  IN  [credential EXCEPT !.report =
         [report EXCEPT !.generatedAt = OtherDate(report.generatedAt)]]

=============================================================================
