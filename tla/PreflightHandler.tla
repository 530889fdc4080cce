---------------------------- MODULE PreflightHandler ----------------------------
(***************************************************************************)
(* The two POST handlers as functions from a request to a response, and    *)
(* the contract both sides hold a response against.                        *)
(*                                                                         *)
(* server/preflight-handler.ts, server/verify-handler.ts and               *)
(* server/http-json.ts are modelled in the order of their early returns;   *)
(* contracts/preflight.ts and contracts/clear402.ts are applied twice, by  *)
(* the handler before it answers and by client/api-client.ts to what it    *)
(* reads.  Bodies are the fields that those checks tell apart, and their   *)
(* length in units of the smallest.                                        *)
(***************************************************************************)
EXTENDS Clear402, Naturals

CONSTANTS
  MaxRequest,   \* MAX_PREFLIGHT_REQUEST_BYTES
  MaxResponse   \* MAX_PREFLIGHT_RESPONSE_BYTES, MAX_CLEAR402_VERIFY_REQUEST_BYTES

ASSUME HandlerAssumption ==
  MaxRequest \in Nat \ {0} /\ MaxResponse \in Nat \ {0}

(* What the checks of either side tell apart in a report: a valid STOP has *)
(* a reason.                                                               *)
PreflightReports ==
  {r \in [id : STRING, valid : BOOLEAN, provenance : STRING, status : STRING,
          reasons : SUBSET STRING, simulation : STRING,
          context : SUBSET STRING, limitations : Nat, sensitive : BOOLEAN,
          canonical : BOOLEAN, size : Nat, generatedAt : STRING] :
     r.valid /\ r.status = "STOP" => r.reasons # {}}

(* PreflightServiceResult, or an exception.                                *)
ServiceResults ==
  [status : {"SUCCESS", "UNAVAILABLE", "TIMEOUT", "THROWN"},
   report : PreflightReports]

NoReport ==
  [id |-> "none", valid |-> FALSE, provenance |-> "NONE", status |-> "NONE",
   reasons |-> {}, simulation |-> "MISSING", context |-> {},
   limitations |-> 0, sensitive |-> FALSE, canonical |-> FALSE, size |-> 0,
   generatedAt |-> "NONE"]

NoExtension ==
  [status |-> "NONE", credential |-> Credential(NoReport, Digest(NoReport))]

-----------------------------------------------------------------------------
(* Requests.  `declared' is the Content-Length header, 0 where it is       *)
(* missing or no number; `bytes' is what the body holds; a body that       *)
(* cannot be read to its end or is no UTF-8 or no JSON is "BROKEN".        *)
JsonRequest(mode, bytes) ==
  [media |-> "JSON", declared |-> bytes, bytes |-> bytes, body |-> "JSON",
   prototypeKeys |-> FALSE, shape |-> "EXACT", mode |-> mode]

(* The whole of readBoundedJsonBody: the chunk that passes the limit ends  *)
(* the reading, whatever would have followed.                              *)
BodyRefusal(request, limit) ==
  IF request.body = "NONE" THEN "INVALID_JSON"
  ELSE IF request.bytes > limit THEN "REQUEST_TOO_LARGE"
  ELSE IF request.body = "BROKEN" THEN "INVALID_JSON"
  ELSE "NONE"

JsonRefusal(request, limit) ==
  IF request.media # "JSON" THEN "UNSUPPORTED_MEDIA_TYPE"
  ELSE IF request.declared > limit THEN "REQUEST_TOO_LARGE"
  ELSE BodyRefusal(request, limit)

(* PreflightRequestSchema: no prototype-sensitive key at any depth, and    *)
(* one of the two strict shapes.                                           *)
RequestAccepted(request) ==
  ~request.prototypeKeys /\ request.shape = "EXACT"

Refusal(request) ==
  LET refusal == JsonRefusal(request, MaxRequest)
  IN  IF refusal # "NONE" THEN refusal
      ELSE IF ~RequestAccepted(request) THEN "INVALID_REQUEST"
      ELSE "NONE"

-----------------------------------------------------------------------------
(* Responses of /api/preflight.                                            *)
Status(code) ==
  CASE code \in {"INVALID_JSON", "INVALID_REQUEST"} -> 400
    [] code = "REQUEST_TOO_LARGE" -> 413
    [] code = "UNSUPPORTED_MEDIA_TYPE" -> 415
    [] code = "LIVE_UNAVAILABLE" -> 503
    [] code = "PREFLIGHT_TIMEOUT" -> 504
    [] code \in {"RESPONSE_TOO_LARGE", "INTERNAL_ERROR"} -> 500

NoPresentation ==
  [reportId |-> "none", status |-> "NONE", reasons |-> {}, context |-> {},
   limitations |-> 0]

ErrorResponse(code) ==
  [http |-> Status(code), ok |-> FALSE, code |-> code, mode |-> "NONE",
   report |-> NoReport, presentation |-> NoPresentation,
   extension |-> NoExtension]

(* derivePreflightPresentationV0_1 of packages/preflight-core.             *)
SourceContext(report) ==
  IF report.simulation = "AVAILABLE"
  THEN {key \in {"block", "moss"} : key \in report.context} ELSE {}

Presentation(report) ==
  [reportId |-> report.id, status |-> report.status,
   reasons |-> IF report.status = "STOP" THEN report.reasons ELSE {},
   context |-> SourceContext(report), limitations |-> report.limitations]

Success(mode, report) ==
  [http |-> 200, ok |-> TRUE, code |-> "NONE", mode |-> mode,
   report |-> report, presentation |-> Presentation(report),
   extension |-> NoExtension]

(* Slip: a report of either provenance fits either mode.                   *)
AnyProvenance(mode, report) == report.valid

(* LiveReportSchema and FixtureReportSchema.                               *)
ReportFits(mode, report) ==
  report.valid /\ (mode = "FIXTURE" <=> report.provenance = "FIXTURE")

(* The contract package keeps its own reading of the source context.       *)
ExpectedSourceContext(report) ==
  IF report.simulation # "AVAILABLE" THEN {}
  ELSE report.context \cap {"block", "moss"}

(* PreflightSuccessResponseSchema: strict, so without an extension.        *)
BaselineValid(response) ==
  LET p == response.presentation
      r == response.report
  IN  /\ response.ok
      /\ response.extension = NoExtension
      /\ ReportFits(response.mode, r)
      /\ p.reportId = r.id
      /\ p.status = r.status
      /\ p.status = "STOP" => p.reasons = r.reasons /\ p.reasons # {}
      /\ p.limitations = r.limitations
      /\ p.context = ExpectedSourceContext(r)

(* Clear402EnabledPreflightSuccessResponseSchema: the extension is there,  *)
(* the rest is a baseline response, and a credential encloses its report.  *)
EnabledValid(response) ==
  /\ response.extension # NoExtension
  /\ BaselineValid([response EXCEPT !.extension = NoExtension])
  /\ response.extension.status = "AVAILABLE" =>
       /\ SchemaValid(response.extension.credential)
       /\ response.extension.credential.report = response.report

(* The length of the serialized response: the report, once more in a       *)
(* credential, and one unit for each envelope.                             *)
Bytes(response) ==
  LET extra == CASE response.extension.status = "AVAILABLE" ->
                      1 + response.extension.credential.report.size
                 [] response.extension.status = "ERROR" -> 1
                 [] OTHER -> 0
  IN  1 + response.report.size + extra

-----------------------------------------------------------------------------
(* A credential that cannot be issued is an extension that says so.        *)
ExtensionFor(report) ==
  IF CanIssue(report)
  THEN [status |-> "AVAILABLE", credential |-> Issue(report)]
  ELSE [NoExtension EXCEPT !.status = "ERROR"]

WithCredential(response, enabled) ==
  IF enabled
  THEN [response EXCEPT !.extension = ExtensionFor(response.report)]
  ELSE response

(* Slip: an issued credential is scanned too, and its own key is one of    *)
(* SENSITIVE_KEYS.                                                         *)
ScanAfterCredential(response, enabled) ==
  \/ response.report.sensitive
  \/ WithCredential(response, enabled).extension.status = "AVAILABLE"

(* containsSensitiveMaterial, over the response as it was before the       *)
(* credential.                                                             *)
Sensitive(response, enabled) == response.report.sensitive

(* Slip: the limit is meant for the report.                                *)
BaselineTooLarge(response) ==
  Bytes([response EXCEPT !.extension = NoExtension]) > MaxResponse

TooLarge(response) == Bytes(response) > MaxResponse

(* The answer to a service that returned a report.                         *)
Deliver(mode, report, enabled) ==
  LET success  == Success(mode, report)
      response == WithCredential(success, enabled)
  IN  IF \/ ~report.valid
         \/ ~BaselineValid(success)
         \/ Sensitive(success, enabled)
         \/ enabled /\ ~EnabledValid(response)
      THEN ErrorResponse("INTERNAL_ERROR")
      ELSE IF TooLarge(response) THEN ErrorResponse("RESPONSE_TOO_LARGE")
      ELSE response

(* createPreflightHandler.  `result' is what the service does if it is     *)
(* asked, `enabled' whether CLEAR402_ENABLED is "true".                    *)
Handle(request, result, enabled) ==
  IF Refusal(request) # "NONE" THEN ErrorResponse(Refusal(request))
  ELSE CASE result.status = "UNAVAILABLE" -> ErrorResponse("LIVE_UNAVAILABLE")
         [] result.status = "TIMEOUT" -> ErrorResponse("PREFLIGHT_TIMEOUT")
         [] result.status = "THROWN" -> ErrorResponse("INTERNAL_ERROR")
         [] result.status = "SUCCESS" ->
              Deliver(request.mode, result.report, enabled)

(* createVerifyHandler, as the label the answer gets: a verifier that is   *)
(* switched off does not read the request.                                 *)
HandleVerify(request, credential, enabled) ==
  IF ~enabled THEN "CLEAR402_DISABLED"
  ELSE IF JsonRefusal(request, MaxResponse) # "NONE"
  THEN JsonRefusal(request, MaxResponse)
  ELSE Verify(credential)

-----------------------------------------------------------------------------
(* requestPreflight, on a response that arrived as it was sent: the length *)
(* again, either contract, and a status that agrees with the body.         *)
ClientAccepts(response) ==
  /\ Bytes(response) <= MaxResponse
  /\ IF response.ok
     THEN BaselineValid(response) \/ EnabledValid(response)
     ELSE response.extension = NoExtension
  /\ (response.http = 200) = response.ok

=============================================================================
