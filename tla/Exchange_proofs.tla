---------------------------- MODULE Exchange_proofs ----------------------------
(***************************************************************************)
(* The page, the handlers and the panel together, for every service, every *)
(* request of other clients and every number of runs and deployments.      *)
(* What the handler makes of a request is a matter of definitions, case by *)
(* case; what the screen and the panel show of it takes an invariant that  *)
(* says which answer, and which copy, each of them belongs to.  Every step *)
(* here is a step of the workbench alone, so its invariant is used as it   *)
(* was proved.                                                             *)
(***************************************************************************)
EXTENDS Exchange, Workbench_proofs

-----------------------------------------------------------------------------
(* The handler.                                                            *)
ErrorCodes ==
  {"INVALID_JSON", "INVALID_REQUEST", "REQUEST_TOO_LARGE",
   "UNSUPPORTED_MEDIA_TYPE", "LIVE_UNAVAILABLE", "PREFLIGHT_TIMEOUT",
   "RESPONSE_TOO_LARGE", "INTERNAL_ERROR"}

LEMMA ErrorsAreAccepted ==
  ASSUME NEW code \in ErrorCodes
  PROVE  ~ErrorResponse(code).ok /\ ClientAccepts(ErrorResponse(code))
<1> DEFINE e == ErrorResponse(code)
<1>1. Status(code) \in {400, 413, 415, 500, 503, 504}
  BY DEF Status, ErrorCodes
<1>2. /\ e.ok = FALSE /\ e.http = Status(code)
      /\ e.extension = NoExtension /\ e.report = NoReport
  BY DEF ErrorResponse
<1>3. NoExtension.status = "NONE" /\ NoReport.size = 0
  BY DEF NoExtension, NoReport
<1> HIDE DEF e
<1>4. Bytes(e) = 1
  BY <1>2, <1>3 DEF Bytes
<1>5. 1 <= MaxResponse /\ e.http # 200
  BY <1>1, <1>2, HandlerAssumption
<1> QED
  BY <1>2, <1>4, <1>5 DEF ClientAccepts, e

LEMMA RefusalCodes ==
  ASSUME NEW request, Refusal(request) # "NONE"
  PROVE  Refusal(request) \in ErrorCodes
BY DEF Refusal, JsonRefusal, BodyRefusal, ErrorCodes

(* The presentation that the handler derives is the one both contracts     *)
(* expect, so a success is valid when the report fits the mode.            *)
LEMMA BaselineMeansFits ==
  ASSUME NEW m, NEW report \in PreflightReports
  PROVE  BaselineValid(Success(m, report)) <=> ReportFits(m, report)
<1> DEFINE s == Success(m, report)
           p == Presentation(report)
<1>1. /\ s.ok = TRUE /\ s.extension = NoExtension /\ s.mode = m
      /\ s.report = report /\ s.presentation = p
  BY DEF Success
<1>2. /\ p.reportId = report.id /\ p.status = report.status
      /\ p.reasons = IF report.status = "STOP" THEN report.reasons ELSE {}
      /\ p.context = SourceContext(report)
      /\ p.limitations = report.limitations
  BY DEF Presentation
<1>3. SourceContext(report) = ExpectedSourceContext(report)
  BY DEF SourceContext, ExpectedSourceContext
<1>4. report.valid /\ report.status = "STOP" => report.reasons # {}
  BY DEF PreflightReports
<1> HIDE DEF s, p
<1> QED
  BY <1>1, <1>2, <1>3, <1>4 DEF BaselineValid, ReportFits, s

(* What a run must look like, whoever asked.                               *)
GoodRun(r) ==
  LET report == r.result.report
      credential == r.reply.extension.credential
  IN  /\ report \in PreflightReports
      /\ ClientAccepts(r.reply)
      /\ r.reply.ok \in BOOLEAN
      /\ r.reply.ok <=>
           /\ ~r.refused /\ r.result.status = "SUCCESS"
           /\ Sound(r.mode, report)
           /\ FitsTheLimit(report, r.enabled)
      /\ r.reply.ok =>
           /\ r.reply.mode = r.mode
           /\ r.reply.report = report
           /\ r.reply.presentation.status = report.status
      /\ r.reply.extension.status = "AVAILABLE" =>
           /\ r.reply.ok
           /\ credential = Issue(report) /\ CanIssue(report)
           /\ 1 + report.size <= MaxResponse

(* The strict baseline schema sees a response as it was before its         *)
(* extension.                                                              *)
LEMMA ExtensionComesOff ==
  ASSUME NEW m, NEW report, NEW x
  PROVE  [[Success(m, report) EXCEPT !.extension = x]
            EXCEPT !.extension = NoExtension] = Success(m, report)
<1> DEFINE With(y) == [http |-> 200, ok |-> TRUE, code |-> "NONE",
                       mode |-> m, report |-> report,
                       presentation |-> Presentation(report),
                       extension |-> y]
           s == Success(m, report)
           w == [s EXCEPT !.extension = x]
           v == [w EXCEPT !.extension = NoExtension]
<1>1. s = With(NoExtension)
  BY DEF Success
<1>2. w = [s EXCEPT !.extension = x]
  OBVIOUS
<1>3. v = [w EXCEPT !.extension = NoExtension]
  OBVIOUS
<1> HIDE DEF s, w, v
<1>4. w = With(x)
  BY <1>1, <1>2
<1>5. v = With(NoExtension)
  BY <1>3, <1>4
<1> QED BY <1>1, <1>5, Zenon DEF s, w, v

(* The answer to a report, with the credential and without.                *)
LEMMA DeliverPlain ==
  ASSUME NEW m, NEW report \in PreflightReports
  PROVE  LET reply == Deliver(m, report, FALSE)
         IN  IF Sound(m, report) /\ FitsTheLimit(report, FALSE)
             THEN reply = Success(m, report)
             ELSE \E code \in ErrorCodes : reply = ErrorResponse(code)
<1> DEFINE s == Success(m, report)
<1>1. /\ report.valid \in BOOLEAN /\ report.sensitive \in BOOLEAN
      /\ report.size \in Nat
  BY DEF PreflightReports
<1>2. WithCredential(s, FALSE) = s
  BY DEF WithCredential
<1>3. s.report = report /\ s.extension = NoExtension
      /\ NoExtension.status = "NONE"
  BY DEF Success, NoExtension
<1>4. BaselineValid(s) <=> ReportFits(m, report)
  BY BaselineMeansFits
<1> HIDE DEF s
<1>5. Bytes(s) = 1 + report.size
  BY <1>1, <1>3 DEF Bytes
<1>6. Deliver(m, report, FALSE) =
        IF ~report.valid \/ ~BaselineValid(s) \/ report.sensitive
        THEN ErrorResponse("INTERNAL_ERROR")
        ELSE IF Bytes(s) > MaxResponse THEN ErrorResponse("RESPONSE_TOO_LARGE")
        ELSE s
  BY <1>2, <1>3 DEF Deliver, Sensitive, TooLarge, s
<1>7. FitsTheLimit(report, FALSE) <=> ~(Bytes(s) > MaxResponse)
  BY <1>1, <1>5, HandlerAssumption DEF FitsTheLimit
<1>8. "INTERNAL_ERROR" \in ErrorCodes /\ "RESPONSE_TOO_LARGE" \in ErrorCodes
  BY DEF ErrorCodes
<1>9. Sound(m, report) <=>
        report.valid /\ BaselineValid(s) /\ ~report.sensitive
  BY <1>4 DEF Sound, ReportFits
<1> QED
  BY <1>6, <1>7, <1>8, <1>9 DEF s

LEMMA DeliverWithCredential ==
  ASSUME NEW m, NEW report \in PreflightReports
  PROVE  LET reply == Deliver(m, report, TRUE)
         IN  IF Sound(m, report) /\ FitsTheLimit(report, TRUE)
             THEN reply = WithCredential(Success(m, report), TRUE)
             ELSE \E code \in ErrorCodes : reply = ErrorResponse(code)
<1> DEFINE s == Success(m, report)
           w == WithCredential(s, TRUE)
           x == ExtensionFor(report)
<1>1. /\ report.valid \in BOOLEAN /\ report.sensitive \in BOOLEAN
      /\ report.canonical \in BOOLEAN /\ report.size \in Nat
  BY DEF PreflightReports
<1>2. s.report = report /\ s.extension = NoExtension
      /\ NoExtension.status = "NONE"
  BY DEF Success, NoExtension
<1>3. BaselineValid(s) <=> ReportFits(m, report)
  BY BaselineMeansFits
<1>4. w = [s EXCEPT !.extension = x]
  BY <1>2 DEF WithCredential
<1>5. /\ w.report = report /\ w.extension = x
      /\ [w EXCEPT !.extension = NoExtension] = s
  <2>1. DOMAIN s = {"http", "ok", "code", "mode", "report", "presentation",
                    "extension"}
    BY DEF Success
  <2>2. [[s EXCEPT !.extension = x] EXCEPT !.extension = NoExtension] = s
    BY ExtensionComesOff, Zenon
  <2> HIDE DEF s, w, x
  <2>3. [w EXCEPT !.extension = NoExtension] = s
    BY <1>4, <2>2, Zenon
  <2> QED BY <1>2, <1>4, <2>1, <2>3
<1>6. CASE CanIssue(report)
  <2>1. x.status = "AVAILABLE" /\ x.credential = Issue(report)
    BY <1>6 DEF ExtensionFor
  <2>2. /\ SchemaValid(Issue(report)) /\ Issue(report).report = report
        /\ report.valid /\ report.canonical
    BY <1>1, <1>6 DEF SchemaValid, Issue, Credential, CanIssue
  <2>3. x # NoExtension
    BY <1>2, <2>1
  <2> HIDE DEF s, w, x
  <2>4. EnabledValid(w) <=> BaselineValid(s)
    BY <1>5, <2>1, <2>2, <2>3 DEF EnabledValid
  <2>5. Bytes(w) = 1 + report.size + (1 + report.size)
    BY <1>5, <2>1, <2>2 DEF Bytes
  <2>6. FitsTheLimit(report, TRUE) <=> ~(Bytes(w) > MaxResponse)
    BY <1>1, <2>2, <2>5, HandlerAssumption DEF FitsTheLimit
  <2>7. Deliver(m, report, TRUE) =
          IF ~BaselineValid(s) \/ report.sensitive
          THEN ErrorResponse("INTERNAL_ERROR")
          ELSE IF Bytes(w) > MaxResponse
          THEN ErrorResponse("RESPONSE_TOO_LARGE") ELSE w
    BY <1>2, <2>2, <2>4 DEF Deliver, Sensitive, TooLarge, s, w
  <2>8. Sound(m, report) <=> BaselineValid(s) /\ ~report.sensitive
    BY <1>3, <2>2 DEF Sound, ReportFits
  <2>9. "INTERNAL_ERROR" \in ErrorCodes /\ "RESPONSE_TOO_LARGE" \in ErrorCodes
    BY DEF ErrorCodes
  <2> QED BY <2>6, <2>7, <2>8, <2>9 DEF w, s
<1>7. CASE ~CanIssue(report)
  <2>1. x.status = "ERROR" /\ x # NoExtension
    BY <1>7 DEF ExtensionFor, NoExtension
  <2>2. ~report.valid \/ ~report.canonical
    BY <1>7 DEF CanIssue
  <2> HIDE DEF s, w, x
  <2>4. EnabledValid(w) <=> BaselineValid(s)
    BY <1>5, <2>1 DEF EnabledValid
  <2>5. Bytes(w) = 1 + report.size + 1
    BY <1>5, <2>1 DEF Bytes
  <2>6. report.valid =>
          (FitsTheLimit(report, TRUE) <=> ~(Bytes(w) > MaxResponse))
    BY <1>1, <2>2, <2>5, HandlerAssumption DEF FitsTheLimit
  <2>7. Deliver(m, report, TRUE) =
          IF ~report.valid \/ ~BaselineValid(s) \/ report.sensitive
          THEN ErrorResponse("INTERNAL_ERROR")
          ELSE IF Bytes(w) > MaxResponse
          THEN ErrorResponse("RESPONSE_TOO_LARGE") ELSE w
    BY <1>2, <2>4 DEF Deliver, Sensitive, TooLarge, s, w
  <2>8. Sound(m, report) <=>
          report.valid /\ BaselineValid(s) /\ ~report.sensitive
    BY <1>3 DEF Sound, ReportFits
  <2>9. "INTERNAL_ERROR" \in ErrorCodes /\ "RESPONSE_TOO_LARGE" \in ErrorCodes
    BY DEF ErrorCodes
  <2> QED BY <2>6, <2>7, <2>8, <2>9 DEF w, s
<1> QED BY <1>6, <1>7

(* An error reply is a good run when nothing was to be delivered.          *)
LEMMA ErrorIsGood ==
  ASSUME NEW r, NEW code \in ErrorCodes,
         r.reply = ErrorResponse(code),
         r.result.report \in PreflightReports,
         ~(/\ ~r.refused /\ r.result.status = "SUCCESS"
           /\ Sound(r.mode, r.result.report)
           /\ FitsTheLimit(r.result.report, r.enabled))
  PROVE  GoodRun(r)
<1>1. ~ErrorResponse(code).ok /\ ClientAccepts(ErrorResponse(code))
  BY ErrorsAreAccepted
<1>2. /\ ErrorResponse(code).ok = FALSE
      /\ ErrorResponse(code).extension.status = "NONE"
  BY DEF ErrorResponse, NoExtension
<1>3. r.reply.ok = FALSE /\ r.reply.extension.status = "NONE"
  BY <1>2
<1>4. ClientAccepts(r.reply)
  BY <1>1
<1> QED
  BY <1>3, <1>4 DEF GoodRun

(* So is a success with a report that may be delivered.                    *)
LEMMA SuccessIsGood ==
  ASSUME NEW r, NEW m, r.mode = m, NEW report \in PreflightReports,
         r.result.report = report, r.result.status = "SUCCESS",
         ~r.refused, r.enabled \in BOOLEAN,
         Sound(m, report), FitsTheLimit(report, r.enabled),
         r.reply = IF r.enabled
                   THEN WithCredential(Success(m, report), TRUE)
                   ELSE Success(m, report)
  PROVE  GoodRun(r)
<1> DEFINE s == Success(m, report)
           x == ExtensionFor(report)
<1>0. [[s EXCEPT !.extension = x] EXCEPT !.extension = NoExtension] = s
  <2> HIDE DEF x
  <2> QED BY ONLY ExtensionComesOff
<1>1. /\ report.valid \in BOOLEAN /\ report.sensitive \in BOOLEAN
      /\ report.canonical \in BOOLEAN /\ report.size \in Nat
  BY DEF PreflightReports
<1>2. /\ s.ok = TRUE /\ s.http = 200 /\ s.mode = m /\ s.report = report
      /\ s.extension = NoExtension /\ s.presentation.status = report.status
      /\ NoExtension.status = "NONE"
  BY DEF Success, Presentation, NoExtension
<1>3. BaselineValid(s)
  BY BaselineMeansFits DEF Sound, ReportFits
<1>4. CASE ~r.enabled
  <2>1. r.reply = s
    BY <1>4
  <2> HIDE DEF s
  <2>2. Bytes(s) = 1 + report.size
    BY <1>1, <1>2 DEF Bytes
  <2>3. 1 + report.size <= MaxResponse
    BY <1>1, <1>4, HandlerAssumption DEF FitsTheLimit
  <2>4. ClientAccepts(s)
    BY <1>2, <1>3, <2>2, <2>3 DEF ClientAccepts
  <2> QED
    BY <1>2, <2>1, <2>4, ZenonT(30) DEF GoodRun
<1>5. CASE r.enabled
  <2> DEFINE w == WithCredential(s, TRUE)
             v == [w EXCEPT !.extension = NoExtension]
  <2>1. r.reply = w
    BY <1>5
  <2>2. w = [s EXCEPT !.extension = x]
    BY <1>2 DEF WithCredential
  <2>3. v = s
    <3> HIDE DEF s, w, x
    <3> QED BY <1>0, <2>2, Zenon
  <2>4. /\ w.ok = TRUE /\ w.http = 200 /\ w.mode = m
        /\ w.report = report /\ w.presentation.status = report.status
        /\ w.extension = x
    <3> DOMAIN s = {"http", "ok", "code", "mode", "report", "presentation",
                    "extension"}
      BY DEF Success
    <3> HIDE DEF s, w, x
    <3> QED BY <1>2, <2>2
  <2>5. /\ x # NoExtension
        /\ x.status = "AVAILABLE" =>
             /\ CanIssue(report) /\ x.credential = Issue(report)
             /\ SchemaValid(Issue(report)) /\ Issue(report).report = report
        /\ x.status \in {"AVAILABLE", "ERROR"}
        /\ x.status = "ERROR" => ~CanIssue(report)
    BY <1>2 DEF ExtensionFor, NoExtension, SchemaValid, Issue, Credential,
                CanIssue
  <2>6. EnabledValid(w)
    <3> HIDE DEF s, w, x
    <3> QED BY <1>3, <2>3, <2>4, <2>5 DEF EnabledValid, v
  <2>7. Bytes(w) <= MaxResponse
    <3> HIDE DEF s, w, x
    <3>1. CASE x.status = "AVAILABLE"
      <4>1. Bytes(w) = 1 + report.size + (1 + report.size)
        BY <2>4, <2>5, <3>1 DEF Bytes
      <4> QED BY <1>1, <1>5, <2>5, <3>1, <4>1, HandlerAssumption
              DEF FitsTheLimit, CanIssue
    <3>2. CASE x.status = "ERROR"
      <4>1. Bytes(w) = 1 + report.size + 1
        BY <2>4, <3>2 DEF Bytes
      <4>2. ~report.canonical
        BY <1>1, <2>5, <3>2 DEF CanIssue, Sound
      <4> QED BY <1>1, <1>5, <4>1, <4>2, HandlerAssumption DEF FitsTheLimit
    <3> QED BY <2>5, <3>1, <3>2
  <2>8. ClientAccepts(w)
    <3> HIDE DEF s, w, x
    <3> QED BY <2>4, <2>6, <2>7 DEF ClientAccepts
  <2>9. x.status = "AVAILABLE" => 1 + report.size <= MaxResponse
    BY <1>1, <1>5, <2>5, HandlerAssumption DEF FitsTheLimit, CanIssue
  <2> HIDE DEF s, w, x
  <2> QED
    BY <2>1, <2>4, <2>5, <2>8, <2>9, <1>5, ZenonT(30) DEF GoodRun
<1> QED BY <1>4, <1>5

(* Every answer of the handler, to every request and every result.         *)
LEMMA RunIsGood ==
  ASSUME NEW request, request.mode \in Modes,
         NEW result \in ServiceResults, serverEnabled \in BOOLEAN
  PROVE  GoodRun(Run(request, result))
<1> DEFINE r == Run(request, result)
           report == result.report
<1>1. /\ report \in PreflightReports
      /\ result.status \in {"SUCCESS", "UNAVAILABLE", "TIMEOUT", "THROWN"}
  BY DEF ServiceResults
<1>2. /\ r.mode = request.mode /\ r.result = result
      /\ r.enabled = serverEnabled
      /\ r.refused = (Refusal(request) # "NONE")
      /\ r.reply = Handle(request, result, serverEnabled)
  BY DEF Run
<1> HIDE DEF r
<1>3. CASE Refusal(request) # "NONE"
  <2>1. r.reply = ErrorResponse(Refusal(request))
    BY <1>2, <1>3 DEF Handle
  <2>2. Refusal(request) \in ErrorCodes
    BY <1>3, RefusalCodes
  <2> QED
    BY <1>1, <1>2, <1>3, <2>1, <2>2, ErrorIsGood DEF r
<1>4. CASE Refusal(request) = "NONE" /\ result.status # "SUCCESS"
  <2>1. \E code \in ErrorCodes : r.reply = ErrorResponse(code)
    BY <1>1, <1>2, <1>4 DEF Handle, ErrorCodes
  <2> QED
    BY <1>1, <1>2, <1>4, <2>1, ErrorIsGood DEF r
<1>5. CASE Refusal(request) = "NONE" /\ result.status = "SUCCESS"
  <2>1. r.reply = Deliver(request.mode, report, serverEnabled)
    BY <1>2, <1>5 DEF Handle
  <2> DEFINE due == /\ Sound(request.mode, report)
                    /\ FitsTheLimit(report, serverEnabled)
  <2>2. CASE due
    <3>1. r.reply = IF serverEnabled
                    THEN WithCredential(Success(request.mode, report), TRUE)
                    ELSE Success(request.mode, report)
      BY <1>1, <2>1, <2>2, DeliverPlain, DeliverWithCredential
    <3> QED
      BY <1>1, <1>2, <1>5, <2>2, <3>1, SuccessIsGood DEF r
  <2>3. CASE ~due
    <3>1. \E code \in ErrorCodes : r.reply = ErrorResponse(code)
      BY <1>1, <2>1, <2>3, DeliverPlain, DeliverWithCredential, ZenonT(30)
    <3> QED
      BY <1>1, <1>2, <1>5, <2>3, <3>1, ErrorIsGood DEF r
  <2> QED BY <2>2, <2>3
<1> QED BY <1>3, <1>4, <1>5 DEF r

-----------------------------------------------------------------------------
(* The invariant: what the server keeps of the page's runs, what the       *)
(* screen shows of that, and which copy each verification under way is of. *)
FlagInv == pageEnabled \in BOOLEAN /\ serverEnabled \in BOOLEAN

ServedInv ==
  /\ DOMAIN served \subseteq Tokens
  /\ \A t \in DOMAIN served :
       t <= nextToken /\ served[t].mode = asked[t] /\ GoodRun(served[t])
  /\ \A r \in outside : GoodRun(r)

Told(state) ==
  /\ state.status = "RESULT" =>
       state.token \in DOMAIN served /\ Response(state.token).ok
  /\ state.kind = "API" =>
       state.token \in DOMAIN served /\ ~Response(state.token).ok

ScreenInv == Told(run) /\ Told(view)

(* A panel that is shown belongs to the result under which it stands.      *)
OwnerInv ==
  PanelShown =>
    /\ view.status = "RESULT" /\ view.token = panel.owner
    /\ Response(panel.owner).extension.status = "AVAILABLE"

(* Only a run that is over has had a panel, and with it checks.            *)
ChecksInv ==
  /\ checks \subseteq [owner : Tokens, tampered : BOOLEAN]
  /\ \A c \in checks :
       /\ c.owner <= nextToken
       /\ c.owner \in DOMAIN served
       /\ Response(c.owner).extension.status = "AVAILABLE"
       /\ view.status = "RUNNING" => c.owner # nextToken

Verdicts(tampered) ==
  {"NONE", "UNREACHABLE", "CLEAR402_DISABLED",
   IF tampered THEN "DIGEST_INVALID" ELSE "VALID"}

Panels ==
  [owner : {0} \cup Tokens, fresh : BOOLEAN, hasty : BOOLEAN,
   tampered : BOOLEAN, status : {"IDLE", "RUNNING", "COMPLETE", "ERROR"},
   verdict : Verdicts(TRUE) \cup Verdicts(FALSE)]

(* A user who waited for the effect has at most one check, of the copy as  *)
(* it is, under way.                                                       *)
PanelInv ==
  /\ panel \in Panels
  /\ PanelShown /\ ~panel.hasty =>
       /\ panel.fresh => panel.status # "RUNNING"
       /\ \A c \in checks :
            c.owner = panel.owner =>
              panel.status = "RUNNING" /\ c.tampered = panel.tampered
       /\ panel.verdict \in Verdicts(panel.tampered)

XInv ==
  /\ IInv /\ FlagInv /\ ServedInv /\ ScreenInv
  /\ OwnerInv /\ ChecksInv /\ PanelInv

-----------------------------------------------------------------------------
(* Every step is one of the workbench, or leaves it alone.                 *)
LEMMA StepIsOfTheWorkbench ==
  ASSUME [ExchangeNext]_exchangeVars
  PROVE  [Next]_vars
<1>1. CASE Screen
  BY <1>1 DEF Screen, Next
<1>2. ASSUME NEW t \in Tokens, Answer(t)
      PROVE  Next
  <2>1. Succeed(t) \/ FailWith(t, "INVALID_RESPONSE") \/ FailWith(t, "API")
    BY <1>2, Zenon DEF Answer
  <2> QED BY <2>1 DEF Next, Fail, ProblemKinds
<1>3. ASSUME NEW t \in Tokens, Break(t)
      PROVE  Next
  <2>1. Fail(t)
    BY <1>3 DEF Break, Fail
  <2> QED BY <2>1 DEF Next
<1>4. ASSUME NEW t \in Tokens, NEW result, Serve(t, result)
      PROVE  UNCHANGED vars
  BY <1>4 DEF Serve, workbenchVars
<1>5. ASSUME NEW request, NEW result, ServeOutside(request, result)
      PROVE  UNCHANGED vars
  BY <1>5 DEF ServeOutside, workbenchVars
<1>6. CASE Deploy \/ ResetPanel \/ VerifyCopy \/ ChangeCopy
  BY <1>6, Zenon DEF Deploy, ResetPanel, VerifyCopy, ChangeCopy, workbenchVars
<1>7. ASSUME NEW check, AnswerCheck(check) \/ BreakCheck(check)
      PROVE  UNCHANGED vars
  BY <1>7, Zenon DEF AnswerCheck, BreakCheck, EndCheck, workbenchVars
<1>8. CASE UNCHANGED exchangeVars
  BY <1>8, Zenon DEF exchangeVars, workbenchVars
<1> QED
  BY <1>1, <1>2, <1>3, <1>4, <1>5, <1>6, <1>7, <1>8, Zenon DEF ExchangeNext

(* What was asked with a token stays.                                      *)
LEMMA TokensGrow ==
  ASSUME IInv, [Next]_vars
  PROVE  /\ nextToken \in Nat /\ nextToken' \in Nat
         /\ nextToken <= nextToken'
         /\ \A t \in Tokens : t <= nextToken => asked'[t] = asked[t]
<1> USE WorkbenchAssumption
<1>1. nextToken \in Nat /\ asked \in [Tokens -> Modes]
  BY DEF IInv, TypeOK, Tokens
<1>2. CASE RunPreflight
  <2>1. \/ UNCHANGED <<nextToken, asked>>
        \/ /\ nextToken' = nextToken + 1
           /\ asked' = [asked EXCEPT ![nextToken'] = mode]
    BY <1>2, Zenon DEF RunPreflight
  <2> QED BY <1>1, <2>1 DEF Tokens
<1>3. CASE UNCHANGED <<nextToken, asked>>
  BY <1>1, <1>3
<1>4. RunPreflight \/ UNCHANGED <<nextToken, asked>>
  BY Zenon DEF Next, CancelRun, LoadFixture, EditIntent, Leave, Render,
     ChangeMode, Succeed, Fail, FailWith, Expire, requests, vars
<1> QED BY <1>2, <1>3, <1>4

(* What the server did with a request stays.                               *)
LEMMA ServedGrows ==
  ASSUME [ExchangeNext]_exchangeVars, NEW t \in DOMAIN served
  PROVE  t \in DOMAIN served' /\ served'[t] = served[t]
<1>1. ASSUME NEW u \in Tokens, NEW result, Serve(u, result)
      PROVE  t \in DOMAIN served' /\ served'[t] = served[t]
  BY <1>1 DEF Serve
<1>2. \/ \E u \in Tokens : \E result : Serve(u, result)
      \/ UNCHANGED served
  BY Zenon DEF ExchangeNext, Screen, Answer, Break, ServeOutside, Deploy,
     ResetPanel, VerifyCopy, ChangeCopy, AnswerCheck, BreakCheck, EndCheck,
     serverVars, exchangeVars
<1> QED BY <1>1, <1>2

-----------------------------------------------------------------------------
LEMMA InitXInv == ExchangeInit => XInv
<1> SUFFICES ASSUME ExchangeInit PROVE XInv
  OBVIOUS
<1>1. IInv
  BY InitIInv DEF ExchangeInit
<1>2. /\ DOMAIN served = {} /\ outside = {} /\ checks = {}
      /\ panel.owner = 0 /\ panel \in Panels
  BY DEF ExchangeInit, NoPanel, Panels, Verdicts
<1>3. /\ run.status = "IDLE" /\ run.kind = "NONE" /\ view = run
  BY DEF ExchangeInit, Init, NoRun, State
<1>4. FlagInv
  BY DEF ExchangeInit, FlagInv
<1> QED
  BY <1>1, <1>2, <1>3, <1>4
  DEF XInv, ServedInv, ScreenInv, Told, OwnerInv, ChecksInv, PanelInv, PanelShown

LEMMA StepFlags ==
  ASSUME FlagInv, [ExchangeNext]_exchangeVars
  PROVE  FlagInv'
<1>1. \/ UNCHANGED <<pageEnabled, serverEnabled>>
      \/ pageEnabled' = pageEnabled /\ serverEnabled' = ~serverEnabled
  BY Zenon DEF ExchangeNext, Screen, Answer, Break, Serve, ServeOutside, Deploy,
     ResetPanel, VerifyCopy, ChangeCopy, AnswerCheck, BreakCheck, EndCheck,
     serverVars, exchangeVars
<1> QED BY <1>1 DEF FlagInv

LEMMA StepServed ==
  ASSUME XInv, [ExchangeNext]_exchangeVars
  PROVE  ServedInv'
<1> DEFINE Rest == UNCHANGED <<pageEnabled, serverEnabled>>
<1>1. [Next]_vars
  BY StepIsOfTheWorkbench
<1>2. /\ nextToken \in Nat /\ nextToken' \in Nat /\ nextToken <= nextToken'
      /\ \A t \in Tokens : t <= nextToken => asked'[t] = asked[t]
  BY <1>1, TokensGrow DEF XInv
<1>3. ASSUME NEW t \in DOMAIN served
      PROVE  t <= nextToken' /\ served[t].mode = asked'[t] /\ GoodRun(served[t])
  BY <1>2, <1>3 DEF XInv, ServedInv, Tokens
<1>4. CASE UNCHANGED served /\ (outside' = outside \/ outside' = {})
  BY <1>3, <1>4 DEF XInv, ServedInv
<1>5. ASSUME NEW u \in Tokens, NEW result \in PageResults(asked[u]),
             Serve(u, result)
      PROVE  ServedInv'
  <2> DEFINE request == JsonRequest(asked[u], 1)
             r == Run(request, result)
  <2>1. asked[u] \in Modes /\ request.mode = asked[u]
    BY DEF XInv, IInv, TypeOK, JsonRequest
  <2>2. result \in ServiceResults
    BY <2>1, ExchangeAssumption
  <2>3. GoodRun(r) /\ r.mode = asked[u]
    <3> HIDE DEF request
    <3>1. serverEnabled \in BOOLEAN
      BY DEF XInv, FlagInv
    <3> QED BY <2>1, <2>2, <3>1, RunIsGood DEF Run
  <2>4. u <= nextToken
    BY <1>5, <1>2 DEF Serve, XInv, IInv, TypeOK, FetchInv, ActiveInv, Tokens
  <2>5. /\ DOMAIN served' = DOMAIN served \cup {u}
        /\ \A t \in DOMAIN served' : served'[t] = IF t = u THEN r ELSE served[t]
        /\ outside' = outside
    BY <1>5 DEF Serve
  <2>6. UNCHANGED <<nextToken, asked>>
    BY <1>5 DEF Serve, workbenchVars, vars
  <2> HIDE DEF r
  <2> QED BY <1>3, <2>3, <2>4, <2>5, <2>6 DEF XInv, ServedInv
<1>6. ASSUME NEW request \in Requests, NEW result \in Results(request.mode),
             ServeOutside(request, result)
      PROVE  ServedInv'
  <2>1. request.mode \in Modes /\ result \in ServiceResults
    BY ExchangeAssumption
  <2>2. GoodRun(Run(request, result))
    BY <2>1, RunIsGood DEF XInv, FlagInv
  <2>3. served' = served /\ outside' = {Run(request, result)}
    BY <1>6 DEF ServeOutside
  <2> QED BY <1>3, <2>2, <2>3 DEF XInv, ServedInv
<1>7. \/ UNCHANGED served /\ (outside' = outside \/ outside' = {})
      \/ \E u \in Tokens : \E result \in PageResults(asked[u]) : Serve(u, result)
      \/ \E request \in Requests : \E result \in Results(request.mode) :
           ServeOutside(request, result)
  BY Zenon DEF ExchangeNext, Screen, Answer, Break, Deploy,
     ResetPanel, VerifyCopy, ChangeCopy, AnswerCheck, BreakCheck, EndCheck,
     serverVars, exchangeVars
<1> QED BY <1>4, <1>5, <1>6, <1>7

(* What the screen was told of a run stays true of it.                     *)
LEMMA ToldStays ==
  ASSUME ServedInv, [ExchangeNext]_exchangeVars, NEW state, Told(state)
  PROVE  /\ state.status = "RESULT" =>
              state.token \in DOMAIN served' /\ served'[state.token].reply.ok
         /\ state.kind = "API" =>
              state.token \in DOMAIN served' /\ ~served'[state.token].reply.ok
BY ServedGrows DEF Told, Response

LEMMA StepScreen ==
  ASSUME XInv, [ExchangeNext]_exchangeVars
  PROVE  ScreenInv'
<1> DEFINE Quiet(state) == state.status # "RESULT" /\ state.kind # "API"
           Later(state) ==
             /\ state.status = "RESULT" =>
                  /\ state.token \in DOMAIN served'
                  /\ served'[state.token].reply.ok
             /\ state.kind = "API" =>
                  /\ state.token \in DOMAIN served'
                  /\ ~served'[state.token].reply.ok
<1>1. Later(run) /\ Later(view)
  BY ToldStays DEF XInv, ScreenInv
<1>2. ASSUME NEW state, Quiet(state)
      PROVE  Later(state)
  BY <1>2
<1>3. /\ Quiet(NoRun)
      /\ \A n : Quiet(Running(n))
      /\ \A t, k, m, i : k # "API" => Quiet(Problem(t, k, m, i))
  BY StateFields DEF NoRun, Running, Problem
<1>4. SUFFICES Later(run') /\ Later(view')
  BY DEF ScreenInv, Told, Response
<1>5. CASE Screen
  <2> HIDE DEF Quiet, Later
  <2>1. run' = run \/ Quiet(run')
    <3>1. CASE RunPreflight
      <4>1. run' = run \/ run' = Start(run, Running(nextToken'))
        BY <3>1, Zenon DEF RunPreflight
      <4> QED BY <1>3, <4>1 DEF Start
    <3>2. CASE CancelRun
      <4>1. run' = Conclude(run, Problem(active, "ABORTED", mode, 0))
        BY <3>2 DEF CancelRun
      <4>2. Quiet(Problem(active, "ABORTED", mode, 0))
        BY <1>3
      <4> QED BY <4>1, <4>2 DEF Conclude
    <3>3. CASE LoadFixture \/ \E m \in Modes : ChangeMode(m)
      <4>1. run' = NoRun
        BY <3>3 DEF LoadFixture, ChangeMode, Reset
      <4> QED BY <1>3, <4>1
    <3>4. CASE EditIntent \/ Leave \/ Render \/ \E t \in Tokens : Expire(t)
      BY <3>4, Zenon DEF EditIntent, Leave, Render, Expire
    <3> QED BY <1>5, <3>1, <3>2, <3>3, <3>4, Zenon DEF Screen
  <2>2. view' = view \/ view' = run \/ view' = run'
    BY <1>5, Zenon DEF Screen, RunPreflight, CancelRun, LoadFixture, ChangeMode,
       EditIntent, Leave, Render, Expire
  <2>3. Later(run')
    BY <1>1, <1>2, <2>1
  <2> QED BY <1>1, <2>2, <2>3
<1>6. ASSUME NEW t \in Tokens, NEW next, Dispatch(next), view' = view,
             Later(next)
      PROVE  Later(run') /\ Later(view')
  <2>1. run' = run \/ run' = next
    BY <1>6, DispatchOutcome, Zenon
  <2> HIDE DEF Later
  <2> QED BY <1>1, <1>6, <2>1
<1>7. ASSUME NEW t \in Tokens, Answer(t)
      PROVE  Later(run') /\ Later(view')
  <2> DEFINE reply == Response(t)
  <2>1. /\ t \in DOMAIN served /\ served' = served /\ reply = served[t].reply
        /\ \/ reply.ok /\ Succeed(t)
           \/ ~reply.ok /\ FailWith(t, "API")
           \/ FailWith(t, "INVALID_RESPONSE")
    BY <1>7, Zenon DEF Answer, serverVars, Response
  <2>2. CASE reply.ok /\ Succeed(t)
    <3>1. Dispatch(Result(t, asked[t])) /\ view' = view
      BY <2>2 DEF Succeed
    <3>2. Later(Result(t, asked[t]))
      BY <2>1, <2>2, StateFields DEF Result
    <3> QED BY <1>6, <3>1, <3>2
  <2>3. CASE ~reply.ok /\ FailWith(t, "API")
    <3>1. Dispatch(Problem(t, "API", asked[t], t)) /\ view' = view
      BY <2>3 DEF FailWith
    <3>2. Later(Problem(t, "API", asked[t], t))
      BY <2>1, <2>3, StateFields DEF Problem
    <3> QED BY <1>6, <3>1, <3>2
  <2>4. CASE FailWith(t, "INVALID_RESPONSE")
    <3>1. Dispatch(Problem(t, "INVALID_RESPONSE", asked[t], 0)) /\ view' = view
      BY <2>4 DEF FailWith
    <3>2. Later(Problem(t, "INVALID_RESPONSE", asked[t], 0))
      BY <1>2, <1>3
    <3> QED BY <1>6, <3>1, <3>2
  <2> QED BY <2>1, <2>2, <2>3, <2>4
<1>8. ASSUME NEW t \in Tokens, Break(t)
      PROVE  Later(run') /\ Later(view')
  <2>1. PICK kind \in ProblemKinds \ {"API"} : FailWith(t, kind)
    BY <1>8 DEF Break
  <2>2. Dispatch(Problem(t, kind, asked[t], 0)) /\ view' = view
    BY <2>1 DEF FailWith
  <2>3. Later(Problem(t, kind, asked[t], 0))
    BY <1>2, <1>3, <2>1
  <2> QED BY <1>6, <2>2, <2>3
<1>9. CASE UNCHANGED vars
  BY <1>1, <1>9 DEF vars
<1>10. \/ Screen \/ UNCHANGED vars
       \/ \E t \in Tokens : Answer(t) \/ Break(t)
  BY Zenon DEF ExchangeNext, Serve, ServeOutside, Deploy, ResetPanel,
     VerifyCopy, ChangeCopy, AnswerCheck, BreakCheck, EndCheck, exchangeVars,
     workbenchVars
<1> QED BY <1>5, <1>7, <1>8, <1>9, <1>10

-----------------------------------------------------------------------------
(* The page's own steps, as the panel sees them.                           *)
LEMMA ScreenSteps ==
  ASSUME XInv, Screen
  PROVE  /\ \/ nextToken' = nextToken
            \/ nextToken' = nextToken + 1 /\ view'.status = "RUNNING"
         /\ view'.status = "RUNNING" /\ nextToken' = nextToken =>
              view.status = "RUNNING"
         /\ view'.status = "RESULT" /\ view' # view =>
              /\ view.status = "RUNNING" /\ view'.token = nextToken
              /\ nextToken' = nextToken /\ nextToken # 0
         /\ mounted' => mounted
<1>1. CASE RunPreflight
  <2>1. CASE UNCHANGED <<view, nextToken>>
    BY <1>1, <2>1 DEF RunPreflight
  <2>2. CASE ~UNCHANGED <<view, nextToken>>
    <3>1. /\ nextToken' = nextToken + 1 /\ run' = Start(run, Running(nextToken'))
          /\ view' = run' /\ view.status # "RUNNING" /\ mounted' = mounted
      BY <1>1, <2>2, Zenon DEF RunPreflight, NotRunning
    <3>2. view' = Running(nextToken')
      BY <3>1 DEF Start, XInv, IInv, ViewInv
    <3> QED BY <3>1, <3>2, StateFields DEF Running
  <2> QED BY <2>1, <2>2
<1>2. CASE CancelRun
  <2>1. run = Running(active) /\ active # 0
    BY <1>2 DEF CancelRun, XInv, IInv, ActiveInv
  <2>2. run' = Problem(active, "ABORTED", mode, 0)
    BY <1>2, <2>1 DEF CancelRun, Conclude, Running, Problem, State
  <2> QED BY <1>2, <2>2, StateFields DEF CancelRun, Problem
<1>3. CASE LoadFixture \/ \E m \in Modes : ChangeMode(m)
  <2>1. view' = NoRun /\ UNCHANGED <<nextToken, mounted>>
    BY <1>3 DEF LoadFixture, ChangeMode, Reset
  <2> QED BY <2>1, StateFields DEF NoRun
<1>4. CASE EditIntent \/ \E t \in Tokens : Expire(t)
  <2>1. UNCHANGED <<view, nextToken, mounted>>
    BY <1>4, Zenon DEF EditIntent, Expire
  <2> QED BY <2>1
<1>5. CASE Leave
  BY <1>5 DEF Leave
<1>6. CASE Render
  BY <1>6 DEF Render, XInv, IInv, ViewInv, RunInv
<1> QED BY <1>1, <1>2, <1>3, <1>4, <1>5, <1>6, Zenon DEF Screen

LEMMA PanelFollowsScreen ==
  ASSUME XInv, Screen
  PROVE  OwnerInv' /\ ChecksInv' /\ PanelInv'
<1>1. /\ UNCHANGED <<served, checks, pageEnabled>> /\ PanelFollows
  BY DEF Screen
<1>2. nextToken \in Nat
  BY WorkbenchAssumption DEF XInv, IInv, TypeOK, Tokens
<1>3. ChecksInv'
  <2> SUFFICES ASSUME NEW c \in checks
               PROVE  /\ c.owner <= nextToken'
                      /\ view'.status = "RUNNING" => c.owner # nextToken'
    BY <1>1 DEF ChecksInv, XInv, Response
  <2>1. /\ c.owner \in Nat /\ c.owner <= nextToken
        /\ view.status = "RUNNING" => c.owner # nextToken
    BY DEF XInv, ChecksInv, Tokens
  <2> QED BY <1>2, <2>1, ScreenSteps
<1>4. CASE ~PanelShown' /\ panel' = NoPanel
  <2>1. panel' \in Panels
    BY <1>4 DEF NoPanel, Panels, Verdicts
  <2> QED BY <1>3, <1>4, <2>1 DEF OwnerInv, PanelInv
<1>5. CASE mounted' /\ view' = view
  <2>1. panel' = panel /\ mounted
    BY <1>1, <1>5, ScreenSteps DEF PanelFollows
  <2>2. PanelShown' <=> PanelShown
    BY <1>5, <2>1 DEF PanelShown
  <2>3. OwnerInv'
    BY <1>1, <1>5, <2>1, <2>2 DEF XInv, OwnerInv, Response
  <2>4. PanelInv'
    BY <1>1, <2>1, <2>2 DEF XInv, PanelInv
  <2> QED BY <1>3, <2>3, <2>4
<1>6. CASE mounted' /\ view' # view /\ PanelShown'
  <2>1. panel' = PanelOf(view')
    BY <1>1, <1>6 DEF PanelFollows
  <2>2. /\ view'.status = "RESULT"
        /\ Response(view'.token).extension.status = "AVAILABLE"
        /\ panel' = [NoPanel EXCEPT !.owner = view'.token, !.fresh = TRUE]
    BY <1>6, <2>1 DEF PanelOf, PanelShown, NoPanel
  <2>3. /\ panel'.owner = view'.token /\ panel'.status = "IDLE"
        /\ panel'.tampered = FALSE /\ panel'.verdict = "NONE"
    BY <2>2 DEF NoPanel
  <2>4. view.status = "RUNNING" /\ view'.token = nextToken
    BY <1>6, <2>2, ScreenSteps
  <2>5. \A c \in checks' : c.owner # panel'.owner
    BY <1>1, <2>3, <2>4 DEF XInv, ChecksInv
  <2>6. OwnerInv'
    BY <1>1, <2>2, <2>3 DEF OwnerInv, Response
  <2>7. PanelInv'
    <3>1. nextToken \in {0} \cup Tokens
      BY DEF XInv, IInv, TypeOK
    <3>2. panel' \in Panels
      BY <2>2, <2>4, <3>1 DEF NoPanel, Panels, Verdicts
    <3> QED BY <2>3, <2>5, <3>2 DEF PanelInv, Verdicts
  <2> QED BY <1>3, <2>6, <2>7
<1>7. panel' = NoPanel => ~PanelShown'
  BY DEF PanelShown, NoPanel
<1>8. mounted' /\ view' # view /\ ~PanelShown' => panel' = NoPanel
  <2> SUFFICES ASSUME mounted', view' # view, panel' # NoPanel
               PROVE  PanelShown'
    OBVIOUS
  <2>1. /\ view'.status = "RESULT"
        /\ panel' = [NoPanel EXCEPT !.owner = view'.token, !.fresh = TRUE]
    BY <1>1 DEF PanelFollows, PanelOf
  <2>2. view'.token = nextToken /\ panel'.owner = view'.token
    BY <2>1, ScreenSteps DEF NoPanel
  <2>3. nextToken # 0
    BY <2>1, ScreenSteps
  <2> QED BY <2>2, <2>3 DEF PanelShown
<1>9. ~mounted' => panel' = NoPanel
  BY <1>1 DEF PanelFollows
<1> QED BY <1>3, <1>4, <1>5, <1>6, <1>7, <1>8, <1>9

(* The digest of a changed copy is another, and nothing else of it is.     *)
LEMMA TamperedCopies ==
  ASSUME NEW report \in PreflightReports, CanIssue(report),
         NEW tampered \in BOOLEAN
  PROVE  LET issued == Issue(report)
             copy   == IF tampered THEN TamperCopy(issued) ELSE issued
         IN  /\ copy.report.size = report.size
             /\ Verify(copy) = IF tampered THEN "DIGEST_INVALID" ELSE "VALID"
<1> DEFINE issued == Issue(report)
           changed == [report EXCEPT !.generatedAt =
                         OtherDate(report.generatedAt)]
           copy == TamperCopy(issued)
<1>1. /\ issued.report = report /\ issued.digest = Digest(report)
      /\ issued.literals = TRUE
      /\ DOMAIN issued = {"report", "digest", "literals"}
  BY DEF Issue, Credential
<1>2. report.valid = TRUE /\ report.canonical = TRUE
  BY DEF CanIssue, PreflightReports
<1>3. Verify(issued) = "VALID"
  BY <1>1, <1>2 DEF Verify, SchemaValid
<1>4. /\ changed.valid = TRUE /\ changed.canonical = TRUE
      /\ changed.size = report.size
      /\ changed.generatedAt = OtherDate(report.generatedAt)
  BY <1>2 DEF PreflightReports
<1>5. OtherDate(report.generatedAt) # report.generatedAt
  BY DEF OtherDate
<1>6. changed # report
  BY <1>4, <1>5
<1>7. Digest(changed) # Digest(report)
  BY <1>6 DEF Digest
<1>8. copy = [issued EXCEPT !.report = changed]
  <2>1. issued.report = report
    BY <1>1
  <2> HIDE DEF issued
  <2>2. copy = [issued EXCEPT !.report =
                  [issued.report EXCEPT !.generatedAt =
                     OtherDate(issued.report.generatedAt)]]
    BY DEF TamperCopy
  <2> HIDE DEF copy
  <2> QED BY <2>1, <2>2, Zenon
<1>9. /\ copy.report = changed /\ copy.digest = Digest(report)
      /\ copy.literals = TRUE
  <2> HIDE DEF issued, changed, copy
  <2> QED BY <1>1, <1>8
<1>10. Verify(copy) = "DIGEST_INVALID"
  <2> HIDE DEF issued, changed, copy
  <2> QED BY <1>4, <1>7, <1>9 DEF Verify, SchemaValid
<1>11. copy.report.size = report.size
  <2> HIDE DEF issued, copy
  <2> QED BY <1>4, <1>9
<1> HIDE DEF issued, copy
<1> QED BY <1>1, <1>3, <1>10, <1>11 DEF issued, copy

(* What the verifier says of a check that is under way.                    *)
LEMMA VerdictOfACheck ==
  ASSUME XInv, NEW c \in checks
  PROVE  LET credential == CopyOf(c.owner, c.tampered)
             request    == JsonRequest("NONE", 1 + credential.report.size)
         IN  HandleVerify(request, credential, serverEnabled)
               \in Verdicts(c.tampered)
<1> DEFINE report == served[c.owner].result.report
           credential == CopyOf(c.owner, c.tampered)
           request == JsonRequest("NONE", 1 + credential.report.size)
<1>1. /\ c.tampered \in BOOLEAN /\ c.owner \in DOMAIN served
      /\ served[c.owner].reply.extension.status = "AVAILABLE"
  BY DEF XInv, ChecksInv, Response
<1>2. /\ report \in PreflightReports /\ CanIssue(report)
      /\ served[c.owner].reply.extension.credential = Issue(report)
      /\ 1 + report.size <= MaxResponse
  BY <1>1 DEF XInv, ServedInv, GoodRun
<1>3. credential = IF c.tampered THEN TamperCopy(Issue(report))
                   ELSE Issue(report)
  BY <1>2 DEF CopyOf, CredentialOf, Response
<1> HIDE DEF report, credential
<1>4. /\ credential.report.size = report.size
      /\ Verify(credential) = IF c.tampered THEN "DIGEST_INVALID" ELSE "VALID"
  BY <1>1, <1>2, <1>3, TamperedCopies
<1>5. JsonRefusal(request, MaxResponse) = "NONE"
  <2>1. /\ request.media = "JSON" /\ request.body = "JSON"
        /\ request.declared = 1 + report.size
        /\ request.bytes = 1 + report.size
    BY <1>4 DEF JsonRequest
  <2>2. 1 + report.size \in Nat
    BY <1>2 DEF PreflightReports
  <2>3. ~(1 + report.size > MaxResponse)
    BY <1>2, <2>2, HandlerAssumption
  <2> HIDE DEF request
  <2> QED BY <2>1, <2>3 DEF JsonRefusal, BodyRefusal
<1> HIDE DEF request
<1>6. HandleVerify(request, credential, serverEnabled)
        \in {"CLEAR402_DISABLED", Verify(credential)}
  BY <1>5 DEF HandleVerify
<1> QED BY <1>4, <1>6 DEF Verdicts, credential, request

(* Steps that leave the screen alone: what the panel and the checks need   *)
(* of them.                                                                *)
LEMMA StillScreen ==
  ASSUME XInv, [ExchangeNext]_exchangeVars,
         UNCHANGED <<view, nextToken, mounted, panel>>, checks' \subseteq checks
  PROVE  OwnerInv' /\ ChecksInv' /\ PanelInv'
<1>1. PanelShown' <=> PanelShown
  BY DEF PanelShown
<1>2. ASSUME NEW t \in DOMAIN served
      PROVE  t \in DOMAIN served' /\ served'[t] = served[t]
  BY ServedGrows
<1>3. PanelShown => panel.owner \in DOMAIN served
  BY DEF XInv, OwnerInv, ScreenInv, Told
<1>4. OwnerInv'
  BY <1>1, <1>2, <1>3 DEF XInv, OwnerInv, Response
<1>5. ChecksInv'
  BY <1>2 DEF XInv, ChecksInv, Response
<1>6. PanelInv'
  BY <1>1 DEF XInv, PanelInv
<1> QED BY <1>4, <1>5, <1>6

LEMMA PanelFollowsClicks ==
  ASSUME XInv, ResetPanel \/ VerifyCopy \/ ChangeCopy
  PROVE  OwnerInv' /\ ChecksInv' /\ PanelInv'
<1>1. UNCHANGED <<view, nextToken, mounted, served>> /\ PanelShown
  BY Zenon DEF ResetPanel, VerifyCopy, ChangeCopy, workbenchVars, vars,
     serverVars
<1>2. panel \in Panels
  BY DEF XInv, PanelInv
<1>3. /\ view.status = "RESULT" /\ view.token = panel.owner
      /\ Response(panel.owner).extension.status = "AVAILABLE"
      /\ panel.owner \in DOMAIN served
  BY <1>1 DEF XInv, OwnerInv, ScreenInv, Told
<1>4. ~panel.hasty =>
        /\ panel.fresh => panel.status # "RUNNING"
        /\ \A c \in checks : c.owner = panel.owner =>
             panel.status = "RUNNING" /\ c.tampered = panel.tampered
  BY <1>1 DEF XInv, PanelInv
<1>5. SUFFICES
        /\ panel' \in Panels /\ panel'.owner = panel.owner
        /\ \A c \in checks' :
             c \in checks \/ c = [owner |-> panel.owner,
                                tampered |-> panel.tampered]
        /\ ~panel'.hasty =>
             /\ panel'.fresh => panel'.status # "RUNNING"
             /\ \A c \in checks' : c.owner = panel.owner =>
                  panel'.status = "RUNNING" /\ c.tampered = panel'.tampered
             /\ panel'.verdict = "NONE"
  <2>1. OwnerInv'
    BY <1>1, <1>3, <1>5 DEF OwnerInv, Response
  <2>2. panel.owner \in Tokens /\ panel.owner <= nextToken
        /\ panel.tampered \in BOOLEAN
    BY <1>2, <1>3 DEF Panels, XInv, ServedInv
  <2>3. ChecksInv'
    BY <1>1, <1>3, <1>5, <2>2 DEF XInv, ChecksInv, Response
  <2>4. PanelInv'
    BY <1>5 DEF PanelInv, Verdicts
  <2> QED BY <2>1, <2>3, <2>4
<1>6. CASE ResetPanel
  <2>1. /\ panel.fresh /\ checks' = checks
        /\ panel' = [NoPanel EXCEPT !.owner = panel.owner,
                                    !.hasty = panel.hasty]
    BY <1>6 DEF ResetPanel
  <2>2. /\ panel' \in Panels /\ panel'.owner = panel.owner
        /\ panel'.hasty = panel.hasty /\ panel'.fresh = FALSE
        /\ panel'.verdict = "NONE"
    BY <1>2, <2>1 DEF NoPanel, Panels, Verdicts
  <2> QED BY <1>4, <2>1, <2>2
<1>7. CASE VerifyCopy
  <2>1. /\ panel.status # "RUNNING"
        /\ panel' = [panel EXCEPT !.status = "RUNNING", !.verdict = "NONE",
                                  !.hasty = panel.hasty \/ panel.fresh]
        /\ checks' = checks \cup {[owner |-> panel.owner,
                                  tampered |-> panel.tampered]}
    BY <1>7 DEF VerifyCopy
  <2>2. /\ panel' \in Panels /\ panel'.owner = panel.owner
        /\ panel'.hasty = (panel.hasty \/ panel.fresh)
        /\ panel'.fresh = panel.fresh /\ panel'.status = "RUNNING"
        /\ panel'.tampered = panel.tampered /\ panel'.verdict = "NONE"
    BY <1>2, <2>1 DEF Panels, Verdicts
  <2>3. ~panel'.hasty => ~panel.hasty /\ ~panel.fresh
    BY <2>2
  <2>4. \A c \in checks' :
          c \in checks \/ c = [owner |-> panel.owner,
                             tampered |-> panel.tampered]
    BY <2>1
  <2>5. ASSUME NEW c \in checks', ~panel'.hasty, c.owner = panel.owner
        PROVE  c.tampered = panel'.tampered
    <3>1. CASE c \in checks
      BY <1>4, <2>2, <2>3, <2>5, <3>1
    <3>2. CASE c = [owner |-> panel.owner, tampered |-> panel.tampered]
      BY <2>2, <3>2
    <3> QED BY <2>4, <3>1, <3>2
  <2> QED BY <2>2, <2>3, <2>4, <2>5
<1>8. CASE ChangeCopy
  <2>1. /\ panel.status # "RUNNING" /\ checks' = checks
        /\ panel' = [panel EXCEPT !.tampered = ~panel.tampered,
                                  !.status = "IDLE", !.verdict = "NONE"]
    BY <1>8 DEF ChangeCopy, CopyIsIdle
  <2>2. /\ panel' \in Panels /\ panel'.owner = panel.owner
        /\ panel'.hasty = panel.hasty /\ panel'.status = "IDLE"
        /\ panel'.verdict = "NONE"
    BY <1>2, <2>1 DEF Panels, Verdicts
  <2> QED BY <1>4, <2>1, <2>2
<1> QED BY <1>6, <1>7, <1>8

LEMMA PanelFollowsChecks ==
  ASSUME XInv, NEW check \in checks, AnswerCheck(check) \/ BreakCheck(check)
  PROVE  OwnerInv' /\ ChecksInv' /\ PanelInv'
<1>1. PICK status \in {"COMPLETE", "ERROR"}, verdict \in Verdicts(check.tampered) :
        EndCheck(check, status, verdict)
  <2>1. CASE AnswerCheck(check)
    BY <2>1, VerdictOfACheck DEF AnswerCheck
  <2>2. CASE BreakCheck(check)
    BY <2>2 DEF BreakCheck, Verdicts
  <2> QED BY <2>1, <2>2
<1>2. /\ UNCHANGED <<view, nextToken, mounted, served>>
      /\ checks' = checks \ {check}
      /\ IF PanelShown /\ panel.owner = check.owner
         THEN panel' = [panel EXCEPT !.status = status, !.verdict = verdict]
         ELSE panel' = panel
  BY <1>1, Zenon DEF EndCheck, Show, workbenchVars, vars, serverVars
<1>3. panel \in Panels
  BY DEF XInv, PanelInv
<1>4. CASE ~(PanelShown /\ panel.owner = check.owner)
  BY <1>2, <1>4, StillScreen DEF ExchangeNext
<1>5. CASE PanelShown /\ panel.owner = check.owner
  <2>1. /\ panel'.owner = panel.owner /\ panel'.tampered = panel.tampered
        /\ panel'.fresh = panel.fresh /\ panel'.hasty = panel.hasty
        /\ panel'.status = status /\ panel'.verdict = verdict
        /\ panel' \in Panels
    BY <1>2, <1>3, <1>5, ZenonT(30) DEF Panels, Verdicts
  <2>2. OwnerInv'
    BY <1>2, <1>5, <2>1 DEF XInv, OwnerInv, Response
  <2>3. ChecksInv'
    BY <1>2 DEF XInv, ChecksInv, Response
  <2>4. ASSUME ~panel.hasty, NEW c \in checks', c.owner = panel.owner
        PROVE  FALSE
    <3>1. c.tampered = panel.tampered /\ check.tampered = panel.tampered
      BY <1>2, <1>5, <2>4 DEF XInv, PanelInv
    <3>2. c = check
      BY <1>2, <1>5, <2>4, <3>1 DEF XInv, ChecksInv
    <3> QED BY <1>2, <3>2
  <2>5. ~panel.hasty => check.tampered = panel.tampered
    BY <1>5 DEF XInv, PanelInv
  <2>6. PanelInv'
    BY <1>1, <2>1, <2>4, <2>5 DEF PanelInv
  <2> QED BY <2>2, <2>3, <2>6
<1> QED BY <1>4, <1>5

LEMMA NextXInv == XInv /\ [ExchangeNext]_exchangeVars => XInv'
<1> SUFFICES ASSUME XInv, [ExchangeNext]_exchangeVars PROVE XInv'
  OBVIOUS
<1>1. IInv'
  BY StepIsOfTheWorkbench, NextIInv DEF XInv
<1>2. FlagInv' /\ ServedInv' /\ ScreenInv'
  BY StepFlags, StepServed, StepScreen DEF XInv
<1>3. OwnerInv' /\ ChecksInv' /\ PanelInv'
  <2>1. CASE Screen
    BY <2>1, PanelFollowsScreen
  <2>2. CASE ResetPanel \/ VerifyCopy \/ ChangeCopy
    BY <2>2, PanelFollowsClicks
  <2>3. CASE \E check \in checks : AnswerCheck(check) \/ BreakCheck(check)
    BY <2>3, PanelFollowsChecks
  <2>4. CASE UNCHANGED <<view, nextToken, mounted, panel, checks>>
    BY <2>4, StillScreen
  <2>5. \/ Screen \/ ResetPanel \/ VerifyCopy \/ ChangeCopy
        \/ \E check \in checks : AnswerCheck(check) \/ BreakCheck(check)
        \/ UNCHANGED <<view, nextToken, mounted, panel, checks>>
    <3>1. ASSUME NEW t \in Tokens, Answer(t) \/ Break(t)
          PROVE  UNCHANGED <<view, nextToken, mounted, panel, checks>>
      BY <3>1, Zenon DEF Answer, Break, Succeed, FailWith
    <3> QED
      BY <3>1, Zenon DEF ExchangeNext, Serve, ServeOutside, Deploy,
         exchangeVars, workbenchVars, vars
  <2> QED BY <2>1, <2>2, <2>3, <2>4, <2>5
<1> QED BY <1>1, <1>2, <1>3 DEF XInv

LEMMA ExchangeInvariance == ExchangeSpec => []XInv
<1> QED BY InitXInv, NextXInv, PTL DEF ExchangeSpec

-----------------------------------------------------------------------------
(* The page with its server, its panel and the other clients is still the  *)
(* workbench: nothing proved of that is lost.                              *)
THEOREM StillTheWorkbench == ExchangeSpec => Spec
<1>1. ExchangeInit => Init
  BY DEF ExchangeInit
<1>2. [ExchangeNext]_exchangeVars => [Next]_vars
  BY StepIsOfTheWorkbench
<1> QED BY <1>1, <1>2, PTL DEF ExchangeSpec, Spec

(* Whatever the service returns and whoever asks, under either flag, the   *)
(* client takes the handler's answer for one.                              *)
THEOREM AnswersAreAccepted == ExchangeSpec => []ResponsesAreAccepted
<1>1. XInv => ResponsesAreAccepted
  BY DEF XInv, ServedInv, ResponsesAreAccepted, Runs, GoodRun
<1> QED BY <1>1, ExchangeInvariance, PTL

(* Exactly the sound reports that fit the limit are delivered: a           *)
(* credential never changes or replaces a run.                             *)
THEOREM SoundReportsArrive == ExchangeSpec => []DeliveredIfSound
<1>1. XInv => DeliveredIfSound
  BY DEF XInv, ServedInv, DeliveredIfSound, Runs, GoodRun
<1> QED BY <1>1, ExchangeInvariance, PTL

(* The screen shows what the server made of that very run, with a          *)
(* credential of the displayed report.                                     *)
THEOREM ScreenTellsTheServed == ExchangeSpec => []ShownIsServed
<1>1. XInv => ShownIsServed
  <2> SUFFICES ASSUME XInv PROVE ShownIsServed
    OBVIOUS
  <2>1. view.kind = "API" =>
          view.token \in DOMAIN served /\ ~Response(view.token).ok
    BY DEF XInv, ScreenInv, Told
  <2>2. ASSUME view.status = "RESULT"
        PROVE  /\ view.token \in DOMAIN served
               /\ Response(view.token).ok
               /\ GoodRun(served[view.token])
               /\ served[view.token].mode = mode
    <3>1. view.token \in DOMAIN served /\ Response(view.token).ok
      BY <2>2 DEF XInv, ScreenInv, Told
    <3>2. served[view.token].mode = asked[view.token]
      BY <3>1 DEF XInv, ServedInv
    <3>3. asked[view.token] = mode
      BY <2>2 DEF XInv, IInv, ViewInv, RunInv
    <3> QED BY <3>1, <3>2, <3>3 DEF XInv, ServedInv
  <2>3. ASSUME NEW report \in PreflightReports, CanIssue(report)
        PROVE  /\ Issue(report).report = report
               /\ Verify(Issue(report)) = "VALID"
    BY <2>3, TamperedCopies DEF Issue, Credential
  <2> QED BY <2>1, <2>2, <2>3 DEF ShownIsServed, GoodRun, Sound, Response
<1> QED BY <1>1, ExchangeInvariance, PTL

(* A verdict stands beside the copy it was given for, unless the user was  *)
(* faster than the effect of a new panel.                                  *)
THEOREM VerdictBelongs == ExchangeSpec => []VerdictIsOfTheCopy
<1>1. XInv => VerdictIsOfTheCopy
  BY DEF XInv, PanelInv, Panels, Verdicts, VerdictIsOfTheCopy
<1> QED BY <1>1, ExchangeInvariance, PTL

================================================================================
