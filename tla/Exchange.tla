-------------------------------- MODULE Exchange --------------------------------
(***************************************************************************)
(* The workbench and the two routes together: what the page asks, what the *)
(* preflight handler makes of the service's result, what the client takes  *)
(* from it, and the credential panel under a result                        *)
(* (components/credential-actions.tsx) with its verification requests.     *)
(*                                                                         *)
(* Nothing orders the two sides.  The server works on a request when it    *)
(* gets to it, also after the client's timer went off or its user left,    *)
(* and on the requests of other clients; an answer travels on its own; a   *)
(* deployment between two requests may change the flag that the page was   *)
(* rendered with.  Time is abstracted: the client's 15 s and the service's *)
(* 25 s are two events in either order.                                    *)
(***************************************************************************)
EXTENDS Workbench, PreflightHandler

CONSTANTS
  Requests,     \* requests other clients may send
  Results(_),   \* what a PreflightService may do with a request of a mode
  PageResults(_),  \* bound: those that the page's own runs meet
  MaxDeploys    \* bound: how often the server is deployed anew

ASSUME ExchangeAssumption ==
  /\ MaxDeploys \in Nat
  /\ \A m \in Modes : PageResults(m) \subseteq Results(m)
                      /\ Results(m) \subseteq ServiceResults
  /\ \A request \in Requests : request.mode \in Modes

VARIABLES
  pageEnabled,    \* clear402Enabled, as page.tsx was rendered with it
  serverEnabled,  \* CLEAR402_ENABLED of the server that runs now
  deploys,
  served,         \* token -> what the server did with the page's request
  outside,        \* what it did last for another client
  panel,          \* the state of AvailableCredentialActions
  checks          \* verification requests under way

workbenchVars == vars
serverVars == <<pageEnabled, serverEnabled, deploys, served, outside>>
exchangeVars == <<workbenchVars, serverVars, panel, checks>>

-----------------------------------------------------------------------------
(* The panel.  It belongs to the result of one token and is made anew for  *)
(* the next.  Its effect, which resets it, runs some time after the first  *)
(* paint: until then it is `fresh', and `hasty' if the user was faster.    *)
NoPanel ==
  [owner |-> 0, fresh |-> FALSE, hasty |-> FALSE, tampered |-> FALSE,
   status |-> "IDLE", verdict |-> "NONE"]

Response(token) == served[token].reply
CredentialOf(token) == Response(token).extension.credential

PanelOf(v) ==
  IF /\ v.status = "RESULT" /\ pageEnabled
     /\ Response(v.token).extension.status = "AVAILABLE"
  THEN [NoPanel EXCEPT !.owner = v.token, !.fresh = TRUE]
  ELSE NoPanel

PanelFollows ==
  panel' = IF ~mounted' THEN NoPanel
           ELSE IF view' = view THEN panel ELSE PanelOf(view')

CopyOf(token, tampered) ==
  IF tampered THEN TamperCopy(CredentialOf(token)) ELSE CredentialOf(token)

(* What the verification shows while `tampered' and the buttons change.    *)
Show(status, verdict) ==
  panel' = [panel EXCEPT !.status = status, !.verdict = verdict]

-----------------------------------------------------------------------------
ExchangeInit ==
  /\ Init
  /\ pageEnabled \in BOOLEAN /\ serverEnabled \in BOOLEAN
  /\ deploys = 0
  /\ served = [t \in {} |-> {}]
  /\ outside = {}
  /\ panel = NoPanel /\ checks = {}

(* The steps of the page that need no answer.                              *)
Screen ==
  /\ \/ RunPreflight \/ CancelRun \/ LoadFixture \/ EditIntent \/ Leave
     \/ Render
     \/ \E m \in Modes : ChangeMode(m)
     \/ \E t \in Tokens : Expire(t)
  /\ PanelFollows
  /\ outside' = {}
  /\ UNCHANGED <<pageEnabled, serverEnabled, deploys, served, checks>>

(* One run of the handler, with the flag it reads when a request comes in. *)
Run(request, result) ==
  [mode |-> request.mode, result |-> result, enabled |-> serverEnabled,
   refused |-> Refusal(request) # "NONE",
   reply |-> Handle(request, result, serverEnabled)]

(* The page's request, also when its signal has gone off by then.  A       *)
(* request the page has done with is of no consequence: the handler keeps  *)
(* nothing.                                                                *)
Serve(t, result) ==
  /\ t \in fetching /\ t \notin DOMAIN served
  /\ served' = [u \in DOMAIN served \cup {t} |->
                  IF u = t THEN Run(JsonRequest(asked[t], 1), result)
                  ELSE served[u]]
  /\ UNCHANGED <<workbenchVars, pageEnabled, serverEnabled, deploys, outside,
                 panel, checks>>

(* For the same reason other clients are only looked at before the page's  *)
(* own first run.                                                          *)
ServeOutside(request, result) ==
  /\ nextToken = 0 /\ ~draftOk /\ mode = "LIVE"
  /\ outside' = {Run(request, result)}
  /\ UNCHANGED <<workbenchVars, pageEnabled, serverEnabled, deploys, served,
                 panel, checks>>

Deploy ==
  /\ deploys < MaxDeploys
  /\ deploys' = deploys + 1
  /\ serverEnabled' = ~serverEnabled
  /\ UNCHANGED <<workbenchVars, pageEnabled, served, outside, panel, checks>>

(* The response arrives before anything signals the request.               *)
Answer(t) ==
  /\ t \in fetching /\ ~Signalled(t) /\ t \in DOMAIN served
  /\ LET reply == Response(t)
     IN  IF ~ClientAccepts(reply) THEN FailWith(t, "INVALID_RESPONSE")
         ELSE IF reply.ok THEN Succeed(t)
         ELSE FailWith(t, "API")
  /\ UNCHANGED <<serverVars, panel, checks>>

(* It does not: the connection breaks, someone else answers in the         *)
(* server's place, or the signal rejects the fetch.                        *)
Break(t) ==
  /\ \E kind \in ProblemKinds \ {"API"} : FailWith(t, kind)
  /\ UNCHANGED <<serverVars, panel, checks>>

-----------------------------------------------------------------------------
PanelShown == mounted /\ panel.owner # 0

(* Slip: the copy may be changed while it is verified.                     *)
AlwaysIdle == TRUE

(* The disabled buttons.                                                   *)
CopyIsIdle == panel.status # "RUNNING"

ResetPanel ==
  /\ PanelShown /\ panel.fresh
  /\ panel' = [NoPanel EXCEPT !.owner = panel.owner, !.hasty = panel.hasty]
  /\ UNCHANGED <<workbenchVars, serverVars, checks>>

VerifyCopy ==
  /\ PanelShown /\ panel.status # "RUNNING"
  /\ panel' = [panel EXCEPT !.status = "RUNNING", !.verdict = "NONE",
                            !.hasty = @ \/ panel.fresh]
  /\ checks' = checks \cup {[owner |-> panel.owner, tampered |-> panel.tampered]}
  /\ UNCHANGED <<workbenchVars, serverVars>>

ChangeCopy ==
  /\ PanelShown /\ CopyIsIdle
  /\ panel' = [panel EXCEPT !.tampered = ~@, !.status = "IDLE",
                            !.verdict = "NONE"]
  /\ UNCHANGED <<workbenchVars, serverVars, checks>>

(* The awaits of verifyCopy end, whatever the panel has become meanwhile;  *)
(* a panel that is gone ignores them.                                      *)
EndCheck(check, status, verdict) ==
  /\ check \in checks
  /\ checks' = checks \ {check}
  /\ IF PanelShown /\ panel.owner = check.owner
     THEN Show(status, verdict) ELSE UNCHANGED panel
  /\ UNCHANGED <<workbenchVars, serverVars>>

AnswerCheck(check) ==
  LET credential == CopyOf(check.owner, check.tampered)
      request    == JsonRequest("NONE", 1 + credential.report.size)
  IN  EndCheck(check, "COMPLETE",
               HandleVerify(request, credential, serverEnabled))

BreakCheck(check) == EndCheck(check, "ERROR", "UNREACHABLE")

ExchangeNext ==
  \/ Screen
  \/ \E t \in Tokens : \/ \E result \in PageResults(asked[t]) : Serve(t, result)
                       \/ Answer(t) \/ Break(t)
  \/ \E request \in Requests : \E result \in Results(request.mode) :
       ServeOutside(request, result)
  \/ Deploy
  \/ ResetPanel \/ VerifyCopy \/ ChangeCopy
  \/ \E check \in checks : AnswerCheck(check) \/ BreakCheck(check)

ExchangeSpec == ExchangeInit /\ [][ExchangeNext]_exchangeVars

-----------------------------------------------------------------------------
Runs == {served[t] : t \in DOMAIN served} \cup outside

(* Both sides check the same contract with code of their own: no response  *)
(* of the handler, to any request and under either flag, is one that the   *)
(* client calls invalid, and the client's limit is not passed.             *)
ResponsesAreAccepted == \A r \in Runs : ClientAccepts(r.reply)

(* ADR 0005: a credential is an extension of a finished run and must not   *)
(* change or replace it.  A report that fits its mode and holds nothing    *)
(* sensitive is delivered as it is, under either flag and with a credential*)
(* that can be issued or not; only its length can prevent it, and with the *)
(* flag on the credential, which repeats the report, counts.  No other     *)
(* report is delivered.                                                    *)
Sound(m, report) ==
  /\ report.valid /\ ~report.sensitive
  /\ m = "FIXTURE" <=> report.provenance = "FIXTURE"

FitsTheLimit(report, enabled) ==
  LET extension == IF report.canonical THEN 1 + report.size ELSE 1
  IN  1 + report.size + (IF enabled THEN extension ELSE 0) <= MaxResponse

DeliveredIfSound ==
  \A r \in Runs :
    r.reply.ok <=>
      /\ ~r.refused /\ r.result.status = "SUCCESS"
      /\ Sound(r.mode, r.result.report)
      /\ FitsTheLimit(r.result.report, r.enabled)

(* What the screen shows is what the server made of that very run: the     *)
(* report, its source and its Decision agree, a credential encloses the    *)
(* displayed report and verifies, and an error of the API was its answer.  *)
ShownIsServed ==
  /\ view.status = "RESULT" =>
       /\ view.token \in DOMAIN served
       /\ LET response == Response(view.token)
              report   == served[view.token].result.report
          IN  /\ response.ok /\ response.report = report
              /\ response.mode = mode
              /\ mode = "FIXTURE" <=> report.provenance = "FIXTURE"
              /\ response.presentation.status = report.status
              /\ response.extension.status = "AVAILABLE" =>
                   /\ response.extension.credential.report = report
                   /\ Verify(response.extension.credential) = "VALID"
  /\ view.kind = "API" =>
       view.token \in DOMAIN served /\ ~Response(view.token).ok

(* A verdict stands beside the copy it was given for, however many results,*)
(* retries and late answers there were: VALID never beside a tampered      *)
(* copy, DIGEST_INVALID never beside the original, and a shown credential  *)
(* is never too large for the verifier.  The exception is a user who was   *)
(* faster than the effect that resets a new panel.                         *)
VerdictIsOfTheCopy ==
  PanelShown /\ ~panel.hasty =>
    /\ panel.verdict = "VALID" => ~panel.tampered
    /\ panel.verdict = "DIGEST_INVALID" => panel.tampered
    /\ panel.verdict \notin {"SCHEMA_INVALID", "REQUEST_TOO_LARGE"}

=============================================================================
