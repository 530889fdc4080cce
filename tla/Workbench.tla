------------------------------- MODULE Workbench -------------------------------
(***************************************************************************)
(* The browser side: WorkbenchShell (components/workbench-shell.tsx) with  *)
(* its reducer (client/run-state.ts) and the requests it sends             *)
(* (client/api-client.ts), as far as the disabled buttons of RunControls   *)
(* and IntentForm let a user go.                                           *)
(*                                                                         *)
(* A handler is a closure over what was rendered last.  React (external)   *)
(* renders before the next event when a user's event changed the state,    *)
(* and some time later when a promise did: `view' is the rendered run and  *)
(* `run' the reduced one.  Requests outlive the runs that sent them: an    *)
(* aborted fetch rejects, but only later.                                  *)
(***************************************************************************)
EXTENDS Naturals, FiniteSets

CONSTANT MaxRuns   \* how often the user starts a run; bounds the model

ASSUME WorkbenchAssumption == MaxRuns \in Nat \ {0}

VARIABLES
  mode,      \* the mode chosen
  loaded,    \* whether a fixture scenario is loaded
  draftOk,   \* whether validateIntentDraft accepts the draft
  errors,    \* whether field errors are shown
  recovery,  \* liveRecovery: the failed run it was made of, or NoRun
  run,       \* the state of reduceRunState
  view,      \* the run the screen shows and the handlers see
  active,    \* activeRun.current: its token, 0 for undefined
  nextToken, \* nextToken.current
  asked,     \* the mode of the request sent with each token
  fetching,  \* the tokens whose requestPreflight has not settled
  aborted,   \* the tokens whose AbortController was aborted
  expired,   \* the tokens whose timer went off
  mounted

vars == <<mode, loaded, draftOk, errors, recovery, run, view, active,
          nextToken, asked, fetching, aborted, expired, mounted>>

requests == <<asked, fetching, aborted, expired>>

Modes == {"LIVE", "FIXTURE"}
Tokens == 1..MaxRuns
ProblemKinds == {"API", "ABORTED", "TIMEOUT", "NETWORK", "INVALID_RESPONSE"}

(* One record for the four shapes of RunState.  runId is the run the       *)
(* server made of the request with that token; 0 where none was returned.  *)
State(status, token, kind, m, runId) ==
  [status |-> status, token |-> token, kind |-> kind, mode |-> m,
   runId |-> runId]

NoRun == State("IDLE", 0, "NONE", "LIVE", 0)
Running(token) == State("RUNNING", token, "NONE", "LIVE", 0)
Result(token, m) == State("RESULT", token, "NONE", m, token)
Problem(token, kind, m, runId) == State("ERROR", token, kind, m, runId)

Init ==
  /\ mode = "LIVE"
  /\ loaded = FALSE
  /\ draftOk = FALSE
  /\ errors = FALSE
  /\ recovery = NoRun
  /\ run = NoRun
  /\ view = NoRun
  /\ active = 0
  /\ nextToken = 0
  /\ asked = [t \in Tokens |-> "LIVE"]
  /\ fetching = {} /\ aborted = {} /\ expired = {}
  /\ mounted = TRUE

-----------------------------------------------------------------------------
(* reduceRunState.  An event carries the state it leads to.                *)
Start(state, next) == IF state.status = "RUNNING" THEN state ELSE next

(* Slip: any settlement ends the run that is shown.                        *)
ConcludeAny(state, next) == IF state.status # "RUNNING" THEN state ELSE next

(* RESOLVE and REJECT.                                                     *)
Conclude(state, next) ==
  IF state.status # "RUNNING" \/ state.token # next.token THEN state ELSE next

-----------------------------------------------------------------------------
(* The user.  A user's event is followed by a render.                      *)
NotRunning == view.status # "RUNNING"

ValidateDraft == errors' = ~draftOk

(* `Run preflight', and `Retry preflight' of the error pane.               *)
RunPreflight ==
  /\ mounted
  /\ NotRunning
  /\ mode = "LIVE" \/ loaded \/ view.status = "ERROR"
  /\ active = 0
  /\ mode = "FIXTURE" => loaded
  /\ nextToken < MaxRuns
  /\ IF mode = "LIVE" THEN ValidateDraft ELSE UNCHANGED errors
  /\ IF mode = "LIVE" /\ ~draftOk
     THEN UNCHANGED <<run, view, active, nextToken, asked, fetching>>
     ELSE /\ nextToken' = nextToken + 1
          /\ active' = nextToken'
          /\ run' = Start(run, Running(nextToken'))
          /\ view' = run'
          /\ asked' = [asked EXCEPT ![nextToken'] = mode]
          /\ fetching' = fetching \cup {nextToken'}
  /\ UNCHANGED <<mode, loaded, draftOk, recovery, aborted, expired, mounted>>

(* Slip: the run is forgotten, and its request goes on.                    *)
KeepFetching(t) == aborted

Abort(t) == aborted \cup {t}

CancelRun ==
  /\ mounted
  /\ view.status = "RUNNING"
  /\ active # 0
  /\ aborted' = Abort(active)
  /\ run' = Conclude(run, Problem(active, "ABORTED", mode, 0))
  /\ view' = run'
  /\ active' = 0
  /\ UNCHANGED <<mode, loaded, draftOk, errors, recovery, nextToken, asked,
                 fetching, expired, mounted>>

(* Slips: the recovery made of whatever was shown; one that outlives a     *)
(* return to LIVE; and a mode that keeps the outcome of the other mode.    *)
RecoverAnything(m) == IF m = "FIXTURE" THEN view ELSE NoRun

RecoverForever(m) ==
  IF m = "FIXTURE" /\ view.status = "ERROR" /\ view.mode = "LIVE"
  THEN view ELSE recovery

KeepOutcome == run

Recover(m) ==
  IF m = "FIXTURE" /\ view.status = "ERROR" /\ view.mode = "LIVE"
  THEN view ELSE NoRun

Reset == NoRun

(* The mode buttons, and `Recover with Fixture'.                           *)
ChangeMode(m) ==
  /\ mounted
  /\ NotRunning
  /\ m # mode
  /\ recovery' = Recover(m)
  /\ mode' = m
  /\ errors' = FALSE
  /\ loaded' = FALSE
  /\ run' = Reset
  /\ view' = run'
  /\ UNCHANGED <<draftOk, active, nextToken, requests, mounted>>

LoadFixture ==
  /\ mounted
  /\ NotRunning
  /\ mode = "FIXTURE"
  /\ loaded' = TRUE
  /\ run' = NoRun
  /\ view' = run'
  /\ UNCHANGED <<mode, draftOk, errors, recovery, active, nextToken, requests,
                 mounted>>

EditIntent ==
  /\ mounted
  /\ NotRunning
  /\ mode = "LIVE"
  /\ draftOk' \in BOOLEAN
  /\ errors' = FALSE
  /\ UNCHANGED <<mode, loaded, recovery, run, view, active, nextToken,
                 requests, mounted>>

Leave ==
  /\ mounted
  /\ mounted' = FALSE
  /\ aborted' = IF active = 0 THEN aborted ELSE Abort(active)
  /\ UNCHANGED <<mode, loaded, draftOk, errors, recovery, run, view, active,
                 nextToken, asked, fetching, expired>>

-----------------------------------------------------------------------------
(* requestPreflight and the rest of runPreflight behind its await.         *)
Signalled(t) == t \in aborted \cup expired

(* Slips: whichever run is active is over; any success ends the recovery.  *)
ForgetActive(t) == 0
ForgetRecovery(m) == NoRun

(* `finally': only the run's own entry is removed.                         *)
AfterRun(t) == IF active = t THEN 0 ELSE active

AfterSuccess(m) == IF m = "LIVE" THEN NoRun ELSE recovery

(* Dispatches of a component that is gone change nothing.                  *)
Dispatch(next) == run' = IF mounted THEN Conclude(run, next) ELSE run

(* The validated response of the handler, which repeats the mode it was    *)
(* asked for and names the run it made.                                    *)
Succeed(t) ==
  /\ t \in fetching /\ ~Signalled(t)
  /\ fetching' = fetching \ {t}
  /\ Dispatch(Result(t, asked[t]))
  /\ recovery' = IF mounted THEN AfterSuccess(asked[t]) ELSE recovery
  /\ active' = AfterRun(t)
  /\ UNCHANGED <<mode, loaded, draftOk, errors, view, nextToken, asked,
                 aborted, expired, mounted>>

(* The server's own error, a response that is none, a broken connection,   *)
(* or the signal: the caller's abort goes before the timeout.              *)
FailureKinds(t) ==
  IF ~Signalled(t) THEN {"API", "NETWORK", "INVALID_RESPONSE"}
  ELSE IF t \in aborted THEN {"ABORTED"} ELSE {"TIMEOUT"}

FailWith(t, kind) ==
  /\ t \in fetching
  /\ kind \in FailureKinds(t)
  /\ fetching' = fetching \ {t}
  /\ Dispatch(Problem(t, kind, asked[t], IF kind = "API" THEN t ELSE 0))
  /\ active' = AfterRun(t)
  /\ UNCHANGED <<mode, loaded, draftOk, errors, recovery, view, nextToken,
                 asked, aborted, expired, mounted>>

Fail(t) == \E kind \in ProblemKinds : FailWith(t, kind)

(* Slip: the request obeys the caller's signal only.                       *)
ExpireUnheard(t) ==
  /\ t \in fetching
  /\ UNCHANGED vars

(* The client's own timer.                                                 *)
Expire(t) ==
  /\ t \in fetching \ expired
  /\ expired' = expired \cup {t}
  /\ UNCHANGED <<mode, loaded, draftOk, errors, recovery, run, view, active,
                 nextToken, asked, fetching, aborted, mounted>>

(* React renders what a promise changed.                                   *)
Render ==
  /\ mounted
  /\ view # run
  /\ view' = run
  /\ UNCHANGED <<mode, loaded, draftOk, errors, recovery, run, active,
                 nextToken, requests, mounted>>

Next ==
  \/ RunPreflight \/ CancelRun \/ LoadFixture \/ EditIntent \/ Leave \/ Render
  \/ \E m \in Modes : ChangeMode(m)
  \/ \E t \in Tokens : Succeed(t) \/ Fail(t) \/ Expire(t)

Spec == Init /\ [][Next]_vars

(* Timers fire, a signalled fetch rejects and React renders; the server    *)
(* owes no answer and the user no click.                                   *)
Fairness ==
  /\ WF_vars(Render)
  /\ \A t \in Tokens : WF_vars(Expire(t)) /\ WF_vars(Signalled(t) /\ Fail(t))

FairSpec == Spec /\ Fairness

-----------------------------------------------------------------------------
States ==
  [status : {"IDLE", "RUNNING", "RESULT", "ERROR"}, token : {0} \cup Tokens,
   kind : {"NONE"} \cup ProblemKinds, mode : Modes, runId : {0} \cup Tokens]

TypeOK ==
  /\ mode \in Modes
  /\ loaded \in BOOLEAN /\ draftOk \in BOOLEAN /\ errors \in BOOLEAN
  /\ mounted \in BOOLEAN
  /\ run \in States /\ view \in States
  /\ recovery \in States
  /\ recovery.status = "ERROR" \/ recovery = NoRun
  /\ active \in {0} \cup Tokens
  /\ nextToken \in {0} \cup Tokens
  /\ asked \in [Tokens -> Modes]
  /\ fetching \subseteq Tokens /\ aborted \subseteq Tokens
  /\ expired \subseteq Tokens

(* The ref that guards against a second run and the state that disables    *)
(* the buttons never disagree: otherwise `Run preflight' is enabled and    *)
(* does nothing, or the pane waits for a run that nothing will end.        *)
ActiveRunIsShown ==
  mounted =>
    IF active = 0 THEN run.status # "RUNNING" ELSE run = Running(active)

(* Of all requests ever sent, at most one is under way and not aborted;    *)
(* it belongs to the active run, and none is left when the user leaves.    *)
OneRequestAtATime ==
  \A t \in fetching \ aborted : mounted /\ t = active

(* A Live failure never becomes a Fixture success, nor the reverse: an     *)
(* outcome on the screen belongs to the run started last, and its source   *)
(* is the mode that is selected.                                           *)
SourceIsTheChosenOne ==
  \A state \in {run, view} :
    state.status \in {"RESULT", "ERROR"} =>
      /\ state.token = nextToken
      /\ state.mode = mode
      /\ asked[state.token] = mode

(* The recovery audit tells the truth: it stands beside Fixture runs only, *)
(* names a Live run that failed, and a recovered run is a later one with   *)
(* an id of its own.                                                       *)
RecoveryIsHonest ==
  recovery # NoRun =>
    /\ mode = "FIXTURE"
    /\ recovery.mode = "LIVE" /\ asked[recovery.token] = "LIVE"
    /\ run.status = "RESULT" =>
         /\ run.token > recovery.token
         /\ run.runId # recovery.runId

(* A retained Live failure stays until the user chooses a mode: no answer, *)
(* however late, takes it away.                                            *)
FailureIsRetained == [][recovery' # recovery => mode' # mode]_recovery

(* The pane keeps the contract of the run that was started last.           *)
Contract == INSTANCE WorkbenchContract
              WITH shown <- run.status, owner <- run.token, started <- nextToken

ImplementsContract == Contract!ContractSpec

(* A run that a server never answers still ends on the screen of a user    *)
(* who waits.                                                              *)
ScreenSettles ==
  view.status = "RUNNING" ~> view.status # "RUNNING" \/ ~mounted

=============================================================================
