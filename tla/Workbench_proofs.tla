--------------------------- MODULE Workbench_proofs ---------------------------
(***************************************************************************)
(* What the workbench shows, for every number of runs.  The properties     *)
(* relate the ref, the reducer's state, the screen and the requests, so    *)
(* the inductive invariant says first how these hang together: the screen  *)
(* is behind only while it shows a running run, the ref names the last     *)
(* run, and only the last run has a request nobody aborted.                *)
(***************************************************************************)
EXTENDS Workbench, TLAPS

RunInv ==
  /\ run.token <= nextToken
  /\ run.runId \in {0, run.token}
  /\ run.status = "IDLE" => run = NoRun
  /\ run.status = "RESULT" => run.runId = run.token
  /\ run.status \in {"RESULT", "ERROR"} =>
       /\ run.token = nextToken /\ run.token # 0
       /\ run.mode = mode /\ asked[run.token] = mode

ActiveInv ==
  /\ active # 0 => /\ active = nextToken
                   /\ asked[active] = mode
                   /\ run = Running(active)
  /\ mounted /\ active = 0 => run.status # "RUNNING"

ViewInv == view.status # "RUNNING" => view = run

FetchInv ==
  /\ \A t \in aborted : t <= nextToken
  /\ \A t \in fetching \ aborted : mounted /\ t = active

RecoveryInv ==
  recovery # NoRun =>
    /\ mode = "FIXTURE"
    /\ recovery.mode = "LIVE"
    /\ recovery.token \in Tokens /\ recovery.token <= nextToken
    /\ asked[recovery.token] = "LIVE"
    /\ recovery.runId \in {0, recovery.token}

IInv == TypeOK /\ RunInv /\ ActiveInv /\ ViewInv /\ FetchInv /\ RecoveryInv

-----------------------------------------------------------------------------
(* The records of RunState, field by field.                                *)
LEMMA StateFields ==
  ASSUME NEW s, NEW t, NEW k, NEW m, NEW r
  PROVE  /\ State(s, t, k, m, r).status = s
         /\ State(s, t, k, m, r).token = t
         /\ State(s, t, k, m, r).kind = k
         /\ State(s, t, k, m, r).mode = m
         /\ State(s, t, k, m, r).runId = r
BY DEF State

LEMMA StateTyped ==
  /\ NoRun \in States
  /\ \A t \in Tokens : Running(t) \in States
  /\ \A t \in Tokens, m \in Modes : Result(t, m) \in States
  /\ \A t \in Tokens, k \in ProblemKinds, m \in Modes, r \in {0} \cup Tokens :
       Problem(t, k, m, r) \in States
BY DEF States, State, NoRun, Running, Result, Problem, Modes, ProblemKinds

(* A settlement reaches the state only of the run it belongs to.           *)
LEMMA DispatchOutcome ==
  ASSUME NEW next, Dispatch(next)
  PROVE  \/ run' = run
         \/ mounted /\ run.status = "RUNNING" /\ run.token = next.token /\ run' = next
BY DEF Dispatch, Conclude

LEMMA InitIInv == Init => IInv
<1> SUFFICES ASSUME Init PROVE IInv
  OBVIOUS
<1> USE WorkbenchAssumption, StateTyped
<1>1. TypeOK
  BY DEF Init, TypeOK, Modes, NoRun, State
<1>2. RunInv /\ ActiveInv /\ ViewInv /\ FetchInv /\ RecoveryInv
  BY DEF Init, RunInv, ActiveInv, ViewInv, FetchInv, RecoveryInv, NoRun, State
<1> QED
  BY <1>1, <1>2 DEF IInv

LEMMA NextIInv == IInv /\ [Next]_vars => IInv'
<1> SUFFICES ASSUME IInv, [Next]_vars PROVE IInv'
  OBVIOUS
<1> USE WorkbenchAssumption
<1>1. CASE RunPreflight
  <2>1. CASE mode = "LIVE" /\ ~draftOk
    <3>1. UNCHANGED <<run, view, active, nextToken, requests, mode, loaded,
                      draftOk, recovery, mounted>> /\ errors' \in BOOLEAN
      BY <1>1, <2>1 DEF RunPreflight, ValidateDraft, IInv, TypeOK, requests
    <3> QED
      BY <3>1 DEF IInv, TypeOK, RunInv, ActiveInv, ViewInv, FetchInv,
                  RecoveryInv, requests
  <2>2. CASE ~(mode = "LIVE" /\ ~draftOk)
    <3> DEFINE n == nextToken + 1
    <3>1. /\ nextToken' = n /\ active' = n /\ n \in Tokens
          /\ asked' = [asked EXCEPT ![n] = mode]
          /\ fetching' = fetching \cup {n}
          /\ run' = Running(n) /\ view' = run'
          /\ UNCHANGED <<mode, loaded, draftOk, recovery, aborted, expired,
                         mounted>>
          /\ errors' \in BOOLEAN
          /\ active = 0 /\ mounted
      <4>1. /\ nextToken' = n /\ active' = nextToken'
            /\ asked' = [asked EXCEPT ![nextToken'] = mode]
            /\ fetching' = fetching \cup {nextToken'}
            /\ run' = Start(run, Running(nextToken')) /\ view' = run'
            /\ UNCHANGED <<mode, loaded, draftOk, recovery, aborted, expired,
                           mounted>>
            /\ active = 0 /\ mounted /\ view.status # "RUNNING"
            /\ nextToken < MaxRuns
        BY <1>1, <2>2, Zenon DEF RunPreflight, NotRunning
      <4>2. n \in Tokens
        BY <4>1 DEF IInv, TypeOK, Tokens
      <4>3. run' = Running(nextToken')
        BY <4>1 DEF IInv, ViewInv, Start
      <4>4. errors' \in BOOLEAN
        BY <1>1 DEF RunPreflight, ValidateDraft, IInv, TypeOK
      <4> QED
        BY <4>1, <4>2, <4>3, <4>4
    <3>2. TypeOK'
      <4>1. run' \in States /\ view' \in States
        BY <3>1, StateTyped
      <4>2. asked' \in [Tokens -> Modes]
        BY <3>1 DEF IInv, TypeOK
      <4> QED
        BY <3>1, <4>1, <4>2 DEF IInv, TypeOK
    <3>3. RunInv' /\ ActiveInv' /\ ViewInv'
      BY <3>1 DEF IInv, TypeOK, RunInv, ActiveInv, ViewInv, Running, State,
           Tokens
    <3>4. FetchInv'
      BY <3>1 DEF IInv, TypeOK, FetchInv, Tokens
    <3>5. RecoveryInv'
      BY <3>1 DEF IInv, TypeOK, RecoveryInv, Tokens
    <3> QED
      BY <3>2, <3>3, <3>4, <3>5 DEF IInv
  <2> QED
    BY <2>1, <2>2
<1>2. CASE CancelRun
  <2>1. /\ active \in Tokens /\ active = nextToken /\ run = Running(active)
        /\ asked[active] = mode
        /\ run' = Problem(active, "ABORTED", mode, 0) /\ view' = run'
        /\ active' = 0 /\ aborted' = aborted \cup {active}
        /\ UNCHANGED <<mode, loaded, draftOk, errors, recovery, nextToken,
                       asked, fetching, expired, mounted>>
    BY <1>2 DEF CancelRun, Abort, Conclude, Running, Problem, State, IInv,
         TypeOK, ActiveInv
  <2>2. TypeOK'
    <3>1. run' \in States
      BY <2>1, StateTyped DEF IInv, TypeOK, ProblemKinds
    <3> QED
      BY <2>1, <3>1 DEF IInv, TypeOK
  <2>3. RunInv' /\ ActiveInv' /\ ViewInv'
    BY <2>1 DEF IInv, TypeOK, RunInv, ActiveInv, ViewInv, Problem, State, Tokens
  <2>4. FetchInv' /\ RecoveryInv'
    BY <2>1 DEF IInv, TypeOK, FetchInv, RecoveryInv, Tokens
  <2> QED
    BY <2>2, <2>3, <2>4 DEF IInv
<1>3. ASSUME NEW m \in Modes, ChangeMode(m) PROVE IInv'
  <2>1. /\ view = run /\ run.status # "RUNNING" /\ active = 0 /\ mounted
        /\ mode' = m /\ errors' = FALSE /\ loaded' = FALSE
        /\ run' = NoRun /\ view' = NoRun /\ recovery' = Recover(m)
        /\ UNCHANGED <<draftOk, active, nextToken, asked, fetching, aborted,
                       expired, mounted>>
    BY <1>3 DEF ChangeMode, NotRunning, Reset, requests, IInv, ViewInv,
         ActiveInv, Running, State
  <2>2. \/ recovery' = NoRun
        \/ /\ recovery' = run /\ mode' = "FIXTURE"
           /\ run.status = "ERROR" /\ run.mode = "LIVE"
    BY <2>1 DEF Recover
  <2>3. TypeOK'
    BY <2>1, <2>2, StateTyped DEF IInv, TypeOK
  <2>4. RunInv' /\ ActiveInv' /\ ViewInv'
    BY <2>1 DEF IInv, TypeOK, RunInv, ActiveInv, ViewInv, NoRun, State, Tokens
  <2>5. FetchInv'
    BY <2>1 DEF IInv, FetchInv
  <2>6. RecoveryInv'
    BY <2>1, <2>2 DEF IInv, TypeOK, RunInv, RecoveryInv, States
  <2> QED
    BY <2>3, <2>4, <2>5, <2>6 DEF IInv
<1>4. CASE LoadFixture
  <2>1. /\ view = run /\ run.status # "RUNNING" /\ active = 0
        /\ loaded' = TRUE /\ run' = NoRun /\ view' = NoRun
        /\ UNCHANGED <<mode, draftOk, errors, recovery, active, nextToken,
                       asked, fetching, aborted, expired, mounted>>
    BY <1>4 DEF LoadFixture, NotRunning, requests, IInv, ViewInv, ActiveInv,
         Running, State
  <2>2. TypeOK'
    BY <2>1, StateTyped DEF IInv, TypeOK
  <2>3. RunInv' /\ ActiveInv' /\ ViewInv'
    BY <2>1 DEF IInv, TypeOK, RunInv, ActiveInv, ViewInv, NoRun, State, Tokens
  <2>4. FetchInv' /\ RecoveryInv'
    BY <2>1 DEF IInv, FetchInv, RecoveryInv
  <2> QED
    BY <2>2, <2>3, <2>4 DEF IInv
<1>5. CASE EditIntent
  BY <1>5 DEF EditIntent, requests, IInv, TypeOK, RunInv, ActiveInv, ViewInv,
       FetchInv, RecoveryInv
<1>6. CASE Leave
  <2>1. /\ mounted' = FALSE /\ aborted' = IF active = 0 THEN aborted
                                          ELSE aborted \cup {active}
        /\ UNCHANGED <<mode, loaded, draftOk, errors, recovery, run, view,
                       active, nextToken, asked, fetching, expired>>
    BY <1>6 DEF Leave, Abort
  <2>2. TypeOK'
    BY <2>1 DEF IInv, TypeOK
  <2>3. RunInv' /\ ActiveInv' /\ ViewInv' /\ RecoveryInv'
    BY <2>1 DEF IInv, RunInv, ActiveInv, ViewInv, RecoveryInv
  <2>4. FetchInv'
    BY <2>1 DEF IInv, TypeOK, FetchInv, ActiveInv, Tokens
  <2> QED
    BY <2>2, <2>3, <2>4 DEF IInv
<1>7. ASSUME NEW t \in Tokens, Succeed(t) \/ Fail(t) PROVE IInv'
  <2> DEFINE Same == UNCHANGED <<mode, loaded, draftOk, errors, view, nextToken,
                                 asked, aborted, expired, mounted>>
  <2>1. /\ t \in fetching /\ fetching' = fetching \ {t} /\ Same
        /\ active' = AfterRun(t)
        /\ recovery' = recovery \/ recovery' = NoRun
    BY <1>7 DEF Succeed, Fail, FailWith, AfterSuccess
  <2>2. \/ run' = run
        \/ /\ mounted /\ run.status = "RUNNING" /\ run.token = t
           /\ run' \in States
           /\ run'.token = t /\ run'.mode = asked[t]
           /\ run'.status \in {"RESULT", "ERROR"}
           /\ run'.runId \in {0, t}
           /\ run'.status = "RESULT" => run'.runId = t
    <3>0. asked[t] \in Modes
      BY DEF IInv, TypeOK
    <3>1. CASE Succeed(t)
      <4>1. Dispatch(Result(t, asked[t]))
        BY <3>1 DEF Succeed
      <4>2. Result(t, asked[t]) \in States
        BY <3>0, StateTyped
      <4> QED
        BY <4>1, <4>2, DispatchOutcome DEF Result, State
    <3>2. CASE Fail(t)
      <4>1. PICK kind \in ProblemKinds :
              Dispatch(Problem(t, kind, asked[t], IF kind = "API" THEN t ELSE 0))
        BY <3>2 DEF Fail, FailWith
      <4>2. Problem(t, kind, asked[t], IF kind = "API" THEN t ELSE 0) \in States
        BY <3>0, StateTyped
      <4> QED
        BY <4>1, <4>2, DispatchOutcome DEF Problem, State
    <3> QED
      BY <1>7, <3>1, <3>2
  <2>3. mounted /\ run.status = "RUNNING" => run = Running(active) /\ active # 0
    BY DEF IInv, ActiveInv
  <2>4. run' # run => active = t /\ active' = 0
    BY <2>1, <2>2, <2>3 DEF Running, State, AfterRun
  <2>5. TypeOK'
    <3>1. run' \in States
      BY <2>2 DEF IInv, TypeOK
    <3>2. active' \in {0} \cup Tokens
      BY <2>1 DEF AfterRun, IInv, TypeOK
    <3> QED
      BY <2>1, <3>1, <3>2, StateTyped DEF IInv, TypeOK
  <2>6. RunInv'
    <3>1. CASE run' = run
      BY <2>1, <3>1 DEF IInv, RunInv
    <3>2. CASE run' # run
      BY <2>1, <2>2, <2>4, <3>2 DEF IInv, TypeOK, RunInv, ActiveInv, Tokens
    <3> QED
      BY <3>1, <3>2
  <2>7. ActiveInv'
    <3>1. CASE run' = run
      <4>1. CASE active = t
        <5>1. ~mounted
          <6>1. SUFFICES ASSUME mounted PROVE FALSE
            OBVIOUS
          <6>2. run = Running(t) /\ t # 0
            BY <4>1 DEF IInv, ActiveInv, Tokens
          <6>3. \E next : next.token = t /\ next.status # "RUNNING"
                          /\ Dispatch(next)
            <7>1. CASE Succeed(t)
              BY <7>1, StateFields DEF Succeed, Result
            <7>2. CASE Fail(t)
              BY <7>2, StateFields DEF Fail, FailWith, Problem
            <7> QED
              BY <1>7, <7>1, <7>2
          <6> QED
            BY <3>1, <6>1, <6>2, <6>3 DEF Dispatch, Conclude, Running, State
        <5> QED
          BY <2>1, <3>1, <4>1, <5>1 DEF IInv, ActiveInv, AfterRun
      <4>2. CASE active # t
        BY <2>1, <3>1, <4>2 DEF IInv, ActiveInv, AfterRun
      <4> QED
        BY <4>1, <4>2
    <3>2. CASE run' # run
      BY <2>2, <2>4, <3>2 DEF ActiveInv
    <3> QED
      BY <3>1, <3>2
  <2>8. ViewInv'
    BY <2>1, <2>2 DEF IInv, ViewInv
  <2>9. FetchInv'
    BY <2>1 DEF IInv, FetchInv, AfterRun
  <2>10. RecoveryInv'
    BY <2>1 DEF IInv, RecoveryInv
  <2> QED
    BY <2>5, <2>6, <2>7, <2>8, <2>9, <2>10 DEF IInv
<1>8. ASSUME NEW t \in Tokens, Expire(t) PROVE IInv'
  BY <1>8 DEF Expire, IInv, TypeOK, RunInv, ActiveInv, ViewInv, FetchInv,
       RecoveryInv
<1>9. CASE Render
  BY <1>9 DEF Render, requests, IInv, TypeOK, RunInv, ActiveInv, ViewInv,
       FetchInv, RecoveryInv
<1>10. CASE UNCHANGED vars
  BY <1>10 DEF vars, IInv, TypeOK, RunInv, ActiveInv, ViewInv, FetchInv,
       RecoveryInv
<1> QED
  BY <1>1, <1>2, <1>3, <1>4, <1>5, <1>6, <1>7, <1>8, <1>9, <1>10 DEF Next

LEMMA Invariance == Spec => []IInv
<1>1. Init => IInv
  BY InitIInv
<1>2. IInv /\ [Next]_vars => IInv'
  BY NextIInv
<1> QED
  BY <1>1, <1>2, PTL DEF Spec

-----------------------------------------------------------------------------
(* Every variable of the workbench stays within its type.                  *)
THEOREM TypeCorrect == Spec => []TypeOK
BY Invariance, PTL DEF IInv

(* The ref of runPreflight and the state of the reducer never disagree.    *)
THEOREM RefMatchesState == Spec => []ActiveRunIsShown
<1>1. IInv => ActiveRunIsShown
  BY DEF IInv, ActiveInv, ActiveRunIsShown
<1> QED
  BY <1>1, Invariance, PTL

(* At most one request that was not aborted is under way.                  *)
THEOREM SingleRequest == Spec => []OneRequestAtATime
<1>1. IInv => OneRequestAtATime
  BY DEF IInv, FetchInv, OneRequestAtATime
<1> QED
  BY <1>1, Invariance, PTL

(* An outcome on the screen is the last run's, from the selected source.   *)
THEOREM SourceShown == Spec => []SourceIsTheChosenOne
<1>1. IInv => SourceIsTheChosenOne
  BY DEF IInv, RunInv, ViewInv, SourceIsTheChosenOne
<1> QED
  BY <1>1, Invariance, PTL

(* The recovery audit names a failed Live run, and a recovered run is a    *)
(* later one with another id.                                              *)
THEOREM RecoveryTold == Spec => []RecoveryIsHonest
<1>1. IInv => RecoveryIsHonest
  <2> SUFFICES ASSUME IInv, recovery # NoRun, run.status = "RESULT"
               PROVE  run.token > recovery.token /\ run.runId # recovery.runId
    BY DEF IInv, RecoveryInv, RecoveryIsHonest
  <2>1. /\ run.token = nextToken /\ asked[run.token] = "FIXTURE"
        /\ run.runId = run.token /\ run.token # 0
    BY DEF IInv, RunInv, RecoveryInv
  <2>2. recovery.token # run.token
    BY <2>1 DEF IInv, RecoveryInv
  <2>3. recovery.token <= nextToken /\ recovery.token \in Nat /\ nextToken \in Nat
        /\ recovery.runId \in {0, recovery.token}
    BY WorkbenchAssumption DEF IInv, RecoveryInv, TypeOK, Tokens
  <2> QED
    BY <2>1, <2>2, <2>3
<1> QED
  BY <1>1, Invariance, PTL

(* A retained Live failure goes away only with a change of mode: while it  *)
(* stands the mode is FIXTURE, so no Live request is left that could       *)
(* succeed.                                                                *)
THEOREM FailureKept == Spec => FailureIsRetained
<1>1. IInv /\ [Next]_vars => [recovery' # recovery => mode' # mode]_recovery
  <2> SUFFICES ASSUME IInv, [Next]_vars, recovery' # recovery
               PROVE  mode' # mode
    OBVIOUS
  <2>1. ASSUME NEW m \in Modes, ChangeMode(m) PROVE mode' # mode
    BY <2>1 DEF ChangeMode
  <2>2. ASSUME NEW t \in Tokens, Succeed(t) PROVE FALSE
    <3>1. mounted /\ asked[t] = "LIVE" /\ recovery' = NoRun
      BY <2>2 DEF Succeed, AfterSuccess
    <3>2. t = active /\ active # 0
      BY <2>2 DEF Succeed, Signalled, IInv, FetchInv, Tokens
    <3>3. mode = "LIVE"
      BY <3>1, <3>2 DEF IInv, ActiveInv
    <3> QED
      BY <3>1, <3>3 DEF IInv, RecoveryInv
  <2>3. ~(\E t \in Tokens : Fail(t) \/ Expire(t))
    BY DEF Fail, FailWith, Expire
  <2>4. ~(RunPreflight \/ CancelRun \/ LoadFixture \/ EditIntent \/ Leave
           \/ Render \/ UNCHANGED vars)
    BY DEF RunPreflight, CancelRun, LoadFixture, EditIntent, Leave, Render, vars
  <2> QED
    BY <2>1, <2>2, <2>3, <2>4 DEF Next
<1> QED
  BY <1>1, Invariance, PTL DEF Spec, FailureIsRetained

(* The result pane keeps the contract of the run that was started last.    *)
THEOREM Refinement == Spec => ImplementsContract
<1>1. Init => Contract!ContractInit
  BY DEF Init, Contract!ContractInit, NoRun, State
<1>2. IInv /\ [Next]_vars => [Contract!ContractNext]_(Contract!contractVars)
  <2> SUFFICES ASSUME IInv, [Next]_vars
               PROVE  Contract!ContractNext \/ UNCHANGED Contract!contractVars
    OBVIOUS
  <2> USE DEF Contract!ContractNext, Contract!Begin, Contract!Conclude,
              Contract!Clear, Contract!contractVars
  <2>1. CASE RunPreflight
    <3>1. view = run /\ run.status # "RUNNING"
      BY <2>1 DEF RunPreflight, NotRunning, IInv, ViewInv
    <3> QED
      BY <2>1, <3>1 DEF RunPreflight, Start, Running, State
  <2>2. CASE CancelRun
    <3>1. run = Running(active)
      BY <2>2 DEF CancelRun, IInv, ActiveInv
    <3> QED
      BY <2>2, <3>1 DEF CancelRun, Conclude, Running, Problem, State
  <2>3. ASSUME NEW m \in Modes, ChangeMode(m)
        PROVE  Contract!ContractNext
    BY <2>3 DEF ChangeMode, NotRunning, Reset, NoRun, State, IInv, ViewInv
  <2>4. CASE LoadFixture
    BY <2>4 DEF LoadFixture, NotRunning, NoRun, State, IInv, ViewInv
  <2>5. ASSUME NEW t \in Tokens, Succeed(t)
        PROVE  Contract!ContractNext \/ UNCHANGED Contract!contractVars
    BY <2>5, DispatchOutcome DEF Succeed, Result, State
  <2>6. ASSUME NEW t \in Tokens, Fail(t)
        PROVE  Contract!ContractNext \/ UNCHANGED Contract!contractVars
    <3>1. PICK kind \in ProblemKinds :
            Dispatch(Problem(t, kind, asked[t], IF kind = "API" THEN t ELSE 0))
      BY <2>6 DEF Fail, FailWith
    <3> QED
      BY <2>6, <3>1, DispatchOutcome DEF Fail, FailWith, Problem, State
  <2>7. CASE EditIntent \/ Leave \/ Render \/ UNCHANGED vars
             \/ \E t \in Tokens : Expire(t)
    BY <2>7 DEF EditIntent, Leave, Render, Expire, vars
  <2> QED
    BY <2>1, <2>2, <2>3, <2>4, <2>5, <2>6, <2>7 DEF Next
<1> QED
  BY <1>1, <1>2, Invariance, PTL
  DEF Spec, ImplementsContract, Contract!ContractSpec

=============================================================================
