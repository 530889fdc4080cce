----------------------------- MODULE Orchestrator -----------------------------
(***************************************************************************)
(* One call of PreflightOrchestrator.run                                   *)
(* (apps/web/src/server/preflight-orchestrator.ts): a LIVE preflight asks  *)
(* the Moss port for quotes, for a capability and for a simulation, races  *)
(* each stage against a timer carved out of one hard deadline, and turns   *)
(* whatever it has into a report.  A port that answers late, never, or     *)
(* after the run is over keeps running: nothing can stop it, so its answer *)
(* is still an event of this model.                                        *)
(*                                                                         *)
(* JavaScript runs on one thread.  `at' is the point the code has reached; *)
(* answers and timers are delivered only while it awaits (LoopIdle), and   *)
(* time passes at every point, the synchronous ones included.              *)
(***************************************************************************)
EXTENDS Integers

CONSTANTS
  TotalTimeout,   \* totalTimeoutMs: the hard deadline of a LIVE run
  QuoteTimeout,   \* quoteTimeoutMs: the cap on the quote stage
  Reserve,        \* reportReserveMs: kept back for building the report
  Horizon         \* bound of the model: no time passes after it, timers apart

(* The constructor refuses any other deadline configuration.               *)
ASSUME DeadlineAssumption ==
  /\ TotalTimeout \in Nat \ {0}
  /\ QuoteTimeout \in Nat \ {0}
  /\ Reserve \in Nat
  /\ Reserve < TotalTimeout
  /\ Horizon \in Nat

VARIABLES
  now,        \* clock.now()
  at,         \* the point of run / runLive that has been reached
  deadline,   \* the hard deadline, once a LIVE run has begun
  budget,     \* the milliseconds handed to withTimeout for the quote stage
  timer,      \* the due time of each stage's timer
  job,        \* what became of the promise of each stage
  called,     \* the Moss port methods called so far
  aborted,    \* the AbortControllers that were aborted
  evidence,   \* the stage inputs of projectPreflightReportV0_1
  result      \* what the caller of run gets

vars == <<now, at, deadline, budget, timer, job, called, aborted, evidence,
          result>>

Stages == {"quote", "capability", "simulation"}
NoTimer == 0
NoResult == [status |-> "NONE", decision |-> "NONE"]

(* Where the code awaits the race of a stage.                              *)
WaitingAt == [quote |-> "Quoting", capability |-> "Constructing",
              simulation |-> "Simulating"]

Points == {"Idle", "Resolving", "Live", "QuoteCalled", "Quoting", "Selected",
           "ActionCalled", "Constructing", "Constructed", "SimulateCalled",
           "Simulating", "Reporting", "Done"}

JobStates == {"NOT_STARTED", "RUNNING", "FULFILLED", "NOT_SELECTED",
              "ACQUISITION_FAILED", "REJECTED"}

Ports == {"quote", "action", "simulate"}
Controllers == {"quoteController", "totalController"}

Evidence ==
  [quote : {"PENDING", "SELECTED", "NOT_SELECTED", "QUOTE_STAGE_TIMEOUT"},
   capability : {"PENDING", "AVAILABLE", "ACTION_TIMEOUT",
                 "ACTION_ACQUISITION_FAILED", "NO_VALID_SELECTION"},
   simulation : {"PENDING", "AVAILABLE", "SIMULATION_TIMEOUT",
                 "SIMULATION_ACQUISITION_FAILED", "NO_CAPABILITY"}]

Results ==
  [status : {"NONE", "SUCCESS", "TIMEOUT", "UNAVAILABLE", "THROWN"},
   decision : {"NONE", "STOP", "MANUAL_REVIEW"}]

(* The stage inputs of projectPreflightReportV0_1, as each call builds     *)
(* them.                                                                   *)
StageInputs(quote, capability, simulation) ==
  [quote |-> quote, capability |-> capability, simulation |-> simulation]

Init ==
  /\ now = 0
  /\ at = "Idle"
  /\ deadline = 0
  /\ budget = 0
  /\ timer = [s \in Stages |-> NoTimer]
  /\ job = [s \in Stages |-> "NOT_STARTED"]
  /\ called = {}
  /\ aborted = {}
  /\ evidence = StageInputs("PENDING", "PENDING", "PENDING")
  /\ result = NoResult

-----------------------------------------------------------------------------
(* Slips the runs must notice stand before the definitions they replace:   *)
(* a budget that may be negative, and one that forgets the reserve.        *)
UnclampedBudget == deadline - (now + Reserve)

BudgetWithoutReserve == IF now < deadline THEN deadline - now ELSE 0

(* remainingBudget(): what is left for a stage, never negative.            *)
RemainingBudget ==
  IF now + Reserve < deadline THEN deadline - (now + Reserve) ELSE 0

QuoteBudget ==
  IF QuoteTimeout < RemainingBudget THEN QuoteTimeout ELSE RemainingBudget

(* The stage's promise is settled: its continuation is already queued, and *)
(* runs before any other answer or timer.                                  *)
Settled(s) == job[s] \notin {"NOT_STARTED", "RUNNING"}

(* The event loop may deliver an answer or fire a timer.                   *)
LoopIdle ==
  \/ at = "Done"
  \/ \E s \in Stages : at = WaitingAt[s] /\ ~Settled(s)

Return(status) ==
  /\ result' = [status |-> status, decision |-> "NONE"]
  /\ at' = "Done"

(* Slip: zero milliseconds taken to mean "no timeout".                     *)
ArmUnlessZero(s, ms, controller, verdict) ==
  /\ timer' = [timer EXCEPT ![s] = IF ms = 0 THEN NoTimer ELSE now + ms]
  /\ at' = WaitingAt[s]
  /\ UNCHANGED <<aborted, evidence>>

(* withTimeout, once the stage has been called with ms to spend: no timer  *)
(* is armed when nothing is left, and the stage counts as timed out        *)
(* although it is already running.                                         *)
Arm(s, ms, controller, verdict) ==
  \/ /\ ms = 0
     /\ aborted' = aborted \cup {controller}
     /\ evidence' = verdict
     /\ at' = "Reporting"
     /\ UNCHANGED timer
  \/ /\ ms > 0
     /\ timer' = [timer EXCEPT ![s] = now + ms]
     /\ at' = WaitingAt[s]
     /\ UNCHANGED <<aborted, evidence>>

QuoteTimedOut ==
  StageInputs("QUOTE_STAGE_TIMEOUT", "NO_VALID_SELECTION", "NO_CAPABILITY")

NothingSelected ==
  StageInputs("NOT_SELECTED", "NO_VALID_SELECTION", "NO_CAPABILITY")

ActionFailed(code) == StageInputs("SELECTED", code, "NO_CAPABILITY")

SimulationEnded(code) == StageInputs("SELECTED", "AVAILABLE", code)

(* The outcome of a stage whose timer won, and the controller it aborts.   *)
TimeoutEvidence(s) ==
  CASE s = "quote" -> QuoteTimedOut
    [] s = "capability" -> ActionFailed("ACTION_TIMEOUT")
    [] s = "simulation" -> SimulationEnded("SIMULATION_TIMEOUT")

(* Slip: every stage handed the controller of the whole run.               *)
SharedController(s) == "totalController"

ControllerOf(s) == IF s = "quote" THEN "quoteController" ELSE "totalController"

-----------------------------------------------------------------------------
(* FIXTURE mode: the fixture service answers, no deadline, no port.        *)
DelegateFixture ==
  /\ at = "Idle"
  /\ \/ \E d \in {"STOP", "MANUAL_REVIEW"} :
          /\ result' = [status |-> "SUCCESS", decision |-> d]
          /\ at' = "Done"
     \/ Return("THROWN")
  /\ UNCHANGED <<now, deadline, budget, timer, job, called, aborted, evidence>>

(* LIVE mode: the deadline is fixed before the session is resolved.        *)
BeginLive ==
  /\ at = "Idle"
  /\ at' = "Resolving"
  /\ deadline' = now + TotalTimeout
  /\ UNCHANGED <<now, budget, timer, job, called, aborted, evidence, result>>

(* resolveLiveSession returned: too late, without a session, with one; or  *)
(* it threw.                                                               *)
ResolveSession ==
  /\ at = "Resolving"
  /\ \/ /\ now >= deadline
        /\ Return("TIMEOUT")
     \/ /\ now < deadline
        /\ Return("UNAVAILABLE")
     \/ /\ now < deadline
        /\ at' = "Live"
        /\ UNCHANGED result
     \/ Return("THROWN")
  /\ UNCHANGED <<now, deadline, budget, timer, job, called, aborted, evidence>>

(* The quote budget is read before collectAndSelectQuotesV0_1 runs its     *)
(* synchronous part, which may reject (request or catalog) or skip every   *)
(* candidate instead of calling port.quote.                                *)
StartQuotes ==
  /\ at = "Live"
  /\ budget' = QuoteBudget
  /\ \/ /\ job' = [job EXCEPT !["quote"] = "RUNNING"]
        /\ called' \in {called, called \cup {"quote"}}
     \/ /\ job' = [job EXCEPT !["quote"] = "REJECTED"]
        /\ UNCHANGED called
  /\ at' = "QuoteCalled"
  /\ UNCHANGED <<now, deadline, timer, aborted, evidence, result>>

ArmQuotes ==
  /\ at = "QuoteCalled"
  /\ Arm("quote", budget, ControllerOf("quote"), QuoteTimedOut)
  /\ UNCHANGED <<now, deadline, budget, job, called, result>>

(* createCapabilityPolicy may throw before any promise exists; the checks  *)
(* of constructCapabilityV0_1 may reject before port.action is called.     *)
StartCapability ==
  /\ at = "Selected"
  /\ \/ /\ Return("THROWN")
        /\ UNCHANGED <<job, called>>
     \/ /\ job' = [job EXCEPT !["capability"] = "RUNNING"]
        /\ called' = called \cup {"action"}
        /\ at' = "ActionCalled"
        /\ UNCHANGED result
     \/ /\ job' = [job EXCEPT !["capability"] = "REJECTED"]
        /\ at' = "ActionCalled"
        /\ UNCHANGED <<called, result>>
  /\ UNCHANGED <<now, deadline, budget, timer, aborted, evidence>>

ArmCapability ==
  /\ at = "ActionCalled"
  /\ Arm("capability", RemainingBudget, ControllerOf("capability"),
         ActionFailed("ACTION_TIMEOUT"))
  /\ UNCHANGED <<now, deadline, budget, job, called, result>>

StartSimulation ==
  /\ at = "Constructed"
  /\ called' = called \cup {"simulate"}
  /\ \/ /\ Return("THROWN")
        /\ UNCHANGED job
     \/ /\ job' = [job EXCEPT !["simulation"] = "RUNNING"]
        /\ at' = "SimulateCalled"
        /\ UNCHANGED result
  /\ UNCHANGED <<now, deadline, budget, timer, aborted, evidence>>

ArmSimulation ==
  /\ at = "SimulateCalled"
  /\ Arm("simulation", RemainingBudget, ControllerOf("simulation"),
         SimulationEnded("SIMULATION_TIMEOUT"))
  /\ UNCHANGED <<now, deadline, budget, job, called, result>>

-----------------------------------------------------------------------------
(* The promise of a stage settles: in time, late, or after the run.  No    *)
(* signal reaches an action or a simulation, so only the port decides when. *)
Answers(s) ==
  IF s = "quote"
  THEN {"NOT_SELECTED", "REJECTED"}
       \cup (IF "quote" \in called THEN {"FULFILLED"} ELSE {})
  ELSE {"FULFILLED", "ACQUISITION_FAILED", "REJECTED"}

Answer(s) ==
  /\ LoopIdle
  /\ job[s] = "RUNNING"
  /\ \E a \in Answers(s) : job' = [job EXCEPT ![s] = a]
  /\ UNCHANGED <<now, at, deadline, budget, timer, called, aborted, evidence,
                 result>>

(* A timer goes off: it aborts its controller, and when its stage is still *)
(* awaited the race is lost to it.                                         *)
TimerFires(s) ==
  /\ LoopIdle
  /\ timer[s] # NoTimer
  /\ now >= timer[s]
  /\ timer' = [timer EXCEPT ![s] = NoTimer]
  /\ aborted' = aborted \cup {ControllerOf(s)}
  /\ IF at = WaitingAt[s]
     THEN /\ evidence' = TimeoutEvidence(s)
          /\ at' = "Reporting"
     ELSE UNCHANGED <<evidence, at>>
  /\ UNCHANGED <<now, deadline, budget, job, called, result>>

(* Slip: a finally that leaves the timer armed.                            *)
KeepTimer(s) == UNCHANGED timer

(* withTimeout's finally: the timer of the stage that answered.            *)
ClearTimer(s) == timer' = [timer EXCEPT ![s] = NoTimer]

ResumeQuotes ==
  /\ at = "Quoting"
  /\ Settled("quote")
  /\ ClearTimer("quote")
  /\ \/ /\ job["quote"] = "FULFILLED"
        /\ evidence' = StageInputs("SELECTED", "PENDING", "PENDING")
        /\ at' = "Selected"
        /\ UNCHANGED result
     \/ /\ job["quote"] = "NOT_SELECTED"
        /\ evidence' = NothingSelected
        /\ at' = "Reporting"
        /\ UNCHANGED result
     \/ /\ job["quote"] = "REJECTED"
        /\ Return("THROWN")
        /\ UNCHANGED evidence
  /\ UNCHANGED <<now, deadline, budget, job, called, aborted>>

(* Slip: the failed action's report without the early return.              *)
ResumeCapabilityWithoutReturn ==
  /\ at = "Constructing"
  /\ Settled("capability")
  /\ timer' = [timer EXCEPT !["capability"] = NoTimer]
  /\ evidence' = IF job["capability"] = "FULFILLED"
                 THEN SimulationEnded("PENDING")
                 ELSE ActionFailed("ACTION_ACQUISITION_FAILED")
  /\ at' = "Constructed"
  /\ UNCHANGED <<now, deadline, budget, job, called, aborted, result>>

ResumeCapability ==
  /\ at = "Constructing"
  /\ Settled("capability")
  /\ ClearTimer("capability")
  /\ \/ /\ job["capability"] = "FULFILLED"
        /\ evidence' = SimulationEnded("PENDING")
        /\ at' = "Constructed"
        /\ UNCHANGED result
     \/ /\ job["capability"] = "ACQUISITION_FAILED"
        /\ evidence' = ActionFailed("ACTION_ACQUISITION_FAILED")
        /\ at' = "Reporting"
        /\ UNCHANGED result
     \/ /\ job["capability"] = "REJECTED"
        /\ Return("THROWN")
        /\ UNCHANGED evidence
  /\ UNCHANGED <<now, deadline, budget, job, called, aborted>>

ResumeSimulation ==
  /\ at = "Simulating"
  /\ Settled("simulation")
  /\ ClearTimer("simulation")
  /\ \/ /\ job["simulation"] = "FULFILLED"
        /\ evidence' = SimulationEnded("AVAILABLE")
        /\ at' = "Reporting"
        /\ UNCHANGED result
     \/ /\ job["simulation"] = "ACQUISITION_FAILED"
        /\ evidence' = SimulationEnded("SIMULATION_ACQUISITION_FAILED")
        /\ at' = "Reporting"
        /\ UNCHANGED result
     \/ /\ job["simulation"] = "REJECTED"
        /\ Return("THROWN")
        /\ UNCHANGED evidence
  /\ UNCHANGED <<now, deadline, budget, job, called, aborted>>

-----------------------------------------------------------------------------
(* Slip: a simulation that is not there taken for a clean one.             *)
DecisionsOnCapability(e) ==
  IF e.capability = "AVAILABLE" THEN {"STOP", "MANUAL_REVIEW"} ELSE {"STOP"}

(* projectPreflightReportV0_1 and the stop policy behind it: a stage that  *)
(* is not there stops; complete evidence is weighed (module StopPolicy).   *)
Decisions(e) ==
  IF e = SimulationEnded("AVAILABLE")
  THEN {"STOP", "MANUAL_REVIEW"}
  ELSE {"STOP"}

(* Slip: the report delivered without looking at the clock again.          *)
ReportAnyTime ==
  /\ at = "Reporting"
  /\ at' = "Done"
  /\ \E d \in Decisions(evidence) :
       result' = [status |-> "SUCCESS", decision |-> d]
  /\ UNCHANGED <<now, deadline, budget, timer, job, called, aborted, evidence>>

(* The report is built, and delivered only before the deadline.            *)
Report ==
  /\ at = "Reporting"
  /\ at' = "Done"
  /\ \/ /\ now < deadline
        /\ \E d \in Decisions(evidence) :
             result' = [status |-> "SUCCESS", decision |-> d]
     \/ /\ now >= deadline
        /\ result' = [status |-> "TIMEOUT", decision |-> "NONE"]
     \/ result' = [status |-> "THROWN", decision |-> "NONE"]
  /\ UNCHANGED <<now, deadline, budget, timer, job, called, aborted, evidence>>

(* Time passes, while code runs as well as while it waits.                 *)
Tick ==
  /\ at # "Idle"
  /\ now < Horizon \/ \E s \in Stages : timer[s] > now
  /\ now' = now + 1
  /\ UNCHANGED <<at, deadline, budget, timer, job, called, aborted, evidence,
                 result>>

(* A step of the code of run, runLive and withTimeout.                     *)
Run ==
  \/ ResolveSession
  \/ StartQuotes \/ ArmQuotes \/ ResumeQuotes
  \/ StartCapability \/ ArmCapability \/ ResumeCapability
  \/ StartSimulation \/ ArmSimulation \/ ResumeSimulation
  \/ Report

Next ==
  \/ DelegateFixture \/ BeginLive
  \/ Run
  \/ \E s \in Stages : Answer(s) \/ TimerFires(s)
  \/ Tick

Spec == Init /\ [][Next]_vars

(* Synchronous code finishes, time passes and a due timer is fired; a port *)
(* owes nothing.                                                           *)
Fairness ==
  /\ WF_vars(Run)
  /\ WF_vars(Tick)
  /\ \A s \in Stages : WF_vars(TimerFires(s))

FairSpec == Spec /\ Fairness

-----------------------------------------------------------------------------
TypeOK ==
  /\ now \in Nat
  /\ at \in Points
  /\ deadline \in Nat
  /\ budget \in Nat
  /\ timer \in [Stages -> Nat]
  /\ job \in [Stages -> JobStates]
  /\ called \subseteq Ports
  /\ aborted \subseteq Controllers
  /\ evidence \in Evidence
  /\ result \in Results

(* A stage is only ever called on the strength of the one before: no       *)
(* action without a selection, no simulation without a capability, also    *)
(* when the answer of a stage that timed out arrives late (runLive's early *)
(* returns).                                                               *)
NoStageAfterFailure ==
  /\ "action" \in called => evidence.quote = "SELECTED"
  /\ "simulate" \in called => evidence.capability = "AVAILABLE"

(* MANUAL_REVIEW in LIVE mode is earned: every port was called, every      *)
(* stage's own promise was fulfilled, and no timer ever gave up on one.    *)
ManualReviewIsEarned ==
  result.decision = "MANUAL_REVIEW" /\ deadline > 0 =>
    /\ called = Ports
    /\ \A s \in Stages : job[s] = "FULFILLED"
    /\ aborted = {}

(* A controller is aborted exactly when a stage it guards is reported as   *)
(* timed out: a timer left armed behind an answer (withTimeout's finally)  *)
(* would abort the run of a later stage.                                   *)
AbortMeansTimeout ==
  /\ "quoteController" \in aborted <=> evidence.quote = "QUOTE_STAGE_TIMEOUT"
  /\ "totalController" \in aborted <=>
       \/ evidence.capability = "ACTION_TIMEOUT"
       \/ evidence.simulation = "SIMULATION_TIMEOUT"

(* The timers of the late stages leave the reserve for the report: their   *)
(* budget is read when they are armed (remainingBudget()).  The quote      *)
(* timer is not covered: its budget is read before the synchronous part of *)
(* the collection, and the timer is armed after it.                        *)
LateTimersKeepReserve ==
  \A s \in {"capability", "simulation"} :
    timer[s] # NoTimer => timer[s] + Reserve <= deadline

(* Once run has answered, late answers and stray timers change neither the *)
(* report nor its stages, call no port and abort nothing.                  *)
AnswerIsFinal ==
  [][result # NoResult => UNCHANGED <<result, evidence, called, aborted>>]_vars

(* Every request is answered although no port owes an answer: the timers   *)
(* bound every wait.                                                       *)
EveryRunAnswers == (at = "Resolving") ~> (result # NoResult)

(* The orchestrator implements the contract of PreflightService.           *)
Contract == INSTANCE PreflightContract WITH
  clock <- now,
  mode <- IF at = "Idle" THEN "NONE"
          ELSE IF deadline = 0 THEN "FIXTURE" ELSE "LIVE",
  due <- deadline,
  reply <- [status |-> result.status, decision |-> result.decision,
            stages |-> IF result.status = "SUCCESS" /\ deadline > 0
                       THEN evidence
                       ELSE StageInputs("PENDING", "PENDING", "PENDING")]

ImplementsContract == Contract!ContractSpec

=============================================================================
