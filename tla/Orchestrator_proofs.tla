-------------------------- MODULE Orchestrator_proofs --------------------------
(***************************************************************************)
(* What module Orchestrator guarantees for every deadline, quote cap and   *)
(* reserve: its safety properties hold, it implements PreflightContract,   *)
(* and the budgets are enough for a machine that keeps up (the history     *)
(* variable of MCOrchestrator).                                            *)
(***************************************************************************)
EXTENDS MCOrchestrator, TLAPS

(* The inductive invariant ties the place the code has reached (at) to     *)
(* what has happened so far: stages advance one at a time.                 *)
Unstarted == {"Idle", "Resolving", "Live"}
BeforeSelection == Unstarted \cup {"QuoteCalled", "Quoting"}
WithSelection == {"Selected", "ActionCalled", "Constructing"}
WithCapability == {"Constructed", "SimulateCalled", "Simulating"}

(* Only the stage that is awaited has a timer.                             *)
TimerInv == \A s \in Stages : timer[s] # NoTimer => at = WaitingAt[s]

(* The evidence grows with the point reached, and is a shape of the        *)
(* contract when the report is built.                                      *)
EvidenceInv ==
  /\ at \in BeforeSelection =>
       evidence = StageInputs("PENDING", "PENDING", "PENDING")
  /\ at \in WithSelection =>
       evidence = StageInputs("SELECTED", "PENDING", "PENDING")
  /\ at \in WithCapability => evidence = SimulationEnded("PENDING")
  /\ at = "Reporting" \/ (result.status = "SUCCESS" /\ deadline > 0) =>
       evidence \in Contract!StoppedStages \cup {Contract!CompleteStages}

(* No port is called before the stage that needs it.                       *)
CalledInv ==
  /\ at \in Unstarted => called = {}
  /\ at \in BeforeSelection \cup {"Selected"} => called \subseteq {"quote"}
  /\ at \in WithSelection \cup {"Constructed"} => "simulate" \notin called

(* A fulfilled promise comes from a call, and available evidence from a    *)
(* fulfilled promise.                                                      *)
JobInv ==
  /\ job["quote"] = "FULFILLED" => "quote" \in called
  /\ job["capability"] \in {"RUNNING", "FULFILLED", "ACQUISITION_FAILED"} =>
       "action" \in called
  /\ job["simulation"] \in {"RUNNING", "FULFILLED", "ACQUISITION_FAILED"} =>
       "simulate" \in called
  /\ evidence.quote = "SELECTED" => job["quote"] = "FULFILLED"
  /\ evidence.capability = "AVAILABLE" =>
       evidence.quote = "SELECTED" /\ job["capability"] = "FULFILLED"
  /\ evidence.simulation = "AVAILABLE" =>
       evidence.capability = "AVAILABLE" /\ job["simulation"] = "FULFILLED"

(* The answer is there exactly at the end; a run in progress is LIVE and   *)
(* has a deadline; MANUAL_REVIEW stands over complete evidence.        *)
ResultInv ==
  /\ result = NoResult <=> at # "Done"
  /\ at = "Idle" => deadline = 0
  /\ at \notin {"Idle", "Done"} => deadline > 0
  /\ result.status # "SUCCESS" => result.decision = "NONE"
  /\ result.decision = "MANUAL_REVIEW" /\ deadline > 0 =>
       evidence = Contract!CompleteStages

IInv ==
  /\ TypeOK
  /\ TimerInv
  /\ EvidenceInv
  /\ CalledInv
  /\ JobInv
  /\ ResultInv
  /\ NoStageAfterFailure
  /\ AbortMeansTimeout
  /\ LateTimersKeepReserve

-----------------------------------------------------------------------------
(* A waiting point belongs to one stage.                                   *)
LEMMA WaitingPoints ==
  /\ WaitingAt["quote"] = "Quoting"
  /\ WaitingAt["capability"] = "Constructing"
  /\ WaitingAt["simulation"] = "Simulating"
BY DEF WaitingAt

(* The budgets are durations, and a positive one ends before the reserve.  *)
LEMMA Budgets ==
  ASSUME now \in Nat, deadline \in Nat
  PROVE  /\ RemainingBudget \in Nat
         /\ QuoteBudget \in Nat
         /\ RemainingBudget > 0 => now + RemainingBudget + Reserve <= deadline
BY DeadlineAssumption DEF RemainingBudget, QuoteBudget

(* The invariant holds at first.                                           *)
LEMMA InitIInv == Init => IInv
<1> SUFFICES ASSUME Init PROVE IInv
  OBVIOUS
<1> USE DEF Init, StageInputs, NoTimer, NoResult
<1>1. TypeOK
  BY DEF TypeOK, Stages, Points, JobStates, Evidence, Results
<1>2. TimerInv /\ LateTimersKeepReserve
  BY DEF TimerInv, LateTimersKeepReserve, Stages
<1>3. EvidenceInv /\ AbortMeansTimeout
  BY DEF EvidenceInv, AbortMeansTimeout, BeforeSelection, Unstarted,
       WithSelection, WithCapability
<1>4. CalledInv /\ NoStageAfterFailure
  BY DEF CalledInv, NoStageAfterFailure
<1>5. JobInv /\ ResultInv
  BY DEF JobInv, ResultInv, Stages
<1> QED
  BY <1>1, <1>2, <1>3, <1>4, <1>5 DEF IInv

(* Every step keeps the types.                                             *)
LEMMA TypeStep == TypeOK /\ [Next]_vars => TypeOK'
<1> SUFFICES ASSUME TypeOK, [Next]_vars PROVE TypeOK'
  OBVIOUS
<1> USE DeadlineAssumption
     DEF TypeOK, Stages, Points, JobStates, Ports, Controllers, Evidence,
         Results, NoTimer, StageInputs, WaitingAt
<1>1. CASE DelegateFixture
  BY <1>1 DEF DelegateFixture, Return
<1>2. CASE BeginLive
  BY <1>2 DEF BeginLive
<1>3. CASE ResolveSession
  BY <1>3 DEF ResolveSession, Return
<1>4. CASE StartQuotes
  <2>1. budget' \in Nat
    BY <1>4, Budgets DEF StartQuotes
  <2>2. called' \subseteq Ports
    BY <1>4 DEF StartQuotes
  <2>3. job' \in [Stages -> JobStates]
    BY <1>4 DEF StartQuotes
  <2> QED
    BY <1>4, <2>1, <2>2, <2>3 DEF StartQuotes
<1>5. CASE ArmQuotes
  <2>1. timer' \in [Stages -> Nat]
    BY <1>5, Budgets DEF ArmQuotes, Arm
  <2>2. evidence' \in Evidence /\ at' \in Points
    BY <1>5 DEF ArmQuotes, Arm, QuoteTimedOut
  <2>3. aborted' \subseteq Controllers
    BY <1>5 DEF ArmQuotes, Arm, ControllerOf
  <2> QED
    BY <1>5, <2>1, <2>2, <2>3 DEF ArmQuotes
<1>6. CASE ResumeQuotes
  BY <1>6 DEF ResumeQuotes, Settled, ClearTimer, NothingSelected, Return
<1>7. CASE StartCapability
  <2>1. called' \subseteq Ports
    BY <1>7 DEF StartCapability
  <2>2. job' \in [Stages -> JobStates]
    BY <1>7 DEF StartCapability
  <2>3. result' \in Results /\ at' \in Points
    BY <1>7 DEF StartCapability, Return
  <2> QED
    BY <1>7, <2>1, <2>2, <2>3 DEF StartCapability
<1>8. CASE ArmCapability
  <2>1. timer' \in [Stages -> Nat]
    BY <1>8, Budgets DEF ArmCapability, Arm
  <2>2. evidence' \in Evidence /\ at' \in Points
    BY <1>8 DEF ArmCapability, Arm, ActionFailed
  <2>3. aborted' \subseteq Controllers
    BY <1>8 DEF ArmCapability, Arm, ControllerOf
  <2> QED
    BY <1>8, <2>1, <2>2, <2>3 DEF ArmCapability
<1>9. CASE ResumeCapability
  BY <1>9
   DEF ResumeCapability, Settled, ClearTimer, ActionFailed, SimulationEnded,
       Return
<1>10. CASE StartSimulation
  BY <1>10 DEF StartSimulation, Return
<1>11. CASE ArmSimulation
  <2>1. timer' \in [Stages -> Nat]
    BY <1>11, Budgets DEF ArmSimulation, Arm
  <2>2. evidence' \in Evidence /\ at' \in Points
    BY <1>11 DEF ArmSimulation, Arm, SimulationEnded
  <2>3. aborted' \subseteq Controllers
    BY <1>11 DEF ArmSimulation, Arm, ControllerOf
  <2> QED
    BY <1>11, <2>1, <2>2, <2>3 DEF ArmSimulation
<1>12. CASE ResumeSimulation
  BY <1>12 DEF ResumeSimulation, Settled, ClearTimer, SimulationEnded, Return
<1>13. CASE Report
  BY <1>13 DEF Report, Decisions, SimulationEnded
<1>14. CASE Tick
  BY <1>14 DEF Tick
<1>15. ASSUME NEW s \in Stages, Answer(s) PROVE TypeOK'
  BY <1>15 DEF Answer, Answers
<1>16. ASSUME NEW s \in Stages, TimerFires(s) PROVE TypeOK'
  BY <1>16, WaitingPoints
   DEF TimerFires, TimeoutEvidence, ControllerOf, QuoteTimedOut, ActionFailed,
       SimulationEnded
<1>17. CASE UNCHANGED vars
  BY <1>17 DEF vars
<1> QED
  BY <1>1, <1>2, <1>3, <1>4, <1>5, <1>6, <1>7, <1>8, <1>9, <1>10, <1>11,
     <1>12, <1>13, <1>14, <1>15, <1>16, <1>17
   DEF Next, Run

(* A timer is armed on entering a wait and disarmed on leaving it, by the  *)
(* answer or by going off.                                                 *)
LEMMA TimerStep == IInv /\ [Next]_vars => TimerInv'
<1> SUFFICES ASSUME IInv, [Next]_vars PROVE TimerInv'
  OBVIOUS
<1> USE DEF IInv, TypeOK, TimerInv, Stages, NoTimer, WaitingAt
<1>1. CASE DelegateFixture
  BY <1>1 DEF DelegateFixture, Return
<1>2. CASE BeginLive
  BY <1>2 DEF BeginLive
<1>3. CASE ResolveSession
  BY <1>3 DEF ResolveSession, Return
<1>4. CASE StartQuotes
  BY <1>4 DEF StartQuotes
<1>5. CASE ArmQuotes
  BY <1>5 DEF ArmQuotes, Arm, ControllerOf, QuoteTimedOut
<1>6. CASE ResumeQuotes
  BY <1>6 DEF ResumeQuotes, Settled, ClearTimer, NothingSelected, Return
<1>7. CASE StartCapability
  BY <1>7 DEF StartCapability, Return
<1>8. CASE ArmCapability
  BY <1>8 DEF ArmCapability, Arm, ControllerOf, ActionFailed
<1>9. CASE ResumeCapability
  BY <1>9
   DEF ResumeCapability, Settled, ClearTimer, ActionFailed, SimulationEnded,
       Return
<1>10. CASE StartSimulation
  BY <1>10 DEF StartSimulation, Return
<1>11. CASE ArmSimulation
  BY <1>11 DEF ArmSimulation, Arm, ControllerOf, SimulationEnded
<1>12. CASE ResumeSimulation
  BY <1>12 DEF ResumeSimulation, Settled, ClearTimer, SimulationEnded, Return
<1>13. CASE Report
  BY <1>13 DEF Report, Decisions, SimulationEnded
<1>14. CASE Tick
  BY <1>14 DEF Tick
<1>15. ASSUME NEW s \in Stages, Answer(s) PROVE TimerInv'
  BY <1>15 DEF Answer, Answers
<1>16. ASSUME NEW s \in Stages, TimerFires(s) PROVE TimerInv'
  BY <1>16, WaitingPoints
   DEF TimerFires, TimeoutEvidence, ControllerOf, QuoteTimedOut, ActionFailed,
       SimulationEnded
<1>17. CASE UNCHANGED vars
  BY <1>17 DEF vars
<1> QED
  BY <1>1, <1>2, <1>3, <1>4, <1>5, <1>6, <1>7, <1>8, <1>9, <1>10, <1>11,
     <1>12, <1>13, <1>14, <1>15, <1>16, <1>17
   DEF Next, Run

(* The evidence changes only when the code moves on, to what that point    *)
(* has seen.                                                               *)
LEMMA EvidenceStep == IInv /\ [Next]_vars => EvidenceInv'
<1> SUFFICES ASSUME IInv, [Next]_vars PROVE EvidenceInv'
  OBVIOUS
<1> USE DEF IInv, TypeOK, TimerInv, EvidenceInv, ResultInv, Stages, NoTimer,
         NoResult, WaitingAt, Unstarted, BeforeSelection, WithSelection,
         WithCapability, StageInputs, SimulationEnded, Contract!StoppedStages,
         Contract!CompleteStages, Results
<1>1. CASE DelegateFixture
  BY <1>1 DEF DelegateFixture, Return
<1>2. CASE BeginLive
  BY <1>2 DEF BeginLive
<1>3. CASE ResolveSession
  BY <1>3 DEF ResolveSession, Return
<1>4. CASE StartQuotes
  BY <1>4 DEF StartQuotes
<1>5. CASE ArmQuotes
  BY <1>5 DEF ArmQuotes, Arm, ControllerOf, QuoteTimedOut
<1>6. CASE ResumeQuotes
  BY <1>6 DEF ResumeQuotes, Settled, ClearTimer, NothingSelected, Return
<1>7. CASE StartCapability
  BY <1>7 DEF StartCapability, Return
<1>8. CASE ArmCapability
  BY <1>8 DEF ArmCapability, Arm, ControllerOf, ActionFailed
<1>9. CASE ResumeCapability
  BY <1>9
   DEF ResumeCapability, Settled, ClearTimer, ActionFailed, SimulationEnded,
       Return
<1>10. CASE StartSimulation
  BY <1>10 DEF StartSimulation, Return
<1>11. CASE ArmSimulation
  BY <1>11 DEF ArmSimulation, Arm, ControllerOf, SimulationEnded
<1>12. CASE ResumeSimulation
  BY <1>12 DEF ResumeSimulation, Settled, ClearTimer, SimulationEnded, Return
<1>13. CASE Report
  BY <1>13 DEF Report, Decisions, SimulationEnded
<1>14. CASE Tick
  BY <1>14 DEF Tick
<1>15. ASSUME NEW s \in Stages, Answer(s) PROVE EvidenceInv'
  BY <1>15 DEF Answer, Answers
<1>16. ASSUME NEW s \in Stages, TimerFires(s) PROVE EvidenceInv'
  BY <1>16, WaitingPoints
   DEF TimerFires, TimeoutEvidence, ControllerOf, QuoteTimedOut, ActionFailed,
       SimulationEnded
<1>17. CASE UNCHANGED vars
  BY <1>17 DEF vars
<1> QED
  BY <1>1, <1>2, <1>3, <1>4, <1>5, <1>6, <1>7, <1>8, <1>9, <1>10, <1>11,
     <1>12, <1>13, <1>14, <1>15, <1>16, <1>17
   DEF Next, Run

(* A port is called at one point only, behind the stage it depends on.     *)
LEMMA CalledStep == IInv /\ [Next]_vars => (CalledInv /\ NoStageAfterFailure)'
<1> SUFFICES ASSUME IInv, [Next]_vars PROVE (CalledInv /\ NoStageAfterFailure)'
  OBVIOUS
<1> USE DEF IInv, TypeOK, TimerInv, EvidenceInv, CalledInv, NoStageAfterFailure,
         Stages, NoTimer, WaitingAt, Unstarted, BeforeSelection,
         WithSelection, WithCapability, StageInputs, SimulationEnded
<1>1. CASE DelegateFixture
  BY <1>1 DEF DelegateFixture, Return
<1>2. CASE BeginLive
  BY <1>2 DEF BeginLive
<1>3. CASE ResolveSession
  BY <1>3 DEF ResolveSession, Return
<1>4. CASE StartQuotes
  BY <1>4 DEF StartQuotes
<1>5. CASE ArmQuotes
  BY <1>5 DEF ArmQuotes, Arm, ControllerOf, QuoteTimedOut
<1>6. CASE ResumeQuotes
  BY <1>6 DEF ResumeQuotes, Settled, ClearTimer, NothingSelected, Return
<1>7. CASE StartCapability
  BY <1>7 DEF StartCapability, Return
<1>8. CASE ArmCapability
  BY <1>8 DEF ArmCapability, Arm, ControllerOf, ActionFailed
<1>9. CASE ResumeCapability
  BY <1>9
   DEF ResumeCapability, Settled, ClearTimer, ActionFailed, SimulationEnded,
       Return
<1>10. CASE StartSimulation
  BY <1>10 DEF StartSimulation, Return
<1>11. CASE ArmSimulation
  BY <1>11 DEF ArmSimulation, Arm, ControllerOf, SimulationEnded
<1>12. CASE ResumeSimulation
  BY <1>12 DEF ResumeSimulation, Settled, ClearTimer, SimulationEnded, Return
<1>13. CASE Report
  BY <1>13 DEF Report, Decisions, SimulationEnded
<1>14. CASE Tick
  BY <1>14 DEF Tick
<1>15. ASSUME NEW s \in Stages, Answer(s)
      PROVE  (CalledInv /\ NoStageAfterFailure)'
  BY <1>15 DEF Answer, Answers
<1>16. ASSUME NEW s \in Stages, TimerFires(s)
      PROVE  (CalledInv /\ NoStageAfterFailure)'
  BY <1>16, WaitingPoints
   DEF TimerFires, TimeoutEvidence, ControllerOf, QuoteTimedOut, ActionFailed,
       SimulationEnded
<1>17. CASE UNCHANGED vars
  BY <1>17 DEF vars
<1> QED
  BY <1>1, <1>2, <1>3, <1>4, <1>5, <1>6, <1>7, <1>8, <1>9, <1>10, <1>11,
     <1>12, <1>13, <1>14, <1>15, <1>16, <1>17
   DEF Next, Run

(* A promise is fulfilled after its port was called, and its stage becomes *)
(* available only then.                                                    *)
LEMMA JobStep == IInv /\ [Next]_vars => JobInv'
<1> SUFFICES ASSUME IInv, [Next]_vars PROVE JobInv'
  OBVIOUS
<1> USE DEF IInv, TypeOK, TimerInv, EvidenceInv, JobInv, Stages, JobStates,
         NoTimer, WaitingAt, Unstarted, BeforeSelection, WithSelection,
         WithCapability, StageInputs, SimulationEnded
<1>1. CASE DelegateFixture
  BY <1>1 DEF DelegateFixture, Return
<1>2. CASE BeginLive
  BY <1>2 DEF BeginLive
<1>3. CASE ResolveSession
  BY <1>3 DEF ResolveSession, Return
<1>4. CASE StartQuotes
  BY <1>4 DEF StartQuotes
<1>5. CASE ArmQuotes
  BY <1>5 DEF ArmQuotes, Arm, ControllerOf, QuoteTimedOut
<1>6. CASE ResumeQuotes
  BY <1>6 DEF ResumeQuotes, Settled, ClearTimer, NothingSelected, Return
<1>7. CASE StartCapability
  BY <1>7 DEF StartCapability, Return
<1>8. CASE ArmCapability
  BY <1>8 DEF ArmCapability, Arm, ControllerOf, ActionFailed
<1>9. CASE ResumeCapability
  BY <1>9
   DEF ResumeCapability, Settled, ClearTimer, ActionFailed, SimulationEnded,
       Return
<1>10. CASE StartSimulation
  BY <1>10 DEF StartSimulation, Return
<1>11. CASE ArmSimulation
  BY <1>11 DEF ArmSimulation, Arm, ControllerOf, SimulationEnded
<1>12. CASE ResumeSimulation
  BY <1>12 DEF ResumeSimulation, Settled, ClearTimer, SimulationEnded, Return
<1>13. CASE Report
  BY <1>13 DEF Report, Decisions, SimulationEnded
<1>14. CASE Tick
  BY <1>14 DEF Tick
<1>15. ASSUME NEW s \in Stages, Answer(s) PROVE JobInv'
  BY <1>15 DEF Answer, Answers
<1>16. ASSUME NEW s \in Stages, TimerFires(s) PROVE JobInv'
  BY <1>16, WaitingPoints
   DEF TimerFires, TimeoutEvidence, ControllerOf, QuoteTimedOut, ActionFailed,
       SimulationEnded
<1>17. CASE UNCHANGED vars
  BY <1>17 DEF vars
<1> QED
  BY <1>1, <1>2, <1>3, <1>4, <1>5, <1>6, <1>7, <1>8, <1>9, <1>10, <1>11,
     <1>12, <1>13, <1>14, <1>15, <1>16, <1>17
   DEF Next, Run

(* The answer is given on the way to the end, MANUAL_REVIEW over complete  *)
(* evidence only.                                                          *)
LEMMA ResultStep == IInv /\ [Next]_vars => ResultInv'
<1> SUFFICES ASSUME IInv, [Next]_vars PROVE ResultInv'
  OBVIOUS
<1> USE DeadlineAssumption
     DEF IInv, TypeOK, TimerInv, EvidenceInv, ResultInv, Stages, NoTimer,
         NoResult, Results, Points, WaitingAt, Unstarted, BeforeSelection,
         WithSelection, WithCapability, StageInputs, SimulationEnded,
         Contract!CompleteStages
<1>1. CASE DelegateFixture
  BY <1>1 DEF DelegateFixture, Return
<1>2. CASE BeginLive
  BY <1>2 DEF BeginLive
<1>3. CASE ResolveSession
  BY <1>3 DEF ResolveSession, Return
<1>4. CASE StartQuotes
  BY <1>4 DEF StartQuotes
<1>5. CASE ArmQuotes
  BY <1>5 DEF ArmQuotes, Arm, ControllerOf, QuoteTimedOut
<1>6. CASE ResumeQuotes
  BY <1>6 DEF ResumeQuotes, Settled, ClearTimer, NothingSelected, Return
<1>7. CASE StartCapability
  BY <1>7 DEF StartCapability, Return
<1>8. CASE ArmCapability
  BY <1>8 DEF ArmCapability, Arm, ControllerOf, ActionFailed
<1>9. CASE ResumeCapability
  BY <1>9
   DEF ResumeCapability, Settled, ClearTimer, ActionFailed, SimulationEnded,
       Return
<1>10. CASE StartSimulation
  BY <1>10 DEF StartSimulation, Return
<1>11. CASE ArmSimulation
  BY <1>11 DEF ArmSimulation, Arm, ControllerOf, SimulationEnded
<1>12. CASE ResumeSimulation
  BY <1>12 DEF ResumeSimulation, Settled, ClearTimer, SimulationEnded, Return
<1>13. CASE Report
  BY <1>13 DEF Report, Decisions, SimulationEnded
<1>14. CASE Tick
  BY <1>14 DEF Tick
<1>15. ASSUME NEW s \in Stages, Answer(s) PROVE ResultInv'
  BY <1>15 DEF Answer, Answers
<1>16. ASSUME NEW s \in Stages, TimerFires(s) PROVE ResultInv'
  BY <1>16, WaitingPoints
   DEF TimerFires, TimeoutEvidence, ControllerOf, QuoteTimedOut, ActionFailed,
       SimulationEnded
<1>17. CASE UNCHANGED vars
  BY <1>17 DEF vars
<1> QED
  BY <1>1, <1>2, <1>3, <1>4, <1>5, <1>6, <1>7, <1>8, <1>9, <1>10, <1>11,
     <1>12, <1>13, <1>14, <1>15, <1>16, <1>17
   DEF Next, Run

(* A controller is aborted in the step that records the timeout.           *)
LEMMA AbortStep == IInv /\ [Next]_vars => AbortMeansTimeout'
<1> SUFFICES ASSUME IInv, [Next]_vars PROVE AbortMeansTimeout'
  OBVIOUS
<1> USE DEF IInv, TypeOK, TimerInv, EvidenceInv, AbortMeansTimeout, Stages,
         NoTimer, WaitingAt, Unstarted, BeforeSelection, WithSelection,
         WithCapability, StageInputs, SimulationEnded
<1>1. CASE DelegateFixture
  BY <1>1 DEF DelegateFixture, Return
<1>2. CASE BeginLive
  BY <1>2 DEF BeginLive
<1>3. CASE ResolveSession
  BY <1>3 DEF ResolveSession, Return
<1>4. CASE StartQuotes
  BY <1>4 DEF StartQuotes
<1>5. CASE ArmQuotes
  BY <1>5 DEF ArmQuotes, Arm, ControllerOf, QuoteTimedOut
<1>6. CASE ResumeQuotes
  BY <1>6 DEF ResumeQuotes, Settled, ClearTimer, NothingSelected, Return
<1>7. CASE StartCapability
  BY <1>7 DEF StartCapability, Return
<1>8. CASE ArmCapability
  BY <1>8 DEF ArmCapability, Arm, ControllerOf, ActionFailed
<1>9. CASE ResumeCapability
  BY <1>9
   DEF ResumeCapability, Settled, ClearTimer, ActionFailed, SimulationEnded,
       Return
<1>10. CASE StartSimulation
  BY <1>10 DEF StartSimulation, Return
<1>11. CASE ArmSimulation
  BY <1>11 DEF ArmSimulation, Arm, ControllerOf, SimulationEnded
<1>12. CASE ResumeSimulation
  BY <1>12 DEF ResumeSimulation, Settled, ClearTimer, SimulationEnded, Return
<1>13. CASE Report
  BY <1>13 DEF Report, Decisions, SimulationEnded
<1>14. CASE Tick
  BY <1>14 DEF Tick
<1>15. ASSUME NEW s \in Stages, Answer(s) PROVE AbortMeansTimeout'
  BY <1>15 DEF Answer, Answers
<1>16. ASSUME NEW s \in Stages, TimerFires(s) PROVE AbortMeansTimeout'
  BY <1>16, WaitingPoints
   DEF TimerFires, TimeoutEvidence, ControllerOf, QuoteTimedOut, ActionFailed,
       SimulationEnded
<1>17. CASE UNCHANGED vars
  BY <1>17 DEF vars
<1> QED
  BY <1>1, <1>2, <1>3, <1>4, <1>5, <1>6, <1>7, <1>8, <1>9, <1>10, <1>11,
     <1>12, <1>13, <1>14, <1>15, <1>16, <1>17
   DEF Next, Run

(* A late stage's timer is armed with the remaining budget, and the        *)
(* deadline does not move while it runs.                                   *)
LEMMA ReserveStep == IInv /\ [Next]_vars => LateTimersKeepReserve'
<1> SUFFICES ASSUME IInv, [Next]_vars PROVE LateTimersKeepReserve'
  OBVIOUS
<1> USE DeadlineAssumption
     DEF IInv, TypeOK, TimerInv, LateTimersKeepReserve, Stages, NoTimer,
         WaitingAt
<1>1. CASE DelegateFixture
  BY <1>1 DEF DelegateFixture, Return
<1>2. CASE BeginLive
  BY <1>2 DEF BeginLive
<1>3. CASE ResolveSession
  BY <1>3 DEF ResolveSession, Return
<1>4. CASE StartQuotes
  BY <1>4, Budgets DEF StartQuotes
<1>5. CASE ArmQuotes
  BY <1>5, Budgets DEF ArmQuotes, Arm, ControllerOf, QuoteTimedOut
<1>6. CASE ResumeQuotes
  BY <1>6 DEF ResumeQuotes, Settled, ClearTimer, NothingSelected, Return
<1>7. CASE StartCapability
  BY <1>7 DEF StartCapability, Return
<1>8. CASE ArmCapability
  BY <1>8, Budgets DEF ArmCapability, Arm, ControllerOf, ActionFailed
<1>9. CASE ResumeCapability
  BY <1>9
   DEF ResumeCapability, Settled, ClearTimer, ActionFailed, SimulationEnded,
       Return
<1>10. CASE StartSimulation
  BY <1>10 DEF StartSimulation, Return
<1>11. CASE ArmSimulation
  BY <1>11, Budgets DEF ArmSimulation, Arm, ControllerOf, SimulationEnded
<1>12. CASE ResumeSimulation
  BY <1>12 DEF ResumeSimulation, Settled, ClearTimer, SimulationEnded, Return
<1>13. CASE Report
  BY <1>13 DEF Report, Decisions, SimulationEnded
<1>14. CASE Tick
  BY <1>14 DEF Tick
<1>15. ASSUME NEW s \in Stages, Answer(s) PROVE LateTimersKeepReserve'
  BY <1>15 DEF Answer, Answers
<1>16. ASSUME NEW s \in Stages, TimerFires(s) PROVE LateTimersKeepReserve'
  BY <1>16, WaitingPoints
   DEF TimerFires, TimeoutEvidence, ControllerOf, QuoteTimedOut, ActionFailed,
       SimulationEnded
<1>17. CASE UNCHANGED vars
  BY <1>17 DEF vars
<1> QED
  BY <1>1, <1>2, <1>3, <1>4, <1>5, <1>6, <1>7, <1>8, <1>9, <1>10, <1>11,
     <1>12, <1>13, <1>14, <1>15, <1>16, <1>17
   DEF Next, Run

(* Together: every step preserves the invariant.                           *)
LEMMA StepIInv == IInv /\ [Next]_vars => IInv'
BY TypeStep, TimerStep, EvidenceStep, CalledStep, JobStep, ResultStep,
   AbortStep, ReserveStep
 DEF IInv

(* The invariant holds in every state of a run.                            *)
LEMMA Invariance == Spec => []IInv
BY InitIInv, StepIInv, PTL DEF Spec

-----------------------------------------------------------------------------
(* Every variable of a run keeps its type, whatever the deadlines.         *)
THEOREM TypeCorrect == Spec => []TypeOK
BY InitIInv, TypeStep, PTL DEF Spec, IInv

(* runLive's early returns: no stage is called after one that failed.      *)
THEOREM StagesInOrder == Spec => []NoStageAfterFailure
BY Invariance, PTL DEF IInv

(* LIVE mode gives MANUAL_REVIEW only when every port was called and       *)
(* fulfilled its promise and no timer gave up.                             *)
THEOREM ReviewEarned == Spec => []ManualReviewIsEarned
<1>1. IInv => ManualReviewIsEarned
  <2> SUFFICES ASSUME IInv, result.decision = "MANUAL_REVIEW", deadline > 0
               PROVE  /\ called = Ports
                      /\ \A s \in Stages : job[s] = "FULFILLED"
                      /\ aborted = {}
    BY DEF ManualReviewIsEarned
  <2>1. /\ evidence.quote = "SELECTED"
        /\ evidence.capability = "AVAILABLE"
        /\ evidence.simulation = "AVAILABLE"
    BY DEF IInv, ResultInv, Contract!CompleteStages
  <2>2. \A s \in Stages : job[s] = "FULFILLED"
    BY <2>1 DEF IInv, JobInv, Stages
  <2>3. called = Ports
    BY <2>2 DEF IInv, TypeOK, JobInv, Stages, Ports
  <2>4. aborted = {}
    BY <2>1 DEF IInv, TypeOK, AbortMeansTimeout, Controllers
  <2> QED
    BY <2>2, <2>3, <2>4
<1> QED
  BY <1>1, Invariance, PTL

(* withTimeout aborts a controller exactly for a stage it gives up on.     *)
THEOREM AbortsAreTimeouts == Spec => []AbortMeansTimeout
BY Invariance, PTL DEF IInv

(* The action and simulation timers leave the reserve before the deadline. *)
THEOREM ReserveKept == Spec => []LateTimersKeepReserve
BY Invariance, PTL DEF IInv

(* Nothing a port or a timer does after the answer changes it.             *)
THEOREM AnswerStands == Spec => AnswerIsFinal
<1>1. IInv /\ [Next]_vars =>
        [result # NoResult =>
           UNCHANGED <<result, evidence, called, aborted>>]_vars
  <2> SUFFICES ASSUME IInv, Next, result # NoResult
               PROVE  UNCHANGED <<result, evidence, called, aborted>>
    OBVIOUS
  <2>1. at = "Done"
    BY DEF IInv, ResultInv
  <2>2. \A s \in Stages : timer[s] = NoTimer
    BY <2>1 DEF IInv, TimerInv, WaitingAt, Stages
  <2>3. ASSUME NEW s \in Stages, Answer(s)
        PROVE  UNCHANGED <<result, evidence, called, aborted>>
    BY <2>3 DEF Answer
  <2>4. \A s \in Stages : ~TimerFires(s)
    BY <2>2 DEF TimerFires
  <2>5. CASE Tick
    BY <2>5 DEF Tick
  <2>6. ~(DelegateFixture \/ BeginLive \/ Run)
    BY <2>1
     DEF DelegateFixture, BeginLive, Run, ResolveSession, StartQuotes,
         ArmQuotes, ResumeQuotes, StartCapability, ArmCapability,
         ResumeCapability, StartSimulation, ArmSimulation, ResumeSimulation,
         Report
  <2> QED
    BY <2>3, <2>4, <2>5, <2>6 DEF Next
<1> QED
  BY <1>1, Invariance, PTL DEF Spec, AnswerIsFinal

-----------------------------------------------------------------------------
(* The first state of a run is the first state of the contract.            *)
LEMMA ContractInitially == Init => Contract!ContractInit
BY DEF Init, NoResult, StageInputs, Contract!ContractInit, Contract!NoReply,
     Contract!NoStages

(* Every step of a run is a step of the contract, or leaves it unchanged.  *)
LEMMA ContractStep ==
  IInv /\ [Next]_vars => [Contract!ContractNext]_(Contract!contractVars)
<1> SUFFICES ASSUME IInv, [Next]_vars
             PROVE  [Contract!ContractNext]_(Contract!contractVars)
  OBVIOUS
<1> USE DEF IInv, TypeOK, ResultInv, NoResult, Contract!contractVars, StageInputs
<1>1. CASE DelegateFixture
  BY <1>1
   DEF DelegateFixture, Return, Contract!ContractNext, Contract!Fixture,
       Contract!Answer, Contract!NoReply, Contract!NoStages
<1>2. CASE BeginLive
  BY <1>2, DeadlineAssumption
   DEF BeginLive, Contract!ContractNext, Contract!Live
<1>3. CASE ResolveSession
  BY <1>3
   DEF ResolveSession, Return, Contract!ContractNext, Contract!Deliver,
       Contract!GiveUp, Contract!Answer, Contract!NoReply, Contract!NoStages
<1>4. CASE StartQuotes \/ ArmQuotes \/ ArmCapability \/ ArmSimulation
  <2>1. at # "Idle" /\ at' # "Idle" /\ UNCHANGED <<now, deadline, result>>
    BY <1>4
     DEF StartQuotes, ArmQuotes, ArmCapability, ArmSimulation, Arm, WaitingAt
  <2>2. result.status # "SUCCESS"
    BY <1>4 DEF StartQuotes, ArmQuotes, ArmCapability, ArmSimulation
  <2> QED
    BY <2>1, <2>2
<1>5. CASE \/ ResumeQuotes \/ StartCapability \/ ResumeCapability
           \/ StartSimulation \/ ResumeSimulation
  BY <1>5
   DEF ResumeQuotes, StartCapability, ResumeCapability, StartSimulation,
       ResumeSimulation, Return, Contract!ContractNext, Contract!GiveUp,
       Contract!Answer, Contract!NoReply, Contract!NoStages
<1>6. CASE Report
  BY <1>6
   DEF Report, Decisions, EvidenceInv, SimulationEnded,
       Contract!CompleteStages, Contract!ContractNext, Contract!Deliver,
       Contract!GiveUp, Contract!Answer, Contract!NoReply, Contract!NoStages
<1>7. CASE Tick
  BY <1>7 DEF Tick, Contract!ContractNext, Contract!Pass
<1>8. ASSUME NEW s \in Stages, Answer(s) \/ TimerFires(s)
      PROVE  UNCHANGED Contract!contractVars
  BY <1>8 DEF Answer, TimerFires, TimerInv, WaitingAt, Stages
<1>9. CASE UNCHANGED vars
  BY <1>9 DEF vars
<1> QED
  BY <1>1, <1>2, <1>3, <1>4, <1>5, <1>6, <1>7, <1>8, <1>9 DEF Next, Run

(* A run keeps the promise of PreflightService.run.                        *)
THEOREM Refinement == Spec => ImplementsContract
BY Invariance, ContractInitially, ContractStep, PTL
 DEF Spec, ImplementsContract, Contract!ContractSpec

-----------------------------------------------------------------------------
(* On a machine that keeps up (prompt), time passes only in a wait, and a  *)
(* wait ends with its timer: so no time is lost before the quote budget is *)
(* used, and every timer, the quote timer too, ends before the reserve.    *)
PromptInv ==
  /\ \A s \in Stages : at = WaitingAt[s] => timer[s] # NoTimer
  /\ prompt =>
       /\ at \in {"Resolving", "Live", "QuoteCalled"} =>
            now + TotalTimeout = deadline
       /\ at = "QuoteCalled" => budget + Reserve <= TotalTimeout
       /\ at \notin {"Idle", "Done"} => now + Reserve <= deadline
       /\ \A s \in Stages : timer[s] # NoTimer =>
            now <= timer[s] /\ timer[s] + Reserve <= deadline
  /\ ReserveIsEnough

(* The history variable does not restrain the orchestrator.                *)
LEMMA PromptIsHistory ==
  /\ MCInit => Init
  /\ [MCNext]_<<vars, prompt>> => [Next]_vars
BY DEF MCInit, MCNext

LEMMA InitPromptInv == MCInit => PromptInv
BY DEF MCInit, Init, PromptInv, ReserveIsEnough, Stages, NoTimer, WaitingAt,
   NoResult

(* Time passes at a point where a timer is running that is not yet due.    *)
LEMMA PromptTick ==
  ASSUME TypeOK, TimerInv, PromptInv, Tick, prompt, KeepsUp
  PROVE  /\ at \in {"Quoting", "Constructing", "Simulating"}
         /\ \A s \in Stages : timer[s] # NoTimer => now + 1 <= timer[s]
         /\ now + 1 + Reserve <= deadline
<1> USE DEF TypeOK, Stages
<1>1. now' = now + 1 /\ now' # now
  BY DEF Tick
<1>2. PICK s \in Stages : at = WaitingAt[s]
  BY <1>1 DEF KeepsUp, Waiting
<1>3. \A t \in Stages : timer[t] # NoTimer => now + 1 <= timer[t]
  BY <1>1 DEF KeepsUp, NoTimer
<1>4. timer[s] # NoTimer /\ timer[s] + Reserve <= deadline
  BY <1>2 DEF PromptInv
<1>5. now + 1 + Reserve <= deadline
  BY <1>3, <1>4, DeadlineAssumption
<1> QED
  BY <1>2, <1>3, <1>5, WaitingPoints

LEMMA PromptStep ==
  IInv /\ PromptInv /\ [MCNext]_<<vars, prompt>> => PromptInv'
<1> SUFFICES ASSUME IInv, PromptInv, [MCNext]_<<vars, prompt>>
             PROVE  PromptInv'
  OBVIOUS
<1>a. prompt' => prompt
  BY DEF MCNext
<1> USE DeadlineAssumption, <1>a
     DEF IInv, TypeOK, TimerInv, PromptInv, ReserveIsEnough, ResultInv,
         NoResult, Results, Stages, NoTimer, WaitingAt
<1>1. CASE DelegateFixture
  BY <1>1 DEF DelegateFixture, Return
<1>2. CASE BeginLive
  BY <1>2 DEF BeginLive
<1>3. CASE ResolveSession
  BY <1>3 DEF ResolveSession, Return
<1>4. CASE StartQuotes
  <2>1. prompt /\ at = "Live" => QuoteBudget + Reserve <= TotalTimeout
    BY DEF QuoteBudget, RemainingBudget
  <2> QED
    BY <1>4, <2>1 DEF StartQuotes
<1>5. CASE ArmQuotes
  BY <1>5 DEF ArmQuotes, Arm, ControllerOf, QuoteTimedOut
<1>6. CASE ResumeQuotes
  BY <1>6 DEF ResumeQuotes, Settled, ClearTimer, NothingSelected, Return
<1>7. CASE StartCapability
  BY <1>7 DEF StartCapability, Return
<1>8. CASE ArmCapability
  BY <1>8, Budgets DEF ArmCapability, Arm, ControllerOf, ActionFailed
<1>9. CASE ResumeCapability
  BY <1>9
   DEF ResumeCapability, Settled, ClearTimer, ActionFailed, SimulationEnded,
       Return
<1>10. CASE StartSimulation
  BY <1>10 DEF StartSimulation, Return
<1>11. CASE ArmSimulation
  BY <1>11, Budgets DEF ArmSimulation, Arm, ControllerOf, SimulationEnded
<1>12. CASE ResumeSimulation
  BY <1>12 DEF ResumeSimulation, Settled, ClearTimer, SimulationEnded, Return
<1>13. CASE Report
  BY <1>13 DEF Report
<1>14. CASE Tick
  <2>1. UNCHANGED <<at, deadline, budget, timer, result>> /\ now' = now + 1
    BY <1>14 DEF Tick
  <2>2. CASE ~prompt'
    BY <2>1, <2>2
  <2>3. CASE prompt'
    <3>1. prompt /\ KeepsUp
      <4>1. ~UNCHANGED <<vars, prompt>>
        BY <2>1 DEF vars
      <4>2. prompt' = (prompt /\ KeepsUp)
        BY <4>1 DEF MCNext
      <4> QED
        BY ONLY <2>3, <4>2, Zenon
    <3>2. /\ at \in {"Quoting", "Constructing", "Simulating"}
          /\ \A s \in Stages : timer[s] # NoTimer => now + 1 <= timer[s]
          /\ now + 1 + Reserve <= deadline
      BY <1>14, <3>1, PromptTick
    <3> QED
      BY <2>1, <3>2
  <2> QED
    BY <2>2, <2>3
<1>15. ASSUME NEW s \in Stages, Answer(s) PROVE PromptInv'
  BY <1>15 DEF Answer
<1>16. ASSUME NEW s \in Stages, TimerFires(s) PROVE PromptInv'
  BY <1>16, WaitingPoints DEF TimerFires
<1>17. CASE UNCHANGED vars
  BY <1>17 DEF vars
<1> QED
  BY <1>1, <1>2, <1>3, <1>4, <1>5, <1>6, <1>7, <1>8, <1>9, <1>10, <1>11,
     <1>12, <1>13, <1>14, <1>15, <1>16, <1>17
   DEF MCNext, Next, Run

(* remainingBudget and the quote cap are enough: with a reserve, only work *)
(* that overruns turns a LIVE run into a TIMEOUT.                          *)
THEOREM ReserveSuffices == MCSpec => []ReserveIsEnough
<1>1. MCInit => IInv /\ PromptInv
  BY InitIInv, InitPromptInv, PromptIsHistory
<1>2. IInv /\ PromptInv /\ [MCNext]_<<vars, prompt>> => IInv' /\ PromptInv'
  BY StepIInv, PromptStep, PromptIsHistory
<1>3. PromptInv => ReserveIsEnough
  BY DEF PromptInv
<1> QED
  BY <1>1, <1>2, <1>3, PTL DEF MCSpec

=============================================================================
