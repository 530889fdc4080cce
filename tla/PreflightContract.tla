--------------------------- MODULE PreflightContract ---------------------------
(***************************************************************************)
(* What PreflightService.run promises its caller                           *)
(* (apps/web/src/server/preflight-service.ts), and nothing of how: one     *)
(* answer, never revised; a report only before the deadline and a TIMEOUT  *)
(* only after it; in a report, a stage that failed leaves the later stages *)
(* MISSING; and MANUAL_REVIEW only over three complete stages.             *)
(***************************************************************************)
EXTENDS Naturals

CONSTANT TotalTimeout

VARIABLES
  clock,    \* the time the caller can see
  mode,     \* "NONE" until the request is read, then "FIXTURE" or "LIVE"
  due,      \* the deadline of a LIVE request
  reply     \* status, decision and stages of the answer

contractVars == <<clock, mode, due, reply>>

NoStages == [quote |-> "PENDING", capability |-> "PENDING",
             simulation |-> "PENDING"]

CompleteStages == [quote |-> "SELECTED", capability |-> "AVAILABLE",
                   simulation |-> "AVAILABLE"]

(* The shapes of a report: a prefix of completed stages, the failure that  *)
(* ended it, and MISSING after the failure.                                *)
StoppedStages ==
  [quote : {"NOT_SELECTED", "QUOTE_STAGE_TIMEOUT"},
   capability : {"NO_VALID_SELECTION"}, simulation : {"NO_CAPABILITY"}]
  \cup
  [quote : {"SELECTED"},
   capability : {"ACTION_TIMEOUT", "ACTION_ACQUISITION_FAILED"},
   simulation : {"NO_CAPABILITY"}]
  \cup
  [quote : {"SELECTED"}, capability : {"AVAILABLE"},
   simulation : {"SIMULATION_TIMEOUT", "SIMULATION_ACQUISITION_FAILED"}]

NoReply == [status |-> "NONE", decision |-> "NONE", stages |-> NoStages]

Answer(status, decision, stages) ==
  /\ reply = NoReply
  /\ reply' = [status |-> status, decision |-> decision, stages |-> stages]

ContractInit ==
  /\ clock = 0
  /\ mode = "NONE"
  /\ due = 0
  /\ reply = NoReply

Fixture ==
  /\ mode = "NONE"
  /\ mode' = "FIXTURE"
  /\ \/ \E d \in {"STOP", "MANUAL_REVIEW"} : Answer("SUCCESS", d, NoStages)
     \/ Answer("THROWN", "NONE", NoStages)
  /\ UNCHANGED <<clock, due>>

Live ==
  /\ mode = "NONE"
  /\ mode' = "LIVE"
  /\ due' = clock + TotalTimeout
  /\ UNCHANGED <<clock, reply>>

Deliver ==
  /\ mode = "LIVE"
  /\ clock < due
  /\ \/ \E stages \in StoppedStages : Answer("SUCCESS", "STOP", stages)
     \/ \E d \in {"STOP", "MANUAL_REVIEW"} :
          Answer("SUCCESS", d, CompleteStages)
     \/ Answer("UNAVAILABLE", "NONE", NoStages)
  /\ UNCHANGED <<clock, mode, due>>

GiveUp ==
  /\ mode = "LIVE"
  /\ \/ /\ clock >= due
        /\ Answer("TIMEOUT", "NONE", NoStages)
     \/ Answer("THROWN", "NONE", NoStages)
  /\ UNCHANGED <<clock, mode, due>>

Pass ==
  /\ clock' = clock + 1
  /\ UNCHANGED <<mode, due, reply>>

ContractNext == Fixture \/ Live \/ Deliver \/ GiveUp \/ Pass

ContractSpec == ContractInit /\ [][ContractNext]_contractVars

=============================================================================
