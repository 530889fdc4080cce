---------------------------- MODULE MCOrchestrator ----------------------------
(* The orchestrator on small clocks; the configuration gives the deadline, *)
(* the quote cap and the reserve in ticks instead of milliseconds.  A      *)
(* history variable remembers whether the machine kept up so far: only     *)
(* waiting took time, and no timer was overdue when time passed.           *)
EXTENDS Orchestrator

VARIABLE prompt

Waiting == \E s \in Stages : at = WaitingAt[s] /\ ~Settled(s)

KeepsUp ==
  now' # now =>
    /\ Waiting
    /\ \A s \in Stages : timer[s] = NoTimer \/ now < timer[s]

MCInit == Init /\ prompt = TRUE
MCNext == Next /\ prompt' = (prompt /\ KeepsUp)
MCSpec == MCInit /\ [][MCNext]_<<vars, prompt>> /\ Fairness

(* With a reserve, the budgets leave time for the report: only work that   *)
(* overruns (a busy event loop) turns a LIVE run into a TIMEOUT.           *)
ReserveIsEnough == Reserve > 0 /\ prompt => result.status # "TIMEOUT"

=============================================================================
