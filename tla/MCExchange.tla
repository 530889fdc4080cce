------------------------------- MODULE MCExchange -------------------------------
(* Two runs of the page, one deployment between them, and a service that   *)
(* returns reports of either provenance: short ones, one that fits without *)
(* its credential only, one that never fits, one without a canonical form, *)
(* one with a sensitive key and one that is no report.                     *)
EXTENDS Exchange

Review(provenance) ==
  [id |-> "report", valid |-> TRUE, provenance |-> provenance,
   status |-> "MANUAL_REVIEW", reasons |-> {}, simulation |-> "AVAILABLE",
   context |-> {"block", "moss"}, limitations |-> 1, sensitive |-> FALSE,
   canonical |-> TRUE, size |-> 1, generatedAt |-> "2026"]

Stopped(provenance) ==
  [Review(provenance) EXCEPT !.status = "STOP", !.reasons = {"reason"},
     !.simulation = "MISSING", !.context = {}, !.generatedAt = "2031"]

Reports(provenance) ==
  {Review(provenance), Stopped(provenance),
   [Review(provenance) EXCEPT !.size = 2],
   [Review(provenance) EXCEPT !.canonical = FALSE, !.size = 2],
   [Stopped(provenance) EXCEPT !.size = 4],
   [Review(provenance) EXCEPT !.sensitive = TRUE]}

Returned(report) == [status |-> "SUCCESS", report |-> report]
Without(status) == [status |-> status, report |-> NoReport]

MCResults(m) ==
  {Returned(r) : r \in Reports(IF m = "LIVE" THEN "LOCAL_FORK" ELSE "FIXTURE")}
  \cup {Returned(Review(IF m = "LIVE" THEN "FIXTURE" ELSE "LIVE_SOURCE")),
        Returned(NoReport), Without("THROWN")}
  \cup (IF m = "LIVE" THEN {Without("UNAVAILABLE"), Without("TIMEOUT")} ELSE {})

(* The page's own runs: one with a credential, one that loses it, and one  *)
(* of the wrong source, which ends in an error.                            *)
MCPageResults(m) ==
  LET own == IF m = "LIVE" THEN "LOCAL_FORK" ELSE "FIXTURE"
  IN  {Returned(Review(own)),
       Returned([Review(own) EXCEPT !.canonical = FALSE, !.size = 2]),
       Returned(Review(IF m = "LIVE" THEN "FIXTURE" ELSE "LIVE_SOURCE"))}

(* A request of either mode, and what can be wrong with one.               *)
MCRequests ==
  LET good == JsonRequest("LIVE", 1)
  IN  {good, JsonRequest("FIXTURE", MaxRequest),
       [good EXCEPT !.media = "TEXT"], [good EXCEPT !.declared = MaxRequest + 1],
       [good EXCEPT !.declared = 0, !.bytes = MaxRequest + 1],
       [good EXCEPT !.body = "NONE"], [good EXCEPT !.body = "BROKEN"],
       [good EXCEPT !.prototypeKeys = TRUE], [good EXCEPT !.shape = "OTHER"]}

=============================================================================
