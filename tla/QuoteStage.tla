------------------------------ MODULE QuoteStage ------------------------------
(***************************************************************************)
(* collectAndSelectQuotesV0_1 (packages/moss-adapter/src/selection.ts)     *)
(* inside the quote stage of the orchestrator: every candidate protocol is *)
(* asked at once, each under its own deadline, and the whole collection    *)
(* races the stage timer of withTimeout.  Answers come in any order, late  *)
(* or never.                                                               *)
(*                                                                         *)
(* Timers are the event loop's (Node.js, external): they go off no earlier *)
(* than they are due, the earliest due first and, among equals, in the     *)
(* order they were armed.  `timers' is that queue.                         *)
(***************************************************************************)
EXTENDS Quotes, SequencesExt

CONSTANTS
  Candidates,         \* session.candidateProtocols: identifiers, in id order
  Requests,           \* the quote requests of the model
  Catalogs,           \* the catalogs a session may bring
  SourceAnswers(_),   \* what a source may answer to a request
  CandidateDeadline,  \* QUOTE_DEADLINE_MS
  StageBudgets,       \* what runLive may hand to withTimeout
  Horizon             \* bound of the model: no time passes after it, timers apart

ASSUME QuoteStageAssumption ==
  /\ Candidates \subseteq Nat \ {0} /\ IsFiniteSet(Candidates) /\ Candidates # {}
  /\ CandidateDeadline \in Nat \ {0}
  /\ StageBudgets \subseteq Nat
  /\ \A c \in Catalogs : IsFiniteSet(c.entries)

VARIABLES
  now,
  request,    \* the request of the collection
  catalog,    \* the catalog of the session
  budget,     \* the milliseconds of the stage
  asked,      \* candidates whose task has been created
  source,     \* the promise of port.quote per candidate
  outcome,    \* the committed outcome per candidate
  signalled,  \* candidates whose AbortController was aborted
  timers,     \* armed timers, in arming order
  stage,      \* how far the stage has come
  selected    \* the winner of a finished collection

vars == <<now, request, catalog, budget, asked, source, outcome, signalled,
          timers, stage, selected>>

Stage == 0       \* the owner of the stage timer
NoProtocol == 0

FailureCodes ==
  {"PROTOCOL_NOT_ALLOWED", "UNKNOWN_ASSET", "UNKNOWN_DECIMALS",
   "QUOTE_ACQUISITION_FAILED", "QUOTE_TIMEOUT", "MALFORMED_QUOTE",
   "ASSET_DIRECTION_MISMATCH", "AMOUNT_BASIS_MISMATCH"}

Pending == [code |-> "PENDING", answer |-> {}]
Failure(code) == [code |-> code, answer |-> {}]

Init ==
  /\ now = 0
  /\ request \in Requests
  /\ catalog \in Catalogs
  /\ budget \in StageBudgets
  /\ asked = {}
  /\ source = [c \in Candidates |-> "NONE"]
  /\ outcome = [c \in Candidates |-> Pending]
  /\ signalled = {}
  /\ timers = <<>>
  /\ stage = "STARTING"
  /\ selected = NoProtocol

-----------------------------------------------------------------------------
(* The event loop's timer queue (external).                                *)
ArmTimer(owner, delay) ==
  timers' = Append(timers, [owner |-> owner, due |-> now + delay])

WithoutTimer(owner) ==
  RemoveFirstMatch(timers, LAMBDA t : t.owner = owner)

IsNextTimer(t) ==
  \E i \in DOMAIN timers :
    /\ timers[i] = t
    /\ \A j \in DOMAIN timers \ {i} :
         \/ t.due < timers[j].due
         \/ t.due = timers[j].due /\ i < j

-----------------------------------------------------------------------------
Committed(c) == outcome[c].code # "PENDING"
Collected == \A c \in Candidates : Committed(c)

(* The continuation of the collection is queued: it runs next.             *)
Resuming == stage = "COLLECTING" /\ Collected

LoopIdle == stage # "STARTING" /\ ~Resuming

(* The collection starts at time 0 of the model: its request and catalog   *)
(* are accepted then, or it rejects before any source is asked.            *)
Accepted == RequestAccepted(request) /\ CatalogAccepted(catalog, 0)

AssetEntries(asset) == FindCatalogEntry(catalog, asset)

(* Why a candidate is never asked, in the order of the code's conditions.  *)
SkipCode(c) ==
  LET entries == {AssetEntries(request.inputAsset),
                  AssetEntries(request.outputAsset)}
  IN  IF c \notin request.allowedProtocols THEN "PROTOCOL_NOT_ALLOWED"
      ELSE IF {} \in entries THEN "UNKNOWN_ASSET"
      ELSE IF \E entry \in UNION entries : entry.decimals = {}
      THEN "UNKNOWN_DECIMALS"
      ELSE "KNOWN"

(* Slips the runs must notice stand before the definitions they replace:   *)
(* a candidate deadline longer than its constant, and none at all.         *)
AskPatiently(c) ==
  /\ SkipCode(c) = "KNOWN"
  /\ source' = [source EXCEPT ![c] = "RUNNING"]
  /\ ArmTimer(c, CandidateDeadline + 1)
  /\ UNCHANGED outcome

AskForever(c) ==
  /\ SkipCode(c) = "KNOWN"
  /\ source' = [source EXCEPT ![c] = "RUNNING"]
  /\ UNCHANGED <<outcome, timers>>

Skip(c) ==
  /\ SkipCode(c) # "KNOWN"
  /\ outcome' = [outcome EXCEPT ![c] = Failure(SkipCode(c))]
  /\ UNCHANGED <<source, timers>>

(* port.quote throws before it returns a promise: committed, no timer.     *)
AskFails(c) ==
  /\ SkipCode(c) = "KNOWN"
  /\ outcome' = [outcome EXCEPT ![c] = Failure("QUOTE_ACQUISITION_FAILED")]
  /\ UNCHANGED <<source, timers>>

Ask(c) ==
  /\ SkipCode(c) = "KNOWN"
  /\ source' = [source EXCEPT ![c] = "RUNNING"]
  /\ ArmTimer(c, CandidateDeadline)
  /\ UNCHANGED outcome

(* One round of request.candidateProtocols.map, in the request's order.    *)
StartCandidate(c) ==
  /\ stage = "STARTING"
  /\ Accepted
  /\ c \notin asked
  /\ asked' = asked \cup {c}
  /\ Skip(c) \/ AskFails(c) \/ Ask(c)
  /\ UNCHANGED <<now, request, catalog, budget, signalled, stage, selected>>

(* A collection that rejects at once settles the race of withTimeout, which *)
(* runLive does not survive; without budget nobody looks at it.             *)
Refuse ==
  /\ stage = "STARTING"
  /\ ~Accepted
  /\ stage' = IF budget = 0 THEN "TIMED_OUT" ELSE "REJECTED"
  /\ UNCHANGED <<now, request, catalog, budget, asked, source, outcome,
                 signalled, timers, selected>>

(* withTimeout, after the synchronous part: without budget the stage has   *)
(* timed out although every source was asked.                              *)
StartRace ==
  /\ stage = "STARTING"
  /\ Accepted
  /\ asked = Candidates
  /\ IF budget = 0
     THEN stage' = "TIMED_OUT" /\ UNCHANGED timers
     ELSE stage' = "COLLECTING" /\ ArmTimer(Stage, budget)
  /\ UNCHANGED <<now, request, catalog, budget, asked, source, outcome,
                 signalled, selected>>

(* What a settled source leaves: the classified answer, or its rejection.  *)
(* Of the answers only those of eligible candidates are kept.              *)
Outcome(answer) ==
  LET code == Classify(request, answer)
  IN  [code |-> code, answer |-> IF code = "ELIGIBLE" THEN {answer} ELSE {}]

Answers ==
  {Failure("QUOTE_ACQUISITION_FAILED")}
  \cup {Outcome(answer) : answer \in SourceAnswers(request)}

(* Slips: an answer that overwrites the outcome already committed, and one *)
(* that leaves its timer armed.                                            *)
SourceOverwrites(c) ==
  /\ LoopIdle
  /\ source[c] = "RUNNING"
  /\ source' = [source EXCEPT ![c] = "SETTLED"]
  /\ \E a \in Answers : outcome' = [outcome EXCEPT ![c] = a]
  /\ timers' = WithoutTimer(c)
  /\ UNCHANGED <<now, request, catalog, budget, asked, signalled, stage,
                 selected>>

SourceKeepsTimer(c) ==
  /\ LoopIdle
  /\ source[c] = "RUNNING"
  /\ source' = [source EXCEPT ![c] = "SETTLED"]
  /\ \/ /\ ~Committed(c)
        /\ \E a \in Answers : outcome' = [outcome EXCEPT ![c] = a]
     \/ /\ Committed(c)
        /\ UNCHANGED outcome
  /\ UNCHANGED <<now, request, catalog, budget, asked, signalled, timers, stage,
                 selected>>

(* A source settles.  commit: the first terminal outcome stands, and its   *)
(* timer is cleared; an answer after that is dropped.                      *)
SourceSettles(c) ==
  /\ LoopIdle
  /\ source[c] = "RUNNING"
  /\ source' = [source EXCEPT ![c] = "SETTLED"]
  /\ \/ /\ ~Committed(c)
        /\ \E a \in Answers : outcome' = [outcome EXCEPT ![c] = a]
        /\ timers' = WithoutTimer(c)
     \/ /\ Committed(c)
        /\ UNCHANGED <<outcome, timers>>
  /\ UNCHANGED <<now, request, catalog, budget, asked, signalled, stage,
                 selected>>

(* A candidate's deadline: abort its source, commit the timeout.           *)
CandidateTimesOut(c) ==
  /\ LoopIdle
  /\ \E t \in Range(timers) : t.owner = c /\ t.due <= now /\ IsNextTimer(t)
  /\ timers' = WithoutTimer(c)
  /\ IF Committed(c)
     THEN UNCHANGED <<outcome, signalled>>
     ELSE /\ outcome' = [outcome EXCEPT ![c] = Failure("QUOTE_TIMEOUT")]
          /\ signalled' = signalled \cup {c}
  /\ UNCHANGED <<now, request, catalog, budget, asked, source, stage, selected>>

(* The stage's deadline: the collection goes on, but nobody awaits it.     *)
StageTimesOut ==
  /\ LoopIdle
  /\ \E t \in Range(timers) : t.owner = Stage /\ t.due <= now /\ IsNextTimer(t)
  /\ timers' = WithoutTimer(Stage)
  /\ stage' = "TIMED_OUT"
  /\ UNCHANGED <<now, request, catalog, budget, asked, source, outcome,
                 signalled, selected>>

Eligible == {c \in Candidates : outcome[c].code = "ELIGIBLE"}

(* normalizedAmountOut of an eligible candidate                            *)
AmountOut(c) == (CHOOSE answer \in outcome[c].answer : TRUE).amountOut

(* Slip: equal offers ordered by the larger id.                            *)
PrecedesReversed(c, d) ==
  \/ AmountOut(c) > AmountOut(d)
  \/ AmountOut(c) = AmountOut(d) /\ d < c

(* compareEligible: more output first, then the smaller protocol id.       *)
Precedes(c, d) ==
  \/ AmountOut(c) > AmountOut(d)
  \/ AmountOut(c) = AmountOut(d) /\ c < d

Winner ==
  IF Eligible = {} THEN NoProtocol
  ELSE CHOOSE c \in Eligible : \A d \in Eligible \ {c} : Precedes(c, d)

(* Promise.allSettled resolved: select, and clear the stage timer.         *)
Select ==
  /\ Resuming
  /\ stage' = "COLLECTED"
  /\ selected' = Winner
  /\ timers' = WithoutTimer(Stage)
  /\ UNCHANGED <<now, request, catalog, budget, asked, source, outcome,
                 signalled>>

Tick ==
  /\ now < Horizon \/ \E t \in Range(timers) : t.due > now
  /\ now' = now + 1
  /\ UNCHANGED <<request, catalog, budget, asked, source, outcome, signalled,
                 timers, stage, selected>>

Next ==
  \/ \E c \in Candidates :
       StartCandidate(c) \/ SourceSettles(c) \/ CandidateTimesOut(c)
  \/ Refuse \/ StartRace \/ StageTimesOut \/ Select
  \/ Tick

Spec == Init /\ [][Next]_vars

(* The code runs, time passes, due timers go off; sources owe nothing.     *)
Fairness ==
  /\ WF_vars(Refuse) /\ WF_vars(StartRace) /\ WF_vars(Select)
  /\ WF_vars(Tick)
  /\ WF_vars(StageTimesOut)
  /\ \A c \in Candidates :
       WF_vars(StartCandidate(c)) /\ WF_vars(CandidateTimesOut(c))

FairSpec == Spec /\ Fairness

-----------------------------------------------------------------------------
TypeOK ==
  /\ now \in Nat /\ budget \in StageBudgets
  /\ request \in Requests /\ catalog \in Catalogs /\ asked \subseteq Candidates
  /\ source \in [Candidates -> {"NONE", "RUNNING", "SETTLED"}]
  /\ outcome \in [Candidates -> {Pending} \cup {Failure(f) : f \in FailureCodes}
                                \cup Answers]
  /\ signalled \subseteq Candidates
  /\ \A t \in Range(timers) : t.owner \in Candidates \cup {Stage}
                              /\ t.due \in Nat
  /\ stage \in {"STARTING", "COLLECTING", "COLLECTED", "TIMED_OUT", "REJECTED"}
  /\ selected \in Candidates \cup {NoProtocol}

(* Slow candidates never cost the answers of the others: the stage gives   *)
(* up on the whole collection only when the hard deadline left it less     *)
(* time than one candidate has.  It takes the two timeouts, defined in two *)
(* packages, to agree, and the candidates' timers to be armed first.       *)
PartialResultsSurvive == stage = "TIMED_OUT" => budget < CandidateDeadline

(* The selection is the best of the outcomes that the report shows, for    *)
(* any order of arrival, and there is one whenever a quote was eligible;   *)
(* and what it selects answers the request: the same assets in the same    *)
(* direction, for the same amount, of assets that the catalog knows.       *)
AnswersRequest(answer) ==
  /\ <<answer.inputAsset, answer.outputAsset, answer.amountIn>>
       = <<request.inputAsset, request.outputAsset, request.amountIn>>
  /\ answer.amountOut \in Amount
  /\ \A asset \in {request.inputAsset, request.outputAsset} :
       \E entry \in catalog.entries :
         /\ entry.asset = asset /\ entry.decimals # {}
         /\ \A other \in catalog.entries : other.asset = asset => other = entry

SelectionIsBest ==
  stage = "COLLECTED" =>
    IF selected = NoProtocol
    THEN \A c \in Candidates : outcome[c].code # "ELIGIBLE"
    ELSE /\ selected \in request.allowedProtocols
         /\ outcome[selected].code = "ELIGIBLE"
         /\ \A answer \in outcome[selected].answer : AnswersRequest(answer)
         /\ \A c \in Candidates :
              outcome[c].code = "ELIGIBLE" =>
                /\ AmountOut(c) <= AmountOut(selected)
                /\ AmountOut(c) = AmountOut(selected) => selected <= c

(* A source that is awaited has a deadline, and a timer is armed for       *)
(* nothing else: no candidate can hang the collection, and no timer is     *)
(* left to abort a source whose answer was taken.                          *)
EveryWaitHasADeadline ==
  /\ \A c \in Candidates :
       (\E t \in Range(timers) : t.owner = c)
         <=> source[c] = "RUNNING" /\ ~Committed(c)
  /\ (\E t \in Range(timers) : t.owner = Stage) <=> stage = "COLLECTING"
  /\ \A c \in Candidates :
       c \in signalled <=> outcome[c].code = "QUOTE_TIMEOUT"

(* commit once: an answer that arrives after its candidate's deadline, or  *)
(* after the stage gave up, changes no outcome and no selection.           *)
OutcomesAreFinal ==
  [][/\ \A c \in Candidates : Committed(c) => outcome'[c] = outcome[c]
     /\ stage \in {"COLLECTED", "TIMED_OUT", "REJECTED"} =>
          UNCHANGED <<stage, selected>>]_vars

(* Every candidate of an accepted collection gets a terminal outcome, also *)
(* when its source never settles and also after the stage gave up; and the *)
(* stage itself ends, refused collections included.                        *)
CollectionEnds ==
  /\ Accepted => \A c \in Candidates : <>(Committed(c))
  /\ <>(stage \in {"COLLECTED", "TIMED_OUT", "REJECTED"})

=============================================================================
