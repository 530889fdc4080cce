# AnteSig in TLA+

AnteSig is a preflight console: before a user signs a swap, it collects quotes,
asks Moss for the transactions that would carry the swap out (the *Capability
Tree*), has them simulated, compares everything with the user's intent, and
ends in one of two decisions, `STOP` or `MANUAL_REVIEW`. It never signs. The
promise of the program is therefore about evidence: `MANUAL_REVIEW` must not be
shown unless every piece of evidence is there and clean, for every order in
which sources answer, timers fire, users click and objects change.

This directory holds the specifications of that program, the models TLC checks,
and theorems with proofs for TLAPS. `PROJECT.json` maps every definition to the
lines it translates.

1. [Inventory](#1-inventory)
2. [Modules](#2-modules-and-how-they-correspond-to-the-code)
3. [Runs](#3-runs)
4. [Bounds and fairness](#4-bounds-and-fairness)
5. [Proofs](#5-proofs)
6. [Disagreements with the documents](#6-disagreements-with-the-documents)
7. [What is not modelled](#7-what-is-not-modelled-and-why)
8. [Plan](#8-plan)

## 1. Inventory

```
 browser                                 server
 workbench-shell.tsx   POST /api/        preflight-handler.ts
 run-state.ts        ── preflight ─────► body limit, schema, presentation,
 api-client.ts                           credential, size limit
                                           │ PreflightService.run
                     FIXTURE ◄─────────────┤
          fake-preflight-service.ts        │ LIVE
                                           ▼
                                         preflight-orchestrator.ts
                                           │  quote, action, simulate (ports)
                                           │      moss-adapter ──► Moss, RPC node
                                           ▼
                                         preflight-projection.ts
                                         preflight-core   (alignment, references)
                                         decision-engine  (stop policy)
                                         report-schema    (stop policy, again)
```

| Component | State it keeps | Operations | What makes it correct |
|---|---|---|---|
| Orchestrator `apps/web/src/server/preflight-orchestrator.ts` | deadline, two `AbortController`s, one timer per stage, promises of three ports | `run`, `runLive`, `withTimeout`, `remainingBudget` | one answer per request, inside the deadline; no stage on the strength of a failed one; late answers change nothing |
| Fixture service `fake-preflight-service.ts` | none | `run` | a stored report passes the schema like any other |
| Quote collection `moss-adapter/src/selection.ts`, `quote.ts` | an outcome, a timer and a controller per candidate | `collectAndSelectQuotesV0_1` | one terminal outcome per candidate; the selection is the best eligible one, in any order of arrival; slow sources do not cost the answers of others |
| Capability construction `capability.ts`, `source-bindings.ts` | the source's own tree, a frozen snapshot of it, a registry between the two | `constructCapabilityV0_1`, `port.action`, `port.simulate` | a tree that is changed after it was returned is not reviewed |
| Simulation recorder `simulation.ts` | block numbers, hashes, block parameters and failures of the requests a simulator sends | the recording client, `finish` | `PROVEN` means every trace ran on the block that the evidence names |
| Evidence mapping `evidence-mapper.ts`, `integrity.ts` | none | `mapMossEvidenceV0_1` and the digests | coverage, ordering, continuity and integrity are proven only by complete lists that agree |
| Projection `preflight-projection.ts` | none | `projectPreflightReportV0_1` | contexts, public evidence and facts tell the same story |
| Alignment `preflight-core/src/alignment.ts`, `source-references.ts` | none | `evaluateAlignmentV0_1`, two reference validators | every check rests on a path that may hold its evidence and does; a gap is never a pass |
| Decision engine `decision-engine/src/evaluate.ts` | none | `evaluateDecisionV0_1` | `MANUAL_REVIEW` exactly when no stop condition holds |
| Report schema `report-schema/src/report.ts` | none | `validateDecision` and the shapes | the same policy, written a second time, agrees with the first |
| Workbench `workbench-shell.tsx`, `run-state.ts`, `api-client.ts` | mode, draft, run state, `activeRun` ref, recovery record, requests under way | run, cancel, retry, mode, recover, fixture, edit, leave; settlements | the pane shows the run that was started last, and never takes a Fixture result for a Live one |
| HTTP handlers `preflight-handler.ts`, `verify-handler.ts`, `http-json.ts`, `contracts/` | none; a flag read once per deployment | `POST /api/preflight`, `POST /api/verify` | a sound report is delivered whatever becomes of its credential, and nothing else is; no answer is one the client calls invalid |
| Clear402 credentials `credential-service.ts`, `packages/clear402-profile` | none | `generate`, `verifyClear402CredentialV0_1`, `tamperProtectedReportCopy` | a credential verifies exactly the report it was issued for |
| Credential panel `credential-actions.tsx`, `verify-client.ts` | the copy shown, a verification status, requests under way | verify, change the copy, reset | a verdict stands beside the copy it was given for |
| Evidence views `evidence-model.ts`, `evidence-timeline.tsx` | none | `evidenceTimelineModel` and the sheet above it | the page shows of each transaction its own evidence, and no failure as a success |
| Catalog, amounts, bindings, JSON boundary | none | pure functions | exact conversions, closed data |

**Interaction.** Everything on the server runs on one JavaScript thread per
request; concurrency comes from promises and timers. The orchestrator awaits
one port at a time but cannot stop one it gave up on: no signal reaches
`action` and `simulate`. The quote stage asks all candidates at once under two
levels of timers. The simulator sends overlapping RPC requests through the
recorder and may leave some behind. The tree is handed out as the *same
mutable object* to source, registry, simulator and projection. The browser's
handlers are closures over what was rendered last, while a ref holds the run
that is really active. The page is rendered with one setting of the credential flag
and may talk to a server that was deployed with another; an answer that has left
the server is parsed a second time by the client, with code of its own.

**Hard behaviour**, and hence the subject of the properties: answers racing
their own timers; answers after the run is over; a deadline carved into budgets
that must leave a reserve; a table of stop conditions that exists twice; a
mutable object read at five points across four awaits; block numbers and hashes
recorded out of order; evidence paths built in one package and judged by a
hand-written table in another; objects shared by design and a hand-written table
of the shares; stale closures in the browser; a verdict that arrives when its
panel shows something else. `PROJECT.json`
lists each of these under `hazards`, at its line, with the properties that
would notice.

## 2. Modules and how they correspond to the code

| Module | Models | Proofs |
|---|---|---|
| `PreflightContract` | what `PreflightService.run` promises: one answer, never revised; a report before the deadline, `TIMEOUT` only after it; `MISSING` behind a failed stage | |
| `Orchestrator` | one call of `PreflightOrchestrator.run`; implements `PreflightContract` | `Orchestrator_proofs` |
| `Quotes` | catalogs, requests, the bound port's quote and the classification of an answer, as functions | |
| `QuoteStage` | `collectAndSelectQuotesV0_1` racing the stage timer; uses `Quotes` | `QuoteStage_proofs` |
| `ReportModel` | the shape of a source report | |
| `DecisionEngine` | `evaluateDecisionV0_1` | |
| `ReportSchema` | the decision checks of `PreflightReportSchema` | |
| `StopPolicy` | a report from engine and assembler to a reader, with decisions by other producers | `StopPolicy_proofs` |
| `SimulationRecorder` | the recording session of one `port.simulate`, and `blockVerification` | `SimulationRecorder_proofs` |
| `WorkbenchContract` | what the result pane promises | |
| `Workbench` | the browser: shell, reducer, requests, rendering; implements `WorkbenchContract` | `Workbench_proofs` |
| `Clear402` | a credential, its verification and its deliberate change | |
| `PreflightHandler` | both POST handlers and the client's parser, as functions from request to response | |
| `Exchange` | `Workbench` with a server behind it, deployments, other clients and the credential panel | `Exchange_proofs` |
| `SourceReferences`, `Alignment` | the reference tables and the eighteen checks | |
| `MossEvidence` | digests and the mapping of a simulation | |
| `PreflightProjection` | contexts, facts, gaps, paths and the source report; composes the three modules above with `DecisionEngine` and `ReportSchema` | |
| `SelectionBoundary` | what the construction asks of a selection: which objects may occur where, policy, association | |
| `EvidenceViews` | the timeline of the page, joined from the mapped lists | |
| `LivePreflight` | one Capability Tree through construction, simulation, projection and decision, changed under way | `LivePreflight_proofs` |
| `Subsequences`, `OrderLemmas` | the items of a sequence at some of its places, in order; facts about it, about least elements and about the library's operators on sequences | `OrderLemmas` |

`MC*` modules give the constants values; each `.cfg` is one run. `filter` of the
code is `ItemsAt` of `Subsequences`: the library's `SelectSeq` is recursive, and
what it returns for every input could not be proved.

**Orchestrator.** `at` is the point the code has reached. Between two `await`s
the code is one action, but time (`Tick`) passes everywhere, synchronous code
included, which is how a report can be finished after its deadline. `StartQuotes`
and `ArmQuotes` are two actions, because `runLive` reads the quote budget, calls
the collection, and arms the timer afterwards. `Resume…` are the continuations
behind the race with the `finally` of `withTimeout`; `Answer(s)` delivers a
port's answer whenever the event loop is idle, also after the run is over;
`TimerFires(s)` aborts the stage's controller. `job` and `evidence` are kept
apart: what became of a promise, and what the run believes of it.

**QuoteStage.** Node's timer queue is explicit (`timers`): earliest due first,
then in arming order. The candidates' timers and the stage's timer are due at
the same instant in the configured program, and the arming order alone decides
whether the collection is kept or thrown away. A request and a catalog are
chosen first: `Refuse` is the collection that rejects one of them, the rest asks
the sources, whose answers are classified by `Classify`. Amounts are
integers up to and beyond `MaxUint`: the HTTP schema does not bound the amount of
an intent, so that one above uint256 passes the schema, is refused here and ends
in an internal error.

**StopPolicy.** `source` is everything in a report except its decision.
`Travel` replaces the decision of a finished report by one another producer may
have written (a reason too many or too few, twice, in another order, with
another reference, or `MANUAL_REVIEW`), and `Read` is the parse of any reader.
`DecisionEngine` and `ReportSchema` are translated separately, each from its own
source file, so that their agreement is a result and not an assumption.

**SimulationRecorder.** Each request has a method, a block and a phase. `chain`
counts the versions of a block, so that a number and a version are a hash. The
answers the simulator held when it settled (`used`) are what the evidence is
later taken to speak of. External, and taken from how the code uses them: the
simulator sends a trace at a number only after `eth_blockNumber` was answered;
a replaced block does not come back; requests may still be under way when the
simulator settles.

**Workbench.** `run` is the reduced state, `view` the rendered one. A user's
event is followed by a render before the next event; a promise's dispatch is
not. Handlers read `view` where the code reads its closure and `active` where
it reads the ref. `fetching`, `aborted` and `expired` follow every request that
was ever sent. The reducer's `SUPERSEDE` event is never dispatched by the shell
and has no action. The client's 15 s timer has no number here: it may fire at
any time.

**Exchange.** It extends `Workbench` and gives its answers a cause. `Serve` is
one run of the handler for a request of the page, at any time after it was sent,
with the flag the server has then; `served` keeps the result and the reply.
`Answer` delivers the reply through the client's parser, `Break` is everything
that goes wrong in between. `PreflightHandler` keeps the order of the early
returns, and writes the contract the way the code does: one predicate for the
baseline response, one for the response with an extension, one for the client.
Sizes are small integers in which a credential weighs its envelope and the report
once more. The panel belongs to the result of one token. Its `useEffect` runs
some time after the paint; `hasty` remembers a user who was faster, because the
effect then resets a panel that is already verifying.

**LivePreflight.** A tree is its transactions (target, native value), approve
nodes, capability nodes, the intent its calldata carries out, whether it can be
read, and the form of the object that holds it: plain JSON, frozen, or with
something JSON hides. A digest is the set of contents it stands for, empty when
it is null. `Change` replaces the contents of the object at any point where the
run waits. `Project` is the synchronous end: projection, eighteen checks,
decision, validation. A JSON Pointer is the sequence of its segments, and
`Document` gives every path that resolves with what is found there. Before the
action, `SelectionBoundary` decides whether the construction takes the finished
collection. There a selection is the set of places at which the code puts an
object, derived from what source-bindings.ts and quote.ts share between answers,
and the table of allowed pairs is the one of capability.ts. `EvidenceViews` reads
the answer of the simulator by the lists the adapter mapped, as the page does,
and not by those of the projection.

**Slips.** A definition marked *Slip* is a plausible bug of the definition
after it (a dropped guard, a missing reset, an index from one instead of zero).
Specifications do not use slips. Each is listed in `PROJECT.json` with the
property that fails when it takes the other definition's place, so that no
property passes only because it could not fail.

## 3. Runs

`tlc -config <cfg> <module>`; states are distinct states.

| Run (cfg) | Question | States |
|---|---|---|
| `orchestrator` (`MCOrchestrator`) | Every interleaving of one request's stages with answers, late answers, timers and slow code, and whether budgets and reserve alone keep a run inside its deadline | 4,774 |
| `stop_policy` (`MCStopPolicy`) | Do engine and schema agree, and does a reader accept any other decision? | 68,522 |
| `quote_stage` (`MCQuoteStage`) | Concurrent candidates under two levels of timers, with acceptable and unacceptable requests, catalogs and answers | 26,314 |
| `simulation_recorder` (`MCSimulationRecorder`) | What does `PROVEN` mean when requests overlap and blocks are replaced? | 573,941 |
| `workbench` (`MCWorkbench`) | What does the pane show under cancel, retry, mode change, recovery and late answers? | 66,040 |
| `exchange` (`MCExchange`) | What does the page show of what the server did, across deployments, late answers and verifications? | 1,173,994 |
| `live_preflight` (`MCLivePreflight`) | Which selections are constructed, which trees and simulations are reviewed, also when the tree changes, what do the checks cite, and what does the page show? | 57,646 |
| `live_integrity`, `live_intent`, `live_selection`, `live_ledger`, `live_rollback` | Five statements of documents that the code does not keep | violated |

**orchestrator.** `NoStageAfterFailure`: no port is called on the strength of a
stage that failed, also when that stage answers later. `ManualReviewIsEarned`:
a LIVE `MANUAL_REVIEW` stands on three called ports, three fulfilled promises and
no abort. `AbortMeansTimeout`: a controller is aborted exactly when a stage it
guards is reported as timed out; a timer left armed would break it one stage
later. `LateTimersKeepReserve`: the timers of the two late stages leave the
reserve. `AnswerIsFinal`: after the answer nothing is called, aborted or
revised. `EveryRunAnswers`: every request is answered although no port owes an
answer. `ImplementsContract`: the refinement of `PreflightContract`.
`ReserveIsEnough`: if only waiting took time and no timer was overdue (`prompt`),
the run does not end in `TIMEOUT`; where synchronous code takes time, `TIMEOUT` is
reachable, as it is in the program.

**stop_policy.** The sources are a clean report and all reports that deviate
from it in up to two places. `EngineIsNeverRefused`: no decision of the engine
fails the schema. `ReadersSeeTheEngineDecision`: whoever wrote a decision, a
reader accepts only the engine's. `NoReviewOverStopEvidence`: nobody is shown
`MANUAL_REVIEW` beside evidence that stops (docs/architecture.md, "Result
invariant").

**quote_stage.** `PartialResultsSurvive`: slow candidates never cost the answers
of others unless the hard deadline had left less time than one candidate has;
it needs two constants of two packages to agree and the timers to be armed in
one order. `SelectionIsBest`, for any order of arrival: the selected quote is an
answer to the request as it was made (operation, direction, amount), and no
eligible one offers more. `EveryWaitHasADeadline`:
timers are armed for what is awaited and for nothing else. `OutcomesAreFinal`,
`CollectionEnds`.

**simulation_recorder.** `ProvenMeansOneBlock`: if the evidence is `PROVEN`,
every trace and gas estimate the simulator held when it returned was made on the
one block whose number and hash the evidence names. `HonestRunIsProven`: and a
run without anomalies is `PROVEN`. `EvidenceIsFinal`: requests left behind do not
reach the evidence.

**workbench.** `ActiveRunIsShown`: ref and state never disagree.
`OneRequestAtATime`. `SourceIsTheChosenOne`: an outcome on the screen belongs to
the last run and to the mode that is selected. `RecoveryIsHonest` and
`FailureIsRetained`: the recovery record names a Live run that failed, stands
only beside Fixture runs, and goes only when the user chooses a mode.
`ScreenSettles`: a run a server never answers still ends on the screen.
`ImplementsContract`: the refinement of `WorkbenchContract`.

**live_preflight.** `ReviewIsSupported`: a reviewed run had a selected quote, an
unchanged tree that the policy expects, and a result for every transaction of it
with a successful receipt, a successful outcome, receipted changes and no
warning (`Recorded`), in one unbroken chain, to the targets of the policy. The
property speaks of the raw answer; decision and alignment see only contexts, flags,
counts and lists derived from it. It says nothing of the simulator's `reverted`
flag, which nothing reads: that is the subject of `live_rollback`.
`CleanRunIsReviewed` is the other direction: no check and no evidence path stops a
supported run whose results are clean, that is recorded as above and not
rolled back (`Clean`), so the first property does not hold because everything
stops. `FactsAreAccepted`: the paths that the projection
builds are the ones that the table of the other package accepts.
`ReferencesResolve`: whatever a check cites exists in the report that carries it,
whichever stages were lost.

`OneChangeIsCaught`: a tree changed once, at any time and by anyone who holds it,
is never reviewed. Two changes may cancel out; what the run then still knows is
the subject of `live_integrity`. `LoneAnswerIsConstructed`: a sound selection out
of one answer passes the construction's table of shared objects; `live_selection`
is the same for more answers. `TimelineIsFaithful`: the page, which joins the
adapter's lists by the index in each record, shows every transaction with its own
receipt, outcome and warnings, and counts the failures that the projection
counted; `live_ledger` is about the one status it sums them up in.

**exchange.** `ResponsesAreAccepted`: handler and client check one contract with
two programs, and no answer of the first, to any request and under either flag,
is invalid to the second. `DeliveredIfSound`: which reports reach the page, as an
equivalence; a credential that cannot be issued never costs a report, and the
size limit, which counts the credential, is the one way in which the flag can.
`ShownIsServed`: the screen shows what the server made of that very run, also
after cancelled runs, deployments and late answers. `VerdictIsOfTheCopy`: VALID
never stands beside a changed copy nor DIGEST_INVALID beside the original, except
for a user who was faster than the panel's effect.

No run checks for deadlock: a request, a report, a recording session and a user
come to an end, and the model then has no further step.

## 4. Bounds and fairness

| Constant | Value | Why it is enough |
|---|---|---|
| `TotalTimeout`, `QuoteTimeout`, `Reserve` | 9, 4, 1 | Each stage can end before, at or after its timer, and the remaining budget of each late stage can be there or used up. The real values are 25,000, 8,000 and 100 ms; only their order and differences matter, and the theorems hold for all of them. |
| `Horizon` | 12, 4 | Time stops there except while a timer is armed: later than every deadline plus slow code. |
| `MaxDeviations` (stop policy) | 2 | Two deviations show every pair of stop conditions, which is what order and completeness of the reasons depend on. |
| `References` | 2 | One reference shared by two checks, or one each. |
| `Candidates`, `Amounts`, `StageBudgets` | 2, {1, 2}, {0, 1, 2} | Ties, either order of arrival, a stage without time, one that ends before its candidates, and one that is due with them. |
| `MaxUint`, requests, catalogs, answers (quote stage) | 3 | Amounts at 0, 1, the greatest and one above it; one catalog of each way to be refused; a clean answer and each single way to differ from it. |
| `Calls`, `MaxBlock`, `MaxReplacements` | 3, 2, 1 | A block number, a trace on it, and a third request overlapping either; one block besides, one replacement. The requests are interchangeable, hence the symmetry; no liveness is checked under it. |
| `MaxRuns` | 3 | A failed run, one that recovers or is cancelled, and one that a late answer of either could disturb. |
| `MaxRuns`, `MaxDeploys` (exchange) | 2, 1 | A run and its retry, and a deployment before, between or after them. The page's own runs end with a credential, without one, or in an error (`PageResults`); the other results are met by requests of other clients, before the page's first run, since the handler keeps nothing between two requests. |
| `MaxRequest`, `MaxResponse` | 2, 4 | A report that fits with its credential, one that fits only without it, one that never fits. |
| Selections, policies (live) | 42, 6 | One candidate or two, each answer with a value of each kind, either provenance; two policies to follow, four that cannot be. |
| `MaxDeviations` (live) | 2 | A deviant tree counts as one. Two let one deviation hide another, for instance a missing receipt behind a matching count. |
| `MaxChanges` | 2 | One change, and a second that undoes it. Changes and deviations are explored apart (`Apart`): a run whose tree changes has a clean simulation of what was executed. |

`Horizon`, `MaxRuns`, `MaxDeploys`, `Calls`, `MaxBlock`, `MaxReplacements` and
`MaxChanges` are bounds of the models, not of the program.

Fairness is stated only where the code's scheduling gives it:

- `Orchestrator`: synchronous code finishes (`WF` of `Run`, one action at a
  time), time passes, a due timer is fired by the event loop. Nothing is assumed
  of `Answer`: a port may never settle.
- `QuoteStage`: the same for the rounds of `map`, the race, the continuation of
  `Promise.allSettled`, and the timers. Nothing is assumed of a source.
- `Workbench`: the client's timer fires, a `fetch` whose signal was aborted or
  expired rejects, React renders. Nothing is assumed of the server or the user.
- `Exchange` has no fairness: the verification request has no timeout of its own
  (verify-client.ts), so that a panel may verify for ever, and what the page owes
  by itself is checked in `Workbench`.
- The other modules have no liveness property and no fairness.

## 5. Proofs

Every invariant and action property that a passing run checks is a theorem, and so
are the two refinements. TLAPS proves them for every value of the constants that
satisfies these named assumptions:

| Assumption | What it asks | From |
|---|---|---|
| `DeadlineAssumption` | a total and a quote budget, a reserve below the total | the constructor's checks |
| `QuoteStageAssumption`, `MaxUintAssumption` | finitely many candidates, a positive candidate deadline, finite catalogs, a bound of the amounts | selection.ts, asset-catalog.ts |
| `SourcesAssumption` | sources have the schema's shape | report.ts |
| `RecorderAssumption` | finitely many requests, some block, finitely many replacements | bounds of the model |
| `WorkbenchAssumption`, `HandlerAssumption` | at least one run, positive limits | bounds; http-json.ts |
| `ExchangeAssumption` | a request names a mode, a service returns what its type says | contracts/preflight.ts |
| `TreesAssumption` | trees are what observeCapability can be given, and a simulator answers within `Answers` | integrity.ts, evidence-mapper.ts:231 |
| `SelectionsAssumption` | the selected quote is an eligible outcome, and there is one outcome for each candidate | selection.ts |
| `IntentsAssumption` | a positive amount, a natural slippage bound | report.ts, scalars.ts |
| `BoundAssumption` | `MaxChanges` is a number | bound of the model |

Nothing is assumed of how many candidates, sources, conditions, checks,
transactions, results or runs there are, in which order anything arrives, or what a
simulator answers within its contract.

| Module | Theorem | States |
|---|---|---|
| `Orchestrator_proofs` | `TypeCorrect`, `StagesInOrder`, `ReviewEarned`, `AbortsAreTimeouts`, `ReserveKept`, `AnswerStands` | `TypeOK`, `NoStageAfterFailure`, `ManualReviewIsEarned`, `AbortMeansTimeout`, `LateTimersKeepReserve`, `AnswerIsFinal` |
| | `ReserveSuffices` | `ReserveIsEnough` |
| | `Refinement` | `ImplementsContract` |
| `StopPolicy_proofs` | `TablesAgreeOnReview`, `OnlyTheEngineDecision` | engine and schema give `MANUAL_REVIEW` to the same source reports; of all decisions, the schema accepts exactly one for a source report, the engine's |
| | `Invariant`, `TypeCorrect` | the inductive invariant, `TypeOK` |
| | `EveryDecisionBecomesAReport`, `ReadersAgreeWithTheEngine`, `ReviewIsClean` | `EngineIsNeverRefused`, `ReadersSeeTheEngineDecision`, `NoReviewOverStopEvidence` |
| `QuoteStage_proofs` | `Invariant`, `TypeCorrect` | the inductive invariant, `TypeOK` |
| | `WaitsHaveDeadlines`, `SlowSourcesCostNothing`, `TheBestIsSelected`, `OutcomesStand` | `EveryWaitHasADeadline`, `PartialResultsSurvive`, `SelectionIsBest`, `OutcomesAreFinal` |
| `SimulationRecorder_proofs` | `TypeCorrect`, `ProvenIsOneBlock`, `EvidenceStands`, `NoFalseAlarm` | `TypeOK`, `ProvenMeansOneBlock`, `EvidenceIsFinal`, `HonestRunIsProven` |
| `Workbench_proofs` | `TypeCorrect`, `RefMatchesState`, `SingleRequest`, `SourceShown`, `RecoveryTold`, `FailureKept` | `TypeOK`, `ActiveRunIsShown`, `OneRequestAtATime`, `SourceIsTheChosenOne`, `RecoveryIsHonest`, `FailureIsRetained` |
| | `Refinement` | `ImplementsContract` |
| `Exchange_proofs` | `StillTheWorkbench` | a page with a server, a panel and other clients behaves like the workbench alone |
| | `AnswersAreAccepted`, `SoundReportsArrive`, `ScreenTellsTheServed`, `VerdictBelongs` | `ResponsesAreAccepted`, `DeliveredIfSound`, `ShownIsServed`, `VerdictIsOfTheCopy` |
| `LivePreflight_proofs` | `TypesHold`, `ChangeIsCaught`, `ReviewRestsOnEvidence`, `CleanIsNeverStopped` | `TypeOK`, `OneChangeIsCaught`, `ReviewIsSupported`, `CleanRunIsReviewed` |
| | `FactsAlwaysAccepted`, `ReferencesAlwaysResolve`, `LoneAnswerIsTaken`, `TimelineIsShown` | `FactsAreAccepted`, `ReferencesResolve`, `LoneAnswerIsConstructed`, `TimelineIsFaithful` |
| | `ApprovalAmountFallsBack` | the approval amount of every constructed capability whose approvals can be read cites the fallback references (`FallbackIsTaken`) |

The arguments:

- **Orchestrator.** None of the properties is inductive. `IInv` adds what ties
  the point reached to everything else: a timer is armed only where its stage is
  awaited (`TimerInv`), the evidence grows with the point and is a shape of the
  contract when the report is built (`EvidenceInv`), no port is called before its
  stage (`CalledInv`), evidence comes from fulfilled promises and those from
  calls (`JobInv`), and the answer exists exactly at the end (`ResultInv`).
  The refinement maps every action to one of the contract's or to a stutter.
  `ReserveIsEnough` speaks of the history variable `prompt`, and `PromptInv` of
  what holds while it is true: no time has passed before the quote budget is
  taken, and every timer, hence every later point, leaves the reserve.
- **StopPolicy.** A report the schema allows to be `MANUAL_REVIEW` triggers no
  condition (`AllowedMeansNoReason`), and one without a condition is allowed
  (`NoReasonMeansAllowed`, which needs that unavailable evidence, empty lists and
  failed items each leave a reason behind). For `STOP`, the two tables name the
  same references for every code (`TablesAgree`), the ranks the schema sorts by
  rise along the engine's own order (`RanksRise`), so that the engine's list is
  valid (`EngineIsValid`); and two valid lists are one (`OneValidList`: at the
  first place where they differ, each would have the lower rank).
- **QuoteStage.** The invariant is about the timer queue (`QueueInv`, `Waits`): it
  holds one timer for each wait and no other; the stage's is the last armed, and
  with a budget of at least a candidate's deadline the latest due. So the stage
  ends before its candidates only without that budget (`StageInv`). That the
  selection is best takes an answer with the least distance to the bound of the
  amounts and, of those, the least candidate (`BestExists`).
- **SimulationRecorder.** The invariant follows an answer from the moment it is
  traced: it was recorded, and either some failure is on record as well or its
  version of the block lies between the first hash and the present one
  (`Accounted`). Versions only grow; so equal hashes around the simulation
  leave no room for another version between them. The converse (`HonestInv`)
  says of every number, hash, request and failure on record where it came from:
  with one block number request there is one source for all of them, and each
  reason for a failure is one the hypotheses exclude.
- **Workbench.** `ActiveInv` says that the active run is the last one, was asked
  in the selected mode and is the one that is running; a settlement passes the
  reducer's token test only then. `ViewInv` says that a screen that does not show
  a running request shows the current state, which is why a stale closure does
  no harm.
- **Exchange.** What the handler answers is a matter of definitions: a run of it
  is good (`GoodRun`) for every request and every result, by cases on the early
  returns, the flag and the fate of the credential (`RunIsGood`). Which run is on
  the screen is not: `XInv` says that what is shown, and what is about to be
  rendered, was served under its own token (`ScreenInv`), whose result the panel
  belongs to (`OwnerInv`), and of which copy every verification under way speaks
  (`ChecksInv`, `PanelInv`). Every step is a step of the workbench, so that its
  theorems are used as they were proved (`StillTheWorkbench`).
- **LivePreflight.** Object and snapshot are equal before the first change and
  differ after exactly one (`TreeInv`); the stages, once a report exists, no
  longer change, and the report is their projection and passed the validation
  (`Reported`). Everything else is about one state. A report the schema allows to
  be `MANUAL_REVIEW` has eighteen passing checks; a check passes only on an
  available fact; and each fact is a comparison that goes back to the tree, the
  policy or the results (`ReviewIsSupported`). The other way round, stages that
  support a review, and so all clean ones,
  make every fact count, every check pass and every list of the report pass, so
  that no condition is left (`CleanRunIsReviewed`); that needs every path a fact
  cites to be in the table of its check and in the document, which are
  `FactsAreAccepted` and `ReferencesResolve`. For `LoneAnswerIsConstructed`, an
  object of a selection with one answer is at two places of one pair and nowhere
  else, because no two pairs hold the same object. For `TimelineIsFaithful`, a
  record of the adapter's lists is found under the index of its transaction and
  no other, and the ledger, which flattens the joined lists, holds what the
  projection counted. For `FallbackIsTaken`, the spender is a fact that counts, so
  that the approval amount cites its path, and that path is none of the leaves,
  availabilities and intent paths of the check.

The orders and lists above take induction, which the provers cannot be given as a
theorem to instantiate. `OrderLemmas` gets it once, from the least element of a set
of naturals (`Least`, by the library's theorem on well-founded relations, which
quantifies over sets), and derives the rest: the n-th of a set of places exists,
later ones are greater, and every place is one of them (`NthFacts`), so that
`ItemsAt` gives the items in their order; a flattened sequence holds the items of its parts
(`FlattenItems`).

Only model-checked: liveness (`EveryRunAnswers`, `CollectionEnds`,
`ScreenSettles`), which is out of these provers' reach, and the five runs that end
in a violation. What is external (a source, a simulator, a server's network, the
event loop) is proved about as it is modelled.

## 6. Disagreements with the documents

Each of the first five has a run whose counterexample is the evidence.

- **`live_integrity`.** docs/security-boundary.md:44 lists as mandatory `STOP`
  "the original Capability Tree was modified or its integrity cannot be shown".
  The digests around the simulation are mapped to a status (`FAILED` or
  `UNPROVABLE`) that projection, alignment and decision never read; only the
  digest at projection time counts (preflight-projection.ts:320). A tree changed
  while the simulator runs and changed back afterwards is reviewed.
- **`live_intent`.** docs/security-boundary.md:41-42 requires `STOP` when the
  execution is inconsistent with the intent in asset, direction, amount, slippage
  or recipient. The capability context of these checks is filled from the intent
  itself (preflight-projection.ts:309), so that they compare the intent with
  itself. A tree whose calldata does something else is reviewed, as long as
  targets, counts and native movements fit.
- **`live_selection`.** docs/architecture.md:46 speaks of the selection among
  several eligible quotes. The construction allows an object at two places if a
  pair of its table claims it, and each object to be claimed once
  (capability.ts:301); but build information, source and derived source are one
  object for all answers of a port. As soon as two candidates answered, the
  selection is refused, and the LIVE run ends in an internal error without a
  report. The tests construct a capability out of one answer.
- **`live_ledger`.** docs/security-boundary.md:61-62: presentation code must not
  "repair, suppress, reorder, or reinterpret evidence". If not every receipt
  succeeded, the sheet of the receipt ledger shows the status of the first one
  (evidence-timeline.tsx:67): SUCCESS when an approval went through and the swap
  after it failed. The report is `STOP`, and the execution status beside the
  ledger says FAILED.
- **`live_rollback`.** docs/security-boundary.md:35 lists as mandatory `STOP` "any
  transaction or simulation step rolls back", and docs/architecture.md:143-145
  says that every rollback results in `STOP`. The `reverted` flag of a simulation
  result is checked for its type (evidence-mapper.ts:202) and read by nothing
  else: a result that says it was rolled back, with a successful receipt and
  outcome, complete changes and no warning, is reviewed. The tests set the flag only
  beside a rollback warning and without a receipt (evidence-mapper.test.ts:205-220),
  both of which are read.

One more is proved instead of run. A comment at alignment.ts:355 says "parsed facts
and fixed policy paths make this defensive branch unreachable". The approval-amount
check collects a reference that its own validation does not accept, so the branch
is taken for every constructed capability whose approvals can be read, and the
report cites `/capability/availability` where the approval evidence is meant
(`ApprovalAmountFallsBack`).

Met while modelling, and left as remarks: a LIVE run past its deadline is
answered with `TIMEOUT` and no decision, where docs/security-boundary.md:50-51
says that a system error results in `STOP`; a tree with repeated calls or
movements is refused by the alignment's input schema and ends in an error rather
than in `STOP`; an amount above uint256 in
an intent is a valid request and ends in an internal error; a report of more than
about half the response limit is delivered without credentials and refused with
them; the status of a simulation's block is mapped and projected, and read by no
check.

## 7. What is not modelled, and why

- **The conversion of amounts** (amount.ts): it works digit by digit in viem; the
  catalog's decimals and the bounds of an amount are modelled, the arithmetic is
  not.
- **The other views**: the inspector of the capability, the comparison strip and
  the wording of the core tension copy what a report holds. The timeline's
  fallback on the projected lists serves simulations whose raw evidence has none
  of the adapter's lists, which a LIVE run never produces.
- **A receipt that contradicts itself**: a receipt has one status here. The
  projection takes it from `status` or from the outcome, whichever succeeded, the
  page from `status` first; Moss gives receipts no status of their own.
- **Two address checks of the alignment's input**: the schema of the approval's
  spender (alignment.ts:112, 138-141), and that of a movement's `from` with its part
  in the movement's key. The model accepts more inputs than the code, which weakens
  no property.
- **`describe`** of the bound port, which no stage calls, and the wiring of the
  production bindings.
- **The digest of a selection**: its payload is taken from the selection itself,
  so that it matches by construction; what is modelled is which objects may
  occur in both.
- **Closed data** (proxies, accessors, cycles; input-boundary.ts, integrity.ts):
  the form of an object has three values, not JavaScript's object model.
- **Scalar formats** of the schema, rendering, wording, layout, styles.
- **The wall clock**: `Date.now` may be set back; the clock of the model is not.
- **Moss, the RPC node, React, Node's event loop**: external, modelled from how
  the code uses them, and marked so in `PROJECT.json`.

## 8. Plan

Done, in this order, the most important behaviour first:

1. `PreflightContract`, `Orchestrator`, its runs, refinement and proofs.
2. `ReportModel`, `DecisionEngine`, `ReportSchema`, `StopPolicy`, its run and
   proofs.
3. `QuoteStage`, its run and proofs.
4. `SimulationRecorder`, its run and proofs.
5. `WorkbenchContract`, `Workbench`, its run, refinement and proofs.
6. `SourceReferences`, `Alignment`, `MossEvidence`, `PreflightProjection`,
   `LivePreflight`, their runs and proofs.
7. `Clear402`, `PreflightHandler`, `Exchange`, their run and proofs; `Workbench` with one
   action for every failure of a request.
8. `Quotes`, and requests, catalogs and answers in `QuoteStage`.
9. `SelectionBoundary`, and selections, policies and the errors of the action in
   `LivePreflight`; its runs merged.
10. `EvidenceViews`.

11. `Subsequences` and `OrderLemmas`, and with them the proofs about sequences:
    both halves of the stop policy, the winner of the collection, the ledger of
    the page.

Next:

12. Proofs of what the code does where section 6 shows that it does not do what it
    should: that no selection with two answers is ever constructed, that the intent
    in the calldata decides nothing. (That the fallback is taken for every
    constructed capability is done.)
13. The recorder's block verification inside `LivePreflight`: an `UNPROVABLE` block
    is projected like any other (preflight-projection.ts:411).
14. `Orchestrator` behind `Exchange` on one clock: how many runs the server works
    on for a user who retries after the client's 15 s.
15. A wall clock that is set back, in `Orchestrator`.
