----------------------------- MODULE LivePreflight -----------------------------
(***************************************************************************)
(* One Capability Tree on its way through a LIVE run: returned by the      *)
(* source, for the quote that was selected, and snapshotted                *)
(* (source-bindings.ts), checked against snapshot and policy               *)
(* (capability.ts), handed to the simulator between two digests            *)
(* (source-bindings.ts, simulation.ts), and projected into a report that   *)
(* the stop policy decides (preflight-projection.ts).  The tree stays the  *)
(* source's own mutable object throughout: whoever still holds it may      *)
(* change it whenever the run waits.  Time and the order of the stages are *)
(* those of module Orchestrator.                                           *)
(***************************************************************************)
EXTENDS EvidenceViews, SelectionBoundary

CONSTANTS
  Intents,          \* the intents of the model
  Selections,       \* the finished collections that selected a quote
  Policies,         \* the capability policies a session may hold
  Trees,            \* the trees a source may return, or turn one into
  Simulations(_),   \* what a simulator may answer for a tree
  EvmAddresses,     \* the addresses in canonical form
  MaxChanges        \* bound: how often the object is changed under the run

Transaction == [to : STRING, value : Nat]

(* What parseSimulation takes for the answer of a simulator.               *)
Answers == [results : Seq(Result(Transaction)), halted : BOOLEAN]

(* A tree is one that observeCapability can be given: see Tree.           *)
ASSUME TreesAssumption ==
  /\ Trees \subseteq Tree(Transaction)
  /\ \A t \in Trees : Simulations(Content(t)) \subseteq Answers

(* selectQuote: the quote that a collection selects is one of its eligible *)
(* outcomes, of which there is one for each candidate.                     *)
ASSUME SelectionsAssumption ==
  \A s \in Selections : /\ IsFiniteSet(DOMAIN s.outcomes)
                        /\ s.selected \in DOMAIN s.outcomes
                        /\ s.outcomes[s.selected].status = "ELIGIBLE"

(* IntentSchema: a positive amount, a bound of the slippage.              *)
ASSUME IntentsAssumption ==
  \A i \in Intents : i.inputAmount \in Nat \ {0} /\ i.maxSlippageBps \in Nat

ASSUME BoundAssumption == MaxChanges \in Nat

VARIABLES
  intent, policy,
  at,         \* where the run is
  quote,      \* how the quote stage ended
  collection, \* the finished collection that selected a quote
  capability, simulation,   \* availability of these two, or "NONE"
  tree,       \* the object the source returned, as it is now
  snapshot,   \* the frozen copy of it
  executed,   \* the contents the simulator may have read
  answer,     \* what the simulator answered
  pre, post,  \* the digests around the simulation
  retained,   \* the copy taken when the simulation began
  changes,    \* how often the object was changed
  report      \* {} or the assembled report

stageVars == <<quote, collection, capability, simulation>>
treeVars == <<tree, snapshot, changes>>
simulationVars == <<executed, answer, pre, post, retained>>
vars == <<intent, policy, at, report, stageVars, treeVars, simulationVars>>

NoTree ==
  [transactions |-> <<>>, capabilityNodes |-> 0, approvals |-> <<>>,
   carries |-> "ANOTHER", observable |-> FALSE, form |-> "EXACT"]

NoCollection ==
  [selected |-> Nobody, outcomes |-> <<>>, catalog |-> "NONE",
   provenance |-> "NONE"]

NoAnswer == [results |-> <<>>, halted |-> FALSE]

Init ==
  /\ intent \in Intents
  /\ policy \in Policies
  /\ at = "QUOTES"
  /\ quote = "NONE" /\ collection = NoCollection
  /\ capability = "NONE" /\ simulation = "NONE"
  /\ tree = NoTree /\ snapshot = NoTree /\ changes = 0
  /\ executed = {} /\ answer = NoAnswer
  /\ pre = {} /\ post = {} /\ retained = NoTree
  /\ report = {}

(* An error no stage turns into evidence: the run ends without a report.   *)
Fail == at' = "ERROR" /\ UNCHANGED <<stageVars, report>>

Stages ==
  [intent |-> intent, policy |-> policy, quote |-> quote,
   capability |-> capability, simulation |-> simulation,
   tree |-> tree, snapshot |-> snapshot,
   evidence |-> MapMossEvidence(answer, retained, pre, post)]

(* collectAndSelectQuotesV0_1, which asks the protocols that the intent    *)
(* allows and no other, or its timeout.                                    *)
CollectQuotes ==
  /\ at = "QUOTES"
  /\ quote' \in {"SELECTED", "NOT_SELECTED", "QUOTE_STAGE_TIMEOUT"}
  /\ IF quote' = "SELECTED"
     THEN /\ at' = "ACTION"
          /\ collection' \in {s \in Selections :
                               s.selected \in intent.allowedProtocols}
          /\ UNCHANGED <<capability, simulation>>
     ELSE /\ at' = "PROJECT" /\ capability' = "MISSING" /\ simulation' = "MISSING"
          /\ UNCHANGED collection
  /\ UNCHANGED <<intent, policy, report, treeVars, simulationVars>>

(* session.createCapabilityPolicy throws, before any timer is armed.       *)
PolicyThrows ==
  /\ at = "ACTION"
  /\ Fail
  /\ UNCHANGED <<intent, policy, treeVars, simulationVars>>

(* The error of the refused construction is none that becomes evidence.    *)
Constructible == ConstructionAccepted(collection, intent, policy)

RefuseSelection ==
  /\ at = "ACTION"
  /\ ~Constructible
  /\ Fail
  /\ UNCHANGED <<intent, policy, treeVars, simulationVars>>

(* The action or the simulation times out, or fails as a stage may.        *)
LoseCapability ==
  /\ at \in {"ACTION", "CONSTRUCT"}
  /\ at' = "PROJECT" /\ capability' = "FAILED" /\ simulation' = "MISSING"
  /\ UNCHANGED <<intent, policy, report, quote, collection, treeVars,
                 simulationVars>>

(* port.action rejects.                                                    *)
ActionFails(code) ==
  /\ at = "ACTION"
  /\ Constructible
  /\ IF ActionCode(code) = "ACTION_FAILED"
     THEN /\ at' = "PROJECT" /\ capability' = "FAILED" /\ simulation' = "MISSING"
          /\ UNCHANGED <<quote, collection, report>>
     ELSE Fail
  /\ UNCHANGED <<intent, policy, treeVars, simulationVars>>

LoseSimulation ==
  /\ at \in {"SIMULATING", "OBSERVING"}
  /\ at' = "PROJECT" /\ simulation' = "FAILED"
  /\ UNCHANGED <<intent, policy, report, quote, collection, capability, treeVars,
                 simulationVars>>

(* port.action returns a tree: anything but plain JSON is refused, the     *)
(* rest is snapshotted and registered.                                     *)
ReturnTree(t) ==
  /\ at = "ACTION"
  /\ Constructible
  /\ IF IsJsonExact(t)
     THEN /\ at' = "CONSTRUCT" /\ tree' = t /\ snapshot' = t
          /\ UNCHANGED <<stageVars, report, changes>>
     ELSE Fail /\ UNCHANGED treeVars
  /\ UNCHANGED <<intent, policy, simulationVars>>

(* constructCapabilityV0_1 after its await.  The root of an observable     *)
(* tree is the selected operation.  A tree that differs from the policy is *)
(* kept, and only recorded as unexpected.                                  *)
Construct ==
  /\ at = "CONSTRUCT"
  /\ IF VerifyCurrentIntegrity(tree, snapshot) /\ snapshot.observable
     THEN /\ at' = "SIMULATE" /\ capability' = "AVAILABLE"
          /\ UNCHANGED <<quote, collection, simulation, report>>
     ELSE Fail
  /\ UNCHANGED <<intent, policy, treeVars, simulationVars>>

(* port.simulate: the registered object itself goes to the simulator.      *)
BeginSimulation ==
  /\ at = "SIMULATE"
  /\ IF IsJsonExact(tree)
     THEN /\ at' = "SIMULATING"
          /\ retained' = tree /\ pre' = CurrentDigest(tree)
          /\ executed' = {Content(tree)}
          /\ UNCHANGED <<stageVars, report>>
     ELSE Fail /\ UNCHANGED <<retained, pre, executed>>
  /\ UNCHANGED <<intent, policy, treeVars, answer, post>>

(* The simulator answers for a tree it could read; the session finishes.   *)
Answer ==
  /\ at = "SIMULATING"
  /\ at' = "OBSERVING"
  /\ answer' \in UNION {Simulations(t) : t \in executed}
  /\ UNCHANGED <<intent, policy, report, stageVars, treeVars, executed, pre,
                 post, retained>>

(* After session.finish(): the digest of the tree as it is then.           *)
Observe ==
  /\ at = "OBSERVING"
  /\ at' = "PROJECT" /\ simulation' = "AVAILABLE"
  /\ post' = PostSimulationDigest(tree)
  /\ UNCHANGED <<intent, policy, report, quote, collection, capability, treeVars,
                 executed, answer, pre, retained>>

(* parseSimulation: an answer outside the simulator's contract.            *)
RefuseAnswer ==
  /\ at = "OBSERVING"
  /\ Fail
  /\ UNCHANGED <<intent, policy, treeVars, simulationVars>>

(* Projection, alignment, decision and validation, in one synchronous run. *)
Project ==
  /\ at = "PROJECT"
  /\ LET source == ProjectReport(Stages)
         decision == EvaluateDecision(source)
     IN  IF ProjectionAccepted(Stages, EvmAddresses)
              /\ DecisionValid(source, decision)
         THEN /\ at' = "DONE"
              /\ report' = {[source |-> source, decision |-> decision]}
         ELSE at' = "ERROR" /\ UNCHANGED report
  /\ UNCHANGED <<intent, policy, stageVars, treeVars, simulationVars>>

(* External: the source, or the simulator, changes the object it holds.    *)
Change(t) ==
  /\ at \in {"CONSTRUCT", "SIMULATE", "SIMULATING", "OBSERVING", "PROJECT"}
  /\ at = "PROJECT" => capability = "AVAILABLE"
  /\ changes < MaxChanges
  /\ t # tree
  /\ tree' = t
  /\ changes' = changes + 1
  /\ executed' = IF at = "SIMULATING" THEN executed \cup {Content(t)}
                 ELSE executed
  /\ UNCHANGED <<intent, policy, at, report, stageVars, snapshot, answer, pre,
                 post, retained>>

Next ==
  \/ CollectQuotes \/ PolicyThrows \/ RefuseSelection
  \/ LoseCapability \/ LoseSimulation
  \/ \E code \in ActionErrorCodes \cup {"OTHER"} : ActionFails(code)
  \/ \E t \in Trees : ReturnTree(t) \/ Change(t)
  \/ Construct \/ BeginSimulation \/ Answer \/ Observe \/ RefuseAnswer
  \/ Project

Spec == Init /\ [][Next]_vars

-----------------------------------------------------------------------------
Points == {"QUOTES", "ACTION", "CONSTRUCT", "SIMULATE", "SIMULATING",
           "OBSERVING", "PROJECT", "DONE", "ERROR"}

TypeOK ==
  /\ intent \in Intents /\ policy \in Policies /\ at \in Points
  /\ quote \in {"NONE", "SELECTED", "NOT_SELECTED", "QUOTE_STAGE_TIMEOUT"}
  /\ collection \in Selections \cup {NoCollection}
  /\ {capability, simulation} \subseteq
       {"NONE", "AVAILABLE", "FAILED", "MISSING"}
  /\ {tree, snapshot, retained} \subseteq Trees \cup {NoTree}
  /\ changes \in 0 .. MaxChanges
  /\ \A r \in report : r.source.checks # {} /\ WellFormed(r.source)

Reviewed == \E r \in report : r.decision.status = "MANUAL_REVIEW"

(* What the stages hold supports a review: the object is still the tree    *)
(* the source returned, the policy expects it, and of every transaction of *)
(* it, and no other, its simulation recorded a successful and complete     *)
(* receipt.  Clean is stronger: the simulator also says nothing rolled     *)
(* back, which evidence-mapper.ts:202 reads for its type only.             *)
Recorded(result) ==
  /\ result.receipt = "SUCCESS" /\ result.outcome = "SUCCESS"
  /\ result.changes = "RECEIPTED" /\ result.warnings = {}

Clean(result) == Recorded(result) /\ ~result.reverted

TreeSupported ==
  /\ quote = "SELECTED" /\ simulation = "AVAILABLE"
  /\ tree = snapshot /\ AsExpected(policy, snapshot)
  /\ ApprovalProven(tree)

ResultsSupported ==
  LET results == answer.results
      moved == {r.transaction : r \in {s \in ToSet(results) :
                                        s.transaction.value # 0}}
  IN  /\ Len(results) = Len(retained.transactions)
      /\ Len(results) = Len(snapshot.transactions)
      /\ \A i \in DOMAIN results : Recorded(results[i])
      /\ Len(results) > 1 => ~answer.halted
      /\ {r.transaction.to : r \in ToSet(results)} = policy.targets
      /\ moved \subseteq ToSet(tree.transactions)

Supported == TreeSupported /\ ResultsSupported

CleanRun ==
  Supported /\ \A i \in DOMAIN answer.results : Clean(answer.results[i])

(* Decision and alignment derive MANUAL_REVIEW from contexts, flags and    *)
(* lists the projection computed: no report is MANUAL_REVIEW unless the    *)
(* tree, the policy and the simulator's receipts, outcomes, changes and    *)
(* warnings support it.  The rolled-back flag is RollbackStops's subject.  *)
ReviewIsSupported == Reviewed => Supported

(* And none of the eighteen checks or their evidence paths stops a run     *)
(* whose tree and results are clean, nothing of it rolled back.            *)
CleanRunIsReviewed == at = "DONE" /\ CleanRun => Reviewed

(* The projection builds the paths its facts cite, and another package     *)
(* keeps the table of paths a check accepts: every fact is accepted, apart *)
(* from the approval of a tree whose approve nodes cannot be read.         *)
FactsAreAccepted ==
  at = "PROJECT" =>
    LET input == AlignmentInput(Stages)
    IN  \A check \in CheckIds : \A role \in FactRolesOf(input, check) :
          \/ FactValid(input, check, role)
          \/ /\ check \in {"approvalSpender", "approvalAmount"}
             /\ HasCapability(Stages) /\ ~ApprovalProven(tree)

(* validateSourceReferences: whatever a check cites resolves in the report *)
(* that carries it, whichever stages the run lost.                         *)
ReferencesResolve ==
  \A r \in report :
    UNION {check.sourceReferences : check \in r.source.checks}
      \subseteq DOMAIN Document(Stages)

(* A tree that is changed once, at any time after the source returned it   *)
(* and by anyone who holds it, is never reviewed.                          *)
OneChangeIsCaught == Reviewed => changes # 1

(* Selection and policy are whole: they were made by this program for one  *)
(* another, and the source answered in plain JSON.                         *)
SelectionSound ==
  /\ Values(collection) = {"PLAIN"}
  /\ collection.provenance = "SYNTHETIC_TEST"
  /\ PolicyAccepted(policy) /\ Associated(collection, intent, policy)

(* The objects that source-bindings.ts and quote.ts share between places   *)
(* of a selection are the ones that the table in capability.ts allows: a   *)
(* selection out of one answer is constructed, whoever else was asked.     *)
LoneAnswerIsConstructed ==
  at = "ACTION" /\ SelectionSound /\ Cardinality(Answered(collection)) = 1
    => Constructible

(* The timeline of a report, which the page joins from lists that skip the *)
(* transactions without a receipt, shows every transaction with its own    *)
(* receipt, outcome and warnings and no other's, and marks those as failed *)
(* that the projection counted as failed.                                  *)
Timeline(r) == EvidenceTimelineModel(r.source.simulation, answer.results)

TimelineIsFaithful ==
  \A r \in report :
    LET shown == Timeline(r).transactions
        ledger == LedgerReceipts(Timeline(r))
    IN  simulation = "AVAILABLE" =>
        /\ Len(shown) = Len(answer.results)
        /\ \A i \in DOMAIN shown :
             LET result == answer.results[i]
                 present == result.receipt # "NONE"
             IN  /\ shown[i].to = result.transaction.to
                 /\ shown[i].warnings = result.warnings
                 /\ present = (shown[i].receipts # <<>>)
                 /\ present =>
                      /\ [k \in DOMAIN shown[i].receipts |->
                             shown[i].receipts[k].status] = <<result.receipt>>
                      /\ [k \in DOMAIN shown[i].outcomes |->
                             shown[i].outcomes[k].status] = <<result.outcome>>
        /\ r.source.simulation.receipts.failed =
             {e.source : e \in {x \in ToSet(ledger) : x.status # "SUCCESS"}}

-----------------------------------------------------------------------------
(* Statements of documents and comments that the code does not keep.       *)

(* docs/security-boundary.md:44: STOP when the original tree was modified  *)
(* or its integrity cannot be shown.  The digests around the simulation    *)
(* are the evidence of that.                                               *)
IntegrityEvidenceStops ==
  Reviewed => Stages.evidence.capabilityIntegrity = "PROVEN"

(* docs/security-boundary.md:41: STOP when what is executed is             *)
(* inconsistent with the intent.                                           *)
IntentMismatchStops == Reviewed => tree.carries = "THE_INTENT"

(* docs/architecture.md:46: the selection among several eligible quotes is *)
(* what the capability is constructed from.  Whatever sound selection the  *)
(* collection makes, construction takes it.                                *)
OwnSelectionIsAccepted == at = "ACTION" /\ SelectionSound => Constructible

(* docs/security-boundary.md:61: presentation code must not suppress or    *)
(* reinterpret evidence.  The page says SUCCESS under the receipts only of *)
(* a simulation whose receipts all succeeded.                              *)
LedgerStatusIsHonest ==
  \A r \in report :
    LedgerStatus(Timeline(r)) = "SUCCESS" =>
      r.source.simulation.receipts.failed = {}

(* docs/security-boundary.md:35: STOP when any transaction or simulation   *)
(* step rolls back.  The simulator says so of each result.                 *)
RollbackStops ==
  Reviewed => \A i \in DOMAIN answer.results : ~answer.results[i].reverted

-----------------------------------------------------------------------------
(* alignment.ts:355 calls the branch behind a refused list of references   *)
(* unreachable.  It is taken for the approval amount of every constructed  *)
(* capability whose approvals can be read.                                 *)
FallbackIsTaken ==
  at = "PROJECT" /\ HasCapability(Stages) /\ ApprovalProven(tree) =>
    LET input == AlignmentInput(Stages)
        check == "approvalAmount"
    IN  /\ ~OutputReferencesValid(input.document, check,
                                  CollectedReferences(input, check))
        /\ ReferenceList(input, check) = FallbackReferences(check)

=============================================================================
