-------------------------- MODULE LivePreflight_proofs --------------------------
(***************************************************************************)
(* What a LIVE run makes of its Capability Tree, for every set of trees,   *)
(* every simulator, every policy and any number of transactions, results   *)
(* and changes: a reviewed run rests on the tree the source returned and   *)
(* on a clean result for each of its transactions, and a clean run is      *)
(* reviewed; what a report cites is there, and what the page shows of it   *)
(* is so.  A report is the projection of stages that no longer change, so  *)
(* that most of this is about one state of the stages; the invariant at    *)
(* the end says which states there are.                                    *)
(***************************************************************************)
EXTENDS LivePreflight, OrderLemmas

AnyTree == Tree(Transaction)

(* An object that is plain JSON is its own content.                        *)
LEMMA ExactIsContent ==
  ASSUME NEW t \in AnyTree, t.form = "EXACT"
  PROVE  Content(t) = t
BY DEF Content, AnyTree, Tree

(* The check of the integrity compares the whole tree.                     *)
LEMMA IntegrityMeansEqual ==
  ASSUME NEW t \in AnyTree, NEW s \in AnyTree, s.form = "EXACT",
         VerifyCurrentIntegrity(t, s)
  PROVE  t = s
<1>1. t.form = "EXACT" /\ Content(t) = Content(s)
  BY DEF VerifyCurrentIntegrity, CurrentDigest, IsJsonExact
<1> QED
  BY <1>1, ExactIsContent

(* A check that passes rests on facts that are available and holds of them.*)
LEMMA PassMeansAgrees ==
  ASSUME NEW input,
         NEW check \in {"capabilityIntegrity", "approvalSpender",
                        "transactionSet", "fundsMovement"},
         CheckStatus(input, check) = "PASS"
  PROVE  AllCount(input, check) /\ Agrees(input, check)
<1>1. CheckStatus(input, check)
        = IF AllCount(input, check)
          THEN Judged(Agrees(input, check)) ELSE "REVIEW"
  BY DEF CheckStatus
<1> QED
  BY <1>1 DEF Judged

(* What a report allowed to be MANUAL_REVIEW says of each of its checks.   *)
LEMMA AllowedMeansPass ==
  ASSUME NEW stages, ManualReviewAllowed(ProjectReport(stages)),
         NEW check \in CheckIds
  PROVE  CheckStatus(AlignmentInput(stages), check) = "PASS"
<1> DEFINE evaluated == EvaluateCheck(AlignmentInput(stages), check)
<1>1. evaluated \in ProjectReport(stages).checks
  BY DEF ProjectReport, EvaluateAlignment
<1>2. evaluated.critical /\ evaluated.status
                              = CheckStatus(AlignmentInput(stages), check)
  BY DEF EvaluateCheck
<1>3. evaluated \in CriticalChecks(ProjectReport(stages))
  BY <1>1, <1>2 DEF CriticalChecks
<1> QED
  BY <1>2, <1>3 DEF ManualReviewAllowed

(* Where the fact about the integrity comes from.                          *)
LEMMA IntegrityFact ==
  ASSUME NEW stages
  PROVE  Fact(AlignmentInput(stages), "capabilityIntegrity", "observed")
           = FactFrom("capability", stages.capability,
                      CapabilityContext(stages), "capabilityIntegrity")
BY DEF Fact, AlignmentInput, AlignmentObservations

(* And the expected spender of the approval.                               *)
LEMMA SpenderFact ==
  ASSUME NEW stages, HasCapability(stages), ~ApprovalProven(stages.tree)
  PROVE  /\ "observed" \in FactRolesOf(AlignmentInput(stages),
                                       "approvalSpender")
         /\ Fact(AlignmentInput(stages), "approvalSpender", "observed")
              = Gap("capability", stages.capability)
BY DEF Fact, FactRolesOf, AlignmentInput, AlignmentObservations

(* A report that may be MANUAL_REVIEW was projected from stages that ended *)
(* well and from a tree that is whole, expected, and readable.             *)
LEMMA AllowedMeansSupported ==
  ASSUME NEW stages, ManualReviewAllowed(ProjectReport(stages))
  PROVE  /\ stages.quote = "SELECTED"
         /\ stages.capability = "AVAILABLE"
         /\ stages.simulation = "AVAILABLE"
         /\ VerifyCurrentIntegrity(stages.tree, stages.snapshot)
         /\ AsExpected(stages.policy, stages.snapshot)
         /\ ApprovalProven(stages.tree)
<1> DEFINE input == AlignmentInput(stages)
<1>1. stages.quote = "SELECTED" /\ stages.simulation = "AVAILABLE"
  BY DEF ManualReviewAllowed, ProjectReport, Selected, ProjectSimulation,
         HasSimulation, MissingSimulation
<1>2. stages.capability = "AVAILABLE"
  BY DEF ManualReviewAllowed, ProjectReport
<1>3. /\ VerifyCurrentIntegrity(stages.tree, stages.snapshot)
      /\ AsExpected(stages.policy, stages.snapshot)
  <2>1. CheckStatus(input, "capabilityIntegrity") = "PASS"
    BY AllowedMeansPass DEF CheckIds, JointChecks
  <2>2. Agrees(input, "capabilityIntegrity")
    BY <2>1, PassMeansAgrees
  <2>3. Fact(input, "capabilityIntegrity", "observed").value = "PROVEN"
    BY <2>2 DEF Agrees, Value
  <2>4. CapabilityContext(stages)["capabilityIntegrity"] = "PROVEN"
    BY <1>2, <2>3, IntegrityFact DEF FactFrom, AvailableFact
  <2> QED
    BY <2>4 DEF CapabilityContext
<1>4. ApprovalProven(stages.tree)
  <2> SUFFICES ASSUME ~ApprovalProven(stages.tree) PROVE FALSE
    OBVIOUS
  <2>1. CheckStatus(input, "approvalSpender") = "PASS"
    BY AllowedMeansPass DEF CheckIds, CapabilityChecks
  <2>2. AllCount(input, "approvalSpender")
    BY <2>1, PassMeansAgrees
  <2>3. Fact(input, "approvalSpender", "observed").availability = "AVAILABLE"
    BY <1>2, <2>2, SpenderFact DEF AllCount, Counts, HasCapability
  <2> QED
    BY <1>2, <2>3, SpenderFact DEF Gap, HasCapability
<1> QED
  BY <1>1, <1>2, <1>3, <1>4

-----------------------------------------------------------------------------
(* Selected places of a sequence: a choice of all of them is as long as    *)
(* the sequence, and any choice holds the items at those places.           *)
LEMMA AllItems ==
  ASSUME NEW S, NEW s \in Seq(S)
  PROVE  Cardinality(DOMAIN s) = Len(s)
<1>1. Len(s) \in Nat /\ DOMAIN s = 1..Len(s)
  OBVIOUS
<1> QED
  BY <1>1, FS_Interval, SMTT(30)

LEMMA ItemsFacts ==
  ASSUME NEW S, NEW s \in Seq(S), NEW places \in SUBSET DOMAIN s
  PROVE  /\ Cardinality(places) \in Nat
         /\ DOMAIN ItemsAt(s, places) = 1..Cardinality(places)
         /\ Len(ItemsAt(s, places)) = Cardinality(places)
         /\ \A k \in DOMAIN ItemsAt(s, places) :
              \E i \in places : ItemsAt(s, places)[k] = s[i]
         /\ \A i \in places : \E k \in DOMAIN ItemsAt(s, places) :
              ItemsAt(s, places)[k] = s[i]
<1>1. Len(s) \in Nat /\ places \in SUBSET (1..Len(s))
  OBVIOUS
<1>2. Cardinality(places) \in Nat
  BY <1>1, PlacesFinite
<1>3. /\ \A k \in 1..Cardinality(places) : Nth(places, k) \in places
      /\ \A i \in places : \E k \in 1..Cardinality(places) : Nth(places, k) = i
  BY <1>1, NthFacts
<1>4. /\ DOMAIN ItemsAt(s, places) = 1..Cardinality(places)
      /\ \A k \in 1..Cardinality(places) :
           ItemsAt(s, places)[k] = s[Nth(places, k)]
  BY DEF ItemsAt
<1>5. Len(ItemsAt(s, places)) = Cardinality(places)
  BY <1>2 DEF ItemsAt
<1> QED
  BY <1>2, <1>3, <1>4, <1>5

LEMMA ItemsAreThose ==
  ASSUME NEW S, NEW s \in Seq(S), NEW places \in SUBSET DOMAIN s
  PROVE  ToSet(ItemsAt(s, places)) = {s[i] : i \in places}
BY ItemsFacts DEF ToSet

LEMMA MovementsAreThose ==
  ASSUME NEW s \in Seq(Transaction)
  PROVE  ToSet(NativeMovements(s))
           = {s[i] : i \in {j \in DOMAIN s : s[j].value # 0}}
BY ItemsAreThose DEF NativeMovements

(* No warning at all: what an empty list of warnings means.                *)
LEMMA NoWarnings ==
  ASSUME NEW results \in Seq(Result(Transaction)),
         Cardinality(Warnings(results)) = 0
  PROVE  \A i \in DOMAIN results : results[i].warnings = {}
<1>1. IsFiniteSet(WarningCodes)
  <2>1. WarningCodes = {"REVERTED"} \cup {"TRACE_FAILED"}
          \cup {"CHANGE_ORDER_UNAVAILABLE"} \cup {"RECEIPT_FAILED"}
          \cup {"CHANGE_COVERAGE_MISMATCH"} \cup {"STATE_CHAIN_FAILED"}
    BY DEF WarningCodes
  <2> QED
    BY <2>1, FS_Singleton, FS_Union
<1>2. IsFiniteSet(DOMAIN results)
  <2>1. Len(results) \in Nat /\ DOMAIN results = 1..Len(results)
    OBVIOUS
  <2> QED
    BY <2>1, FS_Interval
<1>3. IsFiniteSet((DOMAIN results) \X WarningCodes)
  BY <1>1, <1>2, FS_Product
<1>4. ASSUME NEW i \in DOMAIN results
      PROVE  results[i].warnings \subseteq WarningCodes
  <2>1. results[i] \in Result(Transaction)
    BY SeqFacts
  <2> QED
    BY ONLY <2>1 DEF Result
<1>5. Warnings(results) \subseteq (DOMAIN results) \X WarningCodes
  BY <1>4 DEF Warnings
<1>6. Warnings(results) = {}
  <2>1. IsFiniteSet(Warnings(results))
    BY ONLY <1>3, <1>5, FS_Subset
  <2> QED
    BY ONLY <2>1, Cardinality(Warnings(results)) = 0, FS_EmptySet
<1>7. ASSUME NEW i \in DOMAIN results, NEW code \in results[i].warnings
      PROVE  FALSE
  <2>1. <<i, code>> \in Warnings(results)
    BY <1>7 DEF Warnings
  <2> QED
    BY <1>6, <2>1
<1> QED
  BY <1>7

(* What the public lists say of results that all have a receipt.           *)
LEMMA ListsMeanClean ==
  ASSUME NEW results \in Seq(Result(Transaction)), AllReceipted(results),
         Statuses(results, "receipt").failed = {},
         Statuses(results, "outcome").failed = {},
         Cardinality(Warnings(results)) = 0
  PROVE  /\ \A i \in DOMAIN results : Recorded(results[i])
         /\ Statuses(results, "receipt").size = Len(results)
<1> DEFINE places == {i \in DOMAIN results : results[i].receipt # "NONE"}
           receipted == ItemsAt(results, places)
<1>1. Receipted(results) = receipted
  BY DEF Receipted
<1>2. places = DOMAIN results
  BY DEF AllReceipted
<1>3. /\ Len(receipted) = Len(results)
      /\ \A i \in DOMAIN results : \E k \in DOMAIN receipted :
           receipted[k] = results[i]
  <2> HIDE DEF places
  <2> QED
    BY <1>2, ItemsFacts, AllItems
<1> HIDE DEF receipted, places
<1>4. \A k \in DOMAIN receipted :
        receipted[k].receipt = "SUCCESS" /\ receipted[k].outcome = "SUCCESS"
  <2>1. /\ Statuses(results, "receipt").failed
             = {i - 1 : i \in {j \in DOMAIN receipted :
                                 receipted[j]["receipt"] # "SUCCESS"}}
        /\ Statuses(results, "outcome").failed
             = {i - 1 : i \in {j \in DOMAIN receipted :
                                 receipted[j]["outcome"] # "SUCCESS"}}
    BY <1>1, Zenon DEF Statuses
  <2> QED
    BY <2>1
<1>5. \A i \in DOMAIN results :
        results[i].receipt = "SUCCESS" /\ results[i].outcome = "SUCCESS"
  BY <1>3, <1>4
<1>6. Statuses(results, "receipt").size = Len(results)
  BY <1>1, <1>3 DEF Statuses
<1> QED
  BY <1>5, <1>6, NoWarnings DEF Recorded, AllReceipted

(* The facts that compare the simulation with the tree and the policy.     *)
LEMMA ContextFacts ==
  ASSUME NEW stages, HasCapability(stages), HasSimulation(stages)
  PROVE  /\ Value(AlignmentInput(stages), "transactionSet", "expected")
              = stages.policy.targets
         /\ Value(AlignmentInput(stages), "transactionSet", "observed")
              = SimulationContext(stages).observedTransactionTargets
         /\ Value(AlignmentInput(stages), "fundsMovement", "permitted")
              = NativeMovements(stages.tree.transactions)
         /\ Value(AlignmentInput(stages), "fundsMovement", "observed")
              = SimulationContext(stages).observedMovements
         /\ Value(AlignmentInput(stages), "receiptAvailability", "observed")
              = SimulationContext(stages).receipts
<1> DEFINE capContext == CapabilityContext(stages)
           simContext == SimulationContext(stages)
           observations == AlignmentObservations(stages)
<1>1. /\ capContext.expectedTransactionTargets = stages.policy.targets
      /\ capContext.permittedMovements
           = NativeMovements(stages.tree.transactions)
  BY DEF CapabilityContext
<1>2. /\ observations.transactionSet.expected
           = FactFrom("capability", stages.capability, capContext,
                      "expectedTransactionTargets")
      /\ observations.transactionSet.observed
           = FactFrom("simulation", stages.simulation, simContext,
                      "observedTransactionTargets")
      /\ observations.fundsMovement.permitted
           = FactFrom("capability", stages.capability, capContext,
                      "permittedMovements")
      /\ observations.fundsMovement.observed
           = FactFrom("simulation", stages.simulation, simContext,
                      "observedMovements")
      /\ observations.receiptAvailability.observed
           = FactFrom("simulation", stages.simulation, simContext, "receipts")
  BY DEF AlignmentObservations
<1>3. ASSUME NEW component, NEW availability, NEW context, NEW key,
             availability = "AVAILABLE"
      PROVE  FactFrom(component, availability, context, key).value
               = context[key]
  BY <1>3 DEF FactFrom, AvailableFact
<1>4. AlignmentInput(stages).observations = observations
  BY DEF AlignmentInput
<1> HIDE DEF capContext, simContext, observations
<1> QED
  BY <1>1, <1>2, <1>3, <1>4
     DEF Value, Fact, HasCapability, HasSimulation, capContext, simContext

(* The result of every transaction is clean, and they are the transactions *)
(* of the tree that was kept, when the lists and flags allow a review.     *)
LEMMA FlagsMeanComplete ==
  ASSUME NEW ans \in Answers, NEW kept \in AnyTree, NEW before, NEW after,
         NEW evidence, evidence = MapMossEvidence(ans, kept, before, after),
         Proof(evidence.receiptCoverage).holds,
         AvailableSimulation(evidence).stateContinuity.holds
  PROVE  /\ Len(ans.results) = Len(kept.transactions)
         /\ AllReceipted(ans.results)
         /\ Len(ans.results) > 1 => ~ans.halted
<1> DEFINE expected == ExpectedTransactions(kept)
           results == ans.results
<1>1. /\ evidence.receiptCoverage = ReceiptCoverage(results, expected)
      /\ evidence.stateContinuity
           = StateContinuity(results, expected, ans.halted)
  BY DEF MapMossEvidence
<1>2. kept.transactions \in Seq(Transaction) /\ results \in Seq(Result(Transaction))
  BY DEF AnyTree, Tree, Answers
<1>3. Len(kept.transactions) \in Nat /\ Len(results) \in Nat
  BY <1>2, SeqFacts
<1>4. expected \in Nat
  BY <1>3 DEF ExpectedTransactions
<1> HIDE DEF results
<1>5. ReceiptCoverage(results, expected) = "PROVEN"
  BY <1>1 DEF Proof
<1>6. expected >= 1 /\ Len(results) = expected /\ AllReceipted(results)
  <2> HIDE DEF expected
  <2> QED
    BY <1>4, <1>5 DEF ReceiptCoverage
<1>7. expected = Len(kept.transactions)
  BY <1>6 DEF ExpectedTransactions
<1>8. StateContinuity(results, expected, ans.halted)
        \in {"PROVEN", "NOT_APPLICABLE"}
  BY <1>1 DEF AvailableSimulation
<1>9. expected # 1 => ~ans.halted
  <2> HIDE DEF expected
  <2> QED
    BY <1>4, <1>6, <1>8 DEF StateContinuity
<1> HIDE DEF expected
<1>10. Len(results) > 1 => expected # 1
  BY <1>3, <1>6
<1> QED
  BY <1>6, <1>7, <1>9, <1>10, Zenon DEF results

(* And a report that may be MANUAL_REVIEW was projected from results that  *)
(* are complete, clean, and those of the tree and of the policy.           *)
LEMMA AllowedMeansClean ==
  ASSUME NEW stages, ManualReviewAllowed(ProjectReport(stages)),
         NEW ans \in Answers, NEW kept \in AnyTree, NEW before, NEW after,
         stages.evidence = MapMossEvidence(ans, kept, before, after),
         stages.tree \in AnyTree
  PROVE  /\ Len(ans.results) = Len(kept.transactions)
         /\ Len(ans.results) = Len(stages.snapshot.transactions)
         /\ \A i \in DOMAIN ans.results : Recorded(ans.results[i])
         /\ Len(ans.results) > 1 => ~ans.halted
         /\ {ans.results[i].transaction.to : i \in DOMAIN ans.results}
              = stages.policy.targets
         /\ \A i \in DOMAIN ans.results :
              ans.results[i].transaction.value # 0 =>
                ans.results[i].transaction \in ToSet(stages.tree.transactions)
<1> DEFINE results == ans.results
           public == AvailableSimulation(stages.evidence)
           input == AlignmentInput(stages)
<1>1. HasCapability(stages) /\ HasSimulation(stages)
  BY AllowedMeansSupported DEF HasCapability, HasSimulation
<1>2. results \in Seq(Result(Transaction))
  BY DEF Answers
<1>3. stages.evidence.results = results
  BY DEF MapMossEvidence
<1>4. ProjectReport(stages).simulation = public
  BY <1>1 DEF ProjectReport, ProjectSimulation
<1>5. /\ public.receipts = Statuses(results, "receipt")
      /\ public.outcomes = Statuses(results, "outcome")
      /\ public.warnings.size = Cardinality(Warnings(results))
      /\ public.coverage = Proof(stages.evidence.receiptCoverage)
  BY <1>3 DEF AvailableSimulation
<1> HIDE DEF results, public, input
<1>6. /\ public.receipts.failed = {} /\ public.outcomes.failed = {}
      /\ public.warnings.size = 0
      /\ public.coverage.holds /\ public.stateContinuity.holds
  BY <1>4 DEF ManualReviewAllowed
<1>7. /\ Len(results) = Len(kept.transactions)
      /\ AllReceipted(results)
      /\ Len(results) > 1 => ~ans.halted
  BY <1>5, <1>6, FlagsMeanComplete, Zenon DEF results, public
<1>8. /\ \A i \in DOMAIN results : Recorded(results[i])
      /\ Statuses(results, "receipt").size = Len(results)
  BY <1>2, <1>5, <1>6, <1>7, ListsMeanClean
<1>9. Len(results) = Len(stages.snapshot.transactions)
  <2>1. ReceiptStatus(input) = "PASS"
    <3>1. CheckStatus(input, "receiptAvailability") = "PASS"
      BY AllowedMeansPass DEF CheckIds, SimulationChecks, input
    <3> QED
      BY <3>1 DEF CheckStatus
  <2>2. /\ Observed(input, "receiptAvailability").observedCount
             = Observed(input, "receiptAvailability").expectedCount
    BY <2>1 DEF ReceiptStatus, Judged
  <2>3. Observed(input, "receiptAvailability")
          = SimulationContext(stages).receipts
    BY <1>1, ContextFacts DEF Observed, input
  <2>4. /\ SimulationContext(stages).receipts.expectedCount
             = Len(stages.snapshot.transactions)
        /\ SimulationContext(stages).receipts.observedCount
             = Statuses(results, "receipt").size
    BY <1>3 DEF SimulationContext
  <2> QED
    BY <1>8, <2>2, <2>3, <2>4
<1>10. {results[i].transaction.to : i \in DOMAIN results}
         = stages.policy.targets
  <2>1. Agrees(input, "transactionSet")
    BY AllowedMeansPass, PassMeansAgrees DEF CheckIds, JointChecks, input
  <2>2. ToSet(Value(input, "transactionSet", "observed"))
          = Value(input, "transactionSet", "expected")
    BY <2>1 DEF Agrees
  <2>3. SimulationContext(stages).observedTransactionTargets
          = [i \in DOMAIN results |-> results[i].transaction.to]
    BY <1>3 DEF SimulationContext
  <2>4. ToSet([i \in DOMAIN results |-> results[i].transaction.to])
          = {results[i].transaction.to : i \in DOMAIN results}
    BY DEF ToSet
  <2> QED
    BY <1>1, <2>2, <2>3, <2>4, ContextFacts DEF input
<1>11. ASSUME NEW i \in DOMAIN results, results[i].transaction.value # 0
       PROVE  results[i].transaction \in ToSet(stages.tree.transactions)
  <2> DEFINE executed0 == [j \in DOMAIN results |-> results[j].transaction]
             moved == {j \in DOMAIN executed0 : executed0[j].value # 0}
             sent == stages.tree.transactions
             permitted == {j \in DOMAIN sent : sent[j].value # 0}
  <2>1. Agrees(input, "fundsMovement")
    BY AllowedMeansPass, PassMeansAgrees DEF CheckIds, JointChecks, input
  <2>2. ToSet(Value(input, "fundsMovement", "observed"))
          \subseteq ToSet(Value(input, "fundsMovement", "permitted"))
    BY <2>1 DEF Agrees
  <2>3. SimulationContext(stages).observedMovements
          = NativeMovements(executed0)
    BY <1>3 DEF SimulationContext
  <2>4. ToSet(NativeMovements(executed0)) \subseteq ToSet(NativeMovements(sent))
    BY <1>1, <2>2, <2>3, ContextFacts DEF input
  <2>5. executed0 \in Seq(Transaction)
    <3>1. /\ \A j \in DOMAIN results : results[j] \in Result(Transaction)
          /\ Len(results) \in Nat /\ DOMAIN results = 1..Len(results)
      BY <1>2, SeqFacts
    <3>2. \A j \in DOMAIN results : results[j].transaction \in Transaction
      BY ONLY <3>1 DEF Result
    <3> QED
      BY <3>1, <3>2
  <2>6. sent \in Seq(Transaction)
    BY DEF AnyTree, Tree
  <2>7. ToSet(NativeMovements(executed0)) = {executed0[j] : j \in moved}
    <3> HIDE DEF executed0
    <3> QED
      BY <2>5, MovementsAreThose, Zenon
  <2>8. ToSet(NativeMovements(sent)) = {sent[j] : j \in permitted}
    BY <2>6, MovementsAreThose, Zenon
  <2>9. results[i].transaction \in {executed0[j] : j \in moved}
    BY <1>11
  <2> HIDE DEF executed0, moved
  <2>10. results[i].transaction \in {sent[j] : j \in permitted}
    BY <2>4, <2>7, <2>8, <2>9
  <2> QED
    BY <2>10 DEF ToSet
<1> QED
  BY <1>7, <1>8, <1>9, <1>10, <1>11, Zenon DEF results

-----------------------------------------------------------------------------
(* The paths that every report has, and the references of the checks.      *)
LEMMA AlwaysThere ==
  ASSUME NEW stages
  PROVE  {<<"intent">>, <<"selection">>, <<"capability", "availability">>,
          <<"simulation", "availability">>, <<"intent", "account">>,
          <<"intent", "inputAsset">>, <<"intent", "outputAsset">>,
          <<"intent", "inputAmount">>, <<"intent", "maxSlippageBps">>,
          <<"intent", "allowedProtocols">>}
           \subseteq DOMAIN Document(stages)
BY DEF Document, IntentPaths

LEMMA FallbackIsThere ==
  ASSUME NEW stages, NEW check \in CheckIds
  PROVE  FallbackReferences(check) \subseteq DOMAIN Document(stages)
<1>1. StaticReferences(check)
        \subseteq {<<"intent", "account">>, <<"intent", "inputAsset">>,
                   <<"intent", "outputAsset">>, <<"intent", "inputAmount">>,
                   <<"intent", "maxSlippageBps">>,
                   <<"intent", "allowedProtocols">>, <<"intent">>}
  BY DEF StaticReferences, CheckIds, CapabilityChecks, JointChecks,
         SimulationChecks
<1>2. FallbackReferences(check)
        \subseteq {<<"intent">>, <<"selection">>,
                   <<"capability", "availability">>,
                   <<"simulation", "availability">>, <<"intent", "account">>}
                  \cup StaticReferences(check)
  BY DEF FallbackReferences, CheckIds, CapabilityChecks, JointChecks,
         SimulationChecks
<1> QED
  BY <1>1, <1>2, AlwaysThere

LEMMA CitedIsThere ==
  ASSUME NEW stages, NEW check \in CheckIds
  PROVE  ReferenceList(AlignmentInput(stages), check)
           \subseteq DOMAIN Document(stages)
<1>1. AlignmentInput(stages).document = Document(stages)
  BY DEF AlignmentInput
<1> QED
  BY <1>1, FallbackIsThere, Zenon DEF ReferenceList, OutputReferencesValid

(* The lists of a report index their failed items.                         *)
LEMMA ListsAreIndexed ==
  ASSUME NEW results \in Seq(Result(Transaction)),
         NEW kind \in {"receipt", "outcome"}
  PROVE  Statuses(results, kind).failed \subseteq Indices(Statuses(results, kind))
<1> DEFINE places == {i \in DOMAIN results : results[i].receipt # "NONE"}
           receipted == ItemsAt(results, places)
<1>1. Receipted(results) = receipted
  BY DEF Receipted
<1>2. /\ Len(receipted) \in Nat
      /\ DOMAIN receipted = 1..Len(receipted)
  BY ItemsFacts
<1> HIDE DEF receipted
<1>3. /\ Statuses(results, kind).failed
           = {i - 1 : i \in {j \in DOMAIN receipted :
                               receipted[j][kind] # "SUCCESS"}}
      /\ Statuses(results, kind).size = Len(receipted)
  BY <1>1 DEF Statuses
<1> QED
  BY <1>2, <1>3 DEF Indices

LEMMA ReportedChecks ==
  ASSUME NEW stages
  PROVE  ProjectReport(stages).checks
           = {EvaluateCheck(AlignmentInput(stages), check) : check \in CheckIds}
BY DEF ProjectReport, EvaluateAlignment

LEMMA ReportsAreWellFormed ==
  ASSUME NEW stages,
         HasSimulation(stages) =>
           stages.evidence.results \in Seq(Result(Transaction))
  PROVE  /\ ProjectReport(stages).checks # {}
         /\ WellFormed(ProjectReport(stages))
<1> DEFINE source == ProjectReport(stages)
<1>1. source.checks = {EvaluateCheck(AlignmentInput(stages), check) :
                         check \in CheckIds}
  BY ReportedChecks
<1>2. \A check \in CheckIds :
        EvaluateCheck(AlignmentInput(stages), check).checkId = check
  BY DEF EvaluateCheck
<1>3. source.checks # {}
  BY <1>1 DEF CheckIds, SimulationChecks
<1>5. source.simulation = ProjectSimulation(stages)
  BY DEF ProjectReport
<1> HIDE DEF source
<1>4. ASSUME NEW c \in source.checks, NEW d \in source.checks,
             c.checkId = d.checkId
      PROVE  c = d
  <2>1. PICK e \in CheckIds : c = EvaluateCheck(AlignmentInput(stages), e)
    BY <1>1
  <2>2. PICK f \in CheckIds : d = EvaluateCheck(AlignmentInput(stages), f)
    BY <1>1
  <2> QED
    BY <1>2, <1>4, <2>1, <2>2
<1>6. ASSUME NEW name \in {"warnings", "receipts", "outcomes"}
      PROVE  source.simulation[name].failed
               \subseteq Indices(source.simulation[name])
  <2>1. CASE HasSimulation(stages)
    <3> DEFINE results == stages.evidence.results
    <3>1. /\ source.simulation.warnings.failed = {}
          /\ source.simulation.receipts = Statuses(results, "receipt")
          /\ source.simulation.outcomes = Statuses(results, "outcome")
      BY <1>5, <2>1 DEF ProjectSimulation, AvailableSimulation
    <3> QED
      BY <2>1, <3>1, ListsAreIndexed
  <2>2. CASE ~HasSimulation(stages)
    <3>1. source.simulation[name].failed = {}
      BY <1>5, <2>2 DEF ProjectSimulation, MissingSimulation
    <3> QED
      BY <3>1
  <2> QED
    BY <2>1, <2>2
<1> QED
  BY <1>3, <1>4, <1>6 DEF WellFormed, source

-----------------------------------------------------------------------------
(* How the stages of a run end that is projected: a stage that follows a   *)
(* lost one is missing.                                                    *)
Ended(stages) ==
  \/ /\ ~Selected(stages)
     /\ stages.capability = "MISSING" /\ stages.simulation = "MISSING"
  \/ /\ Selected(stages)
     /\ stages.capability = "FAILED" /\ stages.simulation = "MISSING"
  \/ /\ Selected(stages)
     /\ stages.capability = "AVAILABLE"
     /\ stages.simulation \in {"AVAILABLE", "FAILED"}

(* The facts that are read from a context.                                 *)
CapabilityFact(stages, key) ==
  FactFrom("capability", stages.capability, CapabilityContext(stages), key)

SimulationFact(stages, key) ==
  FactFrom("simulation", stages.simulation, SimulationContext(stages), key)

CapabilityKeys ==
  {"operation", "account", "inputAsset", "outputAsset", "amountIn",
   "slippageBps", "protocolId", "recipient", "approvalSpenderExpected",
   "approvalSpenderObserved", "approvalAmount", "permittedMovements",
   "capabilityIntegrity", "expectedTransactionTargets"}

SimulationKeys ==
  {"observedMovements", "observedTransactionTargets", "warnings", "receipts",
   "coverage", "ordering", "stateContinuity"}

LEMMA KeysAreDomains ==
  ASSUME NEW stages
  PROVE  /\ DOMAIN CapabilityContext(stages) = CapabilityKeys
         /\ DOMAIN SimulationContext(stages) = SimulationKeys
BY DEF CapabilityContext, SimulationContext, CapabilityKeys, SimulationKeys

(* The path of a value in a context: no part of it is forbidden, it lies   *)
(* in the raw evidence of its component, and it ends with its key.         *)
LEMMA ContextPathFacts ==
  ASSUME NEW component \in {"capability", "simulation"},
         NEW key \in CapabilityKeys \cup SimulationKeys,
         NEW path, path = <<component, "raw", "context", key>>
  PROVE  /\ Parsed(path)
         /\ IsPrefix(<<component, "raw">>, path)
         /\ Last(path) = key
<1>1. Len(path) = 4 /\ path # <<>> /\ DOMAIN path = 1..4
  OBVIOUS
<1>2. Parsed(path)
  <2>1. key \notin Forbidden /\ component \notin Forbidden
        /\ "raw" \notin Forbidden /\ "context" \notin Forbidden
    BY DEF Forbidden, CapabilityKeys, SimulationKeys
  <2>2. \A i \in 1..4 : path[i] \notin Forbidden
    BY <2>1
  <2> QED
    BY <1>1, <2>2 DEF Parsed
<1>3. IsPrefix(<<component, "raw">>, path)
  <2> DEFINE head == <<component, "raw">>
             S == {component, "raw", "context", key}
  <2>1. head \in Seq(S) /\ path \in Seq(S) /\ Len(head) = 2
        /\ head[1] = path[1] /\ head[2] = path[2]
    OBVIOUS
  <2> HIDE DEF head, S
  <2>2. Len(head) <= Len(path) /\ \A i \in 1..Len(head) : head[i] = path[i]
    BY <1>1, <2>1
  <2>3. IsPrefix(head, path)
    BY ONLY <2>1, <2>2, PrefixFacts, Zenon
  <2> QED
    BY <2>3 DEF head
<1>4. Last(path) = key
  BY <1>1 DEF Last
<1> QED
  BY <1>2, <1>3, <1>4

(* What a report holds at the paths that facts cite.                       *)
LEMMA ContextIsThere ==
  ASSUME NEW stages, NEW component \in {"capability", "simulation"},
         NEW context, NEW key \in DOMAIN context,
         component = "capability" =>
           HasCapability(stages) /\ context = CapabilityContext(stages),
         component = "simulation" =>
           HasSimulation(stages) /\ context = SimulationContext(stages),
         NEW path, path = <<component, "raw", "context", key>>
  PROVE  path \in DOMAIN Document(stages) /\ Document(stages)[path] = context[key]
<1>1. path \in ContextPaths(component, context)
  BY DEF ContextPaths
<1>2. path \in DOMAIN Document(stages)
  BY <1>1, Zenon DEF Document
<1>3. /\ path # <<"intent">> /\ path # QuotePath
      /\ path[1] = component /\ path[2] = "raw" /\ path[4] = key
  BY DEF QuotePath
<1>4. Document(stages)[path]
        = [capability |-> CapabilityContext(stages),
           simulation |-> SimulationContext(stages)][component][key]
  BY <1>2, <1>3 DEF Document
<1> QED
  BY <1>2, <1>4

LEMMA AvailabilityIsThere ==
  ASSUME NEW stages, NEW component \in {"capability", "simulation"},
         NEW path, path = <<component, "availability">>
  PROVE  /\ path \in DOMAIN Document(stages)
         /\ Document(stages)[path] = stages[component]
         /\ Parsed(path) /\ Len(path) = 2
         /\ path[1] = component /\ Last(path) = "availability"
<1>1. path \in DOMAIN Document(stages)
  BY AlwaysThere
<1>2. /\ path # <<"intent">> /\ path # QuotePath
      /\ path[1] = component /\ path[2] = "availability"
  BY DEF QuotePath
<1>3. Document(stages)[path] = stages[component]
  BY <1>1, <1>2 DEF Document
<1>4. Len(path) = 2 /\ path # <<>> /\ DOMAIN path = 1..2
  OBVIOUS
<1>5. Parsed(path)
  BY <1>2, <1>4 DEF Parsed, Forbidden
<1> QED
  BY <1>1, <1>2, <1>3, <1>4, <1>5 DEF Last

(* A fact from a context of an available component is accepted when the    *)
(* tables of source-references.ts name its key for the check.              *)
LEMMA CapabilityFactAccepted ==
  ASSUME NEW stages, HasCapability(stages),
         NEW check, NEW role, NEW key \in CapabilityKeys,
         FromCapability(check, role), key \in CapabilityLeaves[check]
  PROVE  FactReferenceValid(Document(stages), check, role,
                            CapabilityFact(stages, key))
<1> DEFINE context == CapabilityContext(stages)
           path == <<"capability", "raw", "context", key>>
           fact == CapabilityFact(stages, key)
<1>1. /\ fact.availability = "AVAILABLE" /\ fact.sourceReference = path
      /\ fact.value = context[key]
  BY DEF CapabilityFact, FactFrom, AvailableFact, HasCapability
<1>2. Parsed(path) /\ IsPrefix(<<"capability", "raw">>, path)
      /\ Last(path) = key
  BY ContextPathFacts
<1>3. path \in DOMAIN Document(stages) /\ Document(stages)[path] = context[key]
  BY ContextIsThere, KeysAreDomains
<1> HIDE DEF fact, context, path
<1>4. RawRelevant(check, role, path)
  BY <1>2, Zenon DEF RawRelevant, IsCapabilityRaw
<1> QED
  BY <1>1, <1>2, <1>3, <1>4 DEF FactReferenceValid, fact, context

LEMMA SimulationFactAccepted ==
  ASSUME NEW stages, HasSimulation(stages),
         NEW check, NEW role, NEW key \in SimulationKeys,
         FromSimulation(check, role), key \in SimulationLeaves[check]
  PROVE  FactReferenceValid(Document(stages), check, role,
                            SimulationFact(stages, key))
<1> DEFINE context == SimulationContext(stages)
           path == <<"simulation", "raw", "context", key>>
           fact == SimulationFact(stages, key)
<1>1. /\ fact.availability = "AVAILABLE" /\ fact.sourceReference = path
      /\ fact.value = context[key]
  BY DEF SimulationFact, FactFrom, AvailableFact, HasSimulation
<1>2. Parsed(path) /\ IsPrefix(<<"simulation", "raw">>, path)
      /\ Last(path) = key
  BY ContextPathFacts
<1>3. path \in DOMAIN Document(stages) /\ Document(stages)[path] = context[key]
  BY ContextIsThere, KeysAreDomains
<1> HIDE DEF fact, context, path
<1>4. RawRelevant(check, role, path)
  BY <1>2, Zenon DEF RawRelevant, IsSimulationRaw
<1> QED
  BY <1>1, <1>2, <1>3, <1>4 DEF FactReferenceValid, fact, context

(* A gap is accepted when its component is not there.                      *)
LEMMA GapAccepted ==
  ASSUME NEW stages, NEW component \in {"capability", "simulation"},
         NEW check, NEW role, stages[component] \in {"FAILED", "MISSING"},
         component = "capability" =>
           check \in CapabilityChecks \cup JointChecks,
         component = "simulation" =>
           check \in JointChecks \cup SimulationChecks
  PROVE  FactReferenceValid(Document(stages), check, role,
                            Gap(component, stages[component]))
<1> DEFINE path == <<component, "availability">>
           gap == Gap(component, stages[component])
<1>1. /\ gap.availability = stages[component]
      /\ gap.availability # "AVAILABLE"
      /\ gap.sourceReference = path
  BY DEF Gap
<1>2. /\ path \in DOMAIN Document(stages)
      /\ Document(stages)[path] = stages[component]
      /\ Parsed(path) /\ Len(path) = 2
      /\ path[1] = component /\ Last(path) = "availability"
  BY AvailabilityIsThere
<1>3. component = "capability" => path = <<"capability", "availability">>
  OBVIOUS
<1> HIDE DEF gap, path
<1>4. AvailabilityRelevant(check, path)
  BY <1>2, <1>3 DEF AvailabilityRelevant, SimulationAvailability
<1> QED
  BY <1>1, <1>2, <1>4 DEF FactReferenceValid, gap

(* The operation that was expected is that of the quote.                   *)
LEMMA QuoteFactAccepted ==
  ASSUME NEW stages, Selected(stages)
  PROVE  FactReferenceValid(Document(stages), "operation", "expected",
                            AvailableFact(Method, QuotePath))
<1>1. QuotePath \in DOMAIN Document(stages)
  BY DEF Document
<1>2. /\ QuotePath # <<"intent">> /\ QuotePath[1] = "quotes"
      /\ Len(QuotePath) = 5 /\ QuotePath # <<>> /\ DOMAIN QuotePath = 1..5
      /\ QuotePath[3] = "raw" /\ QuotePath[5] = "operation"
  BY DEF QuotePath
<1>3. Document(stages)[QuotePath] = Method
  BY <1>1, <1>2 DEF Document
<1>4. Parsed(QuotePath)
  BY DEF QuotePath, Parsed, Forbidden
<1>5. RawRelevant("operation", "expected", QuotePath)
  BY <1>2 DEF RawRelevant, FromQuote, IsQuoteRaw, Last
<1> QED
  BY <1>1, <1>3, <1>4, <1>5 DEF FactReferenceValid, AvailableFact

LEMMA CapabilityFactOfEnded ==
  ASSUME NEW stages, Ended(stages),
         NEW check \in CapabilityChecks \cup JointChecks, NEW role,
         NEW key \in CapabilityKeys,
         FromCapability(check, role), key \in CapabilityLeaves[check]
  PROVE  FactReferenceValid(Document(stages), check, role,
                            CapabilityFact(stages, key))
<1>1. CASE HasCapability(stages)
  BY <1>1, CapabilityFactAccepted
<1>2. CASE ~HasCapability(stages)
  <2>1. stages.capability \in {"FAILED", "MISSING"}
    BY <1>2 DEF Ended, HasCapability
  <2>2. CapabilityFact(stages, key) = Gap("capability", stages["capability"])
    BY <1>2 DEF CapabilityFact, FactFrom, HasCapability
  <2> QED
    BY <2>1, <2>2, GapAccepted
<1> QED
  BY <1>1, <1>2

LEMMA SimulationFactOfEnded ==
  ASSUME NEW stages, Ended(stages),
         NEW check \in JointChecks \cup SimulationChecks, NEW role,
         NEW key \in SimulationKeys,
         FromSimulation(check, role), key \in SimulationLeaves[check]
  PROVE  FactReferenceValid(Document(stages), check, role,
                            SimulationFact(stages, key))
<1>1. CASE HasSimulation(stages)
  BY <1>1, SimulationFactAccepted
<1>2. CASE ~HasSimulation(stages)
  <2>1. stages.simulation \in {"FAILED", "MISSING"}
    BY <1>2 DEF Ended, HasSimulation
  <2>2. SimulationFact(stages, key) = Gap("simulation", stages["simulation"])
    BY <1>2 DEF SimulationFact, FactFrom, HasSimulation
  <2> QED
    BY <2>1, <2>2, GapAccepted
<1> QED
  BY <1>1, <1>2

(* The context value that each check observes.                             *)
ObservedKey ==
  [operation |-> "operation", account |-> "account",
   inputAsset |-> "inputAsset", outputAsset |-> "outputAsset",
   amountIn |-> "amountIn", slippage |-> "slippageBps",
   allowedProtocol |-> "protocolId", recipient |-> "recipient",
   approvalSpender |-> "approvalSpenderObserved",
   approvalAmount |-> "approvalAmount",
   fundsMovement |-> "observedMovements",
   capabilityIntegrity |-> "capabilityIntegrity",
   transactionSet |-> "observedTransactionTargets",
   warningPresence |-> "warnings", receiptAvailability |-> "receipts",
   coverage |-> "coverage", ordering |-> "ordering",
   stateContinuity |-> "stateContinuity"]

(* Where the facts of the projection come from.                            *)
OneFact ==
  (CapabilityChecks \ {"operation", "approvalSpender"}) \cup SimulationChecks
  \cup {"capabilityIntegrity"}

Unreadable(stages) == HasCapability(stages) /\ ~ApprovalProven(stages.tree)

LEMMA RolesOfFacts ==
  ASSUME NEW stages
  PROVE  /\ \A check \in OneFact :
              FactRolesOf(AlignmentInput(stages), check) = {"observed"}
         /\ \A check \in {"operation", "approvalSpender", "transactionSet"} :
              FactRolesOf(AlignmentInput(stages), check)
                = {"expected", "observed"}
         /\ FactRolesOf(AlignmentInput(stages), "fundsMovement")
              = {"permitted", "observed"}
BY DEF FactRolesOf, AlignmentInput, AlignmentObservations, OneFact,
       CapabilityChecks, SimulationChecks

LEMMA FactsOfCapability ==
  ASSUME NEW stages,
         NEW check \in CapabilityChecks \cup {"capabilityIntegrity"},
         check \in {"approvalSpender", "approvalAmount"} => ~Unreadable(stages)
  PROVE  Fact(AlignmentInput(stages), check, "observed")
           = CapabilityFact(stages, ObservedKey[check])
BY DEF Fact, AlignmentInput, AlignmentObservations, ObservedKey,
       CapabilityChecks, CapabilityFact, Unreadable

LEMMA FactsOfSimulation ==
  ASSUME NEW stages,
         NEW check \in SimulationChecks \cup {"fundsMovement", "transactionSet"}
  PROVE  Fact(AlignmentInput(stages), check, "observed")
           = SimulationFact(stages, ObservedKey[check])
BY DEF Fact, AlignmentInput, AlignmentObservations, ObservedKey,
       SimulationChecks, SimulationFact

LEMMA ExpectedFacts ==
  ASSUME NEW stages
  PROVE  /\ Fact(AlignmentInput(stages), "operation", "expected")
              = IF Selected(stages) THEN AvailableFact(Method, QuotePath)
                ELSE Gap("capability", stages.capability)
         /\ Fact(AlignmentInput(stages), "fundsMovement", "permitted")
              = CapabilityFact(stages, "permittedMovements")
         /\ Fact(AlignmentInput(stages), "transactionSet", "expected")
              = CapabilityFact(stages, "expectedTransactionTargets")
         /\ ~Unreadable(stages) =>
              Fact(AlignmentInput(stages), "approvalSpender", "expected")
                = CapabilityFact(stages, "approvalSpenderExpected")
BY DEF Fact, AlignmentInput, AlignmentObservations, CapabilityFact, Unreadable

(* Every fact is accepted, apart from those about an approval that cannot  *)
(* be read.                                                                *)
LEMMA FactsAccepted ==
  ASSUME NEW stages, Ended(stages), NEW check \in CheckIds,
         NEW role \in FactRolesOf(AlignmentInput(stages), check),
         check \in {"approvalSpender", "approvalAmount"} => ~Unreadable(stages)
  PROVE  FactValid(AlignmentInput(stages), check, role)
<1> DEFINE input == AlignmentInput(stages)
           valid(fact) ==
             FactReferenceValid(Document(stages), check, role, fact)
<1>1. FactValid(input, check, role) = valid(Fact(input, check, role))
  BY DEF FactValid, AlignmentInput
<1> SUFFICES valid(Fact(input, check, role))
  BY <1>1
<1> HIDE DEF valid, input
<1>3. ASSUME check \in CapabilityChecks \cup JointChecks,
             NEW key \in CapabilityKeys,
             FromCapability(check, role), key \in CapabilityLeaves[check]
      PROVE  valid(CapabilityFact(stages, key))
  BY <1>3, CapabilityFactOfEnded DEF valid
<1>4. ASSUME check \in JointChecks \cup SimulationChecks,
             NEW key \in SimulationKeys,
             FromSimulation(check, role), key \in SimulationLeaves[check]
      PROVE  valid(SimulationFact(stages, key))
  BY <1>4, SimulationFactOfEnded DEF valid
<1>5. \/ role = "observed"
      \/ /\ role = "expected"
         /\ check \in {"operation", "approvalSpender", "transactionSet"}
      \/ role = "permitted" /\ check = "fundsMovement"
  BY RolesOfFacts DEF OneFact, CheckIds, JointChecks
<1>6. CASE /\ role = "observed"
           /\ check \in CapabilityChecks \cup {"capabilityIntegrity"}
  <2>1. Fact(input, check, role) = CapabilityFact(stages, ObservedKey[check])
    BY <1>6, FactsOfCapability DEF input
  <2> QED
    BY <1>3, <1>6, <2>1
       DEF CapabilityKeys, CapabilityLeaves, FromCapability, FromQuote,
           CapabilityChecks, JointChecks, ObservedKey
<1>7. CASE /\ role = "observed"
           /\ check \in SimulationChecks \cup {"fundsMovement", "transactionSet"}
  <2>1. Fact(input, check, role) = SimulationFact(stages, ObservedKey[check])
    BY <1>7, FactsOfSimulation DEF input
  <2> QED
    BY <1>4, <1>7, <2>1
       DEF SimulationKeys, SimulationLeaves, FromSimulation,
           SimulationChecks, JointChecks, ObservedKey
<1>8. CASE role = "expected" /\ check = "operation"
  <2>1. Fact(input, check, role)
          = IF Selected(stages) THEN AvailableFact(Method, QuotePath)
            ELSE Gap("capability", stages.capability)
    BY <1>8, ExpectedFacts, Zenon DEF input
  <2>2. CASE Selected(stages)
    BY <1>8, <2>1, <2>2, QuoteFactAccepted DEF valid
  <2>3. CASE ~Selected(stages)
    <3>1. stages["capability"] \in {"FAILED", "MISSING"}
      BY <2>3 DEF Ended
    <3>2. check \in CapabilityChecks \cup JointChecks
      BY <1>8 DEF CapabilityChecks
    <3> QED
      BY <2>1, <2>3, <3>1, <3>2, GapAccepted DEF valid
  <2> QED
    BY <2>2, <2>3
<1>9. CASE role = "expected" /\ check = "approvalSpender"
  <2>1. Fact(input, check, role)
          = CapabilityFact(stages, "approvalSpenderExpected")
    BY <1>9, ExpectedFacts DEF input
  <2> QED
    BY <1>3, <1>9, <2>1
       DEF CapabilityKeys, CapabilityLeaves, FromCapability, FromQuote,
           CapabilityChecks
<1>10. CASE \/ role = "expected" /\ check = "transactionSet"
            \/ role = "permitted" /\ check = "fundsMovement"
  <2>1. Fact(input, check, role)
          = CapabilityFact(stages, IF check = "fundsMovement"
                                   THEN "permittedMovements"
                                   ELSE "expectedTransactionTargets")
    BY <1>10, ExpectedFacts DEF input
  <2> QED
    BY <1>3, <1>10, <2>1
       DEF CapabilityKeys, CapabilityLeaves, FromCapability, JointChecks
<1> QED
  BY <1>5, <1>6, <1>7, <1>8, <1>9, <1>10 DEF CheckIds, JointChecks

-----------------------------------------------------------------------------
(* The other direction: what stages must hold for every check to pass and  *)
(* every list and flag to be clean.  No check needs the rolled-back flag.  *)
CleanStages(stages) ==
  LET evidence == stages.evidence
      results == evidence.results
      sent == stages.tree.transactions
  IN  /\ Selected(stages) /\ HasCapability(stages) /\ HasSimulation(stages)
      /\ stages.tree \in AnyTree /\ stages.tree.form = "EXACT"
      /\ stages.snapshot = stages.tree
      /\ AsExpected(stages.policy, stages.tree) /\ ApprovalProven(stages.tree)
      /\ stages.intent.inputAmount \in Nat \ {0}
      /\ stages.intent.maxSlippageBps \in Nat
      /\ stages.policy.protocolId \in stages.intent.allowedProtocols
      /\ results \in Seq(Result(Transaction))
      /\ Len(results) # 0 /\ Len(results) = Len(sent)
      /\ \A i \in DOMAIN results : Recorded(results[i])
      /\ evidence.receiptCoverage = "PROVEN" /\ evidence.ordering = "PROVEN"
      /\ evidence.stateContinuity \in {"PROVEN", "NOT_APPLICABLE"}
      /\ {results[i].transaction.to : i \in DOMAIN results}
           = stages.policy.targets
      /\ \A i \in DOMAIN results :
           results[i].transaction.value # 0 =>
             results[i].transaction \in ToSet(sent)

(* The evidence of clean results for a tree that can be read.              *)
LEMMA EvidenceOfClean ==
  ASSUME NEW ans \in Answers, NEW kept \in AnyTree, NEW before, NEW after,
         NEW evidence, evidence = MapMossEvidence(ans, kept, before, after),
         evidence.stateContinuity # "UNPROVABLE",
         Len(ans.results) = Len(kept.transactions),
         \A i \in DOMAIN ans.results : Recorded(ans.results[i]),
         Len(ans.results) > 1 => ~ans.halted
  PROVE  /\ evidence.receiptCoverage = "PROVEN"
         /\ evidence.ordering = "PROVEN"
         /\ evidence.stateContinuity \in {"PROVEN", "NOT_APPLICABLE"}
         /\ Len(ans.results) # 0
<1> DEFINE expected == ExpectedTransactions(kept)
           results == ans.results
           halted == ans.halted
<1>1. /\ evidence.receiptCoverage = ReceiptCoverage(results, expected)
      /\ evidence.ordering = Ordering(results, expected)
      /\ evidence.stateContinuity = StateContinuity(results, expected, halted)
  BY DEF MapMossEvidence
<1>2. /\ kept.transactions \in Seq(Transaction)
      /\ results \in Seq(Result(Transaction)) /\ halted \in BOOLEAN
  BY DEF AnyTree, Tree, Answers
<1>3. Len(kept.transactions) \in Nat /\ Len(results) \in Nat
  BY <1>2, SeqFacts
<1>4. expected \in Nat /\ expected \in {0, Len(kept.transactions)}
  BY <1>3 DEF ExpectedTransactions
<1>5. \A i \in DOMAIN results :
        /\ results[i].receipt = "SUCCESS" /\ results[i].changes = "RECEIPTED"
        /\ results[i].warnings = {}
  BY DEF Recorded
<1>6. Len(results) = Len(kept.transactions) /\ (Len(results) > 1 => ~halted)
  OBVIOUS
<1> HIDE DEF expected, results, halted
<1>7. expected >= 1
  BY <1>1, <1>4 DEF StateContinuity
<1>8. expected = Len(results) /\ Len(results) # 0
  BY <1>3, <1>4, <1>6, <1>7
<1>9. AllReceipted(results) /\ \A code : ~Warned(results, code)
  <2>1. AllReceipted(results)
    BY <1>5 DEF AllReceipted
  <2>2. Warnings(results) = {}
    BY <1>5 DEF Warnings
  <2> QED
    BY <2>1, <2>2 DEF Warned
<1>10. ReceiptCoverage(results, expected) = "PROVEN"
  BY <1>4, <1>7, <1>8, <1>9 DEF ReceiptCoverage
<1>11. Ordering(results, expected) = "PROVEN"
  BY <1>4, <1>5, <1>7, <1>8, <1>9 DEF Ordering
<1>12. StateContinuity(results, expected, halted)
         \in {"PROVEN", "NOT_APPLICABLE"}
  <2>1. CASE expected = 1
    BY <2>1 DEF StateContinuity
  <2>2. CASE expected # 1
    <3>1. Len(results) > 1 /\ ~(expected < 1)
      BY <1>3, <1>4, <1>7, <1>8, <2>2
    <3>2. ~halted
      BY <1>6, <3>1
    <3> QED
      BY <1>8, <1>9, <2>2, <3>1, <3>2 DEF StateContinuity
  <2> QED
    BY <2>1, <2>2
<1> QED
  BY <1>1, <1>8, <1>10, <1>11, <1>12 DEF results

(* The lists and flags of clean stages.                                    *)
LEMMA ListsOfClean ==
  ASSUME NEW results \in Seq(Result(Transaction)),
         \A i \in DOMAIN results : Recorded(results[i])
  PROVE  /\ \A kind \in {"receipt", "outcome"} :
              /\ Statuses(results, kind).availability = "AVAILABLE"
              /\ Statuses(results, kind).failed = {}
              /\ Statuses(results, kind).size = Len(results)
         /\ Warnings(results) = {} /\ Cardinality(Warnings(results)) = 0
<1> DEFINE places == {i \in DOMAIN results : results[i].receipt # "NONE"}
           receipted == ItemsAt(results, places)
<1>1. Receipted(results) = receipted
  BY DEF Receipted
<1>2. places = DOMAIN results
  BY DEF Recorded
<1>3. Len(receipted) = Len(results)
  <2> HIDE DEF places
  <2> QED
    BY <1>2, ItemsFacts, AllItems
<1>4. \A k \in DOMAIN receipted :
        receipted[k].receipt = "SUCCESS" /\ receipted[k].outcome = "SUCCESS"
  <2>1. places \in SUBSET DOMAIN results
    OBVIOUS
  <2> HIDE DEF places
  <2>2. \A k \in DOMAIN receipted : \E i \in places : receipted[k] = results[i]
    BY <2>1, ItemsFacts
  <2> HIDE DEF receipted
  <2> QED
    BY <1>2, <2>2 DEF Recorded
<1> HIDE DEF receipted, places
<1>5. ASSUME NEW kind \in {"receipt", "outcome"}
      PROVE  /\ Statuses(results, kind).availability = "AVAILABLE"
             /\ Statuses(results, kind).failed = {}
             /\ Statuses(results, kind).size = Len(results)
  <2>1. Statuses(results, kind)
          = [availability |-> "AVAILABLE", size |-> Len(receipted),
             failed |-> {i - 1 : i \in {j \in DOMAIN receipted :
                                          receipted[j][kind] # "SUCCESS"}}]
    BY <1>1 DEF Statuses
  <2>2. {j \in DOMAIN receipted : receipted[j][kind] # "SUCCESS"} = {}
    BY <1>4, <1>5
  <2> QED
    BY <1>3, <2>1, <2>2
<1>6. Warnings(results) = {}
  BY DEF Warnings, Recorded
<1> QED
  BY <1>5, <1>6, FS_EmptySet

LEMMA ContinuityHolds ==
  ASSUME NEW evidence,
         evidence.stateContinuity \in {"PROVEN", "NOT_APPLICABLE"}
  PROVE  AvailableSimulation(evidence).stateContinuity.holds
<1> DEFINE verdict(flag) == [availability |-> "AVAILABLE", holds |-> flag]
           proven == evidence.stateContinuity \in {"PROVEN", "NOT_APPLICABLE"}
<1>1. AvailableSimulation(evidence).stateContinuity = verdict(proven)
  BY DEF AvailableSimulation
<1>2. proven = TRUE
  OBVIOUS
<1>3. verdict(TRUE).holds
  OBVIOUS
<1> HIDE DEF verdict, proven
<1> QED
  BY ONLY <1>1, <1>2, <1>3, Zenon

LEMMA PublicOfClean ==
  ASSUME NEW stages, CleanStages(stages)
  PROVE  LET public == ProjectSimulation(stages)
         IN  /\ public.availability = "AVAILABLE"
             /\ public.executionStatus = "SUCCESS"
             /\ \A name \in Components : public[name].availability = "AVAILABLE"
             /\ public.warnings.size = 0 /\ public.warnings.failed = {}
             /\ \A name \in {"receipts", "outcomes"} :
                  /\ public[name].size = Len(stages.evidence.results)
                  /\ public[name].failed = {}
             /\ public.coverage.holds /\ public.ordering.holds
             /\ public.stateContinuity.holds
<1> DEFINE evidence == stages.evidence
           results == evidence.results
           public == ProjectSimulation(stages)
<1>1. public = AvailableSimulation(evidence)
  BY DEF ProjectSimulation, CleanStages
<1>2. /\ results \in Seq(Result(Transaction))
      /\ \A i \in DOMAIN results : Recorded(results[i])
      /\ evidence.receiptCoverage = "PROVEN" /\ evidence.ordering = "PROVEN"
      /\ evidence.stateContinuity \in {"PROVEN", "NOT_APPLICABLE"}
  BY DEF CleanStages
<1> HIDE DEF results
<1>3. /\ \A kind \in {"receipt", "outcome"} :
           /\ Statuses(results, kind).availability = "AVAILABLE"
           /\ Statuses(results, kind).failed = {}
           /\ Statuses(results, kind).size = Len(results)
      /\ Warnings(results) = {} /\ Cardinality(Warnings(results)) = 0
  BY <1>2, ListsOfClean
<1>4. ~ExecutionFailed(results)
  BY <1>3 DEF ExecutionFailed, Warned
<1>5. evidence.stateContinuity # "FAILED"
  BY <1>2
<1> HIDE DEF evidence
<1>6. public.executionStatus = "SUCCESS"
  BY <1>1, <1>4, <1>5 DEF AvailableSimulation, results
<1>7. /\ public.availability = "AVAILABLE"
      /\ public.warnings = [availability |-> "AVAILABLE",
                            size |-> Cardinality(Warnings(results)),
                            failed |-> {}]
      /\ public.receipts = Statuses(results, "receipt")
      /\ public.outcomes = Statuses(results, "outcome")
      /\ public.coverage = Proof("PROVEN") /\ public.ordering = Proof("PROVEN")
      /\ public.stateContinuity.availability = "AVAILABLE"
  BY <1>1, <1>2 DEF AvailableSimulation, results
<1>8. public.stateContinuity.holds
  BY <1>1, <1>2, ContinuityHolds
<1>9. Proof("PROVEN").holds /\ Proof("PROVEN").availability = "AVAILABLE"
  BY DEF Proof
<1> HIDE DEF public
<1>10. /\ public.warnings.size = 0 /\ public.warnings.failed = {}
       /\ public.coverage.holds /\ public.ordering.holds
  BY <1>3, <1>7, <1>9
<1>11. \A name \in Components : public[name].availability = "AVAILABLE"
  BY <1>3, <1>7, <1>9 DEF Components
<1>12. \A name \in {"receipts", "outcomes"} :
         public[name].size = Len(results) /\ public[name].failed = {}
  BY <1>3, <1>7
<1> QED
  BY <1>6, <1>7, <1>8, <1>10, <1>11, <1>12 DEF public, results, evidence

-----------------------------------------------------------------------------
(* Every fact of clean stages is there and accepted, and its value is the  *)
(* one in the context.                                                     *)
LEMMA CleanIsReadable ==
  ASSUME NEW stages, CleanStages(stages)
  PROVE  /\ Ended(stages) /\ ~Unreadable(stages)
         /\ Selected(stages) /\ HasCapability(stages) /\ HasSimulation(stages)
BY DEF CleanStages, Ended, Unreadable, HasCapability, HasSimulation

LEMMA CapabilityFactIsThere ==
  ASSUME NEW stages, HasCapability(stages), NEW key
  PROVE  /\ CapabilityFact(stages, key).availability = "AVAILABLE"
         /\ CapabilityFact(stages, key).value = CapabilityContext(stages)[key]
BY DEF CapabilityFact, FactFrom, AvailableFact, HasCapability

LEMMA SimulationFactIsThere ==
  ASSUME NEW stages, HasSimulation(stages), NEW key
  PROVE  /\ SimulationFact(stages, key).availability = "AVAILABLE"
         /\ SimulationFact(stages, key).value = SimulationContext(stages)[key]
BY DEF SimulationFact, FactFrom, AvailableFact, HasSimulation

LEMMA CleanFactsAreThere ==
  ASSUME NEW stages, CleanStages(stages), NEW check \in CheckIds,
         NEW role \in FactRolesOf(AlignmentInput(stages), check)
  PROVE  Fact(AlignmentInput(stages), check, role).availability = "AVAILABLE"
<1> DEFINE input == AlignmentInput(stages)
<1>1. /\ ~Unreadable(stages) /\ Selected(stages)
      /\ HasCapability(stages) /\ HasSimulation(stages)
  BY CleanIsReadable
<1>2. \/ role = "observed"
      \/ /\ role = "expected"
         /\ check \in {"operation", "approvalSpender", "transactionSet"}
      \/ role = "permitted" /\ check = "fundsMovement"
  BY RolesOfFacts DEF OneFact, CheckIds, JointChecks
<1>3. CASE /\ role = "observed"
           /\ check \in CapabilityChecks \cup {"capabilityIntegrity"}
  <2>1. Fact(input, check, role) = CapabilityFact(stages, ObservedKey[check])
    BY <1>1, <1>3, FactsOfCapability
  <2> QED
    BY <1>1, <2>1, CapabilityFactIsThere
<1>4. CASE /\ role = "observed"
           /\ check \in SimulationChecks \cup {"fundsMovement", "transactionSet"}
  <2>1. Fact(input, check, role) = SimulationFact(stages, ObservedKey[check])
    BY <1>4, FactsOfSimulation
  <2> QED
    BY <1>1, <2>1, SimulationFactIsThere
<1>5. CASE role = "expected" /\ check = "operation"
  <2>1. Fact(input, check, role) = AvailableFact(Method, QuotePath)
    BY <1>1, <1>5, ExpectedFacts
  <2> QED
    BY <2>1 DEF AvailableFact
<1>6. CASE role = "expected" /\ check = "approvalSpender"
  BY <1>1, <1>6, ExpectedFacts, CapabilityFactIsThere
<1>7. CASE \/ role = "expected" /\ check = "transactionSet"
           \/ role = "permitted" /\ check = "fundsMovement"
  BY <1>1, <1>7, ExpectedFacts, CapabilityFactIsThere
<1> QED
  BY <1>2, <1>3, <1>4, <1>5, <1>6, <1>7 DEF CheckIds, JointChecks

LEMMA CleanFactsCount ==
  ASSUME NEW stages, CleanStages(stages), NEW check \in CheckIds
  PROVE  AllCount(AlignmentInput(stages), check)
<1> SUFFICES ASSUME NEW role \in FactRolesOf(AlignmentInput(stages), check)
             PROVE  Counts(AlignmentInput(stages), check, role)
  BY DEF AllCount
<1>1. Fact(AlignmentInput(stages), check, role).availability = "AVAILABLE"
  BY CleanFactsAreThere
<1>2. FactValid(AlignmentInput(stages), check, role)
  BY CleanIsReadable, FactsAccepted
<1> QED
  BY <1>1, <1>2 DEF Counts

LEMMA CleanCapabilityValues ==
  ASSUME NEW stages, CleanStages(stages)
  PROVE  LET input == AlignmentInput(stages)
             context == CapabilityContext(stages)
         IN  /\ \A check \in CapabilityChecks \cup {"capabilityIntegrity"} :
                  Observed(input, check) = context[ObservedKey[check]]
             /\ Value(input, "operation", "expected") = Method
             /\ Value(input, "approvalSpender", "expected")
                  = context["approvalSpenderExpected"]
             /\ Value(input, "fundsMovement", "permitted")
                  = context["permittedMovements"]
             /\ Value(input, "transactionSet", "expected")
                  = context["expectedTransactionTargets"]
<1> DEFINE input == AlignmentInput(stages)
           context == CapabilityContext(stages)
<1>1. /\ ~Unreadable(stages) /\ Selected(stages) /\ HasCapability(stages)
  BY CleanIsReadable
<1>2. ASSUME NEW check \in CapabilityChecks \cup {"capabilityIntegrity"}
      PROVE  Observed(input, check) = context[ObservedKey[check]]
  BY <1>1, FactsOfCapability, CapabilityFactIsThere DEF Observed, Value
<1>3. /\ Fact(input, "operation", "expected") = AvailableFact(Method, QuotePath)
      /\ Fact(input, "fundsMovement", "permitted")
           = CapabilityFact(stages, "permittedMovements")
      /\ Fact(input, "transactionSet", "expected")
           = CapabilityFact(stages, "expectedTransactionTargets")
      /\ Fact(input, "approvalSpender", "expected")
           = CapabilityFact(stages, "approvalSpenderExpected")
  BY <1>1, ExpectedFacts
<1>4. AvailableFact(Method, QuotePath).value = Method
  BY DEF AvailableFact
<1> QED
  BY <1>1, <1>2, <1>3, <1>4, CapabilityFactIsThere DEF Value

LEMMA CleanSimulationValues ==
  ASSUME NEW stages, CleanStages(stages),
         NEW check \in SimulationChecks \cup {"fundsMovement", "transactionSet"}
  PROVE  Observed(AlignmentInput(stages), check)
           = SimulationContext(stages)[ObservedKey[check]]
BY CleanIsReadable, FactsOfSimulation, SimulationFactIsThere DEF Observed, Value

(* What the contexts of clean stages hold.                                 *)
LEMMA CleanCapability ==
  ASSUME NEW stages, CleanStages(stages)
  PROVE  LET context == CapabilityContext(stages)
             intent0 == stages.intent
         IN  /\ context.operation = Method
             /\ context.account = intent0.account
             /\ context.inputAsset = intent0.inputAsset
             /\ context.outputAsset = intent0.outputAsset
             /\ context.amountIn = intent0.inputAmount
             /\ context.slippageBps \in 0 .. intent0.maxSlippageBps
             /\ context.protocolId \in intent0.allowedProtocols
             /\ context.recipient = intent0.recipient
             /\ context.approvalSpenderExpected = context.approvalSpenderObserved
             /\ context.approvalSpenderObserved = Spender(stages.tree)
             /\ context.approvalAmount.amount
                  = IF Spender(stages.tree) = "NONE" THEN {}
                    ELSE {intent0.inputAmount}
             /\ context.approvalAmount.unbounded = FALSE
             /\ context.capabilityIntegrity = "PROVEN"
             /\ context.permittedMovements
                  = NativeMovements(stages.tree.transactions)
             /\ context.expectedTransactionTargets = stages.policy.targets
<1>1. VerifyCurrentIntegrity(stages.tree, stages.snapshot)
  <2>1. stages.tree.form = "EXACT" /\ stages.snapshot = stages.tree
    BY DEF CleanStages
  <2> QED
    BY <2>1 DEF VerifyCurrentIntegrity, CurrentDigest, IsJsonExact
<1>2. AsExpected(stages.policy, stages.snapshot)
  BY DEF CleanStages
<1>3. CapabilityContext(stages).capabilityIntegrity = "PROVEN"
  BY <1>1, <1>2 DEF CapabilityContext
<1>4. /\ stages.intent.maxSlippageBps \in 0 .. stages.intent.maxSlippageBps
      /\ stages.policy.protocolId \in stages.intent.allowedProtocols
  BY DEF CleanStages
<1> QED
  BY <1>3, <1>4 DEF CapabilityContext

LEMMA CleanSimulation ==
  ASSUME NEW stages, CleanStages(stages)
  PROVE  LET context == SimulationContext(stages)
             results == stages.evidence.results
         IN  /\ ToSet(context.observedMovements)
                  \subseteq ToSet(NativeMovements(stages.tree.transactions))
             /\ ToSet(context.observedTransactionTargets)
                  = stages.policy.targets
             /\ context.warnings = 0
             /\ context.receipts.expectedCount = Len(results)
             /\ context.receipts.observedCount = Len(results)
             /\ context.receipts.allSuccessful
             /\ context.coverage = "PROVEN" /\ context.ordering = "PROVEN"
             /\ context.stateContinuity \in {"PROVEN", "NOT_APPLICABLE"}
<1> DEFINE context == SimulationContext(stages)
           results == stages.evidence.results
           sent == stages.tree.transactions
           executed0 == [j \in DOMAIN results |-> results[j].transaction]
           moved == {j \in DOMAIN executed0 : executed0[j].value # 0}
           permitted == {j \in DOMAIN sent : sent[j].value # 0}
<1>1. /\ results \in Seq(Result(Transaction))
      /\ \A i \in DOMAIN results : Recorded(results[i])
      /\ Len(results) = Len(sent) /\ stages.snapshot = stages.tree
      /\ {results[i].transaction.to : i \in DOMAIN results}
           = stages.policy.targets
      /\ \A i \in DOMAIN results :
           results[i].transaction.value # 0 =>
             results[i].transaction \in ToSet(sent)
  BY DEF CleanStages
<1>2. /\ Cardinality(Warnings(results)) = 0
      /\ Statuses(results, "receipt").failed = {}
      /\ Statuses(results, "receipt").size = Len(results)
  BY <1>1, ListsOfClean
<1>3. /\ context.warnings = 0
      /\ context.receipts.expectedCount = Len(results)
      /\ context.receipts.observedCount = Len(results)
  BY <1>1, <1>2 DEF SimulationContext
<1>4. context.receipts.allSuccessful
  <2>1. context.receipts.allSuccessful
          = (Statuses(results, "receipt").failed = {})
    BY Zenon DEF SimulationContext
  <2> QED
    BY ONLY <1>2, <2>1, Zenon
<1>5. /\ context.coverage = "PROVEN" /\ context.ordering = "PROVEN"
      /\ context.stateContinuity \in {"PROVEN", "NOT_APPLICABLE"}
  BY DEF SimulationContext, ProvenOrFailed, CleanStages
<1>6. ToSet(context.observedTransactionTargets) = stages.policy.targets
  <2>1. context.observedTransactionTargets
          = [i \in DOMAIN results |-> results[i].transaction.to]
    BY DEF SimulationContext
  <2>2. ToSet([i \in DOMAIN results |-> results[i].transaction.to])
          = {results[i].transaction.to : i \in DOMAIN results}
    BY DEF ToSet
  <2> QED
    BY <1>1, <2>1, <2>2
<1>7. ToSet(context.observedMovements) \subseteq ToSet(NativeMovements(sent))
  <2>1. context.observedMovements = NativeMovements(executed0)
    BY DEF SimulationContext
  <2>2. executed0 \in Seq(Transaction)
    <3>1. /\ \A j \in DOMAIN results : results[j] \in Result(Transaction)
          /\ Len(results) \in Nat /\ DOMAIN results = 1..Len(results)
      BY <1>1, SeqFacts
    <3>2. \A j \in DOMAIN results : results[j].transaction \in Transaction
      BY ONLY <3>1 DEF Result
    <3> QED
      BY <3>1, <3>2
  <2>3. sent \in Seq(Transaction)
    BY DEF AnyTree, Tree, CleanStages
  <2>4. ToSet(NativeMovements(executed0)) = {executed0[j] : j \in moved}
    <3> HIDE DEF executed0
    <3> QED
      BY <2>2, MovementsAreThose, Zenon
  <2>5. ToSet(NativeMovements(sent)) = {sent[j] : j \in permitted}
    BY <2>3, MovementsAreThose, Zenon
  <2>6. \A j \in moved :
          executed0[j].value # 0 /\ executed0[j] \in ToSet(sent)
    BY <1>1
  <2> HIDE DEF executed0, moved
  <2>7. \A j \in moved : \E k \in permitted : executed0[j] = sent[k]
    BY <2>6 DEF ToSet
  <2> QED
    BY <2>1, <2>4, <2>5, <2>7
<1> QED
  BY <1>3, <1>4, <1>5, <1>6, <1>7

(* Every check of clean stages passes.                                     *)
LEMMA AgreeingPasses ==
  ASSUME NEW input, NEW check \in CapabilityChecks \cup JointChecks,
         check # "approvalAmount", AllCount(input, check), Agrees(input, check)
  PROVE  CheckStatus(input, check) = "PASS"
<1>1. CheckStatus(input, check)
        = IF AllCount(input, check)
          THEN Judged(Agrees(input, check)) ELSE "REVIEW"
  BY DEF CheckStatus, CapabilityChecks, JointChecks
<1> QED
  BY <1>1 DEF Judged

LEMMA AgreementOfOne ==
  ASSUME NEW input
  PROVE  /\ Observed(input, "account") = input.intent["account"] =>
              Agrees(input, "account")
         /\ Observed(input, "inputAsset") = input.intent["inputAsset"] =>
              Agrees(input, "inputAsset")
         /\ Observed(input, "outputAsset") = input.intent["outputAsset"] =>
              Agrees(input, "outputAsset")
         /\ Observed(input, "amountIn") = input.intent.inputAmount =>
              Agrees(input, "amountIn")
         /\ Observed(input, "slippage") \in 0 .. input.intent.maxSlippageBps =>
              Agrees(input, "slippage")
         /\ Observed(input, "allowedProtocol")
                \in input.intent.allowedProtocols =>
              Agrees(input, "allowedProtocol")
         /\ Observed(input, "recipient") = input.intent.recipient =>
              Agrees(input, "recipient")
         /\ Observed(input, "capabilityIntegrity") = "PROVEN" =>
              Agrees(input, "capabilityIntegrity")
BY DEF Agrees, Observed

LEMMA AgreementOfTwo ==
  ASSUME NEW input
  PROVE  /\ \A check \in {"operation", "approvalSpender"} :
              Value(input, check, "expected") = Observed(input, check) =>
                Agrees(input, check)
         /\ ToSet(Observed(input, "fundsMovement"))
                \subseteq ToSet(Value(input, "fundsMovement", "permitted")) =>
              Agrees(input, "fundsMovement")
         /\ ToSet(Observed(input, "transactionSet"))
                = Value(input, "transactionSet", "expected") =>
              Agrees(input, "transactionSet")
BY DEF Agrees, Observed

LEMMA CapabilityPasses ==
  ASSUME NEW stages, CleanStages(stages),
         NEW check \in CapabilityChecks \cup JointChecks,
         check # "approvalAmount"
  PROVE  CheckStatus(AlignmentInput(stages), check) = "PASS"
<1> DEFINE input == AlignmentInput(stages)
           context == CapabilityContext(stages)
           seen == SimulationContext(stages)
<1>1. AllCount(input, check)
  BY CleanFactsCount DEF CheckIds
<1>2. input.intent = stages.intent
  BY DEF AlignmentInput
<1> HIDE DEF input, context, seen
<1>3. /\ context.operation = Method
      /\ context.account = input.intent.account
      /\ context.inputAsset = input.intent.inputAsset
      /\ context.outputAsset = input.intent.outputAsset
      /\ context.amountIn = input.intent.inputAmount
      /\ context.slippageBps \in 0 .. input.intent.maxSlippageBps
      /\ context.protocolId \in input.intent.allowedProtocols
      /\ context.recipient = input.intent.recipient
      /\ context.approvalSpenderExpected = context.approvalSpenderObserved
      /\ context.capabilityIntegrity = "PROVEN"
      /\ context.permittedMovements
           = NativeMovements(stages.tree.transactions)
      /\ context.expectedTransactionTargets = stages.policy.targets
  <2> DEFINE asked == stages.intent
  <2>1. /\ context.operation = Method
        /\ context.account = asked.account
        /\ context.inputAsset = asked.inputAsset
        /\ context.outputAsset = asked.outputAsset
        /\ context.amountIn = asked.inputAmount
        /\ context.slippageBps \in 0 .. asked.maxSlippageBps
        /\ context.protocolId \in asked.allowedProtocols
        /\ context.recipient = asked.recipient
        /\ context.approvalSpenderExpected = context.approvalSpenderObserved
        /\ context.capabilityIntegrity = "PROVEN"
        /\ context.permittedMovements
             = NativeMovements(stages.tree.transactions)
        /\ context.expectedTransactionTargets = stages.policy.targets
    BY CleanCapability DEF context
  <2>2. input.intent = asked
    BY <1>2
  <2> HIDE DEF asked
  <2> QED
    BY <2>1, <2>2
<1>4. /\ ToSet(seen.observedMovements) \subseteq ToSet(context.permittedMovements)
      /\ ToSet(seen.observedTransactionTargets)
           = context.expectedTransactionTargets
  BY <1>3, CleanSimulation DEF seen
<1>5. /\ \A id \in CapabilityChecks \cup {"capabilityIntegrity"} :
           Observed(input, id) = context[ObservedKey[id]]
      /\ Value(input, "operation", "expected") = Method
      /\ Value(input, "approvalSpender", "expected")
           = context["approvalSpenderExpected"]
      /\ Value(input, "fundsMovement", "permitted")
           = context["permittedMovements"]
      /\ Value(input, "transactionSet", "expected")
           = context["expectedTransactionTargets"]
  BY CleanCapabilityValues DEF input, context
<1>6. /\ Observed(input, "fundsMovement") = seen[ObservedKey["fundsMovement"]]
      /\ Observed(input, "transactionSet") = seen[ObservedKey["transactionSet"]]
  BY CleanSimulationValues DEF input, seen
<1>7. CASE check \in CapabilityChecks \cup {"capabilityIntegrity"}
  <2>1. Agrees(input, check)
    <3>1. Observed(input, check) = context[ObservedKey[check]]
      BY <1>5, <1>7
    <3>2. CASE check \in {"operation", "approvalSpender"}
      BY <1>3, <1>5, <3>1, <3>2, AgreementOfTwo DEF ObservedKey
    <3>3. CASE check \in {"account", "inputAsset", "outputAsset"}
      BY <1>3, <3>1, <3>3, AgreementOfOne DEF ObservedKey
    <3>4. CASE check \in {"amountIn", "slippage", "allowedProtocol",
                          "recipient", "capabilityIntegrity"}
      BY <1>3, <3>1, <3>4, AgreementOfOne DEF ObservedKey
    <3> QED
      BY <1>7, <3>2, <3>3, <3>4 DEF CapabilityChecks
  <2> QED
    BY <1>1, <2>1, AgreeingPasses DEF input, JointChecks
<1>8. CASE check = "fundsMovement"
  <2>1. Agrees(input, check)
    BY <1>4, <1>5, <1>6, <1>8, AgreementOfTwo DEF ObservedKey
  <2> QED
    BY <1>1, <2>1, AgreeingPasses DEF input
<1>9. CASE check = "transactionSet"
  <2>1. Agrees(input, check)
    BY <1>4, <1>5, <1>6, <1>9, AgreementOfTwo DEF ObservedKey
  <2> QED
    BY <1>1, <2>1, AgreeingPasses DEF input
<1> QED
  BY <1>7, <1>8, <1>9 DEF JointChecks

LEMMA ApprovalPasses ==
  ASSUME NEW stages, CleanStages(stages)
  PROVE  CheckStatus(AlignmentInput(stages), "approvalAmount") = "PASS"
<1> DEFINE input == AlignmentInput(stages)
           approval == Observed(input, "approvalAmount")
           amount0 == stages.intent.inputAmount
           spender == Spender(stages.tree)
<1>1. /\ Counts(input, "approvalAmount", "observed")
      /\ Counts(input, "approvalSpender", "observed")
  <2>1. /\ "observed" \in FactRolesOf(input, "approvalAmount")
        /\ "observed" \in FactRolesOf(input, "approvalSpender")
    BY RolesOfFacts DEF OneFact, CapabilityChecks
  <2> QED
    BY <2>1, CleanFactsCount DEF AllCount, CheckIds, CapabilityChecks
<1>2. /\ approval = CapabilityContext(stages).approvalAmount
      /\ Observed(input, "approvalSpender")
           = CapabilityContext(stages).approvalSpenderObserved
  BY CleanCapabilityValues DEF ObservedKey, CapabilityChecks
<1>3. /\ approval.amount = IF spender = "NONE" THEN {} ELSE {amount0}
      /\ approval.unbounded = FALSE
      /\ Observed(input, "approvalSpender") = spender
  BY <1>2, CleanCapability
<1>4. input.intent.inputAmount = amount0 /\ amount0 \in Nat \ {0}
  BY DEF AlignmentInput, CleanStages
<1> HIDE DEF input, approval, amount0, spender
<1>5. ApprovalAmountStatus(input) = "PASS"
  <2>1. \A n \in approval.amount : n > 0 /\ ~(n > amount0)
    BY <1>3, <1>4
  <2>2. CASE spender = "NONE"
    BY <1>1, <1>3, <1>4, <2>2 DEF ApprovalAmountStatus, approval
  <2>3. CASE spender # "NONE"
    <3>1. approval.amount # {} /\ \E n \in approval.amount : n > 0
      BY <1>3, <2>1, <2>3
    <3> QED
      BY <1>1, <1>3, <1>4, <2>1, <2>3, <3>1
         DEF ApprovalAmountStatus, Judged, approval
  <2> QED
    BY <2>2, <2>3
<1> QED
  BY <1>5 DEF CheckStatus, input

LEMMA SimulationPasses ==
  ASSUME NEW stages, CleanStages(stages), NEW check \in SimulationChecks
  PROVE  CheckStatus(AlignmentInput(stages), check) = "PASS"
<1> DEFINE input == AlignmentInput(stages)
           context == SimulationContext(stages)
           results == stages.evidence.results
           public == ProjectSimulation(stages)
<1>1. AllCount(input, check)
  BY CleanFactsCount DEF CheckIds
<1>2. input.simulation = public
  BY DEF AlignmentInput
<1>3. Observed(input, check) = context[ObservedKey[check]]
  BY CleanSimulationValues
<1>4. /\ public.warnings.size = 0
      /\ public.receipts.size = Len(results) /\ public.receipts.failed = {}
      /\ public.coverage.holds /\ public.ordering.holds
      /\ public.stateContinuity.holds
  BY PublicOfClean
<1>5. /\ context.warnings = 0
      /\ context.receipts.expectedCount = Len(results)
      /\ context.receipts.observedCount = Len(results)
      /\ context.receipts.allSuccessful
      /\ context.coverage = "PROVEN" /\ context.ordering = "PROVEN"
      /\ context.stateContinuity \in {"PROVEN", "NOT_APPLICABLE"}
  BY CleanSimulation
<1>6. Len(results) \in Nat \ {0}
  <2>1. results \in Seq(Result(Transaction)) /\ Len(results) # 0
    BY DEF CleanStages
  <2> QED
    BY <2>1, SeqFacts
<1> HIDE DEF input, context, results, public
<1>7. CASE check = "warningPresence"
  <2>1. WarningStatus(input) = "PASS"
    BY <1>1, <1>2, <1>3, <1>4, <1>5, <1>7
       DEF WarningStatus, Judged, ObservedKey
  <2> QED
    BY <1>7, <2>1 DEF CheckStatus, input
<1>8. CASE check = "receiptAvailability"
  <2>1. Observed(input, "receiptAvailability") = context.receipts
    BY <1>3, <1>8 DEF ObservedKey
  <2>2. Len(results) > 0
    BY <1>6
  <2>3. ReceiptStatus(input) = "PASS"
    BY <1>1, <1>2, <1>4, <1>5, <1>8, <2>1, <2>2 DEF ReceiptStatus, Judged
  <2> QED
    BY <1>8, <2>3 DEF CheckStatus, input
<1>9. CASE check \in {"coverage", "ordering", "stateContinuity"}
  <2>1. Observed(input, check) \in {"PROVEN", "NOT_APPLICABLE"}
    BY <1>3, <1>5, <1>9 DEF ObservedKey
  <2>2. input.simulation[check].holds
    BY <1>2, <1>4, <1>9
  <2>3. FlagStatus(input, check) = "PASS"
    BY <1>1, <2>1, <2>2 DEF FlagStatus
  <2> QED
    BY <1>9, <2>3 DEF CheckStatus, input
<1> QED
  BY <1>7, <1>8, <1>9 DEF SimulationChecks

(* A report projected from clean stages is one the readers let pass as     *)
(* MANUAL_REVIEW, and one the engine has no reason against.                *)
LEMMA CleanIsAllowed ==
  ASSUME NEW stages, CleanStages(stages)
  PROVE  ManualReviewAllowed(ProjectReport(stages))
<1> DEFINE source == ProjectReport(stages)
           public == ProjectSimulation(stages)
           input == AlignmentInput(stages)
<1>1. /\ source.selection = "SELECTED" /\ source.capability = "AVAILABLE"
      /\ source.simulation = public
      /\ source.checks = {EvaluateCheck(input, check) : check \in CheckIds}
  BY CleanIsReadable DEF ProjectReport, EvaluateAlignment, HasCapability
<1>2. \A check \in CheckIds : CheckStatus(input, check) = "PASS"
  BY CapabilityPasses, ApprovalPasses, SimulationPasses DEF CheckIds
<1>3. \A check \in CheckIds :
        /\ EvaluateCheck(input, check).critical
        /\ EvaluateCheck(input, check).status = CheckStatus(input, check)
  BY DEF EvaluateCheck
<1>4. /\ public.availability = "AVAILABLE"
      /\ public.executionStatus = "SUCCESS"
      /\ \A name \in Components : public[name].availability = "AVAILABLE"
      /\ public.warnings.size = 0
      /\ \A name \in {"receipts", "outcomes"} :
           public[name].size # 0 /\ public[name].failed = {}
      /\ public.coverage.holds /\ public.ordering.holds
      /\ public.stateContinuity.holds
  <2>1. Len(stages.evidence.results) # 0
    BY DEF CleanStages
  <2> QED
    BY <2>1, PublicOfClean
<1> HIDE DEF source, public, input
<1>5. /\ CriticalChecks(source) # {}
      /\ \A c \in CriticalChecks(source) : c.status = "PASS"
  <2>1. CriticalChecks(source) = source.checks
    BY <1>1, <1>3 DEF CriticalChecks
  <2>2. source.checks # {}
    BY <1>1 DEF CheckIds, SimulationChecks
  <2> QED
    BY <1>1, <1>2, <1>3, <2>1, <2>2
<1>6. ManualReviewAllowed(source)
  BY <1>1, <1>4, <1>5 DEF ManualReviewAllowed
<1> QED
  BY <1>6 DEF source

LEMMA AllowedHasNoReason ==
  ASSUME NEW source, ManualReviewAllowed(source)
  PROVE  EvaluateDecision(source) = ManualReview
<1> DEFINE simulation0 == source.simulation
<1>1. AcquisitionReasons(source) = {}
  BY DEF AcquisitionReasons, AvailabilityReasons, When, ManualReviewAllowed,
         Unavailable
<1>2. ComponentReasons(simulation0) = {}
  BY DEF ComponentReasons, AvailabilityReasons, When, ManualReviewAllowed,
         Unavailable
<1>3. \A name \in {"receipts", "outcomes"} : \A empty, failed :
        ListReasons(simulation0, name, empty, failed) = {}
  BY DEF ListReasons, When, ManualReviewAllowed
<1>4. Indices(simulation0.warnings) = {}
  BY DEF Indices, ManualReviewAllowed
<1>5. SimulationReasons(simulation0) = {}
  BY <1>2, <1>3, <1>4 DEF SimulationReasons, When, ManualReviewAllowed
<1>6. AlignmentReasons(source.checks) = {}
  BY DEF AlignmentReasons, When, ManualReviewAllowed, CriticalChecks
<1>7. CollectReasons(source) = {}
  BY <1>1, <1>5, <1>6 DEF CollectReasons
<1> QED
  BY <1>7 DEF EvaluateDecision, BuildDecision

LEMMA CleanIsReviewed ==
  ASSUME NEW stages, CleanStages(stages)
  PROVE  EvaluateDecision(ProjectReport(stages)).status = "MANUAL_REVIEW"
BY CleanIsAllowed, AllowedHasNoReason DEF ManualReview

(* The status of the state that an accepted projection knows.              *)
LEMMA AcceptedContinuity ==
  ASSUME NEW stages, HasSimulation(stages),
         ProjectionAccepted(stages, EvmAddresses)
  PROVE  stages.evidence.stateContinuity # "UNPROVABLE"
<1> DEFINE fact ==
             Fact(AlignmentInput(stages), "stateContinuity", "observed")
<1>1. fact = SimulationFact(stages, "stateContinuity")
  BY FactsOfSimulation DEF SimulationChecks, ObservedKey
<1>2. /\ fact.availability = "AVAILABLE"
      /\ fact.value = SimulationContext(stages)["stateContinuity"]
  BY <1>1, SimulationFactIsThere
<1>3. SimulationContext(stages)["stateContinuity"]
        = stages.evidence.stateContinuity
  BY DEF SimulationContext
<1> HIDE DEF fact
<1>4. fact.availability = "AVAILABLE" =>
        fact.value \in {"PROVEN", "FAILED", "NOT_APPLICABLE"}
  BY DEF ProjectionAccepted, AlignmentInputAccepted, fact
<1> QED
  BY <1>2, <1>3, <1>4

-----------------------------------------------------------------------------
(* The page joins the lists again by the index each record carries.        *)
LEMMA ItemsOfNone ==
  ASSUME NEW s
  PROVE  ItemsAt(s, {}) = <<>>
<1>1. Cardinality({}) = 0
  BY FS_EmptySet
<1> QED
  BY <1>1 DEF ItemsAt

LEMMA ItemsOfOne ==
  ASSUME NEW S, NEW s \in Seq(S), NEW k \in DOMAIN s
  PROVE  ItemsAt(s, {k}) = <<s[k]>>
<1>1. Len(s) \in Nat /\ DOMAIN s = 1..Len(s)
  BY SeqFacts
<1>2. Cardinality({k}) = 1
  BY FS_Singleton
<1>3. Nth({k}, 1) \in {k}
  <2>1. {k} \in SUBSET (1..Len(s)) /\ 1 \in 1..Cardinality({k})
    BY <1>1, <1>2
  <2> QED
    BY <1>1, <2>1, NthFacts
<1>4. ItemsAt(s, {k}) = [n \in 1..1 |-> s[Nth({k}, n)]]
  BY <1>2 DEF ItemsAt
<1>5. \A n \in 1..1 : s[Nth({k}, n)] = s[k]
  BY <1>3
<1>6. ItemsAt(s, {k}) = [n \in 1..1 |-> s[k]]
  BY <1>4, <1>5
<1> QED
  BY <1>6

(* The records of a list of the adapter: one for each result that has a    *)
(* receipt, under the index of its transaction.                            *)
ReceiptedPlaces(results) == {i \in DOMAIN results : results[i].receipt # "NONE"}

Entry(results, kind, i, k) ==
  [transactionIndex |-> i - 1, source |-> k - 1, status |-> results[i][kind]]

Entries ==
  [transactionIndex : Int, source : Int,
   status : {"NONE", "SUCCESS", "FAILED", "NULL"}]

LEMMA EntryFields ==
  ASSUME NEW results, NEW kind, NEW i, NEW k
  PROVE  /\ Entry(results, kind, i, k).transactionIndex = i - 1
         /\ Entry(results, kind, i, k).source = k - 1
         /\ Entry(results, kind, i, k).status = results[i][kind]
BY DEF Entry

LEMMA ListedFacts ==
  ASSUME NEW results \in Seq(Result(Transaction)),
         NEW kind \in {"receipt", "outcome"}
  PROVE  LET list == Listed(results, kind)
             places == ReceiptedPlaces(results)
         IN  /\ list \in Seq(Entries)
             /\ DOMAIN list = 1..Cardinality(places)
             /\ \A k \in DOMAIN list :
                  /\ Nth(places, k) \in places
                  /\ list[k] = Entry(results, kind, Nth(places, k), k)
             /\ \A k, l \in DOMAIN list :
                  list[k].transactionIndex = list[l].transactionIndex => k = l
             /\ \A i \in places : \E k \in DOMAIN list : Nth(places, k) = i
<1> DEFINE list == Listed(results, kind)
           places == ReceiptedPlaces(results)
           n == Cardinality(places)
<1>1. /\ Len(results) \in Nat /\ DOMAIN results = 1..Len(results)
      /\ \A i \in DOMAIN results : results[i] \in Result(Transaction)
  BY SeqFacts
<1>2. places \in SUBSET (1..Len(results))
  BY <1>1 DEF ReceiptedPlaces
<1>3. n \in Nat
  BY <1>1, <1>2, PlacesFinite
<1>4. /\ \A k \in 1..n : Nth(places, k) \in places
      /\ \A k, l \in 1..n : k < l => Nth(places, k) < Nth(places, l)
      /\ \A i \in places : \E k \in 1..n : Nth(places, k) = i
  BY <1>1, <1>2, NthFacts
<1>5. list = [k \in 1..n |-> Entry(results, kind, Nth(places, k), k)]
  BY DEF Listed, Entry, ReceiptedPlaces
<1> HIDE DEF list, places, n
<1>6. \A i \in places : i \in DOMAIN results /\ i \in Nat
  BY <1>1, <1>2
<1>7. ASSUME NEW i \in places, NEW k \in 1..n
      PROVE  Entry(results, kind, i, k) \in Entries
  <2>1. results[i] \in Result(Transaction)
    BY <1>1, <1>6
  <2>2. results[i][kind] \in {"NONE", "SUCCESS", "FAILED", "NULL"}
    BY <2>1 DEF Result
  <2> QED
    BY <1>6, <2>2 DEF Entry, Entries
<1>8. \A k \in 1..n : list[k] = Entry(results, kind, Nth(places, k), k)
  BY <1>5
<1>9. list \in Seq(Entries) /\ DOMAIN list = 1..n
  BY <1>3, <1>4, <1>5, <1>7
<1>10. ASSUME NEW k \in 1..n, NEW l \in 1..n,
              list[k].transactionIndex = list[l].transactionIndex
       PROVE  k = l
  <2>1. Nth(places, k) \in Nat /\ Nth(places, l) \in Nat
    BY <1>4, <1>6
  <2>2. Nth(places, k) - 1 = Nth(places, l) - 1
    <3>1. \A j \in 1..n : list[j].transactionIndex = Nth(places, j) - 1
      BY <1>8, EntryFields
    <3> QED
      BY <1>10, <3>1
  <2>3. Nth(places, k) = Nth(places, l)
    BY <2>1, <2>2
  <2>4. k < l => Nth(places, k) < Nth(places, l)
    BY <1>4
  <2>5. l < k => Nth(places, l) < Nth(places, k)
    BY <1>4
  <2>6. k \in Int /\ l \in Int
    BY <1>3
  <2> QED
    BY <2>1, <2>3, <2>4, <2>5, <2>6
<1> QED
  BY <1>4, <1>8, <1>9, <1>10 DEF list, places, n

(* The page finds the one record of a transaction with a receipt, and none *)
(* for one without.                                                        *)
LEMMA RecordsFound ==
  ASSUME NEW results \in Seq(Result(Transaction)),
         NEW kind \in {"receipt", "outcome"}, NEW i \in DOMAIN results
  PROVE  LET list == Listed(results, kind)
             found == RecordsOf(list, i - 1)
         IN  /\ results[i].receipt = "NONE" => found = <<>>
             /\ results[i].receipt # "NONE" =>
                  \E k \in DOMAIN list :
                    /\ found = <<list[k]>>
                    /\ list[k] = Entry(results, kind, i, k)
<1> DEFINE list == Listed(results, kind)
           places == ReceiptedPlaces(results)
           hits == {k \in DOMAIN list : list[k].transactionIndex = i - 1}
<1>1. /\ list \in Seq(Entries)
      /\ \A k \in DOMAIN list :
           /\ Nth(places, k) \in places
           /\ list[k] = Entry(results, kind, Nth(places, k), k)
      /\ \A k, l \in DOMAIN list :
           list[k].transactionIndex = list[l].transactionIndex => k = l
      /\ \A j \in places : \E k \in DOMAIN list : Nth(places, k) = j
  BY ListedFacts
<1>2. RecordsOf(list, i - 1) = ItemsAt(list, hits)
  BY DEF RecordsOf
<1>3. /\ i \in Nat /\ \A j \in places : j \in DOMAIN results /\ j \in Nat
      /\ i \in places <=> results[i].receipt # "NONE"
      /\ \A j \in places : results[j].receipt # "NONE"
  BY SeqFacts DEF ReceiptedPlaces
<1> HIDE DEF list, places
<1>4. \A k \in DOMAIN list :
        list[k].transactionIndex = Nth(places, k) - 1
  BY <1>1 DEF Entry
<1>5. CASE results[i].receipt = "NONE"
  <2>1. \A k \in DOMAIN list : list[k].transactionIndex # i - 1
    BY <1>1, <1>3, <1>4, <1>5
  <2>2. hits = {}
    BY <2>1
  <2> HIDE DEF hits
  <2> QED
    BY <1>2, <1>5, <2>2, ItemsOfNone DEF list
<1>6. CASE results[i].receipt # "NONE"
  <2>1. PICK k \in DOMAIN list : Nth(places, k) = i
    BY <1>1, <1>3, <1>6
  <2>2. list[k].transactionIndex = i - 1
    BY <1>4, <2>1
  <2>3. hits = {k}
    BY <1>1, <2>2
  <2> HIDE DEF hits
  <2>4. ItemsAt(list, hits) = <<list[k]>>
    BY <1>1, <2>3, ItemsOfOne
  <2>5. list[k] = Entry(results, kind, i, k)
    BY <1>1, <2>1
  <2> QED
    BY <1>2, <1>6, <2>4, <2>5 DEF list
<1> QED
  BY <1>5, <1>6

LEMMA LedgerItems ==
  ASSUME NEW results \in Seq(Result(Transaction)), NEW model,
         model.transactions
           = [i \in DOMAIN results |-> TimelineTransaction(results, i)]
  PROVE  ToSet(LedgerReceipts(model)) = ToSet(Listed(results, "receipt"))
<1> DEFINE list == Listed(results, "receipt")
           parts == [i \in DOMAIN model.transactions |->
                       model.transactions[i].receipts]
           found(i) == RecordsOf(list, i - 1)
<1>1. /\ Len(results) \in Nat /\ DOMAIN results = 1..Len(results)
  BY SeqFacts
<1>2. parts = [i \in DOMAIN results |-> found(i)]
  BY DEF TimelineTransaction
<1>3. /\ list \in Seq(Entries)
      /\ \A k \in DOMAIN list : \E i \in DOMAIN results :
           /\ results[i].receipt # "NONE"
           /\ list[k] = Entry(results, "receipt", i, k)
      /\ \A k, l \in DOMAIN list :
           list[k].transactionIndex = list[l].transactionIndex => k = l
  <2>1. ReceiptedPlaces(results) \subseteq
          {i \in DOMAIN results : results[i].receipt # "NONE"}
    BY DEF ReceiptedPlaces
  <2> QED
    BY <2>1, ListedFacts
<1>4. \A i \in DOMAIN results :
        /\ results[i].receipt = "NONE" => found(i) = <<>>
        /\ results[i].receipt # "NONE" =>
             \E k \in DOMAIN list :
               /\ found(i) = <<list[k]>>
               /\ list[k] = Entry(results, "receipt", i, k)
  BY RecordsFound
<1>5. LedgerReceipts(model) = FlattenSeq(parts)
  BY DEF LedgerReceipts
<1> HIDE DEF list, parts, found
<1>6. \A k \in DOMAIN list : list[k] \in Entries
  BY <1>3, SeqFacts
<1>7. \A i \in DOMAIN results :
        /\ found(i) \in Seq(Entries)
        /\ ToSet(found(i)) \subseteq ToSet(list)
  <2> SUFFICES ASSUME NEW i \in DOMAIN results
               PROVE  /\ found(i) \in Seq(Entries)
                      /\ ToSet(found(i)) \subseteq ToSet(list)
    OBVIOUS
  <2>1. CASE results[i].receipt = "NONE"
    <3>1. ToSet(<<>>) = {} /\ <<>> \in Seq(Entries)
      BY DEF ToSet
    <3> QED
      BY <1>4, <2>1, <3>1
  <2>2. CASE results[i].receipt # "NONE"
    <3>1. PICK k \in DOMAIN list : found(i) = <<list[k]>>
      BY <1>4, <2>2
    <3>2. list[k] \in Entries /\ ToSet(<<list[k]>>) = {list[k]}
      BY <1>6 DEF ToSet
    <3> QED
      BY <3>1, <3>2 DEF ToSet
  <2> QED
    BY <2>1, <2>2
<1>8. \A k \in DOMAIN list : \E i \in DOMAIN results : list[k] \in ToSet(found(i))
  <2> SUFFICES ASSUME NEW k \in DOMAIN list
               PROVE  \E i \in DOMAIN results : list[k] \in ToSet(found(i))
    OBVIOUS
  <2>1. PICK i \in DOMAIN results :
          /\ results[i].receipt # "NONE"
          /\ list[k] = Entry(results, "receipt", i, k)
    BY <1>3
  <2>2. PICK l \in DOMAIN list :
          /\ found(i) = <<list[l]>>
          /\ list[l] = Entry(results, "receipt", i, l)
    BY <1>4, <2>1
  <2>3. list[k].transactionIndex = list[l].transactionIndex
    BY <2>1, <2>2 DEF Entry
  <2>4. k = l
    BY <1>3, <2>3
  <2>5. list[k] \in ToSet(<<list[l]>>)
    BY <2>4 DEF ToSet
  <2> QED
    BY <2>2, <2>5
<1>9. parts \in Seq(Seq(Entries)) /\ DOMAIN parts = DOMAIN results
      /\ \A i \in DOMAIN results : parts[i] = found(i)
  BY <1>1, <1>2, <1>7
<1>10. ToSet(FlattenSeq(parts)) = UNION {ToSet(parts[i]) : i \in DOMAIN parts}
  BY <1>9, FlattenItems
<1>11. UNION {ToSet(parts[i]) : i \in DOMAIN parts} = ToSet(list)
  <2>1. \A x \in ToSet(list) : \E i \in DOMAIN parts : x \in ToSet(parts[i])
    BY <1>8, <1>9 DEF ToSet
  <2>2. \A i \in DOMAIN parts : ToSet(parts[i]) \subseteq ToSet(list)
    BY <1>7, <1>9
  <2> QED
    BY <2>1, <2>2
<1> QED
  BY <1>5, <1>10, <1>11 DEF list

LEMMA FailedAreShown ==
  ASSUME NEW results \in Seq(Result(Transaction))
  PROVE  {e.source : e \in {x \in ToSet(Listed(results, "receipt")) :
                               x.status # "SUCCESS"}}
           = Statuses(results, "receipt").failed
<1> DEFINE list == Listed(results, "receipt")
           places == ReceiptedPlaces(results)
           receipted == ItemsAt(results, places)
           failed == {j \in DOMAIN receipted : receipted[j]["receipt"] # "SUCCESS"}
<1>1. Statuses(results, "receipt").failed = {i - 1 : i \in failed}
  BY Zenon DEF Statuses, Receipted, ReceiptedPlaces
<1>2. /\ DOMAIN list = 1..Cardinality(places)
      /\ \A k \in DOMAIN list :
           list[k] = Entry(results, "receipt", Nth(places, k), k)
  BY ListedFacts
<1>3. /\ DOMAIN receipted = 1..Cardinality(places)
      /\ \A k \in 1..Cardinality(places) :
           receipted[k] = results[Nth(places, k)]
  BY DEF ItemsAt
<1> HIDE DEF list, places, receipted
<1>4. \A k \in DOMAIN list :
        /\ list[k].source = k - 1
        /\ list[k].status = receipted[k]["receipt"]
  BY <1>2, <1>3 DEF Entry
<1>5. failed = {k \in DOMAIN list : list[k].status # "SUCCESS"}
  BY <1>2, <1>3, <1>4
<1>6. {e.source : e \in {x \in ToSet(list) : x.status # "SUCCESS"}}
        = {k - 1 : k \in {j \in DOMAIN list : list[j].status # "SUCCESS"}}
  BY <1>4 DEF ToSet
<1> QED
  BY <1>1, <1>5, <1>6 DEF list

(* What the page shows of one transaction.                                 *)
LEMMA ShownTransaction ==
  ASSUME NEW results \in Seq(Result(Transaction)), NEW i \in DOMAIN results
  PROVE  LET shown == TimelineTransaction(results, i)
             result == results[i]
             present == result.receipt # "NONE"
         IN  /\ shown.to = result.transaction.to
             /\ shown.warnings = result.warnings
             /\ present <=> shown.receipts # <<>>
             /\ present =>
                  /\ [k \in DOMAIN shown.receipts |-> shown.receipts[k].status]
                       = <<result.receipt>>
                  /\ [k \in DOMAIN shown.outcomes |-> shown.outcomes[k].status]
                       = <<result.outcome>>
<1> DEFINE shown == TimelineTransaction(results, i)
           result == results[i]
<1>1. /\ shown.to = result.transaction.to
      /\ shown.receipts = RecordsOf(Listed(results, "receipt"), i - 1)
      /\ shown.outcomes = RecordsOf(Listed(results, "outcome"), i - 1)
      /\ shown.warnings = {w[2] : w \in {v \in Warnings(results) : v[1] = i}}
  BY DEF TimelineTransaction
<1>2. shown.warnings = result.warnings
  <2>1. \A code : <<i, code>> \in Warnings(results) <=> code \in result.warnings
    BY DEF Warnings
  <2>2. \A v \in Warnings(results) : v[1] = i =>
          v[2] \in result.warnings
    BY DEF Warnings
  <2>3. \A code \in result.warnings :
          /\ <<i, code>> \in Warnings(results)
          /\ <<i, code>>[1] = i /\ <<i, code>>[2] = code
    BY <2>1
  <2> HIDE DEF shown, result
  <2>4. \A code \in result.warnings :
          \E v \in Warnings(results) : v[1] = i /\ v[2] = code
    BY <2>3
  <2> QED
    BY <1>1, <2>2, <2>4
<1>3. ASSUME NEW kind \in {"receipt", "outcome"}, NEW found,
             found = RecordsOf(Listed(results, kind), i - 1)
      PROVE  /\ result.receipt # "NONE" <=> found # <<>>
             /\ result.receipt # "NONE" =>
                  [k \in DOMAIN found |-> found[k].status] = <<result[kind]>>
  <2>1. CASE result.receipt = "NONE"
    BY <1>3, <2>1, RecordsFound
  <2>2. CASE result.receipt # "NONE"
    <3>1. PICK entry : found = <<entry>> /\ entry.status = result[kind]
      BY <1>3, <2>2, RecordsFound DEF Entry
    <3> QED
      BY <2>2, <3>1
  <2> QED
    BY <2>1, <2>2
<1> HIDE DEF shown, result
<1> QED
  BY <1>1, <1>2, <1>3 DEF shown, result

-----------------------------------------------------------------------------
(* Which selections are constructed: a selection out of one answer puts an *)
(* object in no more than the two places of one pair, and the table allows *)
(* both.                                                                   *)
LoneSelection(selection, c) ==
  /\ Answered(selection) = {c} /\ selection.selected = c
  /\ selection.outcomes[c].status = "ELIGIBLE"

LEMMA ObjectsByName ==
  ASSUME NEW c, NEW d, NEW name, NEW other, ObjectOf(c, name) = ObjectOf(d, other)
  PROVE  name = other
BY DEF ObjectOf

LEMMA PairsHoldOne ==
  /\ \A pair \in AnswerMirrors : AnswerObjects[pair[1]] = AnswerObjects[pair[2]]
  /\ \A m, n \in AnswerMirrors :
       AnswerObjects[m[1]] = AnswerObjects[n[1]] => m = n
  /\ \A path, other \in SelectedMirrors :
       NormalizedObjects[path] = NormalizedObjects[other] => path = other
  /\ \A m \in AnswerMirrors, path \in SelectedMirrors :
       AnswerObjects[m[1]] # NormalizedObjects[path]
<1>1. /\ AnswerObjects["operation.buildInfo"] = "MOSS_BUILD_INFO"
      /\ AnswerObjects[BuildInfoInside] = "MOSS_BUILD_INFO"
      /\ AnswerObjects["operation.mossOriginal.source"] = "SOURCE"
      /\ AnswerObjects["mossOriginal.source"] = "SOURCE"
      /\ AnswerObjects["operation.miniDemoDerived.source"] = "DERIVED_SOURCE"
      /\ AnswerObjects["miniDemoDerived.source"] = "DERIVED_SOURCE"
      /\ AnswerObjects["operation.mossOriginal.stub.risk"] = "RISK_LABELS"
      /\ AnswerObjects["operation.mossOriginal.riskLabels"] = "RISK_LABELS"
  BY DEF AnswerObjects, AnswerPaths, BuildInfoInside
<1>2. /\ NormalizedObjects["inputAsset"] = "REQUEST_INPUT_ASSET"
      /\ NormalizedObjects["outputAsset"] = "REQUEST_OUTPUT_ASSET"
      /\ NormalizedObjects["catalog"] = "CATALOG_IDENTITY"
      /\ NormalizedObjects["observableBlockWindow"] = "BLOCK_WINDOW"
      /\ NormalizedObjects["mossSource"] = "MOSS_SOURCE"
      /\ NormalizedObjects["rawQuote"] = "RAW_SNAPSHOT"
  BY DEF NormalizedObjects
<1>3. \A pair \in AnswerMirrors :
        \/ /\ pair = <<"operation.buildInfo", BuildInfoInside>>
           /\ AnswerObjects[pair[1]] = "MOSS_BUILD_INFO"
           /\ AnswerObjects[pair[2]] = "MOSS_BUILD_INFO"
        \/ /\ pair = <<"operation.mossOriginal.stub.risk",
                       "operation.mossOriginal.riskLabels">>
           /\ AnswerObjects[pair[1]] = "RISK_LABELS"
           /\ AnswerObjects[pair[2]] = "RISK_LABELS"
        \/ /\ pair = <<"operation.mossOriginal.source", "mossOriginal.source">>
           /\ AnswerObjects[pair[1]] = "SOURCE"
           /\ AnswerObjects[pair[2]] = "SOURCE"
        \/ /\ pair = <<"operation.miniDemoDerived.source",
                       "miniDemoDerived.source">>
           /\ AnswerObjects[pair[1]] = "DERIVED_SOURCE"
           /\ AnswerObjects[pair[2]] = "DERIVED_SOURCE"
  BY <1>1 DEF AnswerMirrors
<1>4. \A path \in SelectedMirrors :
        \/ path = "inputAsset" /\ NormalizedObjects[path] = "REQUEST_INPUT_ASSET"
        \/ path = "outputAsset" /\ NormalizedObjects[path] = "REQUEST_OUTPUT_ASSET"
        \/ path = "catalog" /\ NormalizedObjects[path] = "CATALOG_IDENTITY"
        \/ path = "observableBlockWindow" /\ NormalizedObjects[path] = "BLOCK_WINDOW"
        \/ path = "mossSource" /\ NormalizedObjects[path] = "MOSS_SOURCE"
        \/ path = "rawQuote" /\ NormalizedObjects[path] = "RAW_SNAPSHOT"
  BY <1>2 DEF SelectedMirrors
<1> HIDE DEF AnswerMirrors, SelectedMirrors, AnswerObjects, NormalizedObjects
<1>5. \A pair \in AnswerMirrors : AnswerObjects[pair[1]] = AnswerObjects[pair[2]]
  BY <1>3
<1>6. \A m, n \in AnswerMirrors :
       AnswerObjects[m[1]] = AnswerObjects[n[1]] => m = n
  BY <1>3
<1>7. \A path, other \in SelectedMirrors :
       NormalizedObjects[path] = NormalizedObjects[other] => path = other
  BY <1>4
<1>8. \A m \in AnswerMirrors, path \in SelectedMirrors :
       AnswerObjects[m[1]] # NormalizedObjects[path]
  BY <1>3, <1>4
<1> QED
  BY <1>5, <1>6, <1>7, <1>8

LEMMA LoneMirrors ==
  ASSUME NEW selection, NEW c, LoneSelection(selection, c)
  PROVE  /\ \A m \in Mirrored(selection) :
              \/ \E pair \in AnswerMirrors :
                   m = [owner |-> c, pair |-> pair,
                        object |-> ObjectOf(c, AnswerObjects[pair[1]])]
              \/ \E path \in SelectedMirrors :
                   m = [owner |-> c, pair |-> <<path, path>>,
                        object |-> ObjectOf(c, NormalizedObjects[path])]
         /\ \A pair \in AnswerMirrors :
              ObjectOf(c, AnswerObjects[pair[1]])
                \in {m.object : m \in Mirrored(selection)}
         /\ \A path \in SelectedMirrors :
              ObjectOf(c, NormalizedObjects[path])
                \in {m.object : m \in Mirrored(selection)}
<1> DEFINE first(pair) == [owner |-> c, pair |-> pair,
                           object |-> ObjectOf(c, AnswerObjects[pair[1]])]
           second(path) == [owner |-> c, pair |-> <<path, path>>,
                            object |-> ObjectOf(c, NormalizedObjects[path])]
<1>1. {m \in AnswerMirrors : AnswerObjects[m[1]] = AnswerObjects[m[2]]}
        = AnswerMirrors
  BY PairsHoldOne
<1>2. Mirrored(selection) = {first(pair) : pair \in AnswerMirrors}
                              \cup {second(path) : path \in SelectedMirrors}
  <2> DEFINE any(d, pair) == [owner |-> d, pair |-> pair,
                              object |-> ObjectOf(d, AnswerObjects[pair[1]])]
  <2>1. Mirrored(selection)
          = {any(d, pair) : d \in {c}, pair \in AnswerMirrors}
              \cup {second(path) : path \in SelectedMirrors}
    BY <1>1 DEF Mirrored, LoneSelection
  <2>2. \A pair : any(c, pair) = first(pair)
    OBVIOUS
  <2> HIDE DEF any, first, second
  <2>3. {any(d, pair) : d \in {c}, pair \in AnswerMirrors}
          = {first(pair) : pair \in AnswerMirrors}
    BY <2>2
  <2> QED
    BY <2>1, <2>3
<1>3. /\ \A pair : first(pair).object = ObjectOf(c, AnswerObjects[pair[1]])
      /\ \A path : second(path).object = ObjectOf(c, NormalizedObjects[path])
  OBVIOUS
<1> HIDE DEF first, second
<1>4. /\ \A pair \in AnswerMirrors : first(pair) \in Mirrored(selection)
      /\ \A path \in SelectedMirrors : second(path) \in Mirrored(selection)
      /\ \A m \in Mirrored(selection) :
           \/ \E pair \in AnswerMirrors : m = first(pair)
           \/ \E path \in SelectedMirrors : m = second(path)
  BY <1>2
<1> QED
  BY <1>3, <1>4, Zenon DEF first, second

LEMMA LoneMirroredOnce ==
  ASSUME NEW selection, NEW c, LoneSelection(selection, c)
  PROVE  MirroredOnce(selection)
<1> SUFFICES ASSUME NEW m \in Mirrored(selection),
                    NEW n \in Mirrored(selection), m.object = n.object
             PROVE  m = n
  BY DEF MirroredOnce
<1> DEFINE first(x, pair) ==
             x = [owner |-> c, pair |-> pair,
                  object |-> ObjectOf(c, AnswerObjects[pair[1]])]
           second(x, path) ==
             x = [owner |-> c, pair |-> <<path, path>>,
                  object |-> ObjectOf(c, NormalizedObjects[path])]
<1>1. \A x \in Mirrored(selection) :
        \/ \E pair \in AnswerMirrors : first(x, pair)
        \/ \E path \in SelectedMirrors : second(x, path)
  BY LoneMirrors
<1>2. /\ \A x, pair : first(x, pair) =>
           x.object = ObjectOf(c, AnswerObjects[pair[1]])
      /\ \A x, path : second(x, path) =>
           x.object = ObjectOf(c, NormalizedObjects[path])
      /\ \A x, y, pair : first(x, pair) /\ first(y, pair) => x = y
      /\ \A x, y, path : second(x, path) /\ second(y, path) => x = y
  OBVIOUS
<1> HIDE DEF first, second
<1>3. CASE \E pair \in AnswerMirrors : first(m, pair)
  <2>1. PICK pair \in AnswerMirrors : first(m, pair)
    BY <1>3
  <2>2. CASE \E other \in AnswerMirrors : first(n, other)
    <3>1. PICK other \in AnswerMirrors : first(n, other)
      BY <2>2
    <3>2. AnswerObjects[pair[1]] = AnswerObjects[other[1]]
      BY <1>2, <2>1, <3>1, ObjectsByName
    <3>3. pair = other
      BY <3>2, PairsHoldOne
    <3> QED
      BY <1>2, <2>1, <3>1, <3>3
  <2>3. CASE \E path \in SelectedMirrors : second(n, path)
    <3>1. PICK path \in SelectedMirrors : second(n, path)
      BY <2>3
    <3>2. AnswerObjects[pair[1]] = NormalizedObjects[path]
      BY <1>2, <2>1, <3>1, ObjectsByName
    <3> QED
      BY <3>2, PairsHoldOne
  <2> QED
    BY <1>1, <2>2, <2>3
<1>4. CASE \E path \in SelectedMirrors : second(m, path)
  <2>1. PICK path \in SelectedMirrors : second(m, path)
    BY <1>4
  <2>2. CASE \E pair \in AnswerMirrors : first(n, pair)
    <3>1. PICK pair \in AnswerMirrors : first(n, pair)
      BY <2>2
    <3>2. AnswerObjects[pair[1]] = NormalizedObjects[path]
      BY <1>2, <2>1, <3>1, ObjectsByName
    <3> QED
      BY <3>2, PairsHoldOne
  <2>3. CASE \E other \in SelectedMirrors : second(n, other)
    <3>1. PICK other \in SelectedMirrors : second(n, other)
      BY <2>3
    <3>2. NormalizedObjects[path] = NormalizedObjects[other]
      BY <1>2, <2>1, <3>1, ObjectsByName
    <3>3. path = other
      BY <3>2, PairsHoldOne
    <3> QED
      BY <1>2, <2>1, <3>1, <3>3
  <2> QED
    BY <1>1, <2>2, <2>3
<1> QED
  BY <1>1, <1>3, <1>4

(* The two places of a pair in an answer, and of a part of the quote.      *)
FirstPlace(c, pair) == Place(c, "answer", pair[1], AnswerObjects[pair[1]])

SecondPlace(c, pair) ==
  Place(IF pair[2] = BuildInfoInside THEN Nobody ELSE c, "answer", pair[2],
        AnswerObjects[pair[2]])

QuotePlace(c, part, path) == Place(c, part, path, NormalizedObjects[path])

LEMMA PlacesHold ==
  ASSUME NEW c
  PROVE  /\ \A pair \in AnswerMirrors :
              /\ FirstPlace(c, pair).object = ObjectOf(c, AnswerObjects[pair[1]])
              /\ SecondPlace(c, pair).object = ObjectOf(c, AnswerObjects[pair[1]])
         /\ \A part, path :
              QuotePlace(c, part, path).object
                = ObjectOf(c, NormalizedObjects[path])
<1>1. \A d, part, path, name : Place(d, part, path, name).object = ObjectOf(d, name)
  BY DEF Place
<1>2. ASSUME NEW pair \in AnswerMirrors
      PROVE  SecondPlace(c, pair).object = ObjectOf(c, AnswerObjects[pair[1]])
  <2>1. CASE pair[2] = BuildInfoInside
    <3>1. SecondPlace(c, pair).object
            = ObjectOf(Nobody, AnswerObjects[BuildInfoInside])
      BY <1>1, <2>1 DEF SecondPlace
    <3>2. /\ AnswerObjects[BuildInfoInside] = "MOSS_BUILD_INFO"
          /\ AnswerObjects[pair[1]] = "MOSS_BUILD_INFO"
      BY <2>1, PairsHoldOne
         DEF AnswerObjects, AnswerPaths, BuildInfoInside
    <3> QED
      BY <3>1, <3>2 DEF ObjectOf, Shared
  <2>2. CASE pair[2] # BuildInfoInside
    BY <1>1, <2>2, PairsHoldOne DEF SecondPlace
  <2> QED
    BY <2>1, <2>2
<1> QED
  BY <1>1, <1>2 DEF FirstPlace, QuotePlace

LEMMA LonePlaces ==
  ASSUME NEW selection, NEW c, LoneSelection(selection, c),
         NEW p \in Places(selection)
  PROVE  \/ \E pair \in AnswerMirrors :
              p = FirstPlace(c, pair) \/ p = SecondPlace(c, pair)
         \/ \E path \in SelectedMirrors :
              \/ p = QuotePlace(c, "normalized", path)
              \/ p = QuotePlace(c, "payload", path)
<1>1. Answered(selection) = {c} /\ selection.selected = c
  BY DEF LoneSelection
<1>2. \/ \E path \in DOMAIN AnswerObjects \ {BuildInfoInside} :
           p = Place(c, "answer", path, AnswerObjects[path])
      \/ p = Place(Nobody, "answer", BuildInfoInside,
                   AnswerObjects[BuildInfoInside])
      \/ \E path \in DOMAIN NormalizedObjects :
           \/ p = Place(c, "normalized", path, NormalizedObjects[path])
           \/ p = Place(c, "payload", path, NormalizedObjects[path])
  <2> DEFINE any(d, path) == Place(d, "answer", path, AnswerObjects[path])
             quoted(d, path) == Place(d, "normalized", path,
                                      NormalizedObjects[path])
             inside == Place(Nobody, "answer", BuildInfoInside,
                             AnswerObjects[BuildInfoInside])
             paid(path) == Place(c, "payload", path, NormalizedObjects[path])
             paths == DOMAIN AnswerObjects \ {BuildInfoInside}
             parts == DOMAIN NormalizedObjects
  <2>1. {d \in {c} : selection.outcomes[d].status = "ELIGIBLE"} = {c}
    BY DEF LoneSelection
  <2>2. Places(selection)
          = {any(d, path) : d \in {c}, path \in paths}
            \cup {inside : d \in {c}}
            \cup {quoted(d, path) : d \in {c}, path \in parts}
            \cup {paid(path) : path \in parts}
    BY <1>1, <2>1 DEF Places
  <2> HIDE DEF any, quoted, inside, paid, paths, parts
  <2>3. \/ \E path \in paths : p = any(c, path)
        \/ p = inside
        \/ \E path \in parts : p = quoted(c, path) \/ p = paid(path)
    BY <2>2
  <2> QED
    BY <2>3, Zenon DEF any, quoted, inside, paid, paths, parts
<1>3. DOMAIN NormalizedObjects = SelectedMirrors
  BY DEF NormalizedObjects, SelectedMirrors
<1>4. DOMAIN AnswerObjects \ {BuildInfoInside} =
        {"operation.buildInfo", "operation.mossOriginal.source",
         "mossOriginal.source", "operation.mossOriginal.stub.risk",
         "operation.mossOriginal.riskLabels",
         "operation.miniDemoDerived.source", "miniDemoDerived.source"}
  BY DEF AnswerObjects, AnswerPaths, BuildInfoInside
<1>5. \A path \in DOMAIN AnswerObjects \ {BuildInfoInside} :
        \E pair \in AnswerMirrors :
          path = pair[1] \/ (path = pair[2] /\ path # BuildInfoInside)
  <2>1. /\ <<"operation.buildInfo", BuildInfoInside>> \in AnswerMirrors
        /\ <<"operation.mossOriginal.stub.risk",
             "operation.mossOriginal.riskLabels">> \in AnswerMirrors
        /\ <<"operation.mossOriginal.source", "mossOriginal.source">>
             \in AnswerMirrors
        /\ <<"operation.miniDemoDerived.source", "miniDemoDerived.source">>
             \in AnswerMirrors
    BY DEF AnswerMirrors
  <2> HIDE DEF AnswerMirrors
  <2> QED
    BY <1>4, <2>1
<1>6. \E pair \in AnswerMirrors : pair[2] = BuildInfoInside
  BY DEF AnswerMirrors
<1> HIDE DEF AnswerMirrors, SelectedMirrors, AnswerObjects, NormalizedObjects
<1>7. CASE \E path \in DOMAIN AnswerObjects \ {BuildInfoInside} :
             p = Place(c, "answer", path, AnswerObjects[path])
  BY <1>5, <1>7, Zenon DEF FirstPlace, SecondPlace
<1>8. CASE p = Place(Nobody, "answer", BuildInfoInside,
                     AnswerObjects[BuildInfoInside])
  BY <1>6, <1>8, Zenon DEF SecondPlace
<1>9. CASE \E path \in DOMAIN NormalizedObjects :
             \/ p = Place(c, "normalized", path, NormalizedObjects[path])
             \/ p = Place(c, "payload", path, NormalizedObjects[path])
  BY <1>3, <1>9, Zenon DEF QuotePlace
<1> QED
  BY <1>2, <1>7, <1>8, <1>9, Zenon

LEMMA AtMostTwo ==
  ASSUME NEW S, NEW a, NEW b, S \subseteq {a, b}
  PROVE  Cardinality(S) \in Nat /\ Cardinality(S) <= 2
<1>1. /\ IsFiniteSet({a, b})
      /\ Cardinality({a, b}) \in Nat /\ Cardinality({a, b}) <= 2
  <2>1. CASE a = b
    <3>1. {a, b} = {a}
      BY <2>1
    <3>2. IsFiniteSet({a}) /\ Cardinality({a}) = 1
      BY FS_Singleton
    <3> QED
      BY <3>1, <3>2
  <2>2. CASE a # b
    <3>1. {a, b} = {a} \cup {b} /\ b \notin {a}
      BY <2>2
    <3>2. IsFiniteSet({a}) /\ Cardinality({a}) = 1
      BY FS_Singleton
    <3> QED
      BY <3>1, <3>2, FS_AddElement
  <2> QED
    BY <2>1, <2>2
<1>2. Cardinality(S) <= Cardinality({a, b}) /\ IsFiniteSet(S)
  BY <1>1, FS_Subset
<1> QED
  BY <1>1, <1>2, FS_CardinalityType

LEMMA LoneIsAllowed ==
  ASSUME NEW selection, NEW c, LoneSelection(selection, c),
         NEW p \in Places(selection)
  PROVE  Occurrences(selection, p.object)
           <= AllowedOccurrences(selection, p.object)
<1> DEFINE same == {q \in Places(selection) : q.object = p.object}
<1>1. Occurrences(selection, p.object) = Cardinality(same)
  BY DEF Occurrences
<1>2. CASE \E pair \in AnswerMirrors :
             p = FirstPlace(c, pair) \/ p = SecondPlace(c, pair)
  <2>1. PICK pair \in AnswerMirrors :
          p = FirstPlace(c, pair) \/ p = SecondPlace(c, pair)
    BY <1>2
  <2>2. p.object = ObjectOf(c, AnswerObjects[pair[1]])
    BY <2>1, PlacesHold
  <2>3. ASSUME NEW q \in same
        PROVE  q = FirstPlace(c, pair) \/ q = SecondPlace(c, pair)
    <3>1. q \in Places(selection) /\ q.object = p.object
      OBVIOUS
    <3>2. CASE \E other \in AnswerMirrors :
                 q = FirstPlace(c, other) \/ q = SecondPlace(c, other)
      <4>1. PICK other \in AnswerMirrors :
              q = FirstPlace(c, other) \/ q = SecondPlace(c, other)
        BY <3>2
      <4>2. q.object = ObjectOf(c, AnswerObjects[other[1]])
        BY <4>1, PlacesHold
      <4>3. AnswerObjects[pair[1]] = AnswerObjects[other[1]]
        BY <2>2, <3>1, <4>2, ObjectsByName
      <4>4. pair = other
        BY <4>3, PairsHoldOne
      <4> QED
        BY <4>1, <4>4
    <3>3. CASE \E path \in SelectedMirrors :
                 \/ q = QuotePlace(c, "normalized", path)
                 \/ q = QuotePlace(c, "payload", path)
      <4>1. PICK path \in SelectedMirrors :
              q.object = ObjectOf(c, NormalizedObjects[path])
        BY <3>3, PlacesHold
      <4>2. AnswerObjects[pair[1]] = NormalizedObjects[path]
        BY <2>2, <3>1, <4>1, ObjectsByName
      <4> QED
        BY <4>2, PairsHoldOne
    <3> QED
      BY <3>1, <3>2, <3>3, LonePlaces
  <2>4. same \subseteq {FirstPlace(c, pair), SecondPlace(c, pair)}
    BY <2>3
  <2> HIDE DEF same
  <2>5. Cardinality(same) <= 2
    BY <2>4, AtMostTwo
  <2>6. AllowedOccurrences(selection, p.object) = 2
    BY <2>2, LoneMirrors DEF AllowedOccurrences
  <2> QED
    BY <1>1, <2>5, <2>6
<1>3. CASE \E path \in SelectedMirrors :
             \/ p = QuotePlace(c, "normalized", path)
             \/ p = QuotePlace(c, "payload", path)
  <2>1. PICK path \in SelectedMirrors :
          \/ p = QuotePlace(c, "normalized", path)
          \/ p = QuotePlace(c, "payload", path)
    BY <1>3
  <2>2. p.object = ObjectOf(c, NormalizedObjects[path])
    BY <2>1, PlacesHold
  <2>3. ASSUME NEW q \in same
        PROVE  \/ q = QuotePlace(c, "normalized", path)
               \/ q = QuotePlace(c, "payload", path)
    <3>1. q \in Places(selection) /\ q.object = p.object
      OBVIOUS
    <3>2. CASE \E pair \in AnswerMirrors :
                 q = FirstPlace(c, pair) \/ q = SecondPlace(c, pair)
      <4>1. PICK pair \in AnswerMirrors :
              q.object = ObjectOf(c, AnswerObjects[pair[1]])
        BY <3>2, PlacesHold
      <4>2. AnswerObjects[pair[1]] = NormalizedObjects[path]
        BY <2>2, <3>1, <4>1, ObjectsByName
      <4> QED
        BY <4>2, PairsHoldOne
    <3>3. CASE \E other \in SelectedMirrors :
                 \/ q = QuotePlace(c, "normalized", other)
                 \/ q = QuotePlace(c, "payload", other)
      <4>1. PICK other \in SelectedMirrors :
              \/ q = QuotePlace(c, "normalized", other)
              \/ q = QuotePlace(c, "payload", other)
        BY <3>3
      <4>2. q.object = ObjectOf(c, NormalizedObjects[other])
        BY <4>1, PlacesHold
      <4>3. NormalizedObjects[path] = NormalizedObjects[other]
        BY <2>2, <3>1, <4>2, ObjectsByName
      <4>4. path = other
        BY <4>3, PairsHoldOne
      <4> QED
        BY <4>1, <4>4
    <3> QED
      BY <3>1, <3>2, <3>3, LonePlaces
  <2>4. same \subseteq {QuotePlace(c, "normalized", path),
                        QuotePlace(c, "payload", path)}
    BY <2>3
  <2> HIDE DEF same
  <2>5. Cardinality(same) <= 2
    BY <2>4, AtMostTwo
  <2>6. AllowedOccurrences(selection, p.object) = 2
    BY <2>2, LoneMirrors DEF AllowedOccurrences
  <2> QED
    BY <1>1, <2>5, <2>6
<1> QED
  BY <1>2, <1>3, LonePlaces

(* A selection with one answer is that of the protocol that was selected.  *)
LEMMA OneAnswerIsLone ==
  ASSUME NEW selection \in Selections, Cardinality(Answered(selection)) = 1
  PROVE  LoneSelection(selection, selection.selected)
<1> DEFINE c == selection.selected
           S == Answered(selection)
<1>1. /\ c \in S /\ selection.outcomes[c].status = "ELIGIBLE"
      /\ IsFiniteSet(DOMAIN selection.outcomes)
      /\ S \subseteq DOMAIN selection.outcomes
  BY SelectionsAssumption DEF Answered
<1> HIDE DEF c, S
<1>2. Cardinality(S) = 1
  BY DEF S
<1>3. IsFiniteSet(S)
  BY <1>1, FS_Subset
<1>4. S = {c}
  <2>1. \E x : S = {x}
    BY <1>2, <1>3, FS_Singleton
  <2> QED
    BY <1>1, <2>1
<1> QED
  BY <1>1, <1>4 DEF LoneSelection, c, S
-----------------------------------------------------------------------------
(* Where the values come from: the object is one of the source's trees     *)
(* from its return on, and the answer is one the simulator may give for a  *)
(* content it could read.                                                  *)
StageInv ==
  /\ intent \in Intents /\ policy \in Policies /\ at \in Points
  /\ quote \in {"NONE", "SELECTED", "NOT_SELECTED", "QUOTE_STAGE_TIMEOUT"}
  /\ collection \in Selections \cup {NoCollection}
  /\ collection # NoCollection => collection.selected \in intent.allowedProtocols
  /\ {capability, simulation} \subseteq
       {"NONE", "AVAILABLE", "FAILED", "MISSING"}

SimulationInv ==
  /\ at \in {"CONSTRUCT", "SIMULATE", "SIMULATING", "OBSERVING"} =>
       tree \in Trees
  /\ retained \in Trees \cup {NoTree}
  /\ executed \subseteq {Content(t) : t \in Trees}
  /\ answer \in Answers

(* The object and its copy differ only through changes, the copy is plain  *)
(* JSON, and nobody holds the object before the source returned it.        *)
TreeInv ==
  /\ {tree, snapshot} \subseteq Trees \cup {NoTree}
  /\ snapshot.form = "EXACT"
  /\ changes \in 0 .. MaxChanges
  /\ changes = 0 => tree = snapshot
  /\ changes = 1 => tree # snapshot
  /\ at \in {"QUOTES", "ACTION"} => changes = 0

(* A run that is projected lost no stage, or every stage after the lost    *)
(* one; and a tree is there only for a selection that could be constructed.*)
PhaseInv ==
  /\ at \in {"ACTION", "CONSTRUCT"} => quote = "SELECTED"
  /\ at \in {"SIMULATE", "SIMULATING", "OBSERVING"} =>
       quote = "SELECTED" /\ capability = "AVAILABLE"
  /\ at \in {"PROJECT", "DONE"} =>
       \/ /\ quote # "SELECTED"
          /\ capability = "MISSING" /\ simulation = "MISSING"
       \/ /\ quote = "SELECTED"
          /\ capability = "FAILED" /\ simulation = "MISSING"
       \/ /\ quote = "SELECTED" /\ capability = "AVAILABLE"
          /\ simulation \in {"AVAILABLE", "FAILED"}
  /\ at \in {"CONSTRUCT", "SIMULATE", "SIMULATING", "OBSERVING"} =>
       Constructible
  /\ at \in {"PROJECT", "DONE"} /\ capability = "AVAILABLE" => Constructible

(* A report is the end of the run: it is the projection of the stages as   *)
(* they still are, and the readers' tables allow its decision.             *)
Reported(r) ==
  /\ at = "DONE"
  /\ r.source = ProjectReport(Stages)
  /\ r.decision = EvaluateDecision(r.source)
  /\ ProjectionAccepted(Stages, EvmAddresses)
  /\ DecisionValid(r.source, r.decision)

ReportInv == (at = "DONE" => report # {}) /\ \A r \in report : Reported(r)

IInv == StageInv /\ SimulationInv /\ TreeInv /\ PhaseInv /\ ReportInv

LEMMA NoTreeIsTree == NoTree \in AnyTree
BY DEF NoTree, AnyTree, Tree, Forms

LEMMA TreesAreTrees ==
  ASSUME NEW t \in Trees \cup {NoTree}
  PROVE  t \in AnyTree
BY NoTreeIsTree, TreesAssumption DEF AnyTree

LEMMA InitIInv == Init => IInv
<1> SUFFICES ASSUME Init PROVE IInv
  OBVIOUS
<1>1. StageInv
  BY DEF Init, StageInv, Points
<1>2. SimulationInv
  <2>1. NoAnswer \in Answers
    BY DEF NoAnswer, Answers
  <2> QED
    BY <2>1 DEF Init, SimulationInv
<1>3. TreeInv
  BY BoundAssumption DEF Init, TreeInv, NoTree
<1>4. PhaseInv /\ ReportInv
  BY DEF Init, PhaseInv, ReportInv
<1> QED
  BY <1>1, <1>2, <1>3, <1>4 DEF IInv

(* Each step keeps where the values come from.                             *)
LEMMA StepStageInv == IInv /\ [Next]_vars => StageInv'
<1> SUFFICES ASSUME StageInv, [Next]_vars PROVE StageInv'
  BY DEF IInv
<1> USE DEF StageInv, Points
<1>2. CASE CollectQuotes
  BY <1>2 DEF CollectQuotes
<1>3. CASE LoseCapability
  BY <1>3 DEF LoseCapability
<1>4. CASE LoseSimulation
  BY <1>4 DEF LoseSimulation
<1>5. ASSUME NEW t \in Trees, ReturnTree(t) PROVE StageInv'
  BY <1>5 DEF ReturnTree, Fail, stageVars
<1>6. ASSUME NEW t \in Trees, Change(t) PROVE StageInv'
  BY <1>6 DEF Change, stageVars
<1>7. CASE Construct
  BY <1>7 DEF Construct, Fail, stageVars
<1>8. CASE BeginSimulation
  BY <1>8 DEF BeginSimulation, Fail, stageVars
<1>9. CASE Answer
  BY <1>9 DEF Answer, stageVars
<1>10. CASE Observe
  BY <1>10 DEF Observe
<1>11. CASE RefuseAnswer
  BY <1>11 DEF RefuseAnswer, Fail, stageVars
<1>12. CASE Project
  BY <1>12 DEF Project, stageVars
<1>13. CASE UNCHANGED vars
  BY <1>13 DEF vars, stageVars
<1>14. CASE PolicyThrows
  BY <1>14 DEF PolicyThrows, Fail, stageVars
<1>15. CASE RefuseSelection
  BY <1>15 DEF RefuseSelection, Fail, stageVars
<1>16. ASSUME NEW code, ActionFails(code) PROVE StageInv'
  BY <1>16 DEF ActionFails, Fail, stageVars
<1> QED
  BY <1>2, <1>3, <1>4, <1>5, <1>6, <1>7, <1>8, <1>9, <1>10, <1>11, <1>12,
     <1>13, <1>14, <1>15, <1>16 DEF Next

LEMMA StepSimulationInv == IInv /\ [Next]_vars => SimulationInv'
<1> SUFFICES ASSUME SimulationInv, {tree} \subseteq Trees \cup {NoTree},
                    [Next]_vars
             PROVE  SimulationInv'
  BY DEF IInv, TreeInv
<1> USE DEF SimulationInv
<1>1. ASSUME UNCHANGED <<tree, simulationVars>>,
             at' \in {"CONSTRUCT", "SIMULATE", "SIMULATING", "OBSERVING"} =>
               at \in {"CONSTRUCT", "SIMULATE", "SIMULATING", "OBSERVING"}
      PROVE  SimulationInv'
  BY <1>1 DEF simulationVars
<1>2. CASE CollectQuotes
  BY <1>1, <1>2 DEF CollectQuotes, treeVars
<1>3. CASE LoseCapability
  BY <1>1, <1>3 DEF LoseCapability, treeVars
<1>4. CASE LoseSimulation
  BY <1>1, <1>4 DEF LoseSimulation, treeVars
<1>5. ASSUME NEW t \in Trees, ReturnTree(t) PROVE SimulationInv'
  BY <1>5 DEF ReturnTree, Fail, treeVars, simulationVars
<1>6. ASSUME NEW t \in Trees, Change(t) PROVE SimulationInv'
  BY <1>6 DEF Change
<1>7. CASE Construct
  BY <1>1, <1>7 DEF Construct, Fail, treeVars
<1>8. CASE BeginSimulation
  <2>1. tree' = tree /\ tree \in Trees /\ UNCHANGED answer
    BY <1>8 DEF BeginSimulation, treeVars
  <2>2. /\ executed' = {Content(tree)} \/ executed' = executed
        /\ retained' = tree \/ retained' = retained
    BY <1>8 DEF BeginSimulation
  <2> QED
    BY <2>1, <2>2
<1>9. CASE Answer
  <2>1. UNCHANGED <<tree, executed, retained>> /\ at = "SIMULATING"
    BY <1>9 DEF Answer, treeVars
  <2>2. answer' \in Answers
    <3>1. PICK c \in executed : answer' \in Simulations(c)
      BY <1>9 DEF Answer
    <3>2. PICK t \in Trees : c = Content(t)
      OBVIOUS
    <3> QED
      BY <3>1, <3>2, TreesAssumption
  <2> QED
    BY <2>1, <2>2
<1>10. CASE Observe
  BY <1>10 DEF Observe, treeVars
<1>11. CASE RefuseAnswer
  BY <1>1, <1>11 DEF RefuseAnswer, Fail, treeVars
<1>12. CASE Project
  BY <1>1, <1>12 DEF Project, treeVars
<1>13. CASE UNCHANGED vars
  BY <1>1, <1>13 DEF vars, treeVars
<1>14. CASE PolicyThrows
  BY <1>1, <1>14 DEF PolicyThrows, Fail, treeVars
<1>15. CASE RefuseSelection
  BY <1>1, <1>15 DEF RefuseSelection, Fail, treeVars
<1>16. ASSUME NEW code, ActionFails(code) PROVE SimulationInv'
  BY <1>1, <1>16 DEF ActionFails, Fail, treeVars
<1> QED
  BY <1>2, <1>3, <1>4, <1>5, <1>6, <1>7, <1>8, <1>9, <1>10, <1>11, <1>12,
     <1>13, <1>14, <1>15, <1>16 DEF Next

(* Only ReturnTree and Change touch the object and its copy.               *)
LEMMA StepTreeInv == IInv /\ [Next]_vars => TreeInv'
<1> SUFFICES ASSUME IInv, [Next]_vars PROVE TreeInv'
  OBVIOUS
<1> USE DEF IInv, TreeInv
<1>1. ASSUME at' \notin {"QUOTES", "ACTION"} \/ changes = 0,
             UNCHANGED treeVars
      PROVE  TreeInv'
  BY <1>1 DEF treeVars
<1>2. CASE CollectQuotes
  BY <1>1, <1>2 DEF CollectQuotes
<1>3. CASE LoseCapability
  BY <1>1, <1>3 DEF LoseCapability
<1>4. CASE LoseSimulation
  BY <1>1, <1>4 DEF LoseSimulation
<1>5. ASSUME NEW t \in Trees, ReturnTree(t) PROVE TreeInv'
  <2>1. CASE IsJsonExact(t)
    BY <1>5, <2>1 DEF ReturnTree, IsJsonExact
  <2>2. CASE ~IsJsonExact(t)
    BY <1>1, <1>5, <2>2 DEF ReturnTree, Fail
  <2> QED
    BY <2>1, <2>2
<1>6. ASSUME NEW t \in Trees, Change(t) PROVE TreeInv'
  <2>1. t # tree /\ tree' = t /\ changes' = changes + 1
        /\ UNCHANGED <<snapshot, at>>
    BY <1>6 DEF Change
  <2>2. at \notin {"QUOTES", "ACTION"}
    BY <1>6 DEF Change
  <2>3. changes + 1 \in 0 .. MaxChanges
    BY <1>6, BoundAssumption DEF Change
  <2> QED
    BY <2>1, <2>2, <2>3
<1>7. CASE Construct
  BY <1>1, <1>7 DEF Construct, Fail
<1>8. CASE BeginSimulation
  BY <1>1, <1>8 DEF BeginSimulation, Fail
<1>9. CASE Answer
  BY <1>1, <1>9 DEF Answer
<1>10. CASE Observe
  BY <1>1, <1>10 DEF Observe
<1>11. CASE RefuseAnswer
  BY <1>1, <1>11 DEF RefuseAnswer, Fail
<1>12. CASE Project
  BY <1>1, <1>12 DEF Project
<1>13. CASE UNCHANGED vars
  BY <1>1, <1>13 DEF vars, treeVars
<1>14. CASE PolicyThrows
  BY <1>1, <1>14 DEF PolicyThrows, Fail
<1>15. CASE RefuseSelection
  BY <1>1, <1>15 DEF RefuseSelection, Fail
<1>16. ASSUME NEW code, ActionFails(code) PROVE TreeInv'
  BY <1>1, <1>16 DEF ActionFails, Fail
<1> QED
  BY <1>2, <1>3, <1>4, <1>5, <1>6, <1>7, <1>8, <1>9, <1>10, <1>11, <1>12,
     <1>13, <1>14, <1>15, <1>16 DEF Next

(* The stages follow one another, and what was selected stays.             *)
LEMMA StepPhaseInv == IInv /\ [Next]_vars => PhaseInv'
<1> SUFFICES ASSUME PhaseInv, [Next]_vars PROVE PhaseInv'
  BY DEF IInv
<1> USE DEF PhaseInv, Constructible
<1>1. ASSUME at' = "ERROR" PROVE PhaseInv'
  BY <1>1
<1>2. CASE CollectQuotes
  BY <1>2 DEF CollectQuotes
<1>3. CASE LoseCapability
  BY <1>3 DEF LoseCapability
<1>4. CASE LoseSimulation
  BY <1>4 DEF LoseSimulation
<1>5. ASSUME NEW t \in Trees, ReturnTree(t) PROVE PhaseInv'
  <2>1. CASE IsJsonExact(t)
    BY <1>5, <2>1 DEF ReturnTree, stageVars
  <2>2. CASE ~IsJsonExact(t)
    BY <1>1, <1>5, <2>2 DEF ReturnTree, Fail
  <2> QED
    BY <2>1, <2>2
<1>6. ASSUME NEW t \in Trees, Change(t) PROVE PhaseInv'
  BY <1>6 DEF Change, stageVars
<1>7. CASE Construct
  <2>1. CASE at' = "ERROR"
    BY <1>1, <2>1
  <2>2. CASE at' # "ERROR"
    BY <1>7, <2>2 DEF Construct, Fail
  <2> QED
    BY <2>1, <2>2
<1>8. CASE BeginSimulation
  <2>1. CASE at' = "ERROR"
    BY <1>1, <2>1
  <2>2. CASE at' # "ERROR"
    BY <1>8, <2>2 DEF BeginSimulation, Fail, stageVars
  <2> QED
    BY <2>1, <2>2
<1>9. CASE Answer
  BY <1>9 DEF Answer, stageVars
<1>10. CASE Observe
  BY <1>10 DEF Observe
<1>11. CASE RefuseAnswer
  BY <1>1, <1>11 DEF RefuseAnswer, Fail
<1>12. CASE Project
  <2>1. CASE at' = "ERROR"
    BY <1>1, <2>1
  <2>2. CASE at' # "ERROR"
    <3>1. at = "PROJECT" /\ at' = "DONE"
          /\ UNCHANGED <<intent, policy, stageVars>>
      BY <1>12, <2>2 DEF Project
    <3> QED
      BY <3>1 DEF stageVars
  <2> QED
    BY <2>1, <2>2
<1>13. CASE UNCHANGED vars
  BY <1>13 DEF vars, stageVars
<1>14. CASE PolicyThrows
  BY <1>1, <1>14 DEF PolicyThrows, Fail
<1>15. CASE RefuseSelection
  BY <1>1, <1>15 DEF RefuseSelection, Fail
<1>16. ASSUME NEW code, ActionFails(code) PROVE PhaseInv'
  <2>1. CASE at' = "ERROR"
    BY <1>1, <2>1
  <2>2. CASE at' # "ERROR"
    BY <1>16, <2>2 DEF ActionFails, Fail
  <2> QED
    BY <2>1, <2>2
<1> QED
  BY <1>2, <1>3, <1>4, <1>5, <1>6, <1>7, <1>8, <1>9, <1>10, <1>11, <1>12,
     <1>13, <1>14, <1>15, <1>16 DEF Next

(* Nothing a report is made of changes once it is there.                   *)
LEMMA StepReportInv == IInv /\ [Next]_vars => ReportInv'
<1> SUFFICES ASSUME ReportInv, [Next]_vars PROVE ReportInv'
  BY DEF IInv
<1>1. ASSUME at # "DONE", at' # "DONE", UNCHANGED report PROVE ReportInv'
  BY <1>1 DEF ReportInv, Reported
<1>2. CASE CollectQuotes
  BY <1>1, <1>2 DEF CollectQuotes
<1>3. CASE LoseCapability
  BY <1>1, <1>3 DEF LoseCapability
<1>4. CASE LoseSimulation
  BY <1>1, <1>4 DEF LoseSimulation
<1>5. ASSUME NEW t \in Trees, ReturnTree(t) PROVE ReportInv'
  BY <1>1, <1>5 DEF ReturnTree, Fail
<1>6. ASSUME NEW t \in Trees, Change(t) PROVE ReportInv'
  BY <1>1, <1>6 DEF Change
<1>7. CASE Construct
  BY <1>1, <1>7 DEF Construct, Fail
<1>8. CASE BeginSimulation
  BY <1>1, <1>8 DEF BeginSimulation, Fail
<1>9. CASE Answer
  BY <1>1, <1>9 DEF Answer
<1>10. CASE Observe
  BY <1>1, <1>10 DEF Observe
<1>11. CASE RefuseAnswer
  BY <1>1, <1>11 DEF RefuseAnswer, Fail
<1>12. CASE Project
  <2>1. CASE at' = "ERROR"
    BY <1>1, <1>12, <2>1 DEF Project
  <2>2. CASE at' # "ERROR"
    <3> DEFINE source == ProjectReport(Stages)
               decision == EvaluateDecision(source)
               made == [source |-> source, decision |-> decision]
    <3>1. /\ at' = "DONE" /\ report' = {made}
          /\ DecisionValid(source, decision)
          /\ ProjectionAccepted(Stages, EvmAddresses)
      BY <1>12, <2>2 DEF Project
    <3>2. UNCHANGED <<intent, policy, quote, capability, simulation, tree,
                      snapshot, answer, retained, pre, post>>
      BY <1>12 DEF Project, stageVars, treeVars, simulationVars
    <3>3. Stages' = Stages
      BY <3>2 DEF Stages
    <3>4. /\ made.source = source /\ made.decision = decision
          /\ decision = EvaluateDecision(source)
      OBVIOUS
    <3> HIDE DEF made, source, decision
    <3>5. ASSUME NEW r \in report' PROVE Reported(r)'
      <4>1. r = made
        BY <3>1
      <4>2. r.source = ProjectReport(Stages)'
        BY <3>3, <3>4, <4>1 DEF source
      <4>3. ProjectionAccepted(Stages, EvmAddresses)'
        BY <3>1, <3>3, Zenon
      <4> QED
        BY <3>1, <3>4, <4>1, <4>2, <4>3 DEF Reported
    <3>6. report' # {}
      BY <3>1
    <3> QED
      BY <3>5, <3>6 DEF ReportInv
  <2> QED
    BY <2>1, <2>2
<1>13. CASE UNCHANGED vars
  <2>1. UNCHANGED <<intent, policy, at, report, quote, capability, simulation,
                    tree, snapshot, answer, retained, pre, post>>
    BY <1>13 DEF vars, stageVars, treeVars, simulationVars
  <2>2. Stages' = Stages
    BY <2>1 DEF Stages
  <2>3. \A r \in report : Reported(r)'
    BY <2>1, <2>2 DEF ReportInv, Reported
  <2> QED
    BY <2>1, <2>3 DEF ReportInv
<1>14. CASE PolicyThrows
  BY <1>1, <1>14 DEF PolicyThrows, Fail
<1>15. CASE RefuseSelection
  BY <1>1, <1>15 DEF RefuseSelection, Fail
<1>16. ASSUME NEW code, ActionFails(code) PROVE ReportInv'
  BY <1>1, <1>16 DEF ActionFails, Fail
<1> QED
  BY <1>2, <1>3, <1>4, <1>5, <1>6, <1>7, <1>8, <1>9, <1>10, <1>11, <1>12,
     <1>13, <1>14, <1>15, <1>16 DEF Next

LEMMA IInvHolds == Spec => []IInv
<1>1. IInv /\ [Next]_vars => IInv'
  BY StepStageInv, StepSimulationInv, StepTreeInv, StepPhaseInv,
     StepReportInv DEF IInv
<1> QED
  BY <1>1, InitIInv, PTL DEF Spec

-----------------------------------------------------------------------------
LEMMA IsEnded ==
  ASSUME IInv, at \in {"PROJECT", "DONE"}
  PROVE  Ended(Stages)
BY DEF IInv, PhaseInv, Ended, Selected, Stages

(* What a reviewed report says of the state it was projected from.         *)
LEMMA ReviewedAllowed ==
  ASSUME IInv, Reviewed
  PROVE  /\ ManualReviewAllowed(ProjectReport(Stages))
         /\ tree \in AnyTree /\ snapshot \in AnyTree /\ retained \in AnyTree
         /\ snapshot.form = "EXACT" /\ answer \in Answers
<1>1. PICK r \in report : r.decision.status = "MANUAL_REVIEW"
  BY DEF Reviewed
<1>2. ManualReviewAllowed(r.source) /\ r.source = ProjectReport(Stages)
  BY <1>1 DEF IInv, ReportInv, Reported, DecisionValid
<1> QED
  BY <1>2, TreesAreTrees DEF IInv, TreeInv, SimulationInv

LEMMA ReviewedTree ==
  ASSUME IInv, Reviewed
  PROVE  TreeSupported
<1>1. /\ quote = "SELECTED" /\ simulation = "AVAILABLE"
      /\ VerifyCurrentIntegrity(tree, snapshot)
      /\ AsExpected(policy, snapshot) /\ ApprovalProven(tree)
  BY ReviewedAllowed, AllowedMeansSupported DEF Stages
<1>2. tree = snapshot
  BY <1>1, ReviewedAllowed, IntegrityMeansEqual
<1> QED
  BY <1>1, <1>2 DEF TreeSupported

LEMMA ReviewedResults ==
  ASSUME IInv, Reviewed
  PROVE  ResultsSupported
<1> DEFINE results == answer.results
           moved == {r.transaction : r \in {s \in ToSet(results) :
                                             s.transaction.value # 0}}
<1>1. /\ Stages.evidence = MapMossEvidence(answer, retained, pre, post)
      /\ Stages.tree = tree /\ Stages.snapshot = snapshot
      /\ Stages.policy = policy
  BY DEF Stages
<1>2. /\ Len(results) = Len(retained.transactions)
      /\ Len(results) = Len(snapshot.transactions)
      /\ \A i \in DOMAIN results : Recorded(results[i])
      /\ Len(results) > 1 => ~answer.halted
      /\ {results[i].transaction.to : i \in DOMAIN results} = policy.targets
      /\ \A i \in DOMAIN results : results[i].transaction.value # 0 =>
           results[i].transaction \in ToSet(tree.transactions)
  BY <1>1, ReviewedAllowed, AllowedMeansClean
<1> HIDE DEF results
<1>3. {r.transaction.to : r \in ToSet(results)}
        = {results[i].transaction.to : i \in DOMAIN results}
  BY DEF ToSet
<1>4. moved \subseteq ToSet(tree.transactions)
  BY <1>2 DEF ToSet
<1>5. {r.transaction.to : r \in ToSet(results)} = policy.targets
  BY <1>2, <1>3
<1> QED
  BY <1>2, <1>4, <1>5, Zenon DEF ResultsSupported, results

(* Whatever trees a source may turn one into, and whenever it does: a run  *)
(* whose tree was changed once is never reviewed (source-bindings.ts and   *)
(* preflight-projection.ts compare the digests).                           *)
THEOREM ChangeIsCaught == Spec => []OneChangeIsCaught
<1>1. IInv => OneChangeIsCaught
  BY ReviewedTree DEF IInv, TreeInv, TreeSupported, OneChangeIsCaught
<1> QED
  BY <1>1, IInvHolds, PTL

(* MANUAL_REVIEW of a LIVE run rests on a selected quote, an available     *)
(* simulation, the tree that was returned, unchanged and as the policy     *)
(* expects it, and on the simulator's own results: one for every           *)
(* transaction of the tree, each receipted, successful, complete and       *)
(* without a warning, to the targets of the policy and moving no native    *)
(* asset the tree does not move (preflight-projection.ts, alignment.ts,    *)
(* evidence-mapper.ts and the tables of the stop policy).                  *)
THEOREM ReviewRestsOnEvidence == Spec => []ReviewIsSupported
<1>1. IInv => ReviewIsSupported
  BY ReviewedTree, ReviewedResults DEF ReviewIsSupported, Supported
<1> QED
  BY <1>1, IInvHolds, PTL

(* Every value keeps its type, and the lists of a report are well formed:  *)
(* they index their failed items, and no check appears twice.              *)
THEOREM TypesHold == Spec => []TypeOK
<1>1. ASSUME IInv, NEW r \in report
      PROVE  r.source.checks # {} /\ WellFormed(r.source)
  <2>1. r.source = ProjectReport(Stages)
    BY <1>1 DEF IInv, ReportInv, Reported
  <2>2. Stages.evidence.results \in Seq(Result(Transaction))
    BY <1>1 DEF IInv, SimulationInv, Answers, Stages, MapMossEvidence
  <2> QED
    BY <2>1, <2>2, ReportsAreWellFormed
<1>2. IInv => TypeOK
  BY <1>1, Zenon DEF IInv, StageInv, SimulationInv, TreeInv, TypeOK
<1> QED
  BY <1>2, IInvHolds, PTL

(* Whatever a check of a report cites resolves in the report that carries  *)
(* it, whichever stages the run lost, so that validateSourceReferences     *)
(* never refuses the report (alignment.ts, preflight-projection.ts).       *)
THEOREM ReferencesAlwaysResolve == Spec => []ReferencesResolve
<1>1. ASSUME IInv, NEW r \in report, NEW check \in r.source.checks
      PROVE  check.sourceReferences \subseteq DOMAIN Document(Stages)
  <2>1. r.source.checks = {EvaluateCheck(AlignmentInput(Stages), id) :
                             id \in CheckIds}
    BY <1>1, ReportedChecks DEF IInv, ReportInv, Reported
  <2>2. PICK id \in CheckIds : check = EvaluateCheck(AlignmentInput(Stages), id)
    BY <2>1
  <2>3. check.sourceReferences = ReferenceList(AlignmentInput(Stages), id)
    BY <2>2 DEF EvaluateCheck
  <2> QED
    BY <2>3, CitedIsThere
<1>2. IInv => ReferencesResolve
  BY <1>1, Zenon DEF ReferencesResolve
<1> QED
  BY <1>2, IInvHolds, PTL

(* Every path that the projection builds for a fact is one that the table  *)
(* of another package accepts for the check, and holds what the fact       *)
(* claims, whichever stages the run lost; only the approval of a tree      *)
(* whose approve nodes cannot be read rests on no fact                     *)
(* (preflight-projection.ts, source-references.ts).                        *)
THEOREM FactsAlwaysAccepted == Spec => []FactsAreAccepted
<1> DEFINE input == AlignmentInput(Stages)
<1>1. ASSUME IInv, at = "PROJECT", NEW check \in CheckIds,
             NEW role \in FactRolesOf(input, check)
      PROVE  \/ FactValid(input, check, role)
             \/ /\ check \in {"approvalSpender", "approvalAmount"}
                /\ HasCapability(Stages) /\ ~ApprovalProven(tree)
  <2>1. Ended(Stages)
    BY <1>1, IsEnded
  <2>2. Unreadable(Stages)
          <=> HasCapability(Stages) /\ ~ApprovalProven(tree)
    BY DEF Unreadable, Stages
  <2> QED
    BY <1>1, <2>1, <2>2, FactsAccepted
<1> HIDE DEF input
<1>2. IInv => FactsAreAccepted
  BY <1>1, Zenon DEF FactsAreAccepted, input
<1> QED
  BY <1>2, IInvHolds, PTL

(* The spender that the approval amount cites besides its own evidence is  *)
(* none of the leaves, availabilities or intent paths of that check.       *)
LEMMA SpenderIsRefused ==
  ASSUME NEW path,
         path = <<"capability", "raw", "context", "approvalSpenderObserved">>
  PROVE  ~OutputReferenceRelevant("approvalAmount", path)
<1> DEFINE check == "approvalAmount"
<1>1. Len(path) = 4 /\ path[1] = "capability"
  OBVIOUS
<1>2. Last(path) = "approvalSpenderObserved"
  BY <1>1 DEF Last
<1>3. ASSUME NEW role PROVE ~RawRelevant(check, role, path)
  <2>1. ~FromQuote(check, role) /\ ~FromSimulation(check, role)
    BY DEF FromQuote, FromSimulation, SimulationChecks
  <2>2. Last(path) \notin CapabilityLeaves[check]
    BY <1>2 DEF CapabilityLeaves
  <2> QED
    BY <2>1, <2>2, Zenon DEF RawRelevant
<1>4. ~AvailabilityRelevant(check, path)
  BY <1>1 DEF AvailabilityRelevant, JointChecks, SimulationChecks
<1>5. ~IsPrefix(<<"intent", "inputAmount">>, path)
  <2> DEFINE head == <<"intent", "inputAmount">>
             S == {"intent", "inputAmount", "capability", "raw", "context",
                   "approvalSpenderObserved"}
  <2>1. head \in Seq(S) /\ path \in Seq(S) /\ Len(head) = 2
        /\ head[1] = "intent"
    OBVIOUS
  <2> HIDE DEF head, S
  <2>2. SubSeq(head, 1, 2)[1] = "intent" /\ SubSeq(path, 1, 2)[1] = "capability"
    <3>1. head[1] \in S /\ head[2] \in S /\ path[1] \in S /\ path[2] \in S
      BY <1>1, <2>1, SeqFacts
    <3> QED
      BY <1>1, <2>1, <3>1, SubSeqProperties
  <2>3. ~IsPrefix(head, path)
    BY <2>1, <2>2 DEF IsPrefix
  <2> QED
    BY <2>3 DEF head
<1>6. IntentPrefixes(check) = {<<"intent", "inputAmount">>}
  BY DEF IntentPrefixes
<1> HIDE DEF check
<1>7. ~OutputReferenceRelevant(check, path)
  BY <1>3, <1>4, <1>5, <1>6, Zenon DEF OutputReferenceRelevant
<1> QED
  BY <1>7 DEF check

LEMMA SpenderIsCited ==
  ASSUME NEW stages, Ended(stages), HasCapability(stages),
         ApprovalProven(stages.tree)
  PROVE  <<"capability", "raw", "context", "approvalSpenderObserved">>
           \in CollectedReferences(AlignmentInput(stages), "approvalAmount")
<1> DEFINE input == AlignmentInput(stages)
           fact == <<"approvalSpender", "observed">>
           path == <<"capability", "raw", "context", "approvalSpenderObserved">>
<1>1. ~Unreadable(stages)
  BY DEF Unreadable
<1>2. Fact(input, "approvalSpender", "observed").sourceReference = path
  <2>1. Fact(input, "approvalSpender", "observed")
          = CapabilityFact(stages, "approvalSpenderObserved")
    BY <1>1, FactsOfCapability DEF CapabilityChecks, ObservedKey
  <2> QED
    BY <2>1 DEF CapabilityFact, FactFrom, AvailableFact, HasCapability
<1>3. FactValid(input, "approvalSpender", "observed")
  <2>1. "observed" \in FactRolesOf(input, "approvalSpender")
    BY RolesOfFacts
  <2> QED
    BY <1>1, <2>1, FactsAccepted DEF CheckIds, CapabilityChecks
<1>4. fact \in CitedFacts(input, "approvalAmount")
  BY DEF CitedFacts
<1>5. fact[1] = "approvalSpender" /\ fact[2] = "observed"
  OBVIOUS
<1> HIDE DEF input, fact, path
<1>6. fact \in {f \in CitedFacts(input, "approvalAmount") :
                 FactValid(input, f[1], f[2])}
  BY <1>3, <1>4, <1>5
<1>7. path \in {Fact(input, f[1], f[2]).sourceReference :
                 f \in {g \in CitedFacts(input, "approvalAmount") :
                         FactValid(input, g[1], g[2])}}
  BY <1>2, <1>5, <1>6
<1>8. path \in CollectedReferences(input, "approvalAmount")
  BY <1>7, Zenon DEF CollectedReferences
<1> QED
  BY <1>8 DEF input, path

(* The branch that alignment.ts:355 calls unreachable is taken for every   *)
(* capability that was constructed and whose approvals can be read: the    *)
(* approval amount then cites no evidence, but the availability of the     *)
(* capability and the amount of the intent (alignment.ts,                  *)
(* source-references.ts).                                                  *)
THEOREM ApprovalAmountFallsBack == Spec => []FallbackIsTaken
<1> DEFINE input == AlignmentInput(Stages)
           check == "approvalAmount"
           collected == CollectedReferences(input, check)
<1>1. ASSUME IInv, at = "PROJECT", HasCapability(Stages), ApprovalProven(tree)
      PROVE  ~OutputReferencesValid(input.document, check, collected)
  <2>1. Ended(Stages) /\ ApprovalProven(Stages.tree)
    BY <1>1, IsEnded DEF Stages
  <2>2. PICK path \in collected : ~OutputReferenceRelevant(check, path)
    BY <1>1, <2>1, SpenderIsCited, SpenderIsRefused
  <2> HIDE DEF input, check, collected
  <2> QED
    BY <2>2, Zenon DEF OutputReferencesValid
<1>2. ~OutputReferencesValid(input.document, check, collected)
        => ReferenceList(input, check) = FallbackReferences(check)
  BY Zenon DEF ReferenceList
<1> HIDE DEF input, check, collected
<1>3. IInv => FallbackIsTaken
  BY <1>1, <1>2, Zenon DEF FallbackIsTaken, input, check, collected
<1> QED
  BY <1>3, IInvHolds, PTL

(* A run that was supported, and whose report was assembled, ended clean.  *)
LEMMA SupportedIsClean ==
  ASSUME IInv, at = "DONE", Supported
  PROVE  CleanStages(Stages)
<1> DEFINE evidence == Stages.evidence
           results == answer.results
<1>1. /\ Stages.intent = intent /\ Stages.policy = policy
      /\ Stages.quote = quote /\ Stages.capability = capability
      /\ Stages.simulation = simulation
      /\ Stages.tree = tree /\ Stages.snapshot = snapshot
      /\ evidence = MapMossEvidence(answer, retained, pre, post)
      /\ evidence.results = results
  BY DEF Stages, MapMossEvidence
<1> HIDE DEF evidence
<1>2. /\ Selected(Stages) /\ HasCapability(Stages) /\ HasSimulation(Stages)
      /\ capability = "AVAILABLE"
  BY <1>1 DEF IInv, PhaseInv, Supported, TreeSupported, Selected,
              HasCapability, HasSimulation
<1>3. /\ tree \in AnyTree /\ retained \in AnyTree /\ tree = snapshot
      /\ snapshot.form = "EXACT" /\ AsExpected(policy, tree)
      /\ ApprovalProven(tree) /\ answer \in Answers
  BY TreesAreTrees DEF IInv, TreeInv, SimulationInv, Supported, TreeSupported
<1>4. intent.inputAmount \in Nat \ {0} /\ intent.maxSlippageBps \in Nat
  BY IntentsAssumption DEF IInv, StageInv
<1>5. policy.protocolId \in intent.allowedProtocols
  <2>1. Constructible
    BY <1>2 DEF IInv, PhaseInv
  <2>2. collection # NoCollection
    BY <2>1 DEF Constructible, ConstructionAccepted, SelectionAccepted,
                NoCollection
  <2>3. collection.selected \in intent.allowedProtocols
    BY <2>2 DEF IInv, StageInv
  <2> QED
    BY <2>1, <2>3 DEF Constructible, ConstructionAccepted, Associated
<1>6. /\ Len(results) = Len(retained.transactions)
      /\ Len(results) = Len(snapshot.transactions)
      /\ \A i \in DOMAIN results : Recorded(results[i])
      /\ Len(results) > 1 => ~answer.halted
      /\ {r.transaction.to : r \in ToSet(results)} = policy.targets
      /\ {r.transaction : r \in {s \in ToSet(results) :
                                   s.transaction.value # 0}}
           \subseteq ToSet(tree.transactions)
  BY Zenon DEF Supported, ResultsSupported
<1>7. results \in Seq(Result(Transaction))
  BY <1>3 DEF Answers
<1>8. ProjectionAccepted(Stages, EvmAddresses)
  BY DEF IInv, ReportInv, Reported
<1>9. evidence.stateContinuity # "UNPROVABLE"
  BY <1>2, <1>8, AcceptedContinuity DEF evidence
<1>10. /\ evidence.receiptCoverage = "PROVEN" /\ evidence.ordering = "PROVEN"
       /\ evidence.stateContinuity \in {"PROVEN", "NOT_APPLICABLE"}
       /\ Len(results) # 0
  <2>1. /\ answer \in Answers /\ retained \in AnyTree
        /\ evidence = MapMossEvidence(answer, retained, pre, post)
        /\ evidence.stateContinuity # "UNPROVABLE"
        /\ Len(answer.results) = Len(retained.transactions)
        /\ \A i \in DOMAIN answer.results : Recorded(answer.results[i])
        /\ Len(answer.results) > 1 => ~answer.halted
    BY <1>1, <1>3, <1>6, <1>9, Zenon
  <2> QED
    BY ONLY <2>1, EvidenceOfClean DEF results
<1> HIDE DEF results
<1>11. {results[i].transaction.to : i \in DOMAIN results} = policy.targets
  <2>1. {r.transaction.to : r \in ToSet(results)}
          = {results[i].transaction.to : i \in DOMAIN results}
    BY DEF ToSet
  <2> QED
    BY <1>6, <2>1
<1>12. \A i \in DOMAIN results : results[i].transaction.value # 0 =>
         results[i].transaction \in ToSet(tree.transactions)
  <2>1. \A i \in DOMAIN results : results[i] \in ToSet(results)
    BY DEF ToSet
  <2> QED
    BY <1>6, <2>1
<1> QED
  BY <1>1, <1>2, <1>3, <1>4, <1>5, <1>6, <1>7, <1>10, <1>11, <1>12, Zenon
     DEF CleanStages, evidence

(* And no check, list, flag or path stops a run whose tree is unchanged    *)
(* and expected and whose results are complete and clean: the engine, the  *)
(* readers' table and the facts agree that it is reviewed                  *)
(* (preflight-projection.ts, alignment.ts, evaluate.ts).                   *)
THEOREM CleanIsNeverStopped == Spec => []CleanRunIsReviewed
<1>1. ASSUME IInv, at = "DONE", Supported
      PROVE  Reviewed
  <2>1. EvaluateDecision(ProjectReport(Stages)).status = "MANUAL_REVIEW"
    BY <1>1, SupportedIsClean, CleanIsReviewed
  <2>2. PICK r \in report : r.decision = EvaluateDecision(ProjectReport(Stages))
    BY <1>1 DEF IInv, ReportInv, Reported
  <2> QED
    BY <2>1, <2>2 DEF Reviewed
<1>2. IInv => CleanRunIsReviewed
  BY <1>1 DEF CleanRunIsReviewed, CleanRun
<1> QED
  BY <1>2, IInvHolds, PTL

(* The page shows every transaction with its own receipt, outcome and      *)
(* warnings and no other's, however many transactions have no receipt, and *)
(* as failed those that the projection counted as failed                   *)
(* (evidence-model.ts, preflight-projection.ts).                           *)
THEOREM TimelineIsShown == Spec => []TimelineIsFaithful
<1> DEFINE results == answer.results
           Faithful(r) ==
             LET shown == Timeline(r).transactions
                 ledger == LedgerReceipts(Timeline(r))
             IN  /\ Len(shown) = Len(results)
                 /\ \A i \in DOMAIN shown :
                      LET result == results[i]
                          present == result.receipt # "NONE"
                      IN  /\ shown[i].to = result.transaction.to
                          /\ shown[i].warnings = result.warnings
                          /\ present = (shown[i].receipts # <<>>)
                          /\ present =>
                               /\ [k \in DOMAIN shown[i].receipts |->
                                      shown[i].receipts[k].status]
                                    = <<result.receipt>>
                               /\ [k \in DOMAIN shown[i].outcomes |->
                                      shown[i].outcomes[k].status]
                                    = <<result.outcome>>
                 /\ r.source.simulation.receipts.failed =
                      {e.source : e \in {x \in ToSet(ledger) :
                                           x.status # "SUCCESS"}}
<1>1. ASSUME IInv, NEW r \in report, simulation = "AVAILABLE"
      PROVE  Faithful(r)
  <2> DEFINE model == Timeline(r)
             shown == model.transactions
  <2>1. results \in Seq(Result(Transaction))
    BY <1>1 DEF IInv, SimulationInv, Answers
  <2>2. r.source.simulation = AvailableSimulation(Stages.evidence)
    BY <1>1 DEF IInv, ReportInv, Reported, ProjectReport, ProjectSimulation,
                HasSimulation, Stages
  <2>3. /\ r.source.simulation.availability = "AVAILABLE"
        /\ r.source.simulation.receipts = Statuses(results, "receipt")
    BY <2>2 DEF AvailableSimulation, Stages, MapMossEvidence
  <2>4. shown = [i \in DOMAIN results |-> TimelineTransaction(results, i)]
    BY <2>3 DEF Timeline, EvidenceTimelineModel
  <2>5. ToSet(LedgerReceipts(model)) = ToSet(Listed(results, "receipt"))
    BY <2>1, <2>4, LedgerItems
  <2>6. r.source.simulation.receipts.failed =
          {e.source : e \in {x \in ToSet(LedgerReceipts(model)) :
                               x.status # "SUCCESS"}}
    BY <2>1, <2>3, <2>5, FailedAreShown
  <2>7. DOMAIN shown = DOMAIN results /\ Len(shown) = Len(results)
    <3>1. Len(results) \in Nat /\ DOMAIN results = 1..Len(results)
      BY <2>1, SeqFacts
    <3> QED
      BY <2>4, <3>1
  <2>8. \A i \in DOMAIN results : shown[i] = TimelineTransaction(results, i)
    BY <2>4
  <2> HIDE DEF results, model, shown
  <2>9. ASSUME NEW i \in DOMAIN shown
        PROVE  LET result == results[i]
                   present == result.receipt # "NONE"
               IN  /\ shown[i].to = result.transaction.to
                   /\ shown[i].warnings = result.warnings
                   /\ present = (shown[i].receipts # <<>>)
                   /\ present =>
                        /\ [k \in DOMAIN shown[i].receipts |->
                               shown[i].receipts[k].status]
                             = <<result.receipt>>
                        /\ [k \in DOMAIN shown[i].outcomes |->
                               shown[i].outcomes[k].status]
                             = <<result.outcome>>
    BY <2>1, <2>7, <2>8, ShownTransaction
  <2> QED
    BY <2>6, <2>7, <2>9, Zenon DEF model, shown
<1>2. IInv => TimelineIsFaithful
  BY <1>1, Zenon DEF TimelineIsFaithful
<1> QED
  BY <1>2, IInvHolds, PTL

LEMMA LoneSelectionIsAccepted ==
  ASSUME NEW selection \in Selections, Values(selection) = {"PLAIN"},
         selection.provenance = "SYNTHETIC_TEST",
         Cardinality(Answered(selection)) = 1
  PROVE  SelectionAccepted(selection)
<1>1. LoneSelection(selection, selection.selected)
  BY OneAnswerIsLone
<1>2. MirroredOnce(selection)
  BY <1>1, LoneMirroredOnce
<1>3. \A p \in Places(selection) :
        Occurrences(selection, p.object)
          <= AllowedOccurrences(selection, p.object)
  BY <1>1, LoneIsAllowed
<1>4. "OPEN" \notin Values(selection) /\ "REPEATED" \notin Values(selection)
  OBVIOUS
<1>5. selection.outcomes[selection.selected].status = "ELIGIBLE"
  BY <1>1 DEF LoneSelection
<1> QED
  BY <1>2, <1>3, <1>4, <1>5, Zenon DEF SelectionAccepted

(* capability.ts counts the places of every object it is given and refuses *)
(* a selection that has one too often: a sound selection out of one answer *)
(* is never refused, whatever candidates were asked beside it.             *)
THEOREM LoneAnswerIsTaken == Spec => []LoneAnswerIsConstructed
<1>1. ASSUME StageInv, SelectionSound, Cardinality(Answered(collection)) = 1
      PROVE  Constructible
  <2>1. collection \in Selections
    <3>1. Values(NoCollection) = {}
      BY DEF Values, Answered, NoCollection
    <3> QED
      BY <1>1, <3>1 DEF StageInv, SelectionSound
  <2>2. SelectionAccepted(collection)
    BY <1>1, <2>1, LoneSelectionIsAccepted DEF SelectionSound
  <2> QED
    BY <1>1, <2>2 DEF SelectionSound, Constructible, ConstructionAccepted
<1>2. IInv => LoneAnswerIsConstructed
  BY <1>1 DEF IInv, LoneAnswerIsConstructed
<1> QED
  BY <1>2, IInvHolds, PTL

================================================================================
