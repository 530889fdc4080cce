----------------------------- MODULE MossEvidence -----------------------------
(***************************************************************************)
(* What the adapter derives from a Capability Tree and from a simulation   *)
(* of it (packages/moss-adapter/src/integrity.ts and evidence-mapper.ts).  *)
(* A tree is its transactions in order, its approve nodes, the number of   *)
(* its capability nodes, the intent its calldata carries out, whether      *)
(* observeCapability can read it, and the form of the JavaScript object    *)
(* that holds it.  A transaction is its target and its native value.       *)
(***************************************************************************)
EXTENDS Integers, FiniteSets, SequencesExt, Subsequences

(* EXACT: plain JSON.  FROZEN: the same, deeply frozen.  HIDDEN: with a    *)
(* property JSON does not show.                                            *)
Forms == {"EXACT", "FROZEN", "HIDDEN"}

Tree(Transactions) ==
  [transactions : Seq(Transactions), capabilityNodes : Nat,
   approvals : Seq(STRING), carries : {"THE_INTENT", "ANOTHER"},
   observable : BOOLEAN, form : Forms]

IsJsonExact(tree) == tree.form = "EXACT"

(* The RFC 8785 digest stands for the tree without its form; {} is null.   *)
Content(tree) == [tree EXCEPT !.form = "EXACT"]
CurrentDigest(tree) == IF IsJsonExact(tree) THEN {Content(tree)} ELSE {}

(* postSimulationCapabilityDigestV0_1 also reads a deeply frozen tree.     *)
PostSimulationDigest(tree) ==
  IF tree.form = "FROZEN" THEN {Content(tree)} ELSE CurrentDigest(tree)

Targets(transactions) == {t.to : t \in ToSet(transactions)}

(* observeCapability's count of transactions, 0 when it cannot read the    *)
(* tree: both leave the results without a number to be compared with.      *)
ExpectedTransactions(tree) ==
  IF tree.observable THEN Len(tree.transactions) ELSE 0

(* nativeMovements: transactions that move the native asset.               *)
NativeMovements(transactions) ==
  ItemsAt(transactions,
          {i \in DOMAIN transactions : transactions[i].value # 0})

-----------------------------------------------------------------------------
(* The answer of the simulator: a result per transaction it ran, and       *)
(* whether it halted.  A result has the transaction, whether it reverted,  *)
(* the status of its receipt and of the outcome in it, whether the changes *)
(* are those of the receipt's leaves, and the codes of its warnings.       *)
WarningCodes ==
  {"REVERTED", "TRACE_FAILED", "CHANGE_ORDER_UNAVAILABLE", "RECEIPT_FAILED",
   "CHANGE_COVERAGE_MISMATCH", "STATE_CHAIN_FAILED"}

Result(Transactions) ==
  [transaction : Transactions, reverted : BOOLEAN,
   receipt : {"NONE", "SUCCESS", "FAILED"},
   outcome : {"SUCCESS", "FAILED", "NULL"},
   changes : {"NONE", "RECEIPTED", "OTHER"}, warnings : SUBSET WarningCodes]

Warnings(results) ==
  UNION {{<<i, code>> : code \in results[i].warnings} : i \in DOMAIN results}

Warned(results, code) == \E w \in Warnings(results) : w[2] = code

Receipted(results) ==
  ItemsAt(results, {i \in DOMAIN results : results[i].receipt # "NONE"})

(* Slip: a receipt is enough, whatever its leaves are.                     *)
AllHaveReceipts(results) ==
  \A i \in DOMAIN results : results[i].receipt # "NONE"

(* Every transaction has a receipt whose leaves are exactly its changes.   *)
AllReceipted(results) ==
  \A i \in DOMAIN results :
    results[i].receipt # "NONE" /\ results[i].changes = "RECEIPTED"

ReceiptCoverage(results, expected) ==
  CASE expected < 1 -> "UNPROVABLE"
    [] expected >= 1
       /\ Len(results) = expected
       /\ ~Warned(results, "CHANGE_COVERAGE_MISMATCH")
       /\ AllReceipted(results) -> "PROVEN"
    [] OTHER -> "FAILED"

Ordering(results, expected) ==
  CASE expected < 1 -> "UNPROVABLE"
    [] expected >= 1
       /\ (Len(results) # expected
           \/ Warned(results, "CHANGE_ORDER_UNAVAILABLE")) -> "FAILED"
    [] OTHER ->
         IF \E i \in DOMAIN results :
              results[i].receipt = "NONE" \/ results[i].changes = "NONE"
         THEN "UNPROVABLE"
         ELSE IF AllReceipted(results) THEN "PROVEN" ELSE "FAILED"

StateContinuity(results, expected, halted) ==
  CASE expected = 1 -> "NOT_APPLICABLE"
    [] expected < 1 -> "UNPROVABLE"
    [] OTHER -> IF /\ Len(results) = expected
                   /\ ~halted
                   /\ ~Warned(results, "STATE_CHAIN_FAILED")
                THEN "PROVEN" ELSE "FAILED"

(* The digests taken before and after the simulation.                      *)
CapabilityIntegrity(pre, post) ==
  CASE pre = {} \/ post = {} -> "UNPROVABLE"
    [] OTHER -> IF pre = post THEN "PROVEN" ELSE "FAILED"

(* mapMossEvidenceV0_1.                                                    *)
MapMossEvidence(simulation, retained, pre, post) ==
  LET expected == ExpectedTransactions(retained)
      results == simulation.results
  IN  [results |-> results,
       receiptCoverage |-> ReceiptCoverage(results, expected),
       ordering |-> Ordering(results, expected),
       stateContinuity |->
         StateContinuity(results, expected, simulation.halted),
       capabilityIntegrity |-> CapabilityIntegrity(pre, post)]

=============================================================================
