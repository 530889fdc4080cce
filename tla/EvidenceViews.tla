----------------------------- MODULE EvidenceViews -----------------------------
(***************************************************************************)
(* What the page makes of the simulation in a report                       *)
(* (apps/web/src/client/evidence-model.ts and                              *)
(* components/evidence-timeline.tsx): not the lists the projection derived *)
(* but the ones the adapter mapped, which it joins again by the index each *)
(* record carries.                                                         *)
(***************************************************************************)
EXTENDS PreflightProjection

(* mapMossEvidenceV0_1's lists of receipts and outcomes: a record for each *)
(* result that has a receipt, with the index of its transaction.  source   *)
(* is its place in the list, which the page cites.                         *)
Listed(results, kind) ==
  LET receipted == {i \in DOMAIN results : results[i].receipt # "NONE"}
  IN  [k \in 1 .. Cardinality(receipted) |->
         [transactionIndex |-> Nth(receipted, k) - 1, source |-> k - 1,
          status |-> results[Nth(receipted, k)][kind]]]

(* Slip: a record belongs to the transaction at its own place in the list. *)
RecordsByPlace(list, transactionIndex) ==
  ItemsAt(list, {k \in DOMAIN list : list[k].source = transactionIndex})

RecordsOf(list, transactionIndex) ==
  ItemsAt(list,
          {k \in DOMAIN list : list[k].transactionIndex = transactionIndex})

(* evidenceTimelineModel: the transactions in the order of their indices.  *)
(* A simulation with results needs no fallback on the projected lists, and *)
(* one without has none.                                                   *)
TimelineTransaction(results, i) ==
  [to |-> results[i].transaction.to, value |-> results[i].transaction.value,
   receipts |-> RecordsOf(Listed(results, "receipt"), i - 1),
   outcomes |-> RecordsOf(Listed(results, "outcome"), i - 1),
   warnings |-> {w[2] : w \in {v \in Warnings(results) : v[1] = i}}]

Shown(component) == IF component.holds THEN "TRUE" ELSE "FALSE"

EvidenceTimelineModel(simulation, results) ==
  IF simulation.availability = "AVAILABLE"
  THEN [availability |-> "AVAILABLE",
        executionStatus |-> simulation.executionStatus,
        transactions |->
          [i \in DOMAIN results |-> TimelineTransaction(results, i)],
        statuses |-> [Coverage |-> Shown(simulation.coverage),
                      Ordering |-> Shown(simulation.ordering),
                      Continuity |-> Shown(simulation.stateContinuity)]]
  ELSE [availability |-> simulation.availability,
        executionStatus |-> simulation.availability,
        transactions |-> <<>>,
        statuses |-> [stage \in {"Coverage", "Ordering", "Continuity"} |->
                        simulation.availability]]

(* EvidenceTimeline: the status under the receipt ledger.                  *)
LedgerReceipts(model) ==
  FlattenSeq([i \in DOMAIN model.transactions |->
                model.transactions[i].receipts])

LedgerStatus(model) ==
  LET receipts == LedgerReceipts(model)
  IN  IF receipts = <<>> THEN "NOT PRESENT"
      ELSE IF \A k \in DOMAIN receipts : receipts[k].status = "SUCCESS"
      THEN "SUCCESS" ELSE Head(receipts).status

=============================================================================
