---------------------------- MODULE MCLivePreflight ----------------------------
(* A swap of the native asset, one call of the router, and a swap of a     *)
(* token, approved first; both with the ways a tree or a simulation may    *)
(* differ from what was expected.                                          *)
EXTENDS LivePreflight

CONSTANT MaxDeviations   \* how far a tree and its simulation are from clean

Intent(given) ==
  [account |-> "account", inputAsset |-> "in", outputAsset |-> "out",
   inputAmount |-> 1, maxSlippageBps |-> 1, allowedProtocols |-> {"protocol", "rival"},
   recipientGiven |-> given,
   recipient |-> IF given THEN "recipient" ELSE "account"]

MCIntents == {Intent(given) : given \in BOOLEAN}

Policy(targets, transactions, capabilities) ==
  [protocolId |-> "protocol", catalog |-> "catalog",
   inputAsset |-> "in", outputAsset |-> "out", targets |-> targets,
   transactionNodes |-> transactions, capabilityNodes |-> capabilities]

MCPolicies == {Policy({"router"}, 1, 1), Policy({"token", "router"}, 2, 2)}

(* Policies that cannot be followed, or belong to another run.             *)
AllPolicies ==
  LET policy0 == Policy({"router"}, 1, 1)
  IN  MCPolicies
      \cup {[policy0 EXCEPT !.capabilityNodes = 0],
            [policy0 EXCEPT !.catalog = "older"],
            [policy0 EXCEPT !.protocolId = "rival"],
            [policy0 EXCEPT !.outputAsset = "in"]}

(* The protocol was selected; the rival may have answered as well, or not. *)
NoAnswerOf == [status |-> "NO_ANSWER", value |-> "NONE"]
Outcomes ==
  {NoAnswerOf} \cup [status : {"ELIGIBLE", "INELIGIBLE"},
                     value : {"PLAIN", "REPEATED", "OPEN"}]

MCSelections ==
  {[selected |-> "protocol", catalog |-> "catalog", provenance |-> p,
    outcomes |-> "protocol" :> [status |-> "ELIGIBLE", value |-> v]
                 @@ "rival" :> rival] :
     p \in {"SYNTHETIC_TEST", "SERVER_CONFIGURED"},
     v \in {"PLAIN", "REPEATED", "OPEN"}, rival \in Outcomes}

SoundSelections ==
  {s \in MCSelections : Values(s) = {"PLAIN"}
                         /\ s.provenance = "SYNTHETIC_TEST"}

Call(to, value) == [to |-> to, value |-> value]

NativeSwap ==
  [transactions |-> <<Call("router", 1)>>, capabilityNodes |-> 1,
   approvals |-> <<>>, carries |-> "THE_INTENT", observable |-> TRUE,
   form |-> "EXACT"]

TokenSwap ==
  [NativeSwap EXCEPT !.transactions = <<Call("token", 0), Call("router", 0)>>,
                     !.capabilityNodes = 2, !.approvals = <<"router">>]

MCTrees ==
  {NativeSwap, TokenSwap}
  \cup {[NativeSwap EXCEPT !.form = form] : form \in Forms}
  \cup {[NativeSwap EXCEPT !.observable = FALSE],
        [NativeSwap EXCEPT !.carries = "ANOTHER"],
        [NativeSwap EXCEPT !.transactions = <<>>],
        [NativeSwap EXCEPT !.transactions = Append(@, Call("router", 1))],
        [TokenSwap EXCEPT !.transactions = Append(@, Call("other", 1))],
        [TokenSwap EXCEPT !.approvals = <<"MALFORMED">>],
        [TokenSwap EXCEPT !.approvals = <<"router", "other">>]}

(* Fewer of both, for runs in which the tree changes.                      *)
OneIntent == {Intent(FALSE)}
FewTrees == {t \in MCTrees : t.transactions \notin {<<>>, TokenSwap.transactions}
                              \/ t = TokenSwap}

CleanResult(transaction) ==
  [transaction |-> transaction, reverted |-> FALSE, receipt |-> "SUCCESS",
   outcome |-> "SUCCESS", changes |-> "RECEIPTED", warnings |-> {}]

Other(transaction) == {Call("other", 1), Call("lower", 0)} \ {transaction}

Deviate(answer0) ==
  LET results == answer0.results
      withResult(i, alternatives) ==
        {[answer0 EXCEPT !.results[i] = r] : r \in alternatives}
      alternatives(r) ==
        {[r EXCEPT !.transaction = t] : t \in Other(r.transaction)}
        \cup {[r EXCEPT !.reverted = TRUE]}
        \cup {[r EXCEPT !.receipt = status] : status \in {"NONE", "FAILED"}}
        \cup {[r EXCEPT !.outcome = status] : status \in {"FAILED", "NULL"}}
        \cup {[r EXCEPT !.changes = c] : c \in {"NONE", "OTHER"}}
        \cup {[r EXCEPT !.warnings = @ \cup {code}] : code \in WarningCodes}
  IN  UNION {withResult(i, alternatives(results[i])) : i \in DOMAIN results}
      \cup {[answer0 EXCEPT !.halted = TRUE]}
      \cup (IF results = <<>> THEN {}
            ELSE {[answer0 EXCEPT !.results = Front(@)]})

CleanAnswer(t) ==
  [results |-> [i \in DOMAIN t.transactions |-> CleanResult(t.transactions[i])],
   halted |-> FALSE]

MCSimulations(t) ==
  LET d[n \in 0 .. MaxDeviations] ==
        IF n = 0 THEN {CleanAnswer(t)}
        ELSE d[n - 1] \cup UNION {Deviate(a) : a \in d[n - 1]}
  IN  d[IF t \in {NativeSwap, TokenSwap} \/ MaxDeviations = 0
        THEN MaxDeviations ELSE MaxDeviations - 1]

(* Trees that change and simulations that deviate are explored apart.      *)
Apart ==
  changes > 0 => /\ intent \in OneIntent
                 /\ {tree, snapshot} \subseteq FewTrees \cup {NoTree}
                 /\ answer \in {NoAnswer} \cup {CleanAnswer(t) : t \in FewTrees}

MCNext == Next /\ Apart'

MCSpec == Init /\ [][MCNext]_vars

Paths == Seq(STRING)

=============================================================================
