------------------------------- MODULE Alignment -------------------------------
(***************************************************************************)
(* evaluateAlignmentV0_1 (packages/preflight-core/src/alignment.ts): the   *)
(* eighteen critical checks that compare the intent with what the          *)
(* capability and the simulation show.  input.observations[check][role] is *)
(* the fact a check rests on in that role: an available value or a gap,    *)
(* with the path of its evidence; input.document resolves those paths;     *)
(* input.simulation is the public evidence of the report.                  *)
(***************************************************************************)
EXTENDS SourceReferences

(* Every fact of the checks that use it, by role.                          *)
Fact(input, check, role) == input.observations[check][role]
FactRolesOf(input, check) == DOMAIN input.observations[check]

FactValid(input, check, role) ==
  FactReferenceValid(input.document, check, role, Fact(input, check, role))

(* assessment: a fact counts when it is available and its reference holds. *)
Counts(input, check, role) ==
  /\ FactValid(input, check, role)
  /\ Fact(input, check, role).availability = "AVAILABLE"

AllCount(input, check) ==
  \A role \in FactRolesOf(input, check) : Counts(input, check, role)

Value(input, check, role) == Fact(input, check, role).value
Observed(input, check) == Value(input, check, "observed")

(* statusFor, on facts that all count.                                     *)
Judged(holds) == IF holds THEN "PASS" ELSE "FAIL"

ApprovalAmountStatus(input) ==
  LET approval == Observed(input, "approvalAmount")
      spenderKnown == Counts(input, "approvalSpender", "observed")
      spender == Observed(input, "approvalSpender")
      positive == \E n \in approval.amount : n > 0
  IN  IF ~Counts(input, "approvalAmount", "observed") THEN "REVIEW"
      ELSE IF approval.unbounded
              \/ \E n \in approval.amount : n > input.intent.inputAmount
      THEN "FAIL"
      ELSE IF approval.amount = {}
      THEN IF spenderKnown /\ spender = "NONE" THEN "PASS" ELSE "REVIEW"
      ELSE IF ~spenderKnown THEN "REVIEW"
      ELSE Judged(positive /\ spender # "NONE")

WarningStatus(input) ==
  LET public == input.simulation.warnings
      seen == Observed(input, "warningPresence")
  IN  IF ~AllCount(input, "warningPresence") \/ seen # public.size
      THEN "REVIEW" ELSE Judged(public.size = 0)

ReceiptStatus(input) ==
  LET public == input.simulation.receipts
      seen == Observed(input, "receiptAvailability")
  IN  IF \/ ~AllCount(input, "receiptAvailability")
         \/ seen.observedCount # public.size
      THEN "REVIEW"
      ELSE Judged(/\ seen.observedCount = seen.expectedCount
                  /\ seen.allSuccessful
                  /\ public.size > 0 /\ public.failed = {})

(* Slip: a status that does not apply proves nothing.                      *)
ProvenFlagStatus(input, check) ==
  LET flag == input.simulation[check].holds
      seen == Observed(input, check)
  IN  IF ~AllCount(input, check) THEN "REVIEW"
      ELSE IF seen = "PROVEN" /\ flag THEN "PASS"
      ELSE IF seen = "FAILED" /\ ~flag THEN "FAIL"
      ELSE "REVIEW"

(* verificationStatus and stateContinuityStatus: the fact and the public   *)
(* flag must agree.                                                        *)
FlagStatus(input, check) ==
  LET flag == input.simulation[check].holds
      seen == Observed(input, check)
  IN  IF ~AllCount(input, check) THEN "REVIEW"
      ELSE IF seen \in {"PROVEN", "NOT_APPLICABLE"} /\ flag THEN "PASS"
      ELSE IF seen = "FAILED" /\ ~flag THEN "FAIL"
      ELSE "REVIEW"

(* What each of the remaining checks compares.                             *)
Agrees(input, check) ==
  LET intent == input.intent
      value(role) == Value(input, check, role)
      observed == value("observed")
  IN  CASE check \in {"account", "inputAsset", "outputAsset"} ->
             observed = intent[check]
        [] check = "amountIn" -> observed = intent.inputAmount
        [] check = "slippage" -> observed \in 0 .. intent.maxSlippageBps
        [] check = "allowedProtocol" -> observed \in intent.allowedProtocols
        [] check = "recipient" -> observed = intent.recipient
        [] check \in {"operation", "approvalSpender"} ->
             value("expected") = observed
        [] check = "fundsMovement" ->
             ToSet(observed) \subseteq ToSet(value("permitted"))
        [] check = "capabilityIntegrity" -> observed = "PROVEN"
        [] check = "transactionSet" -> ToSet(observed) = value("expected")

CheckStatus(input, check) ==
  CASE check = "approvalAmount" -> ApprovalAmountStatus(input)
    [] check = "warningPresence" -> WarningStatus(input)
    [] check = "receiptAvailability" -> ReceiptStatus(input)
    [] check \in {"coverage", "ordering", "stateContinuity"} ->
         FlagStatus(input, check)
    [] OTHER -> IF AllCount(input, check)
                THEN Judged(Agrees(input, check)) ELSE "REVIEW"

(* What a check cites: fixed paths of the intent and its facts.            *)
StaticReferences(check) ==
  CASE check \in {"account", "inputAsset", "outputAsset"} ->
         {<<"intent", check>>}
    [] check \in {"amountIn", "approvalAmount"} ->
         {<<"intent", "inputAmount">>}
    [] check = "slippage" -> {<<"intent", "maxSlippageBps">>}
    [] check = "allowedProtocol" -> {<<"intent", "allowedProtocols">>}
    [] check = "fundsMovement" -> {<<"intent">>}
    [] OTHER -> {}

RecipientReference(input) ==
  IF <<"intent", "recipient">> \in DOMAIN input.document
  THEN <<"intent", "recipient">> ELSE <<"intent", "account">>

(* Slip: the fallback is the evidence itself, by a name that the table of  *)
(* leaves knows and no context has.                                        *)
FallbackToEvidence(check) ==
  StaticReferences(check) \cup {<<"capability", "raw", "context", "spender">>}

FallbackReferences(check) ==
  CASE check = "operation" ->
         {<<"selection">>, <<"capability", "availability">>}
    [] check = "recipient" ->
         {<<"intent", "account">>, <<"capability", "availability">>}
    [] check = "fundsMovement" ->
         {<<"intent">>, <<"simulation", "availability">>}
    [] check = "transactionSet" ->
         {<<"capability", "availability">>, <<"simulation", "availability">>}
    [] check \in SimulationChecks -> {<<"simulation", "availability">>}
    [] OTHER -> StaticReferences(check) \cup {<<"capability", "availability">>}

(* The facts a check cites; the approval amount is read with the spender.  *)
CitedFacts(input, check) ==
  {<<check, role>> : role \in FactRolesOf(input, check)}
  \cup (IF check = "approvalAmount" THEN {<<"approvalSpender", "observed">>}
        ELSE {})

(* The references referenceList collects.                                  *)
CollectedReferences(input, check) ==
  LET facts == CitedFacts(input, check)
      valid == {f \in facts : FactValid(input, f[1], f[2])}
      own == (IF check = "recipient" THEN {RecipientReference(input)}
              ELSE StaticReferences(check))
             \cup {Fact(input, f[1], f[2]).sourceReference : f \in valid}
  IN  IF own = {} \/ valid # facts
      THEN own \cup FallbackReferences(check) ELSE own

(* referenceList: the collected ones, or the fallback when one of them may *)
(* not be cited by this check.                                             *)
ReferenceList(input, check) ==
  LET collected == CollectedReferences(input, check)
  IN  IF OutputReferencesValid(input.document, check, collected)
      THEN collected ELSE FallbackReferences(check)

EvaluateCheck(input, check) ==
  [checkId |-> check, critical |-> TRUE,
   status |-> CheckStatus(input, check),
   sourceReferences |-> ReferenceList(input, check)]

EvaluateAlignment(input) ==
  {EvaluateCheck(input, check) : check \in CheckIds}

(* parseAlignmentInput: the lists must be free of repetitions and hold     *)
(* addresses in their canonical form, a capability has a transaction, and  *)
(* the state status is one of the three the schema knows.                  *)
ListAccepted(list, addresses, EvmAddresses) ==
  IsInjective(list) /\ addresses \subseteq EvmAddresses

AlignmentInputAccepted(input, EvmAddresses) ==
  LET receipts == Fact(input, "receiptAvailability", "observed")
      continuity == Fact(input, "stateContinuity", "observed")
      targets == Fact(input, "transactionSet", "observed")
  IN  /\ \A role \in {"permitted", "observed"} :
           LET movements == Fact(input, "fundsMovement", role)
           IN  movements.availability = "AVAILABLE" =>
                 ListAccepted(movements.value,
                              {m.to : m \in ToSet(movements.value)},
                              EvmAddresses)
      /\ targets.availability = "AVAILABLE" =>
           ListAccepted(targets.value, ToSet(targets.value), EvmAddresses)
      /\ receipts.availability = "AVAILABLE" =>
           receipts.value.expectedCount >= 1
      /\ continuity.availability = "AVAILABLE" =>
           continuity.value \in {"PROVEN", "FAILED", "NOT_APPLICABLE"}

=============================================================================
