--------------------------- MODULE SelectionBoundary ---------------------------
(***************************************************************************)
(* What constructCapabilityV0_1 asks of the selection, the request and the *)
(* policy it is given before it calls the port                             *)
(* (packages/moss-adapter/src/capability.ts).  A selection is a graph of   *)
(* JavaScript objects: what the port and the collection put into it once,  *)
(* and let several places share, is told apart from what they copy.        *)
(***************************************************************************)
EXTENDS Integers, FiniteSets

Nobody == "NOBODY"

(* An outcome of the collection: whether an answer of the source is kept   *)
(* with it, and whether the value in that answer is plain JSON (PLAIN), a  *)
(* graph that repeats an object (REPEATED), or neither (OPEN).             *)
Answered(selection) ==
  {c \in DOMAIN selection.outcomes :
     selection.outcomes[c].status \in {"ELIGIBLE", "INELIGIBLE"}}

(* Which object source-bindings.ts puts where in an answer.                *)
BuildInfoInside == "operation.mossOriginal.source.buildInfo"

AnswerPaths ==
  {"operation.buildInfo", BuildInfoInside, "operation.mossOriginal.source",
   "mossOriginal.source", "operation.mossOriginal.stub.risk",
   "operation.mossOriginal.riskLabels", "operation.miniDemoDerived.source",
   "miniDemoDerived.source"}

AnswerObjects ==
  [path \in AnswerPaths |->
     IF path \in {"operation.buildInfo", BuildInfoInside} THEN "MOSS_BUILD_INFO"
     ELSE IF path \in {"operation.mossOriginal.source", "mossOriginal.source"}
     THEN "SOURCE"
     ELSE IF path \in {"operation.miniDemoDerived.source",
                       "miniDemoDerived.source"}
     THEN "DERIVED_SOURCE" ELSE "RISK_LABELS"]

(* And quote.ts into the normalized quote of an eligible outcome.          *)
NormalizedObjects ==
  [inputAsset |-> "REQUEST_INPUT_ASSET", outputAsset |-> "REQUEST_OUTPUT_ASSET",
   catalog |-> "CATALOG_IDENTITY", observableBlockWindow |-> "BLOCK_WINDOW",
   mossSource |-> "MOSS_SOURCE", rawQuote |-> "RAW_SNAPSHOT"]

(* One such object for the whole collection, or one for each candidate.    *)
Shared == {"MOSS_BUILD_INFO", "SOURCE", "DERIVED_SOURCE",
           "REQUEST_INPUT_ASSET", "REQUEST_OUTPUT_ASSET"}

ObjectOf(c, name) == <<IF name \in Shared THEN Nobody ELSE c, name>>

Place(c, part, path, name) ==
  [owner |-> c, part |-> part, path |-> path, object |-> ObjectOf(c, name)]

(* The walk of isJsonDescriptorClosedInput enters an object once, so that  *)
(* what is inside SOURCE is met once, however often SOURCE itself is.      *)
Places(selection) ==
  LET answered == Answered(selection)
      eligible == {c \in answered : selection.outcomes[c].status = "ELIGIBLE"}
  IN  {Place(c, "answer", path, AnswerObjects[path]) :
         c \in answered, path \in DOMAIN AnswerObjects \ {BuildInfoInside}}
      \cup {Place(Nobody, "answer", BuildInfoInside,
                  AnswerObjects[BuildInfoInside]) : c \in answered}
      \cup {Place(c, "normalized", path, NormalizedObjects[path]) :
              c \in eligible, path \in DOMAIN NormalizedObjects}
      \cup {Place(selection.selected, "payload", path, NormalizedObjects[path]) :
              path \in DOMAIN NormalizedObjects}

Occurrences(selection, object) ==
  Cardinality({p \in Places(selection) : p.object = object})

(* Slip: one pair of paths is missing from the table.                      *)
MirrorsButRisk ==
  {<<"operation.buildInfo", BuildInfoInside>>,
   <<"operation.mossOriginal.source", "mossOriginal.source">>,
   <<"operation.miniDemoDerived.source", "miniDemoDerived.source">>}

(* selectionAllowedOccurrences: the pairs of places in an answer that may  *)
(* hold one object, and those of the selected quote and its digest.        *)
AnswerMirrors ==
  {<<"operation.buildInfo", BuildInfoInside>>,
   <<"operation.mossOriginal.stub.risk", "operation.mossOriginal.riskLabels">>,
   <<"operation.mossOriginal.source", "mossOriginal.source">>,
   <<"operation.miniDemoDerived.source", "miniDemoDerived.source">>}

SelectedMirrors ==
  {"inputAsset", "outputAsset", "catalog", "observableBlockWindow",
   "mossSource", "rawQuote"}

(* Every pair that does hold one object, with that object.                 *)
Mirrored(selection) ==
  {[owner |-> c, pair |-> pair, object |-> ObjectOf(c, AnswerObjects[pair[1]])] :
     c \in Answered(selection),
     pair \in {m \in AnswerMirrors :
                AnswerObjects[m[1]] = AnswerObjects[m[2]]}}
  \cup {[owner |-> selection.selected, pair |-> <<path, path>>,
         object |-> ObjectOf(selection.selected, NormalizedObjects[path])] :
           path \in SelectedMirrors}

(* allowMirror: an object that a pair has already claimed ends it.         *)
MirroredOnce(selection) ==
  \A m, n \in Mirrored(selection) : m.object = n.object => m = n

AllowedOccurrences(selection, object) ==
  IF object \in {m.object : m \in Mirrored(selection)} THEN 2 ELSE 1

Values(selection) ==
  {selection.outcomes[c].value : c \in Answered(selection)}

(* parseSelection, and the check of selection, request and policy at once. *)
SelectionAccepted(selection) ==
  /\ "OPEN" \notin Values(selection)
  /\ selection.provenance = "SYNTHETIC_TEST"
  /\ selection.outcomes[selection.selected].status = "ELIGIBLE"
  /\ MirroredOnce(selection)
  /\ "REPEATED" \notin Values(selection)
  /\ \A p \in Places(selection) :
       Occurrences(selection, p.object)
         <= AllowedOccurrences(selection, p.object)

(* parsePolicy                                                             *)
PolicyAccepted(policy) ==
  policy.capabilityNodes \in Nat \ {0} /\ policy.transactionNodes \in Nat

(* assertAssociation; request and selection agree by quote.ts.             *)
Associated(selection, intent, policy) ==
  /\ selection.selected = policy.protocolId
  /\ selection.catalog = policy.catalog
  /\ policy.inputAsset = intent.inputAsset
  /\ policy.outputAsset = intent.outputAsset

ConstructionAccepted(selection, intent, policy) ==
  /\ SelectionAccepted(selection)
  /\ PolicyAccepted(policy)
  /\ Associated(selection, intent, policy)

(* invokeAction: what it makes of an error of the port.                    *)
ActionErrorCodes ==
  {"INVALID_INPUT", "CHAIN_ID_MISMATCH", "SOURCE_CONTRACT_VIOLATION",
   "UNSUPPORTED_PROTOCOL", "UNSUPPORTED_METHOD", "ACTION_FAILED"}

ActionCode(code) ==
  IF code \in ActionErrorCodes THEN code ELSE "ACTION_FAILED"

=============================================================================
