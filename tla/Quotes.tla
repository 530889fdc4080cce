-------------------------------- MODULE Quotes --------------------------------
(***************************************************************************)
(* Which catalogs and requests a quote collection accepts, and what it     *)
(* makes of one answer (packages/moss-adapter/src/asset-catalog.ts,        *)
(* quote.ts, and the bound port of source-bindings.ts).  Times, amounts    *)
(* and blocks are integers; strings that must have some shape are left out.*)
(***************************************************************************)
EXTENDS Integers, FiniteSets

CONSTANT MaxUint   \* UINT256_MAX

ASSUME MaxUintAssumption == MaxUint \in Nat \ {0}

Amount == 1 .. MaxUint
MaxDecimals == 255

(* A catalog lists assets with their decimals: {n}, or {} when unknown.    *)
EntryAccepted(entry) == entry.decimals \subseteq 0 .. MaxDecimals

(* Each asset once: two records of one asset would make it ambiguous.      *)
Identities(catalog) == {entry.asset : entry \in catalog.entries}

(* createAssetCatalogSnapshot: valid now, and unambiguous.                 *)
CatalogAccepted(catalog, time) ==
  /\ catalog.validFrom < catalog.validUntil
  /\ catalog.validFrom <= time /\ time < catalog.validUntil
  /\ catalog.entries # {}
  /\ \A entry \in catalog.entries : EntryAccepted(entry)
  /\ Cardinality(Identities(catalog)) = Cardinality(catalog.entries)

FindCatalogEntry(catalog, asset) ==
  {entry \in catalog.entries : entry.asset = asset}

(* The orchestrator's quoteRequest: both copies of the assets and of the   *)
(* amount are the intent's, which the HTTP schema does not bound.          *)
QuoteRequest(intent) ==
  [allowedProtocols |-> intent.allowedProtocols,
   inputAsset |-> intent.inputAsset, outputAsset |-> intent.outputAsset,
   amountIn |-> intent.inputAmount]

(* validateQuoteCollectionRequest, of a request built that way.            *)
RequestAccepted(request) ==
  /\ request.allowedProtocols # {}
  /\ request.amountIn \in Amount

-----------------------------------------------------------------------------
(* What a source answers: for which operation, in which form, and the      *)
(* quote in it.  A form is plain JSON, JSON with a lone surrogate in some  *)
(* string, or no JSON at all.                                              *)
AnswerForms == {"JSON", "LONE_SURROGATE", "NOT_JSON"}

(* operationContract: the source loaded the operation it was asked for.    *)
(* The check of sourceContext behind it repeats this one.                  *)
LoadedAsAsked(answer) == answer.operation = "AS_ASKED"

(* The bound port rejects an answer for another operation, or of no JSON.  *)
PortReturns(answer) == LoadedAsAsked(answer) /\ answer.form # "NOT_JSON"

(* parseRawProjection                                                      *)
Projected(answer) ==
  /\ answer.form = "JSON"
  /\ answer.amountIn \in Amount /\ answer.amountOut \in Amount
  /\ answer.fromBlock \in Nat
  /\ answer.fromBlock <= answer.toBlock

SameDirection(request, answer) ==
  /\ answer.inputAsset = request.inputAsset
  /\ answer.outputAsset = request.outputAsset

(* classifyAcquiredQuote behind the port: the first objection counts.      *)
Classify(request, answer) ==
  IF ~PortReturns(answer) THEN "QUOTE_ACQUISITION_FAILED"
  ELSE IF ~Projected(answer) THEN "MALFORMED_QUOTE"
  ELSE IF ~SameDirection(request, answer) THEN "ASSET_DIRECTION_MISMATCH"
  ELSE IF answer.amountIn # request.amountIn THEN "AMOUNT_BASIS_MISMATCH"
  ELSE "ELIGIBLE"

=============================================================================
