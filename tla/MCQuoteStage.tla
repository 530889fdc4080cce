----------------------------- MODULE MCQuoteStage -----------------------------
(* Two candidates with equal and unequal offers; the budgets are none,     *)
(* less than the candidates' own deadline, and equal to it: runLive caps   *)
(* the stage at the same 8 s.  Requests and answers reach both ends of an  *)
(* amount; a clean answer and every single way to differ from one.         *)
EXTENDS QuoteStage

Request(allowed, amount) ==
  QuoteRequest([allowedProtocols |-> allowed, inputAsset |-> "in",
                outputAsset |-> "out", inputAmount |-> amount])

MCRequests ==
  {Request({1, 2}, amount) : amount \in {1, MaxUint, MaxUint + 1}}
  \cup {Request({2}, 1)}

Entry(asset, decimals) == [asset |-> asset, decimals |-> decimals]

Catalog ==
  [validFrom |-> 0, validUntil |-> 1,
   entries |-> {Entry("in", {18}), Entry("out", {0})}]

MCCatalogs ==
  {Catalog, [Catalog EXCEPT !.validFrom = -1, !.validUntil = 0],
   [Catalog EXCEPT !.validFrom = 1, !.validUntil = 2],
   [Catalog EXCEPT !.entries = {Entry("in", {18})}],
   [Catalog EXCEPT !.entries = {Entry("in", {18}), Entry("out", {})}],
   [Catalog EXCEPT !.entries = @ \cup {Entry("out", {6})}],
   [Catalog EXCEPT !.entries = {Entry("in", {18}), Entry("out", {256})}]}

MCAnswers(given) ==
  LET clean == [operation |-> "AS_ASKED", form |-> "JSON",
                inputAsset |-> given.inputAsset,
                outputAsset |-> given.outputAsset,
                amountIn |-> given.amountIn, amountOut |-> 1,
                fromBlock |-> 1, toBlock |-> 1]
  IN  {clean, [clean EXCEPT !.amountOut = 2],
       [clean EXCEPT !.amountOut = MaxUint + 1],
       [clean EXCEPT !.inputAsset = "out", !.outputAsset = "in"],
       [clean EXCEPT !.outputAsset = given.inputAsset],
       [clean EXCEPT !.amountIn = 2], [clean EXCEPT !.amountIn = 0],
       [clean EXCEPT !.toBlock = 0],
       [clean EXCEPT !.operation = "ANOTHER"],
       [clean EXCEPT !.form = "NOT_JSON"],
       [clean EXCEPT !.form = "LONE_SURROGATE"]}

=============================================================================
