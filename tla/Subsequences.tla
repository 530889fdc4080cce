----------------------------- MODULE Subsequences -----------------------------
(***************************************************************************)
(* The items of a sequence at some of its places, in their order: what     *)
(* SelectSeq gives, defined without recursion so that it can be reasoned   *)
(* about (module OrderLemmas).                                             *)
(***************************************************************************)
EXTENDS Naturals, FiniteSets

Before(places, i) == {j \in places : j < i}

(* The place that has n - 1 others before it.                              *)
Nth(places, n) ==
  CHOOSE i \in places : Cardinality(Before(places, i)) = n - 1

ItemsAt(s, places) ==
  [n \in 1 .. Cardinality(places) |-> s[Nth(places, n)]]

=============================================================================
