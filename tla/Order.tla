-------------------------------- MODULE Order --------------------------------
(***************************************************************************)
(* Numbers in their order: the places found in one pass over a text.       *)
(***************************************************************************)
EXTENDS Integers, FiniteSets

(* A set of numbers, the least first.                                      *)
Ascending(S) ==
  [k \in 1..Cardinality(S) |->
     CHOOSE i \in S : Cardinality({j \in S : j <= i}) = k]
=============================================================================
