---------------------------- MODULE MCCatalogue ----------------------------
(* Small instances of Catalogue for TLC. *)
EXTENDS Catalogue, TLC

Interchangeable == Permutations(Products) \cup Permutations(Skus) \cup Permutations(Requests)

\* The ghost steers nothing, and the properties ask two questions of it.
ReasonsAside == <<product, stock, late, request,
                  [p \in Products |-> <<excuse[p] = {}, excuse[p] \cap {"logged", "crash", "unclear"} = {}>>]>>
=============================================================================
