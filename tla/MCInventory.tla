---------------------------- MODULE MCInventory ----------------------------
(* Small instances of Inventory for TLC. *)
EXTENDS Inventory, TLC

Interchangeable ==
    Permutations(Workers) \cup Permutations(Items) \cup Permutations(Products)

\* States that differ only in what ledger and audit rows say are the same to the
\* runs that ask nothing of them; no guard looks at more than a ledger's length.
LedgerAside ==
    <<rows, used, [i \in Items |-> Len(ledger[i])], processed, job, doomed, applied, promised>>
=============================================================================
