--------------------------- MODULE MCStockEvents ---------------------------
(* Small instances of StockEvents for TLC. *)
EXTENDS StockEvents, TLC

Interchangeable == Permutations(Messages)
=============================================================================
