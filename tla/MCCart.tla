------------------------------- MODULE MCCart -------------------------------
(* Small instances of Cart for TLC. *)
EXTENDS Cart, TLC

Interchangeable ==
    Permutations(Carts) \cup Permutations(Products) \cup Permutations(Procs \ {Sweeper})

\* Do not explore past a cart that the service has logged as beyond repair.
NothingLogged == logged = {}
=============================================================================
