--------------------------- MODULE MCEmailOutbox ---------------------------
(* Small instances of EmailOutbox for TLC. *)
EXTENDS EmailOutbox

CONSTANTS r1, r2, k1, a, b

\* Two requests under one key, for the same thing or for another: as payloads are
\* interchangeable, the first may as well ask for a.
RaceForKey == [r \in Callers |-> IF r = r1 THEN {<<k1, a>>} ELSE {<<k1, a>>, <<k1, b>>}]
=============================================================================
