------------------------------- MODULE MCAuth -------------------------------
(* Small instances of Auth for TLC. *)
EXTENDS Auth, TLC

Interchangeable == Permutations(Requests)

\* Which password a session was opened with steers nothing: a view without it.
PasswordsAside ==
    <<[a \in Accounts |-> [account[a] EXCEPT !.password = 0]], code,
      [t \in Tokens |-> [token[t] EXCEPT !.password = 0]], profile,
      [r \in Requests |-> [request[r] EXCEPT !.proved = 0]]>>
=============================================================================
