----------------------------- MODULE MCGateway -----------------------------
(* A small instance of Gateway for TLC. *)
EXTENDS Gateway, TLC

CONSTANTS r1, r2

\* A request by service, method and path, and by the caller's token.
Ask(to, method, path, token) ==
    [to |-> to, method |-> method, path |-> path, verbatim |-> TRUE, token |-> token, actor |-> "claimed",
     oversize |-> FALSE]
InCapitals(q) == [q EXCEPT !.verbatim = FALSE]

Login == Ask("auth", "POST", <<"login">>, None)
Forgot == Ask("auth", "POST", <<"forgot-password">>, None)
Me(token) == Ask("auth", "GET", <<"me">>, token)

AuthTraffic ==
    {Login, Forgot, Me("user"), Me(None), Ask("auth", "POST", <<"change-password">>, "expired"),
     Ask("auth", "POST", <<"logout">>, None), Ask("auth", "HEAD", <<"me">>, None),
     InCapitals(Login), InCapitals(Me(None)), InCapitals(Me("user"))}

Mixed ==
    {Ask("user", "GET", <<"auth", "u1">>, "admin"), Ask("user", "PATCH", <<"u1">>, "user"),
     Ask("product", "GET", <<"p1">>, None), Ask("product", "DELETE", <<"p1">>, "user"),
     Ask("inventory", "GET", <<>>, "user"), Ask("inventory", "POST", <<"i1", "reserve">>, "admin"),
     Ask("inventory", "POST", <<"i1", "reserve">>, "user"), Ask("inventory", "HEAD", <<>>, None),
     Ask("inventory", "OPTIONS", <<"i1">>, None),
     Ask("email", "POST", <<>>, "user"), Ask("email", "POST", <<"e1", "retry">>, "user"),
     Ask("nowhere", "GET", <<>>, None), Ask("live", "GET", <<>>, None), Ask("ready", "GET", <<>>, None),
     [Ask("product", "POST", <<>>, "admin") EXCEPT !.oversize = TRUE]}

\* Two requests of one client that are in the gateway together.
OfferedByOne == (r1 :> AuthTraffic) @@ (r2 :> AuthTraffic \cup Mixed)
=============================================================================
