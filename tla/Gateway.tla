------------------------------- MODULE Gateway -------------------------------
(***************************************************************************)
(* The API gateway: the middleware chain a request runs through, the edge  *)
(* policies declared per route, the proxy to the service that owns the     *)
(* path, and the services on the other side of it, which crash, stall and  *)
(* answer late.                                                            *)
(*                                                                         *)
(* A path is the sequence of its segments below the service's prefix, and  *)
(* `verbatim` says whether its words have the upper and lower case of the  *)
(* tables: the edge tells the two apart and the services do not. Of a body *)
(* only its declared size counts, of a token only who it names and whether *)
(* it verifies.                                                            *)
(***************************************************************************)
EXTENDS Naturals, Sequences, FiniteSets

CONSTANTS
    Requests,           \* requests in flight, one handler chain each
    Offered,            \* request -> what its client may send
    RATE_LIMIT_MAX,     \* requests of one client in a window
    AUTH_RATE_LIMIT_MAX,\* credential requests of one client in a window
    TRUST_CLIENT_ACTOR, \* whether a client's own x-actor-id is believed
    Frail,              \* the services that may crash or stall
    MaxCrashes,         \* bound: how often a service goes down
    None                \* no claims, no actor, no answer yet

Services == {"auth", "user", "product", "inventory", "email"}
Methods == {"GET", "POST", "PUT", "PATCH", "DELETE", "HEAD", "OPTIONS"}

ASSUME GatewayAssumption ==
    /\ DOMAIN Offered = Requests
    /\ \A r \in Requests : \A q \in Offered[r] :
          /\ q.to \in Services \cup {"live", "ready", "nowhere"}
          /\ q.method \in Methods
          /\ q.verbatim \in BOOLEAN
    /\ RATE_LIMIT_MAX \in Nat \ {0} /\ AUTH_RATE_LIMIT_MAX \in Nat \ {0}
    /\ TRUST_CLIENT_ACTOR \in BOOLEAN
    /\ Frail \subseteq Services
    /\ MaxCrashes \in Nat
    /\ None \notin {"200", "204", "401", "403", "404", "413", "429", "502", "503", "504", "relayed", "truncated"}

VARIABLES
    pc,         \* request -> where it is in the chain
    req,        \* request -> what the client sent
    todo,       \* request -> handlers of its policies that are still to run
    auth,       \* request -> req.auth, the claims of its token
    actor,      \* request -> the x-actor-id header that gets proxied
    socket,     \* request -> the connection to the service: "none", "open" or "broken"
    service,    \* request -> what the service did with it: "none", "accepted", "executed" or "declined"
    probes,     \* request -> service -> what a readiness probe found
    reply,      \* request -> what the client got
    hits,       \* the general limiter's counter
    credHits,   \* the credential limiter's counter
    window,     \* number of the credential window
    sentIn,     \* ghost: request -> window in which it went to the proxy
    down,       \* services that do not run
    crashes     \* how often a service went down

edge == <<todo, auth, actor>>
counters == <<hits, credHits, window>>
far == <<socket, service, down, crashes>>
vars == <<pc, req, edge, far, probes, reply, counters, sentIn>>

Init ==
    /\ pc = [r \in Requests |-> "idle"]
    /\ req = [r \in Requests |-> None]
    /\ todo = [r \in Requests |-> <<>>]
    /\ auth = [r \in Requests |-> None]
    /\ actor = [r \in Requests |-> None]
    /\ socket = [r \in Requests |-> "none"]
    /\ service = [r \in Requests |-> "none"]
    /\ probes = [r \in Requests |-> [s \in Services |-> "asked"]]
    /\ reply = [r \in Requests |-> None]
    /\ hits \in 0..RATE_LIMIT_MAX     \* what came before in this window
    /\ credHits = 0 /\ window = 1
    /\ sentIn = [r \in Requests |-> 0]
    /\ down = {} /\ crashes = 0

\* The statuses that the edge's own answers and errors carry.
Statuses == {"200", "204", "401", "403", "404", "413", "429", "502", "503", "504"}

Goto(r, where) == pc' = [pc EXCEPT ![r] = where]
Answer(r, status) == Goto(r, "done") /\ reply' = [reply EXCEPT ![r] = status]

-----------------------------------------------------------------------------
(* What the edge enforces, per route *)

adminOnly == <<"authenticate", "requireRole">>

authPolicies == <<
    [methods |-> {"POST"},
     paths |-> {<<"register">>, <<"login">>, <<"refresh">>, <<"forgot-password">>, <<"reset-password">>,
                <<"verify-email">>, <<"resend-verification">>},
     handlers |-> <<"credentialRateLimiter">>],
    [methods |-> Methods,
     paths |-> {<<"me">>, <<"sessions">>, <<"logout-all">>, <<"change-password">>, <<"login-history">>},
     handlers |-> <<"authenticate">>] >>

userPolicies == <<
    [methods |-> {"POST"}, paths |-> {<<>>}, handlers |-> adminOnly],
    [methods |-> {"GET"}, paths |-> {<<"auth", ":authUserId">>}, handlers |-> adminOnly],
    [methods |-> Methods, paths |-> {<<":id">>}, handlers |-> <<"authenticate">>] >>

productPolicies == <<
    [methods |-> {"POST", "PATCH", "PUT", "DELETE"}, paths |-> {<<>>, <<":id">>}, handlers |-> adminOnly] >>

inventoryPolicies == <<
    [methods |-> {"GET"}, paths |-> {<<"*">>}, handlers |-> <<"authenticate">>],
    [methods |-> {"POST", "PATCH", "PUT", "DELETE"}, paths |-> {<<>>, <<":id">>, <<":id", "*">>},
     handlers |-> adminOnly] >>

emailPolicies == << [methods |-> Methods, paths |-> {<<"*">>}, handlers |-> adminOnly] >>

routePolicies ==
    [auth |-> authPolicies, user |-> userPolicies, product |-> productPolicies,
     inventory |-> inventoryPolicies, email |-> emailPolicies]

\* The segments that stand for exactly one segment of the request.
Parameters == {":id", ":authUserId"}

\* compilePolicyPath: `/*` is this path and everything below it, and a word of
\* the pattern is compared letter by letter, its case included.
Matches(pattern, q) ==
    LET open == pattern # <<>> /\ pattern[Len(pattern)] = "*"
        fixed == IF open THEN Len(pattern) - 1 ELSE Len(pattern)
    IN  /\ IF open THEN Len(q.path) >= fixed ELSE Len(q.path) = fixed
        /\ \A i \in 1..fixed : pattern[i] \in Parameters \/ (q.verbatim /\ pattern[i] = q.path[i])

Covers(policy, q) == q.method \in policy.methods /\ \E p \in policy.paths : Matches(p, q)

\* The handlers that run for q: those of every policy that covers it, in order.
RunChain(q) ==
    LET policies == routePolicies[q.to]
        upTo[n \in 0..Len(policies)] ==
            IF n = 0 THEN <<>>
            ELSE upTo[n - 1] \o (IF Covers(policies[n], q) THEN policies[n].handlers ELSE <<>>)
    IN  upTo[Len(policies)]

-----------------------------------------------------------------------------
(* The middleware chain *)

\* requestContext: a client's claim to be somebody is dropped.
ClaimedActor(q) == IF TRUST_CLIENT_ACTOR THEN q.actor ELSE None

\* The middleware ahead of the limiter. cors() answers every OPTIONS itself.
Arrive(r) ==
    /\ pc[r] = "idle"
    /\ \E q \in Offered[r] :
          /\ req' = [req EXCEPT ![r] = q]
          /\ actor' = [actor EXCEPT ![r] = ClaimedActor(q)]
          /\ \/ q.method = "OPTIONS" /\ Answer(r, "204")
             \/ q.method # "OPTIONS" /\ q.oversize /\ Answer(r, "413")
             \/ /\ q.method # "OPTIONS" /\ ~q.oversize
                /\ \/ q.to = "live" /\ Answer(r, "200")
                   \/ q.to = "ready" /\ Goto(r, "probing") /\ UNCHANGED reply
                   \/ q.to \notin {"live", "ready"} /\ Goto(r, "arrived") /\ UNCHANGED reply
    /\ UNCHANGED <<todo, auth, far, probes, counters, sentIn>>

\* Handing on: the next handler of the chain, or the proxy behind the last.
HandOn(r, rest) ==
    /\ todo' = [todo EXCEPT ![r] = rest]
    /\ IF rest = <<>>
       THEN Goto(r, "proxy") /\ sentIn' = [sentIn EXCEPT ![r] = window]
       ELSE Goto(r, "chain") /\ UNCHANGED sentIn

\* The general limiter, then the policies of the service that owns the path.
RateLimiter(r) ==
    /\ pc[r] = "arrived"
    /\ hits' = hits + 1
    /\ \/ hits' > RATE_LIMIT_MAX /\ Answer(r, "429") /\ UNCHANGED <<todo, sentIn>>
       \/ /\ hits' <= RATE_LIMIT_MAX /\ req[r].to = "nowhere"
          /\ Answer(r, "404") /\ UNCHANGED <<todo, sentIn>>
       \/ /\ hits' <= RATE_LIMIT_MAX /\ req[r].to # "nowhere"
          /\ HandOn(r, RunChain(req[r])) /\ UNCHANGED reply
    /\ UNCHANGED <<req, auth, actor, far, probes, credHits, window>>

At(r, handler) == pc[r] = "chain" /\ Head(todo[r]) = handler

\* A bucket for each of its routes.
CredentialRateLimiterPerRoute(r) ==
    /\ At(r, "credentialRateLimiter")
    /\ credHits' = Cardinality({x \in Requests : sentIn[x] = window /\ req[x].path = req[r].path}) + 1
    /\ \/ credHits' > AUTH_RATE_LIMIT_MAX /\ Answer(r, "429") /\ UNCHANGED <<todo, sentIn>>
       \/ credHits' <= AUTH_RATE_LIMIT_MAX /\ HandOn(r, Tail(todo[r])) /\ UNCHANGED reply
    /\ UNCHANGED <<req, auth, actor, far, probes, hits, window>>
\* The credential limiter: one bucket for all of its routes.
CredentialRateLimiter(r) ==
    /\ At(r, "credentialRateLimiter")
    /\ credHits' = credHits + 1
    /\ \/ credHits' > AUTH_RATE_LIMIT_MAX /\ Answer(r, "429") /\ UNCHANGED <<todo, sentIn>>
       \/ credHits' <= AUTH_RATE_LIMIT_MAX /\ HandOn(r, Tail(todo[r])) /\ UNCHANGED reply
    /\ UNCHANGED <<req, auth, actor, far, probes, hits, window>>

\* Each bucket has a window of its own.
WindowEnds ==
    /\ hits > 0 /\ hits' = 0
    /\ UNCHANGED <<pc, req, edge, far, probes, reply, credHits, window, sentIn>>

CredentialWindowEnds ==
    /\ credHits > 0 /\ credHits' = 0 /\ window' = window + 1
    /\ UNCHANGED <<pc, req, edge, far, probes, reply, hits, sentIn>>

-----------------------------------------------------------------------------
(* Who is calling *)

\* The tokens that verify, with the claims they carry.
Claims == [user |-> [sub |-> "u", role |-> "USER"], admin |-> [sub |-> "a", role |-> "ADMIN"]]
verifyAccessToken(token) == IF token \in DOMAIN Claims THEN Claims[token] ELSE None

\* A request without a token goes on as nobody's.
AuthenticateIfAsked(r) ==
    /\ At(r, "authenticate")
    /\ \/ req[r].token = None /\ HandOn(r, Tail(todo[r])) /\ UNCHANGED reply
       \/ req[r].token # None /\ Goto(r, "verify") /\ UNCHANGED <<todo, reply, sentIn>>
    /\ UNCHANGED <<req, auth, actor, far, probes, counters>>
\* authenticate reads the header and waits for the verification.
Authenticate(r) ==
    /\ At(r, "authenticate")
    /\ \/ req[r].token = None /\ Answer(r, "401")
       \/ req[r].token # None /\ Goto(r, "verify") /\ UNCHANGED reply
    /\ UNCHANGED <<req, edge, far, probes, counters, sentIn>>

Verified(r) ==
    /\ pc[r] = "verify"
    /\ LET claims == verifyAccessToken(req[r].token) IN
          \/ claims = None /\ Answer(r, "401") /\ UNCHANGED <<edge, sentIn>>
          \/ /\ claims # None
             /\ auth' = [auth EXCEPT ![r] = claims]
             /\ actor' = [actor EXCEPT ![r] = claims.sub]
             /\ HandOn(r, Tail(todo[r])) /\ UNCHANGED reply
    /\ UNCHANGED <<req, far, probes, counters>>

RequireRole(r) ==
    /\ At(r, "requireRole")
    /\ LET isAdmin == auth[r] # None /\ auth[r].role = "ADMIN" IN
          \/ isAdmin /\ HandOn(r, Tail(todo[r])) /\ UNCHANGED reply
          \/ /\ ~isAdmin /\ Answer(r, IF auth[r] = None THEN "401" ELSE "403")
             /\ UNCHANGED <<todo, sentIn>>
    /\ UNCHANGED <<req, auth, actor, far, probes, counters>>

-----------------------------------------------------------------------------
(* The proxy and the services behind it *)

Refusals == {"ECONNREFUSED", "ENOTFOUND", "EAI_AGAIN", "EHOSTUNREACH", "ENETUNREACH"}
Resets == {"ECONNRESET", "ETIMEDOUT", "ESOCKETTIMEDOUT"}

\* A connection that broke read as one that was never made.
ResetIsRefusal(code) ==
    IF code \in Refusals \cup Resets THEN "503" ELSE "502"
\* 503: the service never accepted the request. 504: it did, and a write may
\* have landed. 502: it answered, and not in a way that can be relayed.
toGatewayError(code) ==
    CASE code \in Refusals -> "503" [] code \in Resets -> "504" [] OTHER -> "502"

\* The proxy's error handler. Once the status line is with the client all that
\* is left is to end the response.
ProxyError(r, code) == Answer(r, IF pc[r] = "relaying" THEN "truncated" ELSE toGatewayError(code))

\* A connection per request: refused or not resolved when the service is down.
Connect(r) ==
    /\ pc[r] = "proxy"
    /\ LET to == req[r].to IN
          \/ /\ to \notin down /\ Goto(r, "sent")
             /\ socket' = [socket EXCEPT ![r] = "open"]
             /\ service' = [service EXCEPT ![r] = "accepted"]
             /\ UNCHANGED reply
          \/ /\ to \in down
             /\ \E code \in {"ECONNREFUSED", "EAI_AGAIN"} : ProxyError(r, code)
             /\ UNCHANGED <<socket, service>>
    /\ UNCHANGED <<req, edge, probes, counters, sentIn, down, crashes>>

\* Routes of the auth service, as its own router declares them: those above
\* router.use(authenticate) and those below.
AuthPublic ==
    [method : {"POST"}, path : {<<"register">>, <<"verify-email">>, <<"resend-verification">>, <<"login">>,
                                <<"refresh">>, <<"logout">>, <<"forgot-password">>, <<"reset-password">>}]
AuthAuthenticated ==
    [method : {"GET"}, path : {<<"me">>, <<"sessions">>, <<"login-history">>}]
        \cup [method : {"POST"}, path : {<<"change-password">>, <<"logout-all">>}]

\* Express's router ignores the case of a path, and answers a HEAD where it has a GET.
Route(q) == [method |-> IF q.method = "HEAD" THEN "GET" ELSE q.method, path |-> q.path]

\* The auth service verifies the token again, for all that is not above the line.
Declines(q) == q.to = "auth" /\ Route(q) \notin AuthPublic /\ verifyAccessToken(q.token) = None

\* The service runs the request, also when nobody waits for the answer any more.
Execute(r) ==
    /\ service[r] = "accepted" /\ socket[r] # "broken" /\ req[r].to \notin down
    /\ service' = [service EXCEPT ![r] = IF Declines(req[r]) THEN "declined" ELSE "executed"]
    /\ UNCHANGED <<pc, req, edge, socket, down, crashes, probes, reply, counters, sentIn>>

\* Its status line arrives and is relayed, or cannot be parsed.
Respond(r) ==
    /\ pc[r] = "sent" /\ socket[r] = "open" /\ service[r] \in {"executed", "declined"}
    /\ \/ Goto(r, "relaying") /\ UNCHANGED reply
       \/ req[r].to \in Frail /\ ProxyError(r, "HPE_INVALID_CONSTANT")
    /\ UNCHANGED <<req, edge, far, probes, counters, sentIn>>

Relayed(r) ==
    /\ pc[r] = "relaying" /\ socket[r] = "open"
    /\ Answer(r, "relayed")
    /\ UNCHANGED <<req, edge, far, probes, counters, sentIn>>

\* A timeout for the status line and none for the rest.
ProxyTimeoutOnce(r) ==
    /\ pc[r] = "sent" /\ socket[r] = "open" /\ req[r].to \in Frail
    /\ ProxyError(r, "ECONNRESET")
    /\ UNCHANGED <<req, edge, far, probes, counters, sentIn>>
\* proxyTimeout: the service is silent for too long, and the outbound request
\* is aborted, which surfaces as a reset.
ProxyTimeout(r) ==
    /\ pc[r] \in {"sent", "relaying"} /\ socket[r] = "open" /\ req[r].to \in Frail
    /\ ProxyError(r, "ECONNRESET")
    /\ UNCHANGED <<req, edge, far, probes, counters, sentIn>>

\* The service's end of the connection is gone.
UpstreamBroke(r) ==
    /\ pc[r] \in {"sent", "relaying"} /\ socket[r] = "broken"
    /\ \E code \in {"ECONNRESET", "EPIPE"} : ProxyError(r, code)
    /\ UNCHANGED <<req, edge, far, probes, counters, sentIn>>

\* A service goes down with the requests it had accepted.
Crash(s) ==
    /\ s \in Frail \ down /\ crashes < MaxCrashes
    /\ down' = down \cup {s} /\ crashes' = crashes + 1
    /\ socket' = [r \in Requests |-> IF socket[r] = "open" /\ req[r].to = s THEN "broken" ELSE socket[r]]
    /\ UNCHANGED <<pc, req, edge, service, probes, reply, counters, sentIn>>

Restart(s) ==
    /\ s \in down /\ down' = down \ {s}
    /\ UNCHANGED <<pc, req, edge, socket, service, crashes, probes, reply, counters, sentIn>>

-----------------------------------------------------------------------------
(* Readiness: every service's liveness endpoint, probed concurrently *)

\* A probe never rejects: one that is refused, or times out, found it down.
Probe(r, s) ==
    /\ pc[r] = "probing" /\ probes[r][s] = "asked"
    /\ \/ s \notin down /\ probes' = [probes EXCEPT ![r][s] = "up"]
       \/ s \in Frail /\ probes' = [probes EXCEPT ![r][s] = "down"]
    /\ UNCHANGED <<pc, req, edge, far, reply, counters, sentIn>>

Ready(r) ==
    /\ pc[r] = "probing" /\ \A s \in Services : probes[r][s] # "asked"
    /\ Answer(r, IF \E s \in Services : probes[r][s] = "down" THEN "503" ELSE "200")
    /\ UNCHANGED <<req, edge, far, probes, counters, sentIn>>

Edge(r) ==
    \/ RateLimiter(r)
    \/ CredentialRateLimiter(r) \/ Authenticate(r) \/ Verified(r) \/ RequireRole(r)
    \/ Connect(r) \/ ProxyTimeout(r) \/ UpstreamBroke(r)
    \/ (\E s \in Services : Probe(r, s)) \/ Ready(r)

Service(r) == Execute(r) \/ Respond(r) \/ Relayed(r)

Next ==
    \/ \E r \in Requests : Arrive(r) \/ Edge(r) \/ Service(r)
    \/ WindowEnds \/ CredentialWindowEnds
    \/ \E s \in Services : Crash(s) \/ Restart(s)

Spec == Init /\ [][Next]_vars

\* The gateway's event loop runs what is due, its timers included, and so does
\* a sound service. One that may crash or stall owes nothing, not even the end
\* of a response it began: what counts for it is the proxy's timeout.
Progress == \E r \in Requests : Edge(r) \/ (Service(r) /\ req[r].to \notin Frail)
FairSpec == Spec /\ WF_vars(Progress)

-----------------------------------------------------------------------------
(* Properties *)

\* Every field has its type; a request that waits in the chain has a handler to
\* run, and one that was answered has an answer.
TypeOK ==
    /\ pc \in [Requests -> {"idle", "arrived", "chain", "verify", "proxy", "sent", "relaying", "probing", "done"}]
    /\ socket \in [Requests -> {"none", "open", "broken"}]
    /\ service \in [Requests -> {"none", "accepted", "executed", "declined"}]
    /\ \A r \in Requests :
          /\ reply[r] \in Statuses \cup {None, "relayed", "truncated"}
          /\ pc[r] \in {"chain", "verify"} => todo[r] # <<>>
          /\ reply[r] # None <=> pc[r] = "done"
    /\ down \subseteq Frail /\ crashes \in 0..MaxCrashes

\* A client that reads a refusal off the gateway may simply send the request
\* again: a service has not seen the first one and never will. That is what
\* toGatewayError promises of a 503 and runChain of what a policy turns away; a
\* 504 or a 502 promises nothing.
RefusedIsUntouched ==
    \A r \in Requests :
        pc[r] = "done" /\ reply[r] \in {"401", "403", "404", "413", "429", "503"} => service[r] = "none"

\* The edge and the auth service's own router split public from authenticated at
\* the same place. A route below router.use(authenticate), spelled as the table
\* spells it and read by GET or by HEAD, is only reached with proven claims;
\* nobody is asked for a token on a route above it, however it is spelled; and
\* where the edge does not recognise a route, the service does what is asked of
\* it for a token that verifies and for no other.
EdgeMirrorsAuth ==
    \A r \in Requests :
        pc[r] # "idle" /\ req[r].to = "auth" =>
            /\ Route(req[r]) \in AuthAuthenticated /\ req[r].verbatim /\ service[r] # "none" => auth[r] # None
            /\ Route(req[r]) \in AuthAuthenticated /\ service[r] = "executed" =>
                   verifyAccessToken(req[r].token) # None
            /\ Route(req[r]) \in AuthPublic => reply[r] \notin {"401", "403"}

\* A request for a route that establishes an identity.
Credential(q) == q.to = "auth" /\ Route(q) \in AuthPublic /\ q.path # <<"logout">>

\* One allowance for all the routes that establish an identity: however a client
\* spreads its requests over them, no more than AUTH_RATE_LIMIT_MAX of those that
\* spell their path as the table does go to the auth service in one window.
CredentialBudget ==
    \A w \in 1..window :
        Cardinality({r \in Requests : sentIn[r] = w /\ Credential(req[r]) /\ req[r].verbatim})
            <= AUTH_RATE_LIMIT_MAX

\* No client is left hanging: whatever the services do, every request that came
\* in is answered, by a reply, an error or an end of the response.
EveryRequestAnswered == \A r \in Requests : pc[r] # "idle" ~> pc[r] = "done"

-----------------------------------------------------------------------------
(* What comments in the code say that does not hold of it *)

\* The mirror and the budget as the tables' comments put them, of every spelling
\* of a path: a path in another case is served by the auth service and covered
\* by no policy of the edge.
EdgeMirrorsEverySpelling ==
    \A r \in Requests :
        pc[r] # "idle" /\ req[r].to = "auth" /\ Route(req[r]) \in AuthAuthenticated /\ service[r] # "none" =>
            auth[r] # None
BudgetOfEverySpelling ==
    \A w \in 1..window : Cardinality({r \in Requests : sentIn[r] = w /\ Credential(req[r])}) <= AUTH_RATE_LIMIT_MAX

\* "Even reads need a caller": the policy lists GET alone, and the inventory's
\* GET routes answer HEAD too.
ReadsNeedCaller ==
    \A r \in Requests : pc[r] # "idle" /\ req[r].to = "inventory" /\ service[r] # "none" => auth[r] # None
=============================================================================
