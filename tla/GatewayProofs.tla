----------------------------- MODULE GatewayProofs -----------------------------
(***************************************************************************)
(* Proofs about Gateway, for any number of requests, whatever their        *)
(* clients send, any limits, and any services that crash or stall.         *)
(***************************************************************************)
EXTENDS Gateway, FiniteSetTheorems, TLAPS

-----------------------------------------------------------------------------
(* The chain of a request for the auth service *)

\* Two policies, as a table.
LEMMA Pair ==
    ASSUME NEW x, NEW y
    PROVE  Len(<<x, y>>) = 2 /\ <<x, y>>[1] = x /\ <<x, y>>[2] = y
  OBVIOUS

\* A path of one segment is matched by the pattern that spells it.
LEMMA OneSegment ==
    ASSUME NEW a, NEW b, a \notin {"*"} \cup Parameters, NEW q, q.path = <<b>>
    PROVE  Matches(<<a>>, q) <=> q.verbatim /\ a = b
<1>1. <<a>> # <<>> /\ Len(<<a>>) = 1 /\ Len(q.path) = 1 /\ <<a>>[1] = a /\ q.path[1] = b
  OBVIOUS
<1>2. \A i \in 1 .. 1 : i = 1
  OBVIOUS
<1>. QED
  BY <1>1, <1>2 DEF Matches

Throttled == {"register", "login", "refresh", "forgot-password", "reset-password", "verify-email",
              "resend-verification"}
Own == {"me", "sessions", "logout-all", "change-password", "login-history"}

LEMMA AuthCovers ==
    ASSUME NEW q, NEW b, q.path = <<b>>
    PROVE  /\ Covers(authPolicies[1], q) <=> q.method = "POST" /\ q.verbatim /\ b \in Throttled
           /\ Covers(authPolicies[2], q) <=> q.method \in Methods /\ q.verbatim /\ b \in Own
<1>1. /\ authPolicies[1].methods = {"POST"} /\ authPolicies[2].methods = Methods
      /\ authPolicies[1].paths = {<<"register">>, <<"login">>, <<"refresh">>, <<"forgot-password">>,
                                  <<"reset-password">>, <<"verify-email">>, <<"resend-verification">>}
      /\ authPolicies[2].paths = {<<"me">>, <<"sessions">>, <<"logout-all">>, <<"change-password">>,
                                  <<"login-history">>}
  BY DEF authPolicies
<1>2. \A a \in Throttled \cup Own : Matches(<<a>>, q) <=> q.verbatim /\ a = b
  BY OneSegment DEF Throttled, Own, Parameters
<1>3. (\E p \in authPolicies[1].paths : Matches(p, q)) <=> q.verbatim /\ b \in Throttled
  BY <1>1, <1>2 DEF Throttled
<1>4. (\E p \in authPolicies[2].paths : Matches(p, q)) <=> q.verbatim /\ b \in Own
  BY <1>1, <1>2 DEF Own
<1>. QED
  BY <1>1, <1>3, <1>4 DEF Covers

\* The handlers of both policies, where they cover q.
LEMMA AuthChain ==
    ASSUME NEW q, q.to = "auth"
    PROVE  RunChain(q) =
               (IF Covers(authPolicies[1], q) THEN <<"credentialRateLimiter">> ELSE <<>>)
                   \o (IF Covers(authPolicies[2], q) THEN <<"authenticate">> ELSE <<>>)
<1>. DEFINE H == {"credentialRateLimiter", "authenticate"}
            h(n) == IF Covers(authPolicies[n], q) THEN authPolicies[n].handlers ELSE <<>>
            Chain(f) == [n \in 0 .. 2 |-> IF n = 0 THEN <<>> ELSE f[n - 1] \o h(n)]
            upTo == CHOOSE f : f = Chain(f)
            g == [n \in 0 .. 2 |-> IF n = 0 THEN <<>> ELSE IF n = 1 THEN h(1) ELSE h(1) \o h(2)]
<1>1. routePolicies[q.to] = authPolicies /\ Len(authPolicies) = 2
  <2>1. routePolicies["auth"] = authPolicies
    BY DEF routePolicies
  <2>2. Len(authPolicies) = 2
    BY Pair DEF authPolicies
  <2>. QED
    BY <2>1, <2>2
<1>2. RunChain(q) = upTo[2]
  BY <1>1 DEF RunChain
<1>3. /\ h(1) = (IF Covers(authPolicies[1], q) THEN <<"credentialRateLimiter">> ELSE <<>>)
      /\ h(2) = (IF Covers(authPolicies[2], q) THEN <<"authenticate">> ELSE <<>>)
      /\ h(1) \in Seq(H) /\ h(2) \in Seq(H)
  <2>1. authPolicies[1].handlers = <<"credentialRateLimiter">> /\ authPolicies[2].handlers = <<"authenticate">>
    BY Pair DEF authPolicies
  <2>2. <<"credentialRateLimiter">> \in Seq(H) /\ <<"authenticate">> \in Seq(H) /\ <<>> \in Seq(H)
    OBVIOUS
  <2>. QED
    BY <2>1, <2>2
<1>. HIDE DEF h
<1>4. g = Chain(g)
  <2>1. \A n \in 0 .. 2 : g[n] = IF n = 0 THEN <<>> ELSE g[n - 1] \o h(n)
    <3>1. g[0] = <<>> /\ g[1] = h(1) /\ g[2] = h(1) \o h(2) /\ <<>> \o h(1) = h(1)
      BY <1>3
    <3>. HIDE DEF g
    <3>2. ASSUME NEW n \in 0 .. 2 PROVE g[n] = IF n = 0 THEN <<>> ELSE g[n - 1] \o h(n)
      <4>1. CASE n = 0
        BY <3>1, <4>1
      <4>2. CASE n = 1
        <5>1. n - 1 = 0
          BY <4>2
        <5>. QED
          BY <3>1, <4>2, <5>1
      <4>3. CASE n = 2
        <5>1. n - 1 = 1
          BY <4>3
        <5>. QED
          BY <3>1, <4>3, <5>1
      <4>. QED
        BY <3>2, <4>1, <4>2, <4>3
    <3>. QED
      BY <3>2
  <2>2. g = [n \in 0 .. 2 |-> g[n]]
    OBVIOUS
  <2>. HIDE DEF g
  <2>. QED
    BY <2>1, <2>2
<1>5. upTo = Chain(upTo)
  BY <1>4
<1>. HIDE DEF upTo
<1>6. \A n \in 0 .. 2 : upTo[n] = IF n = 0 THEN <<>> ELSE upTo[n - 1] \o h(n)
  BY <1>5
<1>7. upTo[0] = <<>> /\ upTo[1] = upTo[1 - 1] \o h(1) /\ upTo[2] = upTo[2 - 1] \o h(2)
  BY <1>6
<1>8. 1 - 1 = 0 /\ 2 - 1 = 1 /\ <<>> \o h(1) = h(1)
  BY <1>3
<1>. QED
  BY <1>2, <1>3, <1>7, <1>8

LEMMA ChainOfPublic ==
    ASSUME NEW q, q.to = "auth", Route(q) \in AuthPublic
    PROVE  RunChain(q) = IF q.path = <<"logout">> \/ ~q.verbatim THEN <<>> ELSE <<"credentialRateLimiter">>
<1>1. PICK b \in Throttled \cup {"logout"} : q.path = <<b>> /\ q.method = "POST"
  BY DEF Route, AuthPublic, Throttled
<1>2. (q.path = <<"logout">>) <=> b = "logout"
  BY <1>1
<1>3. (Covers(authPolicies[1], q) <=> q.verbatim /\ b # "logout") /\ ~Covers(authPolicies[2], q)
  BY <1>1, AuthCovers DEF Throttled, Own
<1>. QED
  BY <1>2, <1>3, AuthChain

\* A request that the edge's table recognises as one for an authenticated route.
Recognised(q) == q.to = "auth" /\ q.verbatim /\ Route(q) \in AuthAuthenticated

LEMMA ChainOfAuthenticated ==
    ASSUME NEW q, Recognised(q)
    PROVE  RunChain(q) = <<"authenticate">>
<1>1. PICK b \in Own : q.path = <<b>> /\ q.method \in Methods
  BY DEF Recognised, Route, AuthAuthenticated, Own, Methods
<1>2. ~Covers(authPolicies[1], q) /\ Covers(authPolicies[2], q)
  BY <1>1, AuthCovers DEF Recognised, Throttled, Own
<1>. QED
  BY <1>2, AuthChain DEF Recognised

-----------------------------------------------------------------------------
(* Invariants *)

Pcs == {"idle", "arrived", "chain", "verify", "proxy", "sent", "relaying", "probing", "done"}
Replies == Statuses \cup {None, "relayed", "truncated"}
Early == {"idle", "arrived", "chain", "verify", "probing"}
Outcomes == {"none", "accepted", "executed", "declined"}
Refused == {"401", "403", "404", "413", "429", "503"}

Shape ==
    /\ pc \in [Requests -> Pcs]
    /\ service \in [Requests -> Outcomes]
    /\ reply \in [Requests -> Replies]
    /\ sentIn \in [Requests -> Nat]
    /\ req = [r \in Requests |-> req[r]] /\ todo = [r \in Requests |-> todo[r]]
    /\ auth = [r \in Requests |-> auth[r]]
    /\ window \in Nat \ {0} /\ credHits \in Nat

\* No service saw a request that is still in the chain, or that was refused; nothing is
\* answered before it is done; nobody went to the proxy who is in the chain.
InOrder(r) ==
    /\ pc[r] \in Early \cup {"proxy"} => service[r] = "none"
    /\ pc[r] = "done" /\ reply[r] \in Refused => service[r] = "none"
    /\ reply[r] # None <=> pc[r] = "done"
    /\ pc[r] \in {"chain", "verify"} => todo[r] # <<>>
    /\ pc[r] \in Early => sentIn[r] = 0

\* A public route of the auth service asks for no token; one that is not, and that the
\* edge recognises, passes the proxy with claims.
Sorted(r) ==
    pc[r] # "idle" /\ req[r].to = "auth" =>
        /\ Route(req[r]) \in AuthPublic =>
               /\ pc[r] # "verify" /\ reply[r] \notin {"401", "403"}
               /\ pc[r] = "chain" =>
                      todo[r] = <<"credentialRateLimiter">> /\ req[r].path # <<"logout">> /\ req[r].verbatim
        /\ Recognised(req[r]) =>
               /\ pc[r] \in {"chain", "verify"} => todo[r] = <<"authenticate">>
               /\ pc[r] \in {"proxy", "sent", "relaying"} \/ service[r] # "none" => auth[r] # None

\* A service did what it was asked for by somebody it knows.
Served(r) == service[r] = "executed" => ~Declines(req[r])

Good(r) == InOrder(r) /\ Sorted(r) /\ Served(r)

\* What is counted against the allowance.
AllowanceRoute(q) == Credential(q) /\ q.verbatim

\* The requests of one window that share the allowance.
Used(w) == {r \in Requests : sentIn[r] = w /\ AllowanceRoute(req[r])}
Accounts ==
    /\ \A r \in Requests : sentIn[r] <= window
    /\ \A w \in 1 .. window :
           /\ IsFiniteSet(Used(w)) /\ Cardinality(Used(w)) <= AUTH_RATE_LIMIT_MAX
           /\ w = window => Cardinality(Used(w)) <= credHits

Sound == Shape /\ (\A r \in Requests : Good(r)) /\ Accounts

-----------------------------------------------------------------------------
(* What a step does to one request *)

Same(x) ==
    /\ pc'[x] = pc[x] /\ req'[x] = req[x] /\ todo'[x] = todo[x] /\ auth'[x] = auth[x]
    /\ service'[x] = service[x] /\ reply'[x] = reply[x] /\ sentIn'[x] = sentIn[x]
OthersStay(r) == \A x \in Requests \ {r} : Same(x)
\* The allowance of each window stays as it is.
NothingSpent(r) ==
    /\ UNCHANGED <<credHits, window>>
    /\ \/ sentIn'[r] = sentIn[r] /\ req'[r] = req[r]
       \/ sentIn[r] = 0 /\ sentIn'[r] = 0
       \/ sentIn[r] = 0 /\ sentIn'[r] = window /\ req'[r] = req[r] /\ ~AllowanceRoute(req[r])
Steps(r) == Shape' /\ Good(r)' /\ OthersStay(r)

LEMMA Goes ==
    ASSUME Shape, NEW r \in Requests, NEW where \in Pcs, Goto(r, where)
    PROVE  pc' \in [Requests -> Pcs] /\ pc'[r] = where /\ \A x \in Requests \ {r} : pc'[x] = pc[x]
  BY DEF Shape, Goto

LEMMA Answers ==
    ASSUME Shape, NEW r \in Requests, NEW status \in Replies \ {None}, Answer(r, status)
    PROVE  /\ pc' \in [Requests -> Pcs] /\ reply' \in [Requests -> Replies]
           /\ pc'[r] = "done" /\ reply'[r] = status
           /\ \A x \in Requests \ {r} : pc'[x] = pc[x] /\ reply'[x] = reply[x]
  BY DEF Shape, Goto, Answer, Pcs

LEMMA HandsOn ==
    ASSUME Shape, NEW r \in Requests, NEW rest, HandOn(r, rest)
    PROVE  /\ pc' \in [Requests -> Pcs] /\ sentIn' \in [Requests -> Nat] /\ todo' = [x \in Requests |-> todo'[x]]
           /\ todo'[r] = rest
           /\ IF rest = <<>> THEN pc'[r] = "proxy" /\ sentIn'[r] = window
              ELSE pc'[r] = "chain" /\ sentIn'[r] = sentIn[r]
           /\ \A x \in Requests \ {r} : pc'[x] = pc[x] /\ todo'[x] = todo[x] /\ sentIn'[x] = sentIn[x]
<1>1. todo' = [todo EXCEPT ![r] = rest] /\ todo = [x \in Requests |-> todo[x]]
  BY DEF HandOn, Shape
<1>2. /\ todo' = [x \in Requests |-> todo'[x]] /\ todo'[r] = rest
      /\ \A x \in Requests \ {r} : todo'[x] = todo[x]
  BY <1>1
<1>0. sentIn \in [Requests -> Nat] /\ window \in Nat
  BY DEF Shape
<1>3. CASE rest = <<>>
  <2>1. Goto(r, "proxy") /\ sentIn' = [sentIn EXCEPT ![r] = window]
    BY <1>3 DEF HandOn
  <2>2. /\ sentIn' \in [Requests -> Nat] /\ sentIn'[r] = window
        /\ \A x \in Requests \ {r} : sentIn'[x] = sentIn[x]
    BY <1>0, <2>1
  <2>3. pc' \in [Requests -> Pcs] /\ pc'[r] = "proxy" /\ \A x \in Requests \ {r} : pc'[x] = pc[x]
    BY <2>1, Goes DEF Pcs
  <2>. QED
    BY <1>2, <1>3, <2>2, <2>3
<1>4. CASE rest # <<>>
  <2>1. Goto(r, "chain") /\ UNCHANGED sentIn
    BY <1>4 DEF HandOn
  <2>2. pc' \in [Requests -> Pcs] /\ pc'[r] = "chain" /\ \A x \in Requests \ {r} : pc'[x] = pc[x]
    BY <2>1, Goes DEF Pcs
  <2>. QED
    BY <1>0, <1>2, <1>4, <2>1, <2>2
<1>. QED
  BY <1>3, <1>4

\* An answer that the edge gives itself, before the proxy.
LEMMA EdgeAnswers ==
    ASSUME Shape, NEW r \in Requests, Good(r), pc[r] \in Early, NEW status \in Statuses, Answer(r, status),
           UNCHANGED <<todo, auth, service, sentIn, req, window>>, credHits' \in Nat,
           req[r].to = "auth" /\ Route(req[r]) \in AuthPublic /\ pc[r] # "idle" => status \notin {"401", "403"},
           pc[r] # "idle"
    PROVE  Steps(r)
<1>1. status \in Replies \ {None}
  BY GatewayAssumption DEF Statuses, Replies
<1>2. /\ pc' \in [Requests -> Pcs] /\ reply' \in [Requests -> Replies]
      /\ pc'[r] = "done" /\ reply'[r] = status
      /\ \A x \in Requests \ {r} : pc'[x] = pc[x] /\ reply'[x] = reply[x]
  BY <1>1, Answers
<1>3. Shape' /\ OthersStay(r)
  BY <1>2 DEF Shape, OthersStay, Same
<1>4. InOrder(r)'
  BY <1>1, <1>2 DEF Good, InOrder
<1>5. Sorted(r)'
  BY <1>2 DEF Good, InOrder, Sorted, Early, Route, Recognised
<1>6. Served(r)'
  BY DEF Good, Served, Declines, Route
<1>. QED
  BY <1>3, <1>4, <1>5, <1>6 DEF Steps, Good


\* The chain goes on, or ends at the proxy.
LEMMA ChainGoesOn ==
    ASSUME Shape, NEW r \in Requests, Good(r), pc[r] \in {"arrived", "chain", "verify"}, NEW rest, HandOn(r, rest),
           UNCHANGED <<req, service, reply, window>>, credHits' \in Nat,
           auth' = [x \in Requests |-> auth'[x]], \A x \in Requests \ {r} : auth'[x] = auth[x],
           req[r].to = "auth" /\ Route(req[r]) \in AuthPublic =>
               \/ rest = <<>>
               \/ rest = <<"credentialRateLimiter">> /\ req[r].path # <<"logout">> /\ req[r].verbatim,
           Recognised(req[r]) =>
               IF rest = <<>> THEN auth'[r] # None ELSE rest = <<"authenticate">>
    PROVE  Steps(r)
<1>1. /\ pc' \in [Requests -> Pcs] /\ sentIn' \in [Requests -> Nat] /\ todo' = [x \in Requests |-> todo'[x]]
      /\ todo'[r] = rest
      /\ IF rest = <<>> THEN pc'[r] = "proxy" /\ sentIn'[r] = window
         ELSE pc'[r] = "chain" /\ sentIn'[r] = sentIn[r]
      /\ \A x \in Requests \ {r} : pc'[x] = pc[x] /\ todo'[x] = todo[x] /\ sentIn'[x] = sentIn[x]
  BY HandsOn
<1>2. Shape' /\ OthersStay(r)
  BY <1>1 DEF Shape, OthersStay, Same
<1>3. service[r] = "none" /\ reply[r] = None /\ sentIn[r] = 0
  BY DEF Good, InOrder, Early
<1>4. InOrder(r)'
  BY <1>1, <1>3 DEF InOrder, Early
<1>5. None \notin {"401", "403"} /\ <<>> # <<"credentialRateLimiter">> /\ <<>> # <<"authenticate">>
  BY GatewayAssumption
<1>6. Sorted(r)'
  BY <1>1, <1>3, <1>5 DEF Sorted, Route, Recognised
<1>7. Served(r)'
  BY <1>3 DEF Served
<1>. QED
  BY <1>2, <1>4, <1>6, <1>7 DEF Steps, Good

\* Where nothing goes to the proxy, nothing is spent.
LEMMA SpentNothing ==
    ASSUME UNCHANGED <<credHits, window, sentIn, req>>, NEW r \in Requests
    PROVE  NothingSpent(r)
  BY DEF NothingSpent

LEMMA ArriveSteps ==
    ASSUME Shape, NEW r \in Requests, Good(r), Arrive(r)
    PROVE  Steps(r) /\ NothingSpent(r)
<1>1. PICK q \in Offered[r] :
          /\ req' = [req EXCEPT ![r] = q]
          /\ \/ Answer(r, "204") \/ Answer(r, "413") \/ Answer(r, "200")
             \/ Goto(r, "probing") /\ UNCHANGED reply
             \/ Goto(r, "arrived") /\ UNCHANGED reply
  BY DEF Arrive
<1>2. UNCHANGED <<todo, auth, service, sentIn, credHits, window>> /\ pc[r] = "idle"
  BY DEF Arrive, far, counters
<1>3. service[r] = "none" /\ reply[r] = None /\ sentIn[r] = 0
  BY <1>2 DEF Good, InOrder, Early
<1>4. req = [x \in Requests |-> req[x]]
  BY DEF Shape
<1>5. req' = [x \in Requests |-> req'[x]] /\ \A x \in Requests \ {r} : req'[x] = req[x]
  BY <1>1, <1>4
<1>6. /\ pc' \in [Requests -> Pcs] /\ reply' \in [Requests -> Replies]
      /\ \/ pc'[r] = "done" /\ reply'[r] \in {"204", "413", "200"}
         \/ pc'[r] \in {"probing", "arrived"} /\ reply'[r] = None
      /\ \A x \in Requests \ {r} : pc'[x] = pc[x] /\ reply'[x] = reply[x]
  <2>1. {"204", "413"} \subseteq Replies \ {None} /\ "200" \in Replies \ {None} /\ reply \in [Requests -> Replies]
    BY GatewayAssumption DEF Replies, Statuses, Shape
  <2>2. CASE Answer(r, "204") \/ Answer(r, "413") \/ Answer(r, "200")
    BY <2>1, <2>2, Answers
  <2>3. CASE Goto(r, "probing") /\ UNCHANGED reply
    BY <1>3, <2>1, <2>3, Goes DEF Pcs
  <2>4. CASE Goto(r, "arrived") /\ UNCHANGED reply
    BY <1>3, <2>1, <2>4, Goes DEF Pcs
  <2>. QED
    BY <1>1, <2>2, <2>3, <2>4
<1>7. Shape' /\ OthersStay(r)
  <2>1. Shape'
    BY <1>2, <1>5, <1>6 DEF Shape
  <2>. QED
    BY <2>1, <1>2, <1>5, <1>6 DEF OthersStay, Same
<1>8. None \notin {"204", "401", "403", "413", "200"}
  BY GatewayAssumption
<1>9. InOrder(r)'
  BY <1>2, <1>3, <1>6, <1>8 DEF InOrder
<1>10. Sorted(r)'
  BY <1>2, <1>3, <1>6, <1>8 DEF Sorted
<1>11. NothingSpent(r)
  BY <1>2, <1>3 DEF NothingSpent
<1>12. Served(r)'
  BY <1>2, <1>3 DEF Served
<1>. QED
  BY <1>7, <1>9, <1>10, <1>11, <1>12 DEF Steps, Good

LEMMA RateLimiterSteps ==
    ASSUME Shape, NEW r \in Requests, Good(r), RateLimiter(r)
    PROVE  Steps(r) /\ NothingSpent(r)
<1>1. UNCHANGED <<req, auth, service, credHits, window>> /\ pc[r] = "arrived" /\ sentIn[r] = 0
  BY DEF RateLimiter, far, Good, InOrder, Early
<1>2. auth = [x \in Requests |-> auth[x]] /\ credHits \in Nat
  BY DEF Shape
<1>3. CASE (Answer(r, "429") \/ Answer(r, "404")) /\ UNCHANGED <<todo, sentIn>>
  <2>1. Steps(r)
    BY <1>1, <1>2, <1>3, EdgeAnswers DEF Early, Statuses
  <2>. QED
    BY <1>1, <1>3, <2>1, SpentNothing
<1>4. CASE HandOn(r, RunChain(req[r])) /\ UNCHANGED reply
  <2>1. req[r].to = "auth" /\ Route(req[r]) \in AuthPublic =>
            RunChain(req[r]) =
                IF req[r].path = <<"logout">> \/ ~req[r].verbatim THEN <<>> ELSE <<"credentialRateLimiter">>
    BY ChainOfPublic
  <2>2. Recognised(req[r]) => RunChain(req[r]) = <<"authenticate">>
    BY ChainOfAuthenticated
  <2>3. Steps(r)
    BY <1>1, <1>2, <1>4, <2>1, <2>2, ChainGoesOn
  <2>4. AllowanceRoute(req[r]) => RunChain(req[r]) # <<>>
    <3>1. <<"credentialRateLimiter">> # <<>>
      OBVIOUS
    <3>. QED
      BY <2>1, <3>1 DEF AllowanceRoute, Credential
  <2>5. /\ RunChain(req[r]) # <<>> => sentIn'[r] = sentIn[r]
        /\ RunChain(req[r]) = <<>> => sentIn'[r] = window
    BY <1>4, HandsOn
  <2>. QED
    BY <1>1, <2>3, <2>4, <2>5 DEF NothingSpent
<1>. QED
  BY <1>3, <1>4 DEF RateLimiter

LEMMA AuthenticateSteps ==
    ASSUME Shape, NEW r \in Requests, Good(r), Authenticate(r)
    PROVE  Steps(r) /\ NothingSpent(r)
<1>1. /\ UNCHANGED <<req, todo, auth, service, credHits, window, sentIn>>
      /\ pc[r] = "chain" /\ Head(todo[r]) = "authenticate"
  BY DEF Authenticate, far, edge, counters, At
<1>2. ~(req[r].to = "auth" /\ Route(req[r]) \in AuthPublic)
  BY <1>1 DEF Good, Sorted
<1>3. NothingSpent(r)
  BY <1>1, SpentNothing
<1>4. CASE Answer(r, "401")
  BY <1>1, <1>2, <1>3, <1>4, EdgeAnswers DEF Early, Statuses, Shape
<1>5. CASE Goto(r, "verify") /\ UNCHANGED reply
  <2>1. pc' \in [Requests -> Pcs] /\ pc'[r] = "verify" /\ \A x \in Requests \ {r} : pc'[x] = pc[x]
    BY <1>5, Goes DEF Pcs
  <2>2. Shape'
    BY <1>1, <1>5, <2>1 DEF Shape
  <2>3. OthersStay(r)
    BY <1>1, <1>5, <2>1 DEF OthersStay, Same
  <2>4. InOrder(r)'
    BY <1>1, <1>5, <2>1 DEF Good, InOrder, Early
  <2>5. Sorted(r)'
    BY <1>1, <1>2, <1>5, <2>1 DEF Good, Sorted, Route, Recognised
  <2>6. Served(r)'
    BY <1>1 DEF Good, Served, Declines, Route
  <2>. QED
    BY <1>3, <2>2, <2>3, <2>4, <2>5, <2>6 DEF Steps, Good
<1>. QED
  BY <1>4, <1>5 DEF Authenticate

LEMMA VerifiedSteps ==
    ASSUME Shape, NEW r \in Requests, Good(r), Verified(r)
    PROVE  Steps(r) /\ NothingSpent(r)
<1>1. UNCHANGED <<req, service, credHits, window>> /\ pc[r] = "verify" /\ sentIn[r] = 0 /\ credHits \in Nat
  BY DEF Verified, far, counters, Good, InOrder, Early, Shape
<1>2. ~(req[r].to = "auth" /\ Route(req[r]) \in AuthPublic)
  BY <1>1 DEF Good, Sorted
<1>3. CASE Answer(r, "401") /\ UNCHANGED <<edge, sentIn>>
  <2>1. Steps(r)
    BY <1>1, <1>2, <1>3, EdgeAnswers DEF Early, Statuses, edge
  <2>. QED
    BY <1>1, <1>3, <2>1, SpentNothing
<1>4. ASSUME NEW claims, claims # None, auth' = [auth EXCEPT ![r] = claims], HandOn(r, Tail(todo[r])), UNCHANGED reply
      PROVE  Steps(r) /\ NothingSpent(r)
  <2>1. auth = [x \in Requests |-> auth[x]]
    BY DEF Shape
  <2>2. /\ auth' = [x \in Requests |-> auth'[x]] /\ auth'[r] # None
        /\ \A x \in Requests \ {r} : auth'[x] = auth[x]
    BY <1>4, <2>1
  <2>3. Recognised(req[r]) => Tail(todo[r]) = <<>>
    <3>1. Tail(<<"authenticate">>) = <<>>
      OBVIOUS
    <3>. QED
      BY <1>1, <3>1 DEF Good, Sorted, Recognised
  <2>4. Steps(r)
    BY <1>1, <1>2, <1>4, <2>2, <2>3, ChainGoesOn
  <2>5. sentIn'[r] \in {sentIn[r], window}
    BY <1>4, HandsOn
  <2>. QED
    BY <1>1, <1>2, <2>4, <2>5 DEF NothingSpent, AllowanceRoute, Credential
<1>. QED
  BY <1>3, <1>4 DEF Verified

LEMMA RequireRoleSteps ==
    ASSUME Shape, NEW r \in Requests, Good(r), RequireRole(r)
    PROVE  Steps(r) /\ NothingSpent(r)
<1>1. /\ UNCHANGED <<req, auth, service, credHits, window>> /\ credHits \in Nat
      /\ pc[r] = "chain" /\ Head(todo[r]) = "requireRole" /\ sentIn[r] = 0
  BY DEF RequireRole, far, counters, At, Good, InOrder, Early, Shape
<1>2. ~(req[r].to = "auth" /\ Route(req[r]) \in AuthPublic) /\ ~Recognised(req[r])
  BY <1>1 DEF Good, Sorted, Recognised
<1>3. CASE (Answer(r, "401") \/ Answer(r, "403")) /\ UNCHANGED <<todo, sentIn>>
  <2>1. Steps(r)
    BY <1>1, <1>2, <1>3, EdgeAnswers DEF Early, Statuses
  <2>. QED
    BY <1>1, <1>3, <2>1, SpentNothing
<1>4. CASE HandOn(r, Tail(todo[r])) /\ UNCHANGED reply
  <2>1. auth = [x \in Requests |-> auth[x]]
    BY DEF Shape
  <2>2. Steps(r)
    BY <1>1, <1>2, <1>4, <2>1, ChainGoesOn
  <2>3. sentIn'[r] \in {sentIn[r], window}
    BY <1>4, HandsOn
  <2>. QED
    BY <1>1, <1>2, <2>2, <2>3 DEF NothingSpent, AllowanceRoute, Credential
<1>. QED
  BY <1>3, <1>4 DEF RequireRole


\* A public route spends its allowance here, and goes to the proxy.
LEMMA CredentialSteps ==
    ASSUME Shape, NEW r \in Requests, Good(r), CredentialRateLimiter(r)
    PROVE  /\ Steps(r) /\ credHits' = credHits + 1 /\ UNCHANGED <<req, window>>
           /\ sentIn[r] = 0 /\ sentIn'[r] \in {0, window}
           /\ sentIn'[r] = window => credHits' <= AUTH_RATE_LIMIT_MAX
<1>1. /\ UNCHANGED <<req, auth, service, window>> /\ credHits' = credHits + 1 /\ credHits \in Nat
      /\ pc[r] = "chain" /\ Head(todo[r]) = "credentialRateLimiter" /\ sentIn[r] = 0 /\ credHits' \in Nat
      /\ window # 0
  BY DEF CredentialRateLimiter, far, counters, At, Good, InOrder, Early, Shape
<1>2. ~Recognised(req[r])
  BY <1>1 DEF Good, Sorted, Recognised
<1>3. CASE Answer(r, "429") /\ UNCHANGED <<todo, sentIn>>
  <2>1. Steps(r)
    BY <1>1, <1>3, EdgeAnswers DEF Early, Statuses
  <2>. QED
    BY <1>1, <1>3, <2>1
<1>4. CASE credHits' <= AUTH_RATE_LIMIT_MAX /\ HandOn(r, Tail(todo[r])) /\ UNCHANGED reply
  <2>1. auth = [x \in Requests |-> auth[x]]
    BY DEF Shape
  <2>2. req[r].to = "auth" /\ Route(req[r]) \in AuthPublic => Tail(todo[r]) = <<>>
    <3>1. Tail(<<"credentialRateLimiter">>) = <<>>
      OBVIOUS
    <3>. QED
      BY <1>1, <3>1 DEF Good, Sorted
  <2>3. Steps(r)
    BY <1>1, <1>2, <1>4, <2>1, <2>2, ChainGoesOn
  <2>4. sentIn'[r] \in {sentIn[r], window}
    BY <1>4, HandsOn
  <2>. QED
    BY <1>1, <1>4, <2>3, <2>4
<1>. QED
  BY <1>3, <1>4 DEF CredentialRateLimiter

-----------------------------------------------------------------------------
(* Behind the chain *)

LEMMA BehindTheChain ==
    ASSUME Shape, NEW r \in Requests, Good(r), UNCHANGED <<req, todo, auth, sentIn, credHits, window>>,
           pc' \in [Requests -> Pcs], reply' \in [Requests -> Replies],
           service' \in [Requests -> Outcomes],
           \A x \in Requests \ {r} : pc'[x] = pc[x] /\ reply'[x] = reply[x] /\ service'[x] = service[x],
           pc[r] \notin {"idle", "arrived", "chain", "verify"},
           pc'[r] \notin {"idle", "arrived", "chain", "verify"},
           pc'[r] \in {"probing", "proxy"} => service'[r] = "none",
           pc'[r] = "probing" => pc[r] = "probing",
           pc'[r] = "done" /\ reply'[r] \in Refused => service'[r] = "none",
           reply'[r] # None <=> pc'[r] = "done",
           reply'[r] \in {"401", "403"} => reply'[r] = reply[r],
           pc'[r] \in {"proxy", "sent", "relaying"} \/ service'[r] # "none" =>
               pc[r] \in {"proxy", "sent", "relaying"} \/ service[r] # "none",
           service'[r] = "executed" => service[r] = "executed" \/ ~Declines(req[r])
    PROVE  Steps(r) /\ NothingSpent(r)
<1>1. Shape'
  BY DEF Shape
<1>2. OthersStay(r)
  BY DEF OthersStay, Same
<1>3. InOrder(r)'
  BY DEF Good, InOrder, Early
<1>4. Sorted(r)'
  BY DEF Good, Sorted, Route, Recognised
<1>5. Served(r)'
  BY DEF Good, Served, Declines, Route
<1>. QED
  BY <1>1, <1>2, <1>3, <1>4, <1>5, SpentNothing DEF Steps, Good

\* What the client is told of a service that failed: a refusal only if it failed before
\* it accepted the request.
LEMMA GatewayError ==
    ASSUME Shape, NEW r \in Requests, NEW code, ProxyError(r, code)
    PROVE  /\ pc' \in [Requests -> Pcs] /\ reply' \in [Requests -> Replies] /\ pc'[r] = "done"
           /\ reply'[r] \in {"truncated", "502", "503", "504"}
           /\ reply'[r] = "503" => code \in Refusals
           /\ \A x \in Requests \ {r} : pc'[x] = pc[x] /\ reply'[x] = reply[x]
<1>. DEFINE status == IF pc[r] = "relaying" THEN "truncated" ELSE toGatewayError(code)
<1>1. status \in {"truncated", "502", "503", "504"} /\ (status = "503" => code \in Refusals)
  BY DEF toGatewayError
<1>2. Answer(r, status)
  BY DEF ProxyError
<1>. HIDE DEF status
<1>3. status \in Replies \ {None}
  BY <1>1, GatewayAssumption DEF Replies, Statuses
<1>. QED
  BY <1>1, <1>2, <1>3, Answers

LEMMA ConnectSteps ==
    ASSUME Shape, NEW r \in Requests, Good(r), Connect(r)
    PROVE  Steps(r) /\ NothingSpent(r)
<1>1. /\ UNCHANGED <<req, todo, auth, sentIn, credHits, window>> /\ pc[r] = "proxy"
      /\ service[r] = "none" /\ reply[r] = None
      /\ reply \in [Requests -> Replies] /\ service \in [Requests -> Outcomes]
  BY DEF Connect, edge, counters, Good, InOrder, Shape
<1>2. CASE Goto(r, "sent") /\ service' = [service EXCEPT ![r] = "accepted"] /\ UNCHANGED reply
  <2>1. pc' \in [Requests -> Pcs] /\ pc'[r] = "sent" /\ \A x \in Requests \ {r} : pc'[x] = pc[x]
    BY <1>2, Goes DEF Pcs
  <2>2. /\ service' \in [Requests -> Outcomes]
        /\ \A x \in Requests \ {r} : service'[x] = service[x]
    BY <1>1, <1>2 DEF Outcomes
  <2>3. None \notin {"401", "403"}
    BY GatewayAssumption
  <2>. QED
    BY <1>1, <1>2, <2>1, <2>2, <2>3, BehindTheChain
<1>3. CASE (\E code \in {"ECONNREFUSED", "EAI_AGAIN"} : ProxyError(r, code)) /\ UNCHANGED service
  <2>1. PICK code : ProxyError(r, code)
    BY <1>3
  <2>2. /\ pc' \in [Requests -> Pcs] /\ reply' \in [Requests -> Replies] /\ pc'[r] = "done"
        /\ reply'[r] \in {"truncated", "502", "503", "504"}
        /\ \A x \in Requests \ {r} : pc'[x] = pc[x] /\ reply'[x] = reply[x]
    BY <2>1, GatewayError
  <2>3. reply'[r] # None
    BY <2>2, GatewayAssumption
  <2>. QED
    BY <1>1, <1>3, <2>2, <2>3, BehindTheChain
<1>. QED
  BY <1>2, <1>3 DEF Connect

LEMMA ExecuteSteps ==
    ASSUME Shape, NEW r \in Requests, Good(r), Execute(r)
    PROVE  Steps(r) /\ NothingSpent(r)
<1>1. /\ UNCHANGED <<pc, reply, req, todo, auth, sentIn, credHits, window>> /\ service[r] = "accepted"
      /\ pc \in [Requests -> Pcs] /\ reply \in [Requests -> Replies] /\ service \in [Requests -> Outcomes]
      /\ service' = [service EXCEPT ![r] = IF Declines(req[r]) THEN "declined" ELSE "executed"]
  BY DEF Execute, edge, counters, Shape
<1>2. /\ service' \in [Requests -> Outcomes]
      /\ \A x \in Requests \ {r} : service'[x] = service[x]
      /\ service'[r] = "executed" => ~Declines(req[r])
  BY <1>1 DEF Outcomes
<1>3. /\ pc[r] \notin Early \cup {"proxy"} /\ (reply[r] # None <=> pc[r] = "done")
      /\ ~(pc[r] = "done" /\ reply[r] \in Refused)
  BY <1>1 DEF Good, InOrder
<1>. QED
  BY <1>1, <1>2, <1>3, BehindTheChain DEF Early

LEMMA ReplySteps ==
    ASSUME Shape, NEW r \in Requests, Good(r),
           Respond(r) \/ Relayed(r) \/ ProxyTimeout(r) \/ UpstreamBroke(r)
    PROVE  Steps(r) /\ NothingSpent(r)
<1>1. /\ UNCHANGED <<service, req, todo, auth, sentIn, credHits, window>> /\ pc[r] \in {"sent", "relaying"}
      /\ reply \in [Requests -> Replies] /\ service \in [Requests -> Outcomes]
      /\ reply[r] = None
  BY DEF Respond, Relayed, ProxyTimeout, UpstreamBroke, edge, far, counters, Good, InOrder, Shape
<1>2. CASE Goto(r, "relaying") /\ UNCHANGED reply
  <2>1. pc' \in [Requests -> Pcs] /\ pc'[r] = "relaying" /\ \A x \in Requests \ {r} : pc'[x] = pc[x]
    BY <1>2, Goes DEF Pcs
  <2>2. None \notin {"401", "403"}
    BY GatewayAssumption
  <2>. QED
    BY <1>1, <1>2, <2>1, <2>2, BehindTheChain
<1>3. CASE Answer(r, "relayed")
  <2>1. "relayed" \in Replies \ {None} /\ "relayed" \notin Refused
    BY GatewayAssumption DEF Replies, Refused
  <2>2. /\ pc' \in [Requests -> Pcs] /\ reply' \in [Requests -> Replies]
        /\ pc'[r] = "done" /\ reply'[r] = "relayed"
        /\ \A x \in Requests \ {r} : pc'[x] = pc[x] /\ reply'[x] = reply[x]
    BY <1>3, <2>1, Answers
  <2>. QED
    BY <1>1, <2>1, <2>2, BehindTheChain
<1>4. ASSUME NEW code \in {"HPE_INVALID_CONSTANT", "ECONNRESET", "EPIPE"}, ProxyError(r, code)
      PROVE  Steps(r) /\ NothingSpent(r)
  <2>1. /\ pc' \in [Requests -> Pcs] /\ reply' \in [Requests -> Replies] /\ pc'[r] = "done"
        /\ reply'[r] \in {"truncated", "502", "503", "504"}
        /\ reply'[r] = "503" => code \in Refusals
        /\ \A x \in Requests \ {r} : pc'[x] = pc[x] /\ reply'[x] = reply[x]
    BY <1>4, GatewayError
  <2>2. code \notin Refusals
    BY <1>4 DEF Refusals
  <2>3. reply'[r] # None /\ reply'[r] \notin Refused
    BY <2>1, <2>2, GatewayAssumption DEF Refused
  <2>. QED
    BY <1>1, <2>1, <2>3, BehindTheChain
<1>. QED
  BY <1>2, <1>3, <1>4 DEF Respond, Relayed, ProxyTimeout, UpstreamBroke

LEMMA ProbeSteps ==
    ASSUME Shape, NEW r \in Requests, Good(r), Ready(r) \/ \E s \in Services : Probe(r, s)
    PROVE  Steps(r) /\ NothingSpent(r)
<1>1. /\ UNCHANGED <<service, req, todo, auth, sentIn, credHits, window>> /\ pc[r] = "probing"
      /\ pc \in [Requests -> Pcs] /\ reply \in [Requests -> Replies]
      /\ service \in [Requests -> Outcomes]
      /\ service[r] = "none" /\ reply[r] = None
  BY DEF Ready, Probe, edge, far, counters, Good, InOrder, Early, Shape
<1>2. CASE UNCHANGED <<pc, reply>>
  BY <1>1, <1>2, BehindTheChain
<1>3. CASE Answer(r, "503") \/ Answer(r, "200")
  <2>1. {"503", "200"} \subseteq Replies \ {None}
    BY GatewayAssumption DEF Replies, Statuses
  <2>2. /\ pc' \in [Requests -> Pcs] /\ reply' \in [Requests -> Replies]
        /\ pc'[r] = "done" /\ reply'[r] \in {"503", "200"}
        /\ \A x \in Requests \ {r} : pc'[x] = pc[x] /\ reply'[x] = reply[x]
    BY <1>3, <2>1, Answers
  <2>3. reply'[r] # None
    BY <2>1, <2>2
  <2>. QED
    BY <1>1, <2>2, <2>3, BehindTheChain
<1>. QED
  BY <1>2, <1>3 DEF Ready, Probe


-----------------------------------------------------------------------------
(* The allowance *)

LEMMA OthersGood ==
    ASSUME NEW r \in Requests, \A x \in Requests : Good(x), Steps(r)
    PROVE  \A x \in Requests : Good(x)'
<1>1. ASSUME NEW x \in Requests \ {r} PROVE Good(x)'
  <2>1. Same(x) /\ Good(x)
    BY DEF Steps, OthersStay
  <2>. QED
    BY <2>1 DEF Same, Good, InOrder, Sorted, Served, Declines, Route, Recognised
<1>. QED
  BY <1>1 DEF Steps

LEMMA NothingSpentKeeps ==
    ASSUME Shape, Accounts, NEW r \in Requests, Steps(r), NothingSpent(r)
    PROVE  Accounts'
<1>1. UNCHANGED <<credHits, window>> /\ window \in Nat \ {0} /\ sentIn \in [Requests -> Nat]
  BY DEF NothingSpent, Shape
<1>2. ASSUME NEW w \in 1 .. window PROVE Used(w)' = Used(w)
  <2>1. \A x \in Requests \ {r} : sentIn'[x] = sentIn[x] /\ req'[x] = req[x]
    BY DEF Steps, OthersStay, Same
  <2>2. (sentIn'[r] = w /\ AllowanceRoute(req'[r])) <=> (sentIn[r] = w /\ AllowanceRoute(req[r]))
    BY DEF NothingSpent
  <2>. QED
    BY <2>1, <2>2 DEF Used
<1>3. \A x \in Requests : sentIn'[x] <= window'
  BY <1>1 DEF Accounts, Steps, OthersStay, Same, NothingSpent
<1>4. window \in 1 .. window
  BY <1>1
<1>. QED
  BY <1>1, <1>2, <1>3, <1>4 DEF Accounts

LEMMA CredentialKeeps ==
    ASSUME Shape, Accounts, NEW r \in Requests, Good(r), CredentialRateLimiter(r)
    PROVE  Accounts'
<1>1. /\ Steps(r) /\ credHits' = credHits + 1 /\ UNCHANGED <<req, window>>
      /\ sentIn[r] = 0 /\ sentIn'[r] \in {0, window}
      /\ sentIn'[r] = window => credHits' <= AUTH_RATE_LIMIT_MAX
  BY CredentialSteps
<1>2. /\ window \in Nat \ {0} /\ credHits \in Nat /\ sentIn \in [Requests -> Nat] /\ window \in 1 .. window
      /\ AUTH_RATE_LIMIT_MAX \in Nat
  BY GatewayAssumption DEF Shape
<1>3. \A x \in Requests \ {r} : sentIn'[x] = sentIn[x] /\ req'[x] = req[x]
  BY <1>1 DEF Steps, OthersStay, Same
<1>4. \A x \in Requests : sentIn'[x] <= window'
  BY <1>1, <1>2, <1>3 DEF Accounts
<1>5. ASSUME NEW w \in 1 .. window
      PROVE  /\ IsFiniteSet(Used(w)') /\ Cardinality(Used(w)') <= AUTH_RATE_LIMIT_MAX
             /\ w = window => Cardinality(Used(w)') <= credHits'
  <2>1. /\ IsFiniteSet(Used(w)) /\ Cardinality(Used(w)) \in Nat /\ Cardinality(Used(w)) <= AUTH_RATE_LIMIT_MAX
        /\ w = window => Cardinality(Used(w)) <= credHits
    BY FS_CardinalityType DEF Accounts
  <2>2. sentIn[r] # w
    BY <1>1, <1>2
  <2>3. CASE Used(w)' = Used(w)
    BY <1>1, <1>2, <2>1, <2>3
  <2>4. CASE Used(w)' = Used(w) \cup {r} /\ sentIn'[r] = w
    <3>1. r \notin Used(w)
      BY <2>2 DEF Used
    <3>2. /\ IsFiniteSet(Used(w) \cup {r})
          /\ Cardinality(Used(w) \cup {r}) = Cardinality(Used(w)) + 1
      BY <2>1, <3>1, FS_AddElement
    <3>3. w = window /\ credHits' <= AUTH_RATE_LIMIT_MAX
      BY <1>1, <1>2, <2>4
    <3>. QED
      BY <1>1, <1>2, <2>1, <2>4, <3>2, <3>3
  <2>5. Used(w)' = Used(w) \/ (Used(w)' = Used(w) \cup {r} /\ sentIn'[r] = w)
    BY <1>1, <1>3, <2>2 DEF Used
  <2>. QED
    BY <2>3, <2>4, <2>5
<1>. QED
  BY <1>1, <1>4, <1>5 DEF Accounts

-----------------------------------------------------------------------------
(* All steps *)

LEMMA InitSound == Init => Sound
<1>. SUFFICES ASSUME Init PROVE Sound
  OBVIOUS
<1>1. Shape
  BY DEF Init, Shape, Pcs, Replies, Outcomes
<1>2. \A r \in Requests : Good(r)
  BY DEF Init, Good, InOrder, Sorted, Served, Refused
<1>3. \A w \in Nat \ {0} : Used(w) = {}
  BY DEF Init, Used
<1>4. IsFiniteSet({}) /\ Cardinality({}) = 0
  BY FS_EmptySet
<1>5. Accounts
  <2>1. window = 1 /\ credHits = 0 /\ \A r \in Requests : sentIn[r] <= window
    BY DEF Init
  <2>2. AUTH_RATE_LIMIT_MAX \in Nat
    BY GatewayAssumption
  <2>3. ASSUME NEW w \in 1 .. window
        PROVE  /\ IsFiniteSet(Used(w)) /\ Cardinality(Used(w)) <= AUTH_RATE_LIMIT_MAX
               /\ w = window => Cardinality(Used(w)) <= credHits
    <3>1. Used(w) = {}
      BY <1>3, <2>1
    <3>. QED
      BY <1>4, <2>1, <2>2, <3>1
  <2>. QED
    BY <2>1, <2>3 DEF Accounts
<1>. QED
  BY <1>1, <1>2, <1>5 DEF Sound

\* A step that concerns no request of its own.
LEMMA NobodySteps ==
    ASSUME Sound, UNCHANGED <<pc, req, todo, auth, service, reply, sentIn>>,
           \/ UNCHANGED <<credHits, window>>
           \/ credHits' = 0 /\ window' = window + 1
    PROVE  Sound'
<1>1. Shape /\ Accounts /\ \A r \in Requests : Good(r)
  BY DEF Sound
<1>2. Shape'
  BY <1>1 DEF Shape
<1>3. \A r \in Requests : Good(r)'
  BY <1>1 DEF Good, InOrder, Sorted, Served, Declines, Route, Recognised
<1>4. \A w \in Nat : Used(w)' = Used(w)
  BY DEF Used
<1>5. CASE UNCHANGED <<credHits, window>>
  <2>1. window \in Nat
    BY <1>1 DEF Shape
  <2>2. Accounts'
    BY <1>1, <1>4, <1>5, <2>1 DEF Accounts
  <2>. QED
    BY <1>2, <1>3, <2>2 DEF Sound
<1>6. CASE credHits' = 0 /\ window' = window + 1
  <2>1. window \in Nat \ {0} /\ sentIn \in [Requests -> Nat]
    BY <1>1 DEF Shape
  <2>2. IsFiniteSet({}) /\ Cardinality({}) = 0 /\ 0 <= AUTH_RATE_LIMIT_MAX
    BY FS_EmptySet, GatewayAssumption
  <2>3. ASSUME NEW w \in 1 .. window'
        PROVE  /\ IsFiniteSet(Used(w)') /\ Cardinality(Used(w)') <= AUTH_RATE_LIMIT_MAX
               /\ w = window' => Cardinality(Used(w)') <= credHits'
    <3>1. CASE w = window'
      <4>1. \A r \in Requests : sentIn[r] # w
        BY <1>1, <1>6, <2>1, <3>1 DEF Accounts
      <4>2. Used(w)' = {}
        BY <4>1 DEF Used
      <4>. QED
        BY <1>6, <2>2, <4>2
    <3>2. CASE w # window'
      <4>1. w \in 1 .. window
        BY <1>6, <2>1, <2>3, <3>2
      <4>2. Used(w)' = Used(w)
        BY <1>4, <4>1
      <4>. QED
        BY <1>1, <3>2, <4>1, <4>2 DEF Accounts
    <3>. QED
      BY <3>1, <3>2
  <2>4. \A r \in Requests : sentIn'[r] <= window'
    BY <1>1, <1>6, <2>1 DEF Accounts
  <2>5. Accounts'
    BY <2>3, <2>4 DEF Accounts
  <2>. QED
    BY <1>2, <1>3, <2>5 DEF Sound
<1>. QED
  BY <1>5, <1>6

LEMMA NextSound == Sound /\ [Next]_vars => Sound'
<1>. SUFFICES ASSUME Sound, [Next]_vars PROVE Sound'
  OBVIOUS
<1>1. Shape /\ Accounts /\ \A r \in Requests : Good(r)
  BY DEF Sound
<1>2. ASSUME NEW r \in Requests, Arrive(r) \/ Edge(r) \/ Service(r) PROVE Sound'
  <2>1. Good(r)
    BY <1>1
  <2>2. CASE CredentialRateLimiter(r)
    BY <1>1, <2>1, <2>2, CredentialSteps, CredentialKeeps, OthersGood DEF Sound, Steps
  <2>3. CASE ~CredentialRateLimiter(r)
    <3>1. Steps(r) /\ NothingSpent(r)
      BY <1>1, <1>2, <2>1, <2>3, ArriveSteps, RateLimiterSteps, AuthenticateSteps, VerifiedSteps, RequireRoleSteps,
         ConnectSteps, ExecuteSteps, ReplySteps, ProbeSteps DEF Edge, Service
    <3>. QED
      BY <1>1, <3>1, NothingSpentKeeps, OthersGood DEF Sound, Steps
  <2>. QED
    BY <2>2, <2>3
<1>3. CASE WindowEnds \/ CredentialWindowEnds
  BY <1>3, NobodySteps DEF WindowEnds, CredentialWindowEnds, edge, far
<1>4. CASE \E s \in Services : Crash(s) \/ Restart(s)
  BY <1>4, NobodySteps DEF Crash, Restart, edge, counters
<1>5. CASE UNCHANGED vars
  BY <1>5, NobodySteps DEF vars, edge, far, counters
<1>. QED
  BY <1>2, <1>3, <1>4, <1>5 DEF Next

LEMMA AlwaysSound == Spec => []Sound
  BY InitSound, NextSound, PTL DEF Spec

-----------------------------------------------------------------------------
(* Theorems *)

\* A request that the edge turned away, or that toGatewayError answers with 503, was
\* seen by no service, and may be sent again.
THEOREM RefusedUntouched == Spec => []RefusedIsUntouched
<1>1. Sound => RefusedIsUntouched
  BY DEF Sound, Good, InOrder, Refused, RefusedIsUntouched
<1>. QED
  BY <1>1, AlwaysSound, PTL

\* The edge splits public from authenticated where the auth service's router does, for
\* a path in the tables' spelling; in any other it asks for less, and the service decides.
THEOREM EdgeAgrees == Spec => []EdgeMirrorsAuth
<1>1. \A q : Route(q) \in AuthAuthenticated => Route(q) \notin AuthPublic
  BY DEF AuthAuthenticated, AuthPublic
<1>2. Sound => EdgeMirrorsAuth
  BY <1>1 DEF Sound, Good, Sorted, Served, Declines, Recognised, EdgeMirrorsAuth
<1>. QED
  BY <1>2, AlwaysSound, PTL

\* All credential routes share one allowance per window, whoever else is in the gateway,
\* for the requests that spell their path as the table does.
THEOREM OneAllowance == Spec => []CredentialBudget
<1>1. Sound => CredentialBudget
  BY DEF Sound, Accounts, Used, AllowanceRoute, CredentialBudget
<1>. QED
  BY <1>1, AlwaysSound, PTL


\* The services behind the gateway, and the connections to them.
Wired == socket \in [Requests -> {"none", "open", "broken"}] /\ down \subseteq Frail /\ crashes \in 0 .. MaxCrashes

LEMMA StaysWired == Wired /\ [Next]_vars => Wired'
<1>. SUFFICES ASSUME Wired, [Next]_vars PROVE Wired'
  OBVIOUS
<1>1. CASE UNCHANGED far
  BY <1>1 DEF Wired, far
<1>2. ASSUME NEW r \in Requests, Connect(r) PROVE Wired'
  BY <1>2 DEF Connect, Wired
<1>3. ASSUME NEW r \in Requests, Execute(r) PROVE Wired'
  BY <1>3 DEF Execute, Wired
<1>4. ASSUME NEW s \in Services, Crash(s) PROVE Wired'
  BY <1>4, GatewayAssumption DEF Crash, Wired
<1>5. ASSUME NEW s \in Services, Restart(s) PROVE Wired'
  BY <1>5 DEF Restart, Wired
<1>6. ASSUME NEW r \in Requests, Arrive(r) \/ Edge(r) \/ Service(r), ~Connect(r), ~Execute(r) PROVE UNCHANGED far
  BY <1>6 DEF Edge, Service, Arrive, RateLimiter, CredentialRateLimiter, Authenticate, Verified, RequireRole,
     ProxyTimeout, UpstreamBroke, Probe, Ready, Respond, Relayed
<1>7. WindowEnds \/ CredentialWindowEnds \/ UNCHANGED vars => UNCHANGED far
  BY DEF WindowEnds, CredentialWindowEnds, vars
<1>. QED
  BY <1>1, <1>2, <1>3, <1>4, <1>5, <1>6, <1>7 DEF Next

\* Every field has its type, and a reply is there just when the request is done.
THEOREM TypeCorrect == Spec => []TypeOK
<1>1. Init => Wired
  BY GatewayAssumption DEF Init, Wired
<1>2. Sound /\ Wired => TypeOK
  BY DEF Sound, Shape, Good, InOrder, Wired, TypeOK, Pcs, Replies, Outcomes
<1>. QED
  BY <1>1, <1>2, StaysWired, AlwaysSound, PTL DEF Spec

===============================================================================
