------------------------------ MODULE AuthProofs ------------------------------
(***************************************************************************)
(* Proofs about Auth, for any number of accounts, requests, codes and      *)
(* tokens, any ceilings and any combination of faults.                     *)
(***************************************************************************)
EXTENDS Auth, FiniteSetTheorems, WellFoundedInduction, TLAPS

-----------------------------------------------------------------------------
(* Typing *)

AccountRow ==
    [state : {"none", "ACTIVE", "SUSPENDED"}, username : Usernames \cup {NoName},
     verified : BOOLEAN, password : Nat, failed : Nat, locked : {"no", "yes", "over"},
     userId : Profiles \cup {0}, pending : BOOLEAN]
CodeRow ==
    [state : {"unissued", "PENDING", "VERIFIED", "EXPIRED", "REVOKED", "purged"},
     account : Accounts \cup {Nobody}, type : {"none", "EMAIL_VERIFICATION", "PASSWORD_RESET"},
     age : {"fresh", "cooled", "expired"}, attempts : Nat, mailed : BOOLEAN, guesses : Nat, uses : Nat]
TokenRow ==
    [state : {"unissued", "live", "revoked", "purged"}, account : Accounts \cup {Nobody},
     family : Tokens \cup {0}, expired : BOOLEAN, password : Nat]
ProfileRow ==
    [state : {"unmade", "there", "removed"}, owner : Accounts \cup {Nobody}, email : Accounts \cup {Nobody}]
Req ==
    [pc : {"idle", "create", "dispatch", "active", "revokeCodes", "insertCode", "code", "attempt",
           "consume", "failed", "success", "profile", "find", "attach", "session", "user",
           "rotate", "reuse", "revokeAll", "revoke", "doom", "reset", "update"},
     account : Accounts \cup {Nobody}, username : Usernames \cup {NoName},
     type : {"none", "EMAIL_VERIFICATION", "PASSWORD_RESET", "change"}, code : Codes \cup {0},
     token : Tokens \cup {0}, profile : Profiles \cup {0}, read : Nat, proved : Nat,
     handoff : BOOLEAN, doomed : SUBSET (Tokens \cup Codes)]

\* What a request carries where it is: the indexes it is about to use are set.
Carries(q) ==
    /\ q \in Req
    /\ q.pc \notin {"idle", "revoke"} => q.account \in Accounts
    /\ q.pc \in {"active", "revokeCodes", "insertCode", "code"} =>
           q.type \in {"EMAIL_VERIFICATION", "PASSWORD_RESET"}
    /\ q.pc \in {"dispatch", "attempt", "consume", "reset"} => q.code \in Codes
    /\ q.pc = "doom" /\ q.type # "change" => q.code \in Codes
    /\ q.pc \in {"user", "rotate", "reuse"} => q.token \in Tokens
    /\ q.pc = "attach" => q.profile \in Profiles

AccountsOK == account \in [Accounts -> AccountRow]
CodesOK ==
    /\ code \in [Codes -> CodeRow]
    /\ \A i \in Codes : (code[i].state = "unissued" <=> code[i].account = Nobody)
TokensOK ==
    /\ token \in [Tokens -> TokenRow]
    /\ \A t \in Tokens : /\ (token[t].state = "unissued" <=> token[t].account = Nobody)
                         /\ token[t].expired => token[t].state = "live"
ProfilesOK == profile \in [Profiles -> ProfileRow]
RequestsOK ==
    /\ request \in [Requests -> Req]
    /\ \A r \in Requests : /\ Carries(request[r])
                           /\ request[r].code # 0 => code[request[r].code].state # "unissued"

Typed == AccountsOK /\ CodesOK /\ TokensOK /\ ProfilesOK /\ RequestsOK

-----------------------------------------------------------------------------
(* Invariants *)

\* A token that was issued belongs to a family that was, and the live ones of a
\* family are one.
Families ==
    /\ \A t \in Tokens : token[t].state # "unissued" =>
           token[t].family \in Tokens /\ token[token[t].family].state # "unissued"
    /\ \A t, u \in Tokens : (token[t].state = "live" /\ token[u].state = "live"
                                /\ token[t].family = token[u].family) => t = u

\* A code in force has not been used.
UsedAtMostOnce ==
    \A i \in Codes : code[i].uses <= 1 /\ (code[i].state \in {"unissued", "PENDING"} => code[i].uses = 0)

\* Requests that will count a guess at code i.
Guessing(i) == {r \in Requests : At(r, "attempt") /\ request[r].code = i}

GuessesCounted ==
    \A i \in Codes :
        /\ code[i].guesses = code[i].attempts
        /\ code[i].guesses + Cardinality(Guessing(i)) < CodeAttempts + Cardinality(Requests)

\* Requests that will count a failed login to a without locking it.
Sparing(a) == {r \in Requests : At(r, "failed") /\ Of(r) = a /\ ~Locks(request[r].read)}

FailuresCounted ==
    \A a \in Accounts : account[a].locked = "no" =>
        account[a].failed + Cardinality(Sparing(a)) < LoginAttempts + Cardinality(Requests) - 1

-----------------------------------------------------------------------------
(* Requests *)

\* The lowest number that is free is free.
LEMMA MinIn ==
    ASSUME NEW n \in Nat, NEW S \in SUBSET (1 .. n), S # {}
    PROVE  Min(S) \in S
  <1>1. S \in SUBSET Nat
    OBVIOUS
  <1> DEFINE R == {ss \in Nat \X Nat : ss[1] < ss[2]}
  <1>2. IsWellFoundedOn(R, Nat)
    BY NatLessThanWellFounded DEF OpToRel
  <1>3. \E x \in S : \A y \in S : ~(<<y, x>> \in R)
    <2> HIDE DEF R
    <2> QED BY <1>1, <1>2, WFMin
  <1>4. \A x, y \in Nat : x <= y \/ <<y, x>> \in R
    OBVIOUS
  <1>5. \E x \in S : \A y \in S : x <= y
    <2> HIDE DEF R
    <2> QED BY <1>1, <1>3, <1>4
  <1> QED BY <1>5 DEF Min

\* r's step leaves the other requests where they are, and r as q.
Moves(r, q) == request' = [request EXCEPT ![r] = q]

LEMMA IdleCarries == Idle \in Req /\ Carries(Idle) /\ Idle.pc = "idle" /\ Idle.code = 0
  <1>1. Idle \in Req /\ Idle.pc = "idle" /\ Idle.code = 0
    BY DEF Idle, Req
  <1> HIDE DEF Idle
  <1> QED BY <1>1 DEF Carries

\* A request that arrives is taken on with what it needs; a login that will fail
\* carries the count its row had.
Begun(r, q) ==
    /\ Moves(r, q) /\ Carries(q) /\ q.pc # "attempt" /\ q.code = 0
    /\ q.pc = "failed" => q.read = account[q.account].failed

LEMMA ArrivalMoves ==
    ASSUME Typed, NEW r \in Requests, Arrival(r)
    PROVE  UNCHANGED <<account, code, token, profile>> /\ At(r, "idle") /\ \E q : Begun(r, q)
  <1>0. AccountsOK /\ TokensOK
    BY DEF Typed
  <1>1. ASSUME NEW a \in Accounts, NEW n \in Usernames, Register(r, a, n)
        PROVE  \E q : Begun(r, q)
    <2> DEFINE q == [Idle EXCEPT !.pc = "create", !.account = a, !.username = n]
    <2>1. q \in Req /\ q.pc = "create" /\ q.account = a /\ q.code = 0
      BY DEF Idle, Req
    <2>2. Moves(r, q)
      BY <1>1 DEF Register, Moves
    <2> HIDE DEF q
    <2> QED BY <2>1, <2>2 DEF Carries, Begun
  <1>2. ASSUME NEW a \in Accounts, NEW pc \in {"active", "code"}, NEW type \in {"EMAIL_VERIFICATION", "PASSWORD_RESET"},
               Moves(r, [Idle EXCEPT !.pc = pc, !.account = a, !.type = type])
        PROVE  \E q : Begun(r, q)
    <2> DEFINE q == [Idle EXCEPT !.pc = pc, !.account = a, !.type = type]
    <2>1. q \in Req /\ q.pc = pc /\ q.account = a /\ q.code = 0 /\ q.type = type
      BY DEF Idle, Req
    <2> HIDE DEF q
    <2> QED BY <1>2, <2>1 DEF Carries, Begun, q
  <1>3. ASSUME NEW a \in Accounts, Login(r, a)
        PROVE  \E q : Begun(r, q)
    <2> DEFINE f == [Idle EXCEPT !.pc = "failed", !.account = a, !.read = account[a].failed]
               s == [Idle EXCEPT !.pc = "success", !.account = a, !.proved = account[a].password]
    <2>1. account[a].failed \in Nat /\ account[a].password \in Nat
      BY <1>0 DEF AccountsOK, AccountRow
    <2>2. f \in Req /\ f.pc = "failed" /\ f.account = a /\ f.code = 0 /\ f.read = account[a].failed
      BY <2>1 DEF Idle, Req
    <2>3. s \in Req /\ s.pc = "success" /\ s.account = a /\ s.code = 0
      BY <2>1 DEF Idle, Req
    <2>4. Moves(r, f) \/ Moves(r, s)
      BY <1>3 DEF Login, Moves
    <2> HIDE DEF f, s
    <2> QED BY <2>2, <2>3, <2>4 DEF Carries, Begun
  <1>4. ASSUME NEW a \in Accounts, LogoutAll(r, a) \/ ChangePassword(r, a)
        PROVE  \E q : Begun(r, q)
    <2> DEFINE o == [Idle EXCEPT !.pc = "revokeAll", !.account = a]
               c == [Idle EXCEPT !.pc = "doom", !.account = a, !.type = "change"]
    <2>1. o \in Req /\ o.pc = "revokeAll" /\ o.account = a /\ o.code = 0
      BY DEF Idle, Req
    <2>2. c \in Req /\ c.pc = "doom" /\ c.account = a /\ c.code = 0 /\ c.type = "change"
      BY DEF Idle, Req
    <2>3. Moves(r, o) \/ Moves(r, c)
      BY <1>4 DEF LogoutAll, ChangePassword, Moves
    <2> HIDE DEF o, c
    <2> QED BY <2>1, <2>2, <2>3 DEF Carries, Begun
  <1>5. ASSUME NEW t \in Tokens, Refresh(r, t)
        PROVE  \E q : Begun(r, q)
    <2> DEFINE pc == IF token[t].state = "revoked" THEN "reuse" ELSE "user"
               q == [Idle EXCEPT !.pc = pc, !.account = token[t].account, !.token = t]
    <2>1. token[t].account \in Accounts
      <3>1. token[t].state # "unissued"
        BY <1>5 DEF Refresh
      <3>2. token[t] \in TokenRow /\ token[t].account # Nobody
        BY <1>0, <3>1 DEF TokensOK
      <3> QED BY <3>2 DEF TokenRow
    <2>2. Moves(r, q)
      BY <1>5 DEF Refresh, Moves
    <2>3. pc \in {"reuse", "user"}
      OBVIOUS
    <2> HIDE DEF pc
    <2>4. q \in Req /\ q.pc = pc /\ q.account \in Accounts /\ q.code = 0 /\ q.token = t
      BY <2>1, <2>3 DEF Idle, Req
    <2> HIDE DEF q
    <2> QED BY <2>2, <2>3, <2>4 DEF Carries, Begun
  <1>6. ASSUME NEW t \in Tokens, Logout(r, t)
        PROVE  \E q : Begun(r, q)
    <2> DEFINE q == [Idle EXCEPT !.pc = "revoke", !.doomed = {t}]
    <2>1. q \in Req /\ q.pc = "revoke" /\ q.code = 0
      BY DEF Idle, Req
    <2>2. Moves(r, q)
      BY <1>6 DEF Logout, Moves
    <2> HIDE DEF q
    <2> QED BY <2>1, <2>2 DEF Carries, Begun
  <1>7. ASSUME NEW a \in Accounts,
               ResendVerification(r, a) \/ ForgotPassword(r, a) \/ VerifyEmail(r, a) \/ ResetPassword(r, a)
        PROVE  \E q : Begun(r, q)
    <2>1. \E pc \in {"active", "code"}, type \in {"EMAIL_VERIFICATION", "PASSWORD_RESET"} :
              Moves(r, [Idle EXCEPT !.pc = pc, !.account = a, !.type = type])
      BY <1>7 DEF ResendVerification, ForgotPassword, VerifyEmail, ResetPassword, Moves
    <2> QED BY <1>2, <2>1
  <1>8. UNCHANGED <<account, code, token, profile>> /\ At(r, "idle")
    BY DEF Arrival, Arrives, Register, ResendVerification, ForgotPassword, VerifyEmail, ResetPassword, Login,
           LogoutAll, ChangePassword, Refresh, Logout
  <1> QED BY <1>1, <1>3, <1>4, <1>5, <1>6, <1>7, <1>8 DEF Arrival

\* A request goes on with what its next step needs; one that will count a guess found
\* the code short of its ceiling.
Goes(r, q) ==
    /\ Moves(r, q) /\ Carries(q) /\ q.pc # "failed"
    /\ q.code \in {0, request[r].code} \/ code'[q.code].state # "unissued"
    /\ q.pc = "attempt" => q.code \in Codes /\ code[q.code].attempts < CodeAttempts /\ UNCHANGED code

\* What a step keeps of a request that it does not end.
LEMMA Kept ==
    ASSUME NEW w, w \in Req, NEW q, q \in Req, q.account = w.account, q.pc # "failed",
           Carries(w), w.pc \notin {"idle", "revoke"},
           q.pc \in {"active", "revokeCodes", "insertCode", "code"} =>
               q.type \in {"EMAIL_VERIFICATION", "PASSWORD_RESET"},
           q.pc \in {"dispatch", "attempt", "consume", "reset"} => q.code \in Codes,
           q.pc = "doom" => q.code \in Codes,
           q.pc \in {"user", "rotate", "reuse"} => q.token \in Tokens,
           q.pc = "attach" => q.profile \in Profiles
    PROVE  Carries(q)
  BY DEF Carries

LEMMA DoneGoes ==
    ASSUME NEW r \in Requests, Done(r)
    PROVE  Goes(r, Idle)
  BY IdleCarries DEF Done, Goes, Moves, Idle

\* The next number to be given out was not given out.
LEMMA FreshIn ==
    /\ FreshCodes # {} => Min(FreshCodes) \in FreshCodes
    /\ FreshTokens # {} => Min(FreshTokens) \in FreshTokens
    /\ FreshProfiles # {} => Min(FreshProfiles) \in FreshProfiles
  <1>1. /\ FreshCodes \in SUBSET (1 .. MaxCodes) /\ MaxCodes \in Nat
        /\ FreshTokens \in SUBSET (1 .. MaxTokens) /\ MaxTokens \in Nat
        /\ FreshProfiles \in SUBSET (1 .. MaxProfiles) /\ MaxProfiles \in Nat
    BY AuthAssumption DEF FreshCodes, Codes, FreshTokens, Tokens, FreshProfiles, Profiles
  <1> HIDE DEF FreshCodes, FreshTokens, FreshProfiles
  <1> QED BY <1>1, MinIn

LEMMA CodeGoes ==
    ASSUME Typed, NEW r \in Requests,
           CreateAccount(r) \/ FindActive(r) \/ RevokeCodes(r) \/ InsertCode(r) \/ CheckCode(r)
    PROVE  \E q : Goes(r, q)
  <1> DEFINE w == request[r]
  <1>0. request \in [Requests -> Req] /\ w \in Req /\ Carries(w)
    BY DEF Typed, RequestsOK
  <1>1. FreshCodes # {} => Min(FreshCodes) \in Codes /\ code[Min(FreshCodes)].state = "unissued"
    BY FreshIn DEF FreshCodes
  <1>2. NewCode(Of(r), "EMAIL_VERIFICATION").state = "PENDING" /\ NewCode(Of(r), w.type).state = "PENDING"
    BY DEF NewCode, NoCode
  <1>3. CASE Done(r)
    BY <1>3, DoneGoes
  <1>4. CASE CreateAccount(r) /\ ~Done(r)
    <2> DEFINE m == Min(FreshCodes)
               q == [w EXCEPT !.pc = "dispatch", !.code = m]
    <2>1. w.pc = "create" /\ Moves(r, q) /\ m \in Codes /\ code'[m].state = "PENDING"
      BY <1>0, <1>1, <1>2, <1>4 DEF CreateAccount, At, Moves, Typed, CodesOK
    <2> HIDE DEF m
    <2>2. q \in Req /\ q.pc = "dispatch" /\ q.code = m /\ q.account = w.account
      BY <1>0, <2>1 DEF Req
    <2> HIDE DEF q, w
    <2>3. Carries(q)
      BY <1>0, <2>1, <2>2, Kept
    <2> QED BY <2>1, <2>2, <2>3 DEF Goes
  <1>5. CASE FindActive(r) /\ ~Done(r)
    <2> DEFINE q == [w EXCEPT !.pc = "revokeCodes"]
    <2>1. w.pc = "active" /\ Moves(r, q)
      BY <1>0, <1>5 DEF FindActive, At, To, Moves
    <2>2. /\ q \in Req /\ q.pc = "revokeCodes" /\ q.code = w.code /\ q.account = w.account
          /\ q.type = w.type
      BY <1>0 DEF Req
    <2>3. w.type \in {"EMAIL_VERIFICATION", "PASSWORD_RESET"}
      BY <1>0, <2>1 DEF Carries
    <2> HIDE DEF q
    <2>4. Carries(q)
      <3> HIDE DEF w
      <3> QED BY <1>0, <2>1, <2>2, <2>3, Kept
    <2> QED BY <2>1, <2>2, <2>4 DEF Goes
  <1>6. CASE RevokeCodes(r)
    <2> DEFINE d == Pending(Of(r), request[r].type)
               q == [w EXCEPT !.pc = "insertCode", !.doomed = d]
    <2>1. w.pc = "revokeCodes" /\ Moves(r, q) /\ d \subseteq Codes
      BY <1>0, <1>6 DEF RevokeCodes, At, Moves, Pending
    <2> HIDE DEF d
    <2>2. /\ q \in Req /\ q.pc = "insertCode" /\ q.code = w.code /\ q.account = w.account
          /\ q.type = w.type
      BY <1>0, <2>1 DEF Req
    <2>3. w.type \in {"EMAIL_VERIFICATION", "PASSWORD_RESET"}
      BY <1>0, <2>1 DEF Carries
    <2> HIDE DEF q
    <2>4. Carries(q)
      <3> HIDE DEF w
      <3> QED BY <1>0, <2>1, <2>2, <2>3, Kept
    <2> QED BY <2>1, <2>2, <2>4 DEF Goes
  <1>7. CASE InsertCode(r) /\ ~Done(r)
    <2> DEFINE m == Min(FreshCodes)
               q == [w EXCEPT !.pc = "dispatch", !.code = m, !.doomed = {}]
    <2>1. w.pc = "insertCode" /\ Moves(r, q) /\ m \in Codes /\ code'[m].state = "PENDING"
      <3>1. /\ w.pc = "insertCode" /\ Moves(r, q) /\ m \in Codes
            /\ code' = [i \in Codes |->
                   CASE i = m -> NewCode(Of(r), w.type)
                     [] i \in w.doomed /\ code[i].state = "PENDING" ->
                              [code[i] EXCEPT !.state = "REVOKED", !.age = "fresh"]
                     [] OTHER -> code[i]]
        BY <1>0, <1>1, <1>7 DEF InsertCode, At, Moves
      <3>2. code[m].state # "PENDING"
        BY <1>1, <1>7 DEF InsertCode
      <3>3. code'[m] = NewCode(Of(r), w.type)
        <4> HIDE DEF m
        <4> QED BY <3>1, <3>2
      <3> QED BY <1>2, <3>1, <3>3
    <2> HIDE DEF m
    <2>2. q \in Req /\ q.pc = "dispatch" /\ q.code = m /\ q.account = w.account
      BY <1>0, <2>1 DEF Req
    <2> HIDE DEF q, w
    <2>3. Carries(q)
      BY <1>0, <2>1, <2>2, Kept
    <2> QED BY <2>1, <2>2, <2>3 DEF Goes
  <1>8. CASE CheckCode(r) /\ ~Done(r)
    <2>1. w.pc = "code" /\ UNCHANGED code
      BY <1>8 DEF CheckCode, At
    <2>2. w.type \in {"EMAIL_VERIFICATION", "PASSWORD_RESET"}
      BY <1>0, <2>1 DEF Carries
    <2>3. PICK i \in Codes :
              /\ code[i].state = "PENDING" /\ Usable(i)
              /\ \/ Moves(r, [w EXCEPT !.pc = "attempt", !.code = i, !.read = code[i].attempts])
                 \/ Moves(r, [w EXCEPT !.code = i, !.pc = IF w.type = "EMAIL_VERIFICATION" THEN "consume"
                                                                                            ELSE "doom"])
      BY <1>0, <1>8 DEF CheckCode, Moves, Pending
    <2> DEFINE g == [w EXCEPT !.pc = "attempt", !.code = i, !.read = code[i].attempts]
               x == IF w.type = "EMAIL_VERIFICATION" THEN "consume" ELSE "doom"
               u == [w EXCEPT !.code = i, !.pc = x]
    <2>4. code[i].attempts \in Nat
      BY DEF Typed, CodesOK, CodeRow
    <2>5. g \in Req /\ g.pc = "attempt" /\ g.code = i /\ g.account = w.account
      BY <1>0, <2>4 DEF Req
    <2>6. x \in {"consume", "doom"}
      OBVIOUS
    <2> HIDE DEF x
    <2>7. u \in Req /\ u.pc = x /\ u.code = i /\ u.account = w.account
      BY <1>0, <2>6 DEF Req
    <2> HIDE DEF g, u, w
    <2>8. Carries(g) /\ Carries(u)
      BY <1>0, <2>1, <2>5, <2>6, <2>7, Kept
    <2>9. CASE Moves(r, g)
      <3>1. Goes(r, g)
        BY <2>1, <2>3, <2>5, <2>8, <2>9 DEF Goes, Usable
      <3> QED BY <3>1
    <2>10. CASE Moves(r, u)
      <3>1. Goes(r, u)
        BY <2>1, <2>3, <2>6, <2>7, <2>8, <2>10 DEF Goes
      <3> QED BY <3>1
    <2> QED BY <2>3, <2>9, <2>10 DEF g, u, x, w
  <1> QED BY <1>3, <1>4, <1>5, <1>6, <1>7, <1>8

\* A request that is told where to go next, and nothing else.
LEMMA ToGoes ==
    ASSUME Typed, NEW r \in Requests, NEW x, To(r, x), request[r].pc \notin {"idle", "revoke"},
           \/ x \in {"session", "find", "revokeAll"}
           \/ x = "rotate" /\ request[r].token \in Tokens
    PROVE  \E q : Goes(r, q)
  <1> DEFINE w == request[r]
             q == [w EXCEPT !.pc = x]
  <1>0. request \in [Requests -> Req] /\ w \in Req /\ Carries(w)
    BY DEF Typed, RequestsOK
  <1>1. Moves(r, q)
    BY <1>0 DEF To, Moves
  <1>2. q \in Req /\ q.pc = x /\ q.account = w.account /\ q.code = w.code /\ q.token = w.token
    BY <1>0 DEF Req
  <1> HIDE DEF q
  <1>3. Carries(q)
    <2> HIDE DEF w
    <2> QED BY <1>0, <1>2, Kept DEF w
  <1> QED BY <1>1, <1>2, <1>3 DEF Goes

LEMMA ProfileGoes ==
    ASSUME Typed, NEW r \in Requests,
           CreateProfile(r) \/ FindProfile(r) \/ AttachProfile(r) \/ HandoffFails(r)
    PROVE  \E q : Goes(r, q)
  <1> DEFINE w == request[r]
  <1>0. request \in [Requests -> Req] /\ w \in Req /\ Carries(w)
    BY DEF Typed, RequestsOK
  <1>1. ASSUME NEW p \in Profiles \cup {0}, NEW x, w.pc \in {"profile", "find", "attach"},
               request' = [request EXCEPT ![r].pc = x, ![r].profile = p],
               x = "session" \/ (x = "attach" /\ p # 0)
        PROVE  \E q : Goes(r, q)
    <2> DEFINE q == [w EXCEPT !.pc = x, !.profile = p]
    <2>1. Moves(r, q)
      BY <1>0, <1>1 DEF Moves
    <2>2. q \in Req /\ q.pc = x /\ q.account = w.account /\ q.code = w.code /\ q.profile = p
      BY <1>0, <1>1 DEF Req
    <2> HIDE DEF q
    <2>3. Carries(q)
      <3> HIDE DEF w
      <3> QED BY <1>0, <1>1, <2>2, Kept
    <2> QED BY <2>1, <2>2, <2>3, <1>1 DEF Goes
  <1>2. \A p \in Profiles : p # 0
    BY AuthAssumption DEF Profiles
  <1>3. CASE CreateProfile(r)
    <2>1. CASE FreshProfiles # {} /\ request' = [request EXCEPT ![r].pc = "attach", ![r].profile = Min(FreshProfiles)]
      <3>1. Min(FreshProfiles) \in Profiles
        BY <2>1, FreshIn DEF FreshProfiles
      <3> QED BY <1>1, <1>2, <1>3, <2>1, <3>1 DEF CreateProfile, Created, At
    <2>2. w.pc = "profile"
      BY <1>3 DEF CreateProfile, At
    <2>3. CASE To(r, "session") \/ To(r, "find")
      BY <2>2, <2>3, ToGoes
    <2> QED BY <1>3, <2>1, <2>3 DEF CreateProfile, Created
  <1>4. CASE FindProfile(r)
    BY <1>1, <1>2, <1>4 DEF FindProfile, At, ProfilesOf
  <1>5. CASE AttachProfile(r) \/ HandoffFails(r)
    BY <1>1, <1>5 DEF AttachProfile, HandoffFails, At
  <1> QED BY <1>3, <1>4, <1>5

LEMMA SessionGoes ==
    ASSUME Typed, NEW r \in Requests,
           CheckUser(r) \/ SeeTokens(r) \/ UpdatePassword(r) \/ ConsumeEmail(r) \/ SucceedLogin(r)
    PROVE  \E q : Goes(r, q)
  <1> DEFINE w == request[r]
  <1>0. request \in [Requests -> Req] /\ w \in Req /\ Carries(w)
    BY DEF Typed, RequestsOK
  <1>1. CASE CheckUser(r)
    <2>1. w.pc = "user" /\ w.token \in Tokens
      BY <1>0, <1>1 DEF CheckUser, At, Carries
    <2> QED BY <1>1, <2>1, ToGoes DEF CheckUser
  <1>2. CASE SeeTokens(r)
    <2>1. ASSUME NEW d \in SUBSET Tokens, Moves(r, [Idle EXCEPT !.pc = "revoke", !.doomed = d])
          PROVE  \E q : Goes(r, q)
      <3> DEFINE q == [Idle EXCEPT !.pc = "revoke", !.doomed = d]
      <3>1. q \in Req /\ q.pc = "revoke" /\ q.code = 0
        BY DEF Idle, Req
      <3> HIDE DEF q
      <3> QED BY <2>1, <3>1 DEF Goes, Carries, q
    <2>2. ASSUME w.pc = "doom",
                 Moves(r, [w EXCEPT !.doomed = LiveOf(Of(r)),
                                    !.pc = IF w.type = "change" THEN "update" ELSE "reset"])
          PROVE  \E q : Goes(r, q)
      <3> DEFINE d == LiveOf(Of(r))
                 x == IF w.type = "change" THEN "update" ELSE "reset"
                 q == [w EXCEPT !.doomed = d, !.pc = x]
      <3>1. d \subseteq Tokens
        BY DEF LiveOf
      <3>2. x \in {"update", "reset"}
        OBVIOUS
      <3>3. x = "reset" => w.code \in Codes
        BY <1>0, <2>2 DEF Carries
      <3> HIDE DEF d, x
      <3>4. q \in Req /\ q.pc = x /\ q.account = w.account /\ q.code = w.code
        BY <1>0, <3>1, <3>2 DEF Req
      <3> HIDE DEF q
      <3>5. Carries(q)
        <4> HIDE DEF w
        <4> QED BY <1>0, <2>2, <3>2, <3>3, <3>4, Kept
      <3> QED BY <2>2, <3>2, <3>4, <3>5 DEF Goes, q, d, x
    <2>3. \/ \E d \in SUBSET Tokens : Moves(r, [Idle EXCEPT !.pc = "revoke", !.doomed = d])
          \/ /\ w.pc = "doom"
             /\ Moves(r, [w EXCEPT !.doomed = LiveOf(Of(r)),
                                   !.pc = IF w.type = "change" THEN "update" ELSE "reset"])
      <3>1. LiveOf(Of(r)) \in SUBSET Tokens /\ LiveIn(token[w.token].family) \in SUBSET Tokens
        BY DEF LiveOf, LiveIn
      <3> QED BY <1>0, <1>2, <3>1 DEF SeeTokens, At, Moves
    <2> QED BY <2>1, <2>2, <2>3
  <1>3. ASSUME NEW x \in {"session", "profile"}, NEW a \in Accounts, NEW n \in Nat, NEW h \in BOOLEAN,
               Moves(r, [Idle EXCEPT !.pc = x, !.account = a, !.proved = n, !.handoff = h])
        PROVE  \E q : Goes(r, q)
    <2> DEFINE q == [Idle EXCEPT !.pc = x, !.account = a, !.proved = n, !.handoff = h]
    <2>1. q \in Req /\ q.pc = x /\ q.account = a /\ q.code = 0
      BY DEF Idle, Req
    <2> HIDE DEF q
    <2> QED BY <1>3, <2>1 DEF Goes, Carries, q
  <1>4. ASSUME w.pc \notin {"idle", "revoke"}
        PROVE  /\ Of(r) \in Accounts /\ account[Of(r)].password \in Nat
               /\ (account[Of(r)].pending /\ account[Of(r)].userId = 0) \in BOOLEAN
    BY <1>0, <1>4 DEF Carries, Of, Typed, AccountsOK, AccountRow
  <1>5. CASE UpdatePassword(r)
    <2>1. w.pc = "update"
      BY <1>5 DEF UpdatePassword, At
    <2> DEFINE a == Of(r)
               n == account[Of(r)].password + 1
               q == [Idle EXCEPT !.pc = "session", !.account = a, !.proved = n]
    <2>2. Moves(r, q)
      BY <1>5 DEF UpdatePassword, Moves
    <2>3. a \in Accounts /\ n \in Nat
      BY <1>4, <2>1
    <2> HIDE DEF a, n
    <2>4. q \in Req /\ q.pc = "session" /\ q.account = a /\ q.code = 0
      BY <2>3 DEF Idle, Req
    <2> HIDE DEF q
    <2> QED BY <2>2, <2>3, <2>4 DEF Goes, Carries
  <1>6. CASE ConsumeEmail(r)
    <2>1. w.pc = "consume"
      BY <1>6 DEF ConsumeEmail, At
    <2>2. CASE Done(r)
      BY <2>2, DoneGoes
    <2>3. CASE Moves(r, [Idle EXCEPT !.pc = "profile", !.account = Of(r), !.proved = account[Of(r)].password,
                                     !.handoff = account[Of(r)].pending /\ account[Of(r)].userId = 0])
      BY <1>3, <1>4, <2>1, <2>3
    <2> QED BY <1>6, <2>2, <2>3 DEF ConsumeEmail, Moves
  <1>7. CASE SucceedLogin(r)
    <2> DEFINE h == account[Of(r)].pending /\ account[Of(r)].userId = 0
               q == [w EXCEPT !.pc = "profile", !.handoff = h]
    <2>1. w.pc = "success" /\ Moves(r, q)
      BY <1>0, <1>7 DEF SucceedLogin, At, Moves
    <2>2. h \in BOOLEAN
      OBVIOUS
    <2> HIDE DEF h
    <2>3. q \in Req /\ q.pc = "profile" /\ q.account = w.account /\ q.code = w.code
      BY <1>0, <2>2 DEF Req
    <2> HIDE DEF q
    <2>4. Carries(q)
      <3> HIDE DEF w
      <3> QED BY <1>0, <2>1, <2>3, Kept
    <2> QED BY <2>1, <2>3, <2>4 DEF Goes
  <1> QED BY <1>1, <1>2, <1>5, <1>6, <1>7

\* Every step of a request that is under way leaves it with what its next step needs,
\* and only an arriving login leaves one that will count a failure.
LEMMA StepMoves ==
    ASSUME Typed, NEW r \in Requests, Step(r) \/ Fail(r)
    PROVE  ~At(r, "idle") /\ \E q : Goes(r, q)
  <1>1. ~At(r, "idle")
    BY DEF Step, Fail, CreateAccount, Dispatch, FindActive, RevokeCodes, InsertCode, CheckCode, RegisterAttempt,
           ConsumeEmail, FailLogin, SucceedLogin, CreateProfile, FindProfile, AttachProfile, HandoffFails,
           StartSession, CheckUser, Rotate, SeeTokens, Revoke, CommitReset, UpdatePassword, At
  <1>2. CASE \/ Dispatch(r) \/ RegisterAttempt(r) \/ FailLogin(r) \/ StartSession(r) \/ Rotate(r)
             \/ Revoke(r) \/ CommitReset(r) \/ Fail(r)
    <2>1. Done(r)
      BY <1>2 DEF Dispatch, RegisterAttempt, FailLogin, StartSession, Rotate, Revoke, CommitReset, Fail
    <2> QED BY <1>1, <2>1, DoneGoes
  <1> QED BY <1>1, <1>2, CodeGoes, ProfileGoes, SessionGoes DEF Step

-----------------------------------------------------------------------------
(* Tables *)

\* What a step may do to the tokens: start a family, hand one on, revoke, expire, purge.
Opens(m, a, n) ==
    token[m].state = "unissued" /\ token' = [token EXCEPT ![m] = Issue(a, m, n)]
HandsOn(t, m) ==
    /\ token[t].state = "live" /\ token[m].state = "unissued"
    /\ token' = [token EXCEPT ![t].state = "revoked", ![t].expired = FALSE,
                     ![m] = Issue(token[t].account, token[t].family, token[t].password)]
TokenEffect ==
    \/ UNCHANGED token
    \/ \E m \in Tokens, a \in Accounts, n \in Nat : Opens(m, a, n)
    \/ \E t, m \in Tokens : HandsOn(t, m)
    \/ \E S : token' = Revoked(S)
    \/ \E t \in Tokens : token[t].state = "live" /\ token' = [token EXCEPT ![t].expired = TRUE]
    \/ \E t \in Tokens : /\ token[t].state \in {"live", "revoked"}
                         /\ token' = [token EXCEPT ![t].state = "purged", ![t].expired = FALSE]

\* What it may do to the codes: insert one and revoke others, mail, use, age, purge ...
Inserts(m, a, type, S) ==
    /\ code[m].state = "unissued"
    /\ code' = [i \in Codes |-> IF i = m THEN NewCode(a, type)
                                ELSE IF i \in S /\ code[i].state = "PENDING"
                                     THEN [code[i] EXCEPT !.state = "REVOKED", !.age = "fresh"] ELSE code[i]]
CodeEffect ==
    \/ UNCHANGED code
    \/ \E m \in Codes, a \in Accounts, type \in {"EMAIL_VERIFICATION", "PASSWORD_RESET"} :
           \E S : Inserts(m, a, type, S)
    \/ \E i \in Codes, b \in BOOLEAN : code' = [code EXCEPT ![i].mailed = b]
    \/ \E i \in Codes : code[i].state = "PENDING" /\ code' = Used(i)
    \/ \E i \in Codes, x \in {"cooled", "expired"} : code' = [code EXCEPT ![i].age = x]
    \/ \E i \in Codes : /\ code[i].state \notin {"unissued", "PENDING"}
                        /\ code' = [code EXCEPT ![i].state = "purged"]

\* ... or count a guess.
Guess(i) ==
    \E s \in {code[i].state, "EXPIRED"}, y \in {code[i].age, "fresh"} :
        code' = [code EXCEPT ![i] = [code[i] EXCEPT !.attempts = @ + 1, !.guesses = @ + 1,
                                                              !.state = s, !.age = y]]

\* What it may do to the accounts, as far as failures and locks go: nothing, end a
\* lock, forgive, or count a failure.
Rewrites(a, x) == x \in AccountRow /\ account' = [account EXCEPT ![a] = x]
Quiet ==
    \/ UNCHANGED account
    \/ \E a \in Accounts : \E x : /\ Rewrites(a, x) /\ x.failed = account[a].failed
                                   /\ x.locked \in {account[a].locked, "over"}
AccountEffect(r) ==
    \/ Quiet
    \/ \E x : /\ Rewrites(Of(r), x) /\ x.failed = 0 /\ x.locked = "no"
              /\ request[r].pc \in {"create", "success", "reset"}
    \/ FailLogin(r)

LEMMA StepOnTokens ==
    ASSUME Typed, NEW r \in Requests, Step(r)
    PROVE  TokenEffect
  <1>1. CASE StartSession(r)
    <2>1. CASE FreshTokens = {}
      BY <1>1, <2>1 DEF StartSession, TokenEffect
    <2>2. CASE FreshTokens # {}
      <3> DEFINE m == Min(FreshTokens)
      <3>1. m \in Tokens /\ token[m].state = "unissued"
        BY <2>2, FreshIn DEF FreshTokens
      <3>2. Of(r) \in Accounts /\ request[r].proved \in Nat
        BY <1>1 DEF StartSession, At, Of, Typed, RequestsOK, Carries, Req
      <3>3. Opens(m, Of(r), request[r].proved)
        BY <1>1, <2>2, <3>1 DEF StartSession, Opens
      <3> HIDE DEF m
      <3> QED BY <3>1, <3>2, <3>3 DEF TokenEffect
    <2> QED BY <2>1, <2>2
  <1>2. CASE Rotate(r)
    <2> DEFINE t == request[r].token
               m == Min(FreshTokens)
    <2>1. CASE Exchangeable(t) /\ FreshTokens # {}
      <3>1. m \in Tokens /\ token[m].state = "unissued"
        BY <2>1, FreshIn DEF FreshTokens
      <3>2. t \in Tokens /\ token[t].state = "live"
        BY <1>2, <2>1 DEF Rotate, At, Typed, RequestsOK, Carries, Exchangeable
      <3>3. HandsOn(t, m)
        BY <1>2, <2>1, <3>1, <3>2 DEF Rotate, HandsOn, Exchanged
      <3> HIDE DEF t, m
      <3> QED BY <3>1, <3>2, <3>3 DEF TokenEffect
    <2>2. CASE ~(Exchangeable(t) /\ FreshTokens # {})
      BY <1>2, <2>2 DEF Rotate, TokenEffect
    <2> QED BY <2>1, <2>2
  <1>3. CASE Revoke(r) \/ CommitReset(r) \/ UpdatePassword(r)
    BY <1>3 DEF Revoke, CommitReset, UpdatePassword, TokenEffect
  <1>4. CASE UNCHANGED token
    BY <1>4 DEF TokenEffect
  <1> QED BY <1>1, <1>2, <1>3, <1>4 DEF Step, CreateAccount, Dispatch, FindActive, RevokeCodes, InsertCode,
        CheckCode, RegisterAttempt, ConsumeEmail, FailLogin, SucceedLogin, CreateProfile, FindProfile,
        AttachProfile, HandoffFails, CheckUser, SeeTokens

LEMMA StepOnCodes ==
    ASSUME Typed, NEW r \in Requests, Step(r)
    PROVE  \/ CodeEffect
           \/ RegisterAttempt(r) /\ request[r].code \in Codes /\ Guess(request[r].code)
  <1> DEFINE w == request[r]
  <1>0. /\ w \in Req /\ Carries(w) /\ (w.code # 0 => code[w.code].state # "unissued")
        /\ code \in [Codes -> CodeRow]
    BY DEF Typed, RequestsOK, CodesOK
  <1>1. CASE CreateAccount(r)
    <2>1. CASE UNCHANGED code
      BY <2>1 DEF CodeEffect
    <2>2. CASE FreshCodes # {} /\ code' = [code EXCEPT ![Min(FreshCodes)] = NewCode(Of(r), "EMAIL_VERIFICATION")]
      <3> DEFINE m == Min(FreshCodes)
      <3>1. m \in Codes /\ code[m].state = "unissued"
        BY <2>2, FreshIn DEF FreshCodes
      <3>2. Of(r) \in Accounts
        BY <1>0, <1>1 DEF CreateAccount, At, Carries, Of
      <3>3. Inserts(m, Of(r), "EMAIL_VERIFICATION", {})
        BY <1>0, <2>2, <3>1 DEF Inserts
      <3> HIDE DEF m
      <3> QED BY <3>1, <3>2, <3>3 DEF CodeEffect
    <2> QED BY <1>1, <2>1, <2>2 DEF CreateAccount
  <1>2. CASE InsertCode(r)
    <2>1. CASE UNCHANGED code
      BY <2>1 DEF CodeEffect
    <2>2. CASE /\ FreshCodes # {}
               /\ code' = [i \in Codes |->
                      CASE i = Min(FreshCodes) -> NewCode(Of(r), w.type)
                        [] i \in w.doomed /\ code[i].state = "PENDING" ->
                              [code[i] EXCEPT !.state = "REVOKED", !.age = "fresh"]
                        [] OTHER -> code[i]]
      <3> DEFINE m == Min(FreshCodes)
      <3>1. m \in Codes /\ code[m].state = "unissued"
        BY <2>2, FreshIn DEF FreshCodes
      <3>2. Of(r) \in Accounts /\ w.type \in {"EMAIL_VERIFICATION", "PASSWORD_RESET"}
        BY <1>0, <1>2 DEF InsertCode, At, Carries, Of
      <3> HIDE DEF m, w
      <3>3. Inserts(m, Of(r), w.type, w.doomed)
        BY <2>2, <3>1 DEF Inserts, m
      <3> QED BY <3>1, <3>2, <3>3 DEF CodeEffect
    <2> QED BY <1>2, <2>1, <2>2 DEF InsertCode
  <1>3. CASE Dispatch(r)
    <2>1. w.code \in Codes /\ (code[w.code].state # "purged") \in BOOLEAN
      BY <1>0, <1>3 DEF Dispatch, At, Carries
    <2> QED BY <1>3, <2>1 DEF Dispatch, CodeEffect
  <1>4. CASE RegisterAttempt(r)
    <2>1. w.code \in Codes
      BY <1>0, <1>4 DEF RegisterAttempt, At, Carries
    <2>2. UNCHANGED code \/ Guess(w.code)
      BY <1>4, <2>1 DEF RegisterAttempt, Guess, Counted, Burns
    <2> QED BY <1>4, <2>1, <2>2 DEF CodeEffect
  <1>5. CASE ConsumeEmail(r) \/ CommitReset(r)
    <2>1. w.code \in Codes
      BY <1>0, <1>5 DEF ConsumeEmail, CommitReset, At, Carries
    <2> QED BY <1>5, <2>1 DEF ConsumeEmail, CommitReset, StillInForce, CodeEffect
  <1>6. CASE UNCHANGED code
    BY <1>6 DEF CodeEffect
  <1> QED BY <1>1, <1>2, <1>3, <1>4, <1>5, <1>6 DEF Step, FindActive, RevokeCodes, CheckCode, FailLogin,
        SucceedLogin, CreateProfile, FindProfile, AttachProfile, HandoffFails, StartSession, CheckUser,
        Rotate, SeeTokens, Revoke, UpdatePassword


LEMMA StepOnAccounts ==
    ASSUME Typed, NEW r \in Requests, Step(r)
    PROVE  AccountEffect(r)
  <1> DEFINE w == request[r]
             a == Of(r)
             row == account[a]
  <1>0. /\ w \in Req /\ Carries(w) /\ account \in [Accounts -> AccountRow]
        /\ w.pc \notin {"idle", "revoke"} => a \in Accounts /\ row \in AccountRow
    BY DEF Typed, RequestsOK, AccountsOK, Carries, Of
  <1>1. CASE UNCHANGED account
    BY <1>1 DEF AccountEffect, Quiet
  <1>2. ASSUME NEW x, x \in AccountRow, account' = [account EXCEPT ![a] = x], a \in Accounts,
               \/ x.failed = row.failed /\ x.locked = row.locked
               \/ x.failed = 0 /\ x.locked = "no" /\ w.pc \in {"create", "success", "reset"}
        PROVE  AccountEffect(r)
    BY <1>2 DEF AccountEffect, Quiet, Rewrites
  <1>3. CASE CreateAccount(r)
    <2> DEFINE x == [NoAccount EXCEPT !.state = "ACTIVE", !.username = w.username, !.password = 1,
                                      !.pending = TRUE]
    <2>1. w.pc = "create" /\ (UNCHANGED account \/ account' = [account EXCEPT ![a] = x])
      BY <1>3 DEF CreateAccount, At
    <2>2. x \in AccountRow /\ x.failed = 0 /\ x.locked = "no"
      BY <1>0 DEF NoAccount, AccountRow, Req
    <2> HIDE DEF x, a, w, row
    <2> QED BY <1>0, <1>1, <1>2, <2>1, <2>2
  <1>4. CASE ConsumeEmail(r)
    <2> DEFINE x == [row EXCEPT !.verified = TRUE]
    <2>1. w.pc = "consume" /\ (UNCHANGED account \/ account' = [account EXCEPT ![a] = x])
      BY <1>0, <1>4 DEF ConsumeEmail, At
    <2> HIDE DEF a, w, row
    <2>2. x \in AccountRow /\ x.failed = row.failed /\ x.locked = row.locked
      BY <1>0, <2>1 DEF AccountRow
    <2> HIDE DEF x
    <2> QED BY <1>0, <1>1, <1>2, <2>1, <2>2
  <1>5. CASE SucceedLogin(r)
    <2> DEFINE x == [row EXCEPT !.failed = 0, !.locked = "no"]
    <2>1. w.pc = "success" /\ account' = [account EXCEPT ![a] = x]
      BY <1>0, <1>5 DEF SucceedLogin, At
    <2> HIDE DEF a, w, row
    <2>2. x \in AccountRow /\ x.failed = 0 /\ x.locked = "no"
      BY <1>0, <2>1 DEF AccountRow
    <2> HIDE DEF x
    <2> QED BY <1>0, <1>2, <2>1, <2>2
  <1>6. CASE AttachProfile(r)
    <2> DEFINE x == [row EXCEPT !.userId = w.profile, !.pending = FALSE]
    <2>1. w.pc = "attach" /\ account' = [account EXCEPT ![a] = x]
      BY <1>0, <1>6 DEF AttachProfile, At
    <2>2. w.profile \in Profiles
      BY <1>0, <2>1 DEF Carries
    <2> HIDE DEF a, w, row
    <2>3. x \in AccountRow /\ x.failed = row.failed /\ x.locked = row.locked
      BY <1>0, <2>1, <2>2 DEF AccountRow
    <2> HIDE DEF x
    <2> QED BY <1>0, <1>2, <2>1, <2>3
  <1>7. CASE CommitReset(r)
    <2> DEFINE n == row.password + 1
               x == [row EXCEPT !.password = n, !.verified = TRUE, !.failed = 0, !.locked = "no"]
    <2>1. w.pc = "reset" /\ (UNCHANGED account \/ account' = [account EXCEPT ![a] = x])
      BY <1>0, <1>7 DEF CommitReset, At
    <2>2. a \in Accounts /\ row \in AccountRow /\ n \in Nat
      BY <1>0, <2>1 DEF AccountRow
    <2> HIDE DEF a, w, row, n
    <2>3. x \in AccountRow /\ x.failed = 0 /\ x.locked = "no"
      BY <2>2 DEF AccountRow
    <2> HIDE DEF x
    <2> QED BY <1>1, <1>2, <2>1, <2>2, <2>3
  <1>8. CASE UpdatePassword(r)
    <2> DEFINE x == [row EXCEPT !.password = @ + 1]
    <2>1. w.pc = "update" /\ account' = [account EXCEPT ![a] = x]
      BY <1>0, <1>8 DEF UpdatePassword, At
    <2> HIDE DEF a, w, row
    <2>2. x \in AccountRow /\ x.failed = row.failed /\ x.locked = row.locked
      BY <1>0, <2>1 DEF AccountRow
    <2> HIDE DEF x
    <2> QED BY <1>0, <1>2, <2>1, <2>2
  <1> QED BY <1>1, <1>3, <1>4, <1>5, <1>6, <1>7, <1>8 DEF Step, AccountEffect, Quiet, FailLogin, RevokeCodes, Dispatch,
        FindActive, InsertCode, CheckCode, RegisterAttempt, CreateProfile, FindProfile, HandoffFails,
        StartSession, CheckUser, Rotate, SeeTokens, Revoke

LEMMA MakeTyped ==
    ASSUME ProfilesOK, NEW p, NEW a \in Accounts \cup {Nobody}, NEW e \in Accounts, Make(p, a, e)
    PROVE  ProfilesOK'
  <1>1. [state |-> "there", owner |-> a, email |-> e] \in ProfileRow
    BY DEF ProfileRow
  <1> QED BY <1>1 DEF Make, ProfilesOK

LEMMA StepOnProfiles ==
    ASSUME Typed, NEW r \in Requests, Step(r)
    PROVE  ProfilesOK'
  <1>0. ProfilesOK
    BY DEF Typed
  <1>1. ASSUME NEW a \in Accounts, Make(Min(FreshProfiles), a, a)
        PROVE  ProfilesOK'
    BY <1>0, <1>1, MakeTyped
  <1>2. CASE CreateProfile(r) \/ HandoffFails(r)
    <2>1. Of(r) \in Accounts
      BY <1>2 DEF CreateProfile, HandoffFails, At, Of, Typed, RequestsOK, Carries
    <2> QED BY <1>0, <1>1, <1>2, <2>1 DEF CreateProfile, Created, HandoffFails, ProfilesOK
  <1>3. CASE UNCHANGED profile
    BY <1>0, <1>3 DEF ProfilesOK
  <1> QED BY <1>2, <1>3 DEF Step, CreateAccount, Dispatch, FindActive, RevokeCodes, InsertCode, CheckCode,
        RegisterAttempt, ConsumeEmail, FailLogin, SucceedLogin, FindProfile, AttachProfile, StartSession,
        CheckUser, Rotate, SeeTokens, Revoke, CommitReset, UpdatePassword

-----------------------------------------------------------------------------
(* The types *)

LEMMA TokensTyped ==
    ASSUME TokensOK, TokenEffect
    PROVE  TokensOK'
  <1>1. ASSUME NEW m \in Tokens, NEW a \in Accounts, NEW n \in Nat, Opens(m, a, n)
        PROVE  TokensOK'
    <2>1. Issue(a, m, n) \in TokenRow /\ Issue(a, m, n).state = "live" /\ Issue(a, m, n).account = a
      BY DEF Issue, NoToken, TokenRow
    <2> QED BY <1>1, <2>1, AuthAssumption DEF Opens, TokensOK
  <1>2. ASSUME NEW t \in Tokens, NEW m \in Tokens, HandsOn(t, m)
        PROVE  TokensOK'
    <2> DEFINE x == Issue(token[t].account, token[t].family, token[t].password)
               y == [token[t] EXCEPT !.state = "revoked", !.expired = FALSE]
    <2>1. token[t] \in TokenRow /\ token[t].account # Nobody /\ token[t].account \in Accounts
      BY <1>2 DEF HandsOn, TokensOK, TokenRow
    <2>2. x \in TokenRow /\ x.state = "live" /\ x.account = token[t].account
      BY <2>1 DEF Issue, NoToken, TokenRow
    <2>3. y \in TokenRow /\ y.state = "revoked" /\ y.account = token[t].account /\ ~y.expired
      BY <2>1 DEF TokenRow
    <2>4. token' = [token EXCEPT ![t] = y, ![m] = x]
      BY <1>2 DEF HandsOn, TokensOK
    <2> HIDE DEF x, y
    <2> QED BY <2>1, <2>2, <2>3, <2>4 DEF TokensOK
  <1>3. ASSUME NEW S, token' = Revoked(S)
        PROVE  TokensOK'
    <2>1. \A t \in Tokens : token[t].state = "live" =>
              LET x == [token[t] EXCEPT !.state = "revoked", !.expired = FALSE] IN
              x \in TokenRow /\ x.state = "revoked" /\ x.account = token[t].account /\ ~x.expired
      BY DEF TokensOK, TokenRow
    <2> QED BY <1>3, <2>1 DEF Revoked, TokensOK
  <1>4. ASSUME NEW t \in Tokens, token[t].state \in {"live", "revoked"},
               \/ token[t].state = "live" /\ token' = [token EXCEPT ![t].expired = TRUE]
               \/ token' = [token EXCEPT ![t].state = "purged", ![t].expired = FALSE]
        PROVE  TokensOK'
    <2> DEFINE x == [token[t] EXCEPT !.expired = TRUE]
               y == [token[t] EXCEPT !.state = "purged", !.expired = FALSE]
    <2>1. /\ x \in TokenRow /\ x.state = token[t].state /\ x.account = token[t].account
          /\ y \in TokenRow /\ y.state = "purged" /\ y.account = token[t].account /\ ~y.expired
      BY DEF TokensOK, TokenRow
    <2>2. \/ token[t].state = "live" /\ token' = [token EXCEPT ![t] = x]
          \/ token' = [token EXCEPT ![t] = y]
      BY <1>4 DEF TokensOK
    <2> HIDE DEF x, y
    <2> QED BY <1>4, <2>1, <2>2 DEF TokensOK
  <1>5. CASE UNCHANGED token
    BY <1>5 DEF TokensOK
  <1> QED BY <1>1, <1>2, <1>3, <1>4, <1>5 DEF TokenEffect

\* Codes keep their types, and one that was issued stays so.
LEMMA CodesTyped ==
    ASSUME CodesOK, CodeEffect \/ (\E i \in Codes : code[i].state # "unissued" /\ Guess(i))
    PROVE  CodesOK' /\ \A i \in Codes : code[i].state # "unissued" => code'[i].state # "unissued"
  <1> DEFINE Good == CodesOK' /\ \A i \in Codes : code[i].state # "unissued" => code'[i].state # "unissued"
  <1> SUFFICES Good
    OBVIOUS
  <1>1. ASSUME NEW i \in Codes, NEW x, x \in CodeRow, code' = [code EXCEPT ![i] = x],
               x.account = code[i].account, x.state = "unissued" <=> code[i].state = "unissued"
        PROVE  Good
    BY <1>1 DEF CodesOK
  <1>2. ASSUME NEW m \in Codes, NEW a \in Accounts, NEW type \in {"EMAIL_VERIFICATION", "PASSWORD_RESET"}, NEW S,
               Inserts(m, a, type, S)
        PROVE  Good
    <2>1. NewCode(a, type) \in CodeRow /\ NewCode(a, type).state = "PENDING" /\ NewCode(a, type).account = a
      BY DEF NewCode, NoCode, CodeRow
    <2>2. \A i \in Codes : LET x == [code[i] EXCEPT !.state = "REVOKED", !.age = "fresh"] IN
              x \in CodeRow /\ x.state = "REVOKED" /\ x.account = code[i].account
      <3> SUFFICES ASSUME NEW c \in CodeRow
                   PROVE  LET x == [c EXCEPT !.state = "REVOKED", !.age = "fresh"] IN
                              x \in CodeRow /\ x.state = "REVOKED" /\ x.account = c.account
        BY DEF CodesOK
      <3> QED BY DEF CodeRow
    <2> QED BY <1>2, <2>1, <2>2, AuthAssumption DEF Inserts, CodesOK
  <1>3. ASSUME NEW i \in Codes, NEW b \in BOOLEAN, code' = [code EXCEPT ![i].mailed = b]
        PROVE  Good
    <2> DEFINE x == [code[i] EXCEPT !.mailed = b]
    <2>1. x \in CodeRow /\ x.account = code[i].account /\ x.state = code[i].state
      BY DEF CodesOK, CodeRow
    <2>2. code' = [code EXCEPT ![i] = x]
      BY <1>3 DEF CodesOK
    <2> HIDE DEF x
    <2> QED BY <1>1, <2>1, <2>2
  <1>4. ASSUME NEW i \in Codes, code[i].state = "PENDING", code' = Used(i)
        PROVE  Good
    <2> DEFINE n == code[i].uses + 1
               x == [code[i] EXCEPT !.state = "VERIFIED", !.age = "fresh", !.uses = n]
    <2>3. n \in Nat
      BY DEF CodesOK, CodeRow
    <2>1. x \in CodeRow /\ x.account = code[i].account /\ x.state = "VERIFIED"
      <3> HIDE DEF n
      <3> QED BY <2>3 DEF CodesOK, CodeRow
    <2>2. code' = [code EXCEPT ![i] = x]
      BY <1>4 DEF CodesOK, Used
    <2> HIDE DEF x
    <2> QED BY <1>1, <1>4, <2>1, <2>2
  <1>5. ASSUME NEW i \in Codes, NEW s \in {"cooled", "expired"}, code' = [code EXCEPT ![i].age = s]
        PROVE  Good
    <2> DEFINE x == [code[i] EXCEPT !.age = s]
    <2>1. x \in CodeRow /\ x.account = code[i].account /\ x.state = code[i].state
      BY DEF CodesOK, CodeRow
    <2>2. code' = [code EXCEPT ![i] = x]
      BY <1>5 DEF CodesOK
    <2> HIDE DEF x
    <2> QED BY <1>1, <2>1, <2>2
  <1>6. ASSUME NEW i \in Codes, code[i].state # "unissued", code' = [code EXCEPT ![i].state = "purged"]
        PROVE  Good
    <2> DEFINE x == [code[i] EXCEPT !.state = "purged"]
    <2>1. x \in CodeRow /\ x.account = code[i].account /\ x.state = "purged"
      BY DEF CodesOK, CodeRow
    <2>2. code' = [code EXCEPT ![i] = x]
      BY <1>6 DEF CodesOK
    <2> HIDE DEF x
    <2> QED BY <1>1, <1>6, <2>1, <2>2
  <1>7. ASSUME NEW i \in Codes, code[i].state # "unissued", Guess(i)
        PROVE  Good
    <2>1. PICK s \in {code[i].state, "EXPIRED"}, y \in {code[i].age, "fresh"} :
              code' = [code EXCEPT ![i] = [code[i] EXCEPT !.attempts = @ + 1, !.guesses = @ + 1,
                                                              !.state = s, !.age = y]]
      BY <1>7 DEF Guess
    <2> DEFINE n == code[i].attempts + 1
               g == code[i].guesses + 1
               x == [code[i] EXCEPT !.attempts = n, !.guesses = g, !.state = s, !.age = y]
    <2>2. n \in Nat /\ g \in Nat /\ s \in {"PENDING", "VERIFIED", "EXPIRED", "REVOKED", "purged"}
          /\ y \in {"fresh", "cooled", "expired"}
      BY <1>7, <2>1 DEF CodesOK, CodeRow
    <2>3. code' = [code EXCEPT ![i] = x]
      BY <2>1
    <2> HIDE DEF n, g
    <2>4. x \in CodeRow /\ x.account = code[i].account /\ x.state # "unissued"
      BY <1>7, <2>2 DEF CodesOK, CodeRow
    <2> HIDE DEF x
    <2> QED BY <1>1, <1>7, <2>3, <2>4
  <1>8. CASE UNCHANGED code
    BY <1>8 DEF CodesOK
  <1> QED BY <1>2, <1>3, <1>4, <1>5, <1>6, <1>7, <1>8 DEF CodeEffect


\* A failure adds one to the count; everything else writes a row.
LEMMA AccountsTyped ==
    ASSUME Typed, NEW r \in Requests, AccountEffect(r)
    PROVE  AccountsOK'
  <1>0. account \in [Accounts -> AccountRow]
    BY DEF Typed, AccountsOK
  <1>1. CASE FailLogin(r)
    <2> DEFINE a == Of(r)
               n == account[a].failed + 1
               l == IF Locks(request[r].read) THEN "yes" ELSE account[a].locked
               x == [account[a] EXCEPT !.failed = n, !.locked = l]
    <2>1. a \in Accounts
      BY <1>1 DEF FailLogin, At, Of, Typed, RequestsOK, Carries
    <2>2. account' = [account EXCEPT ![a] = x]
      BY <1>0, <1>1, <2>1 DEF FailLogin
    <2> HIDE DEF a
    <2>3. n \in Nat /\ l \in {"no", "yes", "over"} /\ account[a] \in AccountRow
      BY <1>0, <2>1 DEF AccountRow
    <2> HIDE DEF n, l
    <2>4. x \in AccountRow
      BY <2>3 DEF AccountRow
    <2> HIDE DEF x
    <2> QED BY <1>0, <2>1, <2>2, <2>4 DEF AccountsOK
  <1>2. CASE UNCHANGED account
    BY <1>0, <1>2 DEF AccountsOK
  <1>3. ASSUME NEW a, NEW x, Rewrites(a, x)
        PROVE  AccountsOK'
    BY <1>0, <1>3 DEF Rewrites, AccountsOK
  <1> QED BY <1>1, <1>2, <1>3 DEF AccountEffect, Quiet

LEMMA RequestsTyped ==
    ASSUME RequestsOK, \A i \in Codes : code[i].state # "unissued" => code'[i].state # "unissued",
           UNCHANGED request \/ \E r \in Requests : \E q : Begun(r, q) \/ Goes(r, q)
    PROVE  RequestsOK'
  <1>0. request \in [Requests -> Req]
    BY DEF RequestsOK
  <1>1. \A s \in Requests : Carries(request[s]) /\ request[s].code \in Codes \cup {0}
    BY DEF RequestsOK, Req
  <1>2. \A s \in Requests : request[s].code # 0 => code'[request[s].code].state # "unissued"
    BY <1>1 DEF RequestsOK
  <1>3. CASE UNCHANGED request
    BY <1>0, <1>1, <1>2, <1>3 DEF RequestsOK
  <1>4. ASSUME NEW r \in Requests, NEW q, Begun(r, q) \/ Goes(r, q)
        PROVE  RequestsOK'
    <2>1. /\ request' = [request EXCEPT ![r] = q] /\ Carries(q) /\ q \in Req
          /\ q.code # 0 => code'[q.code].state # "unissued"
      BY <1>2, <1>4 DEF Begun, Goes, Moves, Carries
    <2> QED BY <1>0, <1>1, <1>2, <2>1 DEF RequestsOK
  <1> QED BY <1>3, <1>4

\* The clock, the reaper and the operator stay within the same effects, and no request
\* moves by them.
Others ==
    \/ \E i \in Codes : CodeAges(i)
    \/ \E t \in Tokens : TokenExpires(t)
    \/ \E a \in Accounts : LockEnds(a) \/ Suspend(a)
    \/ \E p \in Profiles : RemoveProfile(p) \/ \E e \in Accounts : PatchProfile(p, e)
    \/ \E e \in Accounts : PostProfile(e)
    \/ Reap
    \/ UNCHANGED vars

LEMMA OthersEffect ==
    ASSUME Typed, Others
    PROVE  UNCHANGED request /\ TokenEffect /\ CodeEffect /\ ProfilesOK' /\ Quiet
  <1>0. ProfilesOK /\ TokensOK /\ account \in [Accounts -> AccountRow]
    BY DEF Typed, AccountsOK
  <1>1. ASSUME NEW i \in Codes, CodeAges(i)
        PROVE  CodeEffect /\ UNCHANGED <<account, token, profile, request>>
    <2>1. \E x \in {"cooled", "expired"} : code' = [code EXCEPT ![i].age = x]
      <3>1. CASE code[i].age = "fresh"
        BY <1>1, <3>1 DEF CodeAges, Typed, CodesOK
      <3>2. CASE code[i].age # "fresh"
        BY <1>1, <3>2 DEF CodeAges, Typed, CodesOK
      <3> QED BY <3>1, <3>2
    <2> QED BY <1>1, <2>1 DEF CodeAges, CodeEffect
  <1>2. ASSUME NEW t \in Tokens, TokenExpires(t)
        PROVE  TokenEffect /\ UNCHANGED <<account, code, profile, request>>
    BY <1>2 DEF TokenExpires, TokenEffect
  <1>3. ASSUME NEW a \in Accounts, LockEnds(a) \/ Suspend(a)
        PROVE  Quiet /\ UNCHANGED <<code, token, profile, request>>
    <2> DEFINE x == [account[a] EXCEPT !.locked = "over"]
               y == [account[a] EXCEPT !.state = "SUSPENDED"]
    <2>1. /\ x \in AccountRow /\ x.failed = account[a].failed /\ x.locked = "over"
          /\ y \in AccountRow /\ y.failed = account[a].failed /\ y.locked = account[a].locked
      BY <1>0 DEF AccountRow
    <2>2. account' = [account EXCEPT ![a] = x] \/ account' = [account EXCEPT ![a] = y]
      BY <1>0, <1>3 DEF LockEnds, Suspend
    <2>3. UNCHANGED <<code, token, profile, request>>
      BY <1>3 DEF LockEnds, Suspend
    <2> HIDE DEF x, y
    <2> QED BY <2>1, <2>2, <2>3 DEF Quiet, Rewrites
  <1>4. ASSUME NEW p \in Profiles, RemoveProfile(p) \/ \E e \in Accounts : PatchProfile(p, e)
        PROVE  ProfilesOK' /\ UNCHANGED <<account, code, token, request>>
    <2>1. CASE RemoveProfile(p)
      <3>1. [NoProfile EXCEPT !.state = "removed"] \in ProfileRow
        BY DEF NoProfile, ProfileRow
      <3> QED BY <1>0, <2>1, <3>1 DEF RemoveProfile, ProfilesOK
    <2>2. ASSUME NEW e \in Accounts, PatchProfile(p, e)
          PROVE  ProfilesOK' /\ UNCHANGED <<account, code, token, request>>
      <3>1. [profile[p] EXCEPT !.email = e] \in ProfileRow
        BY <1>0 DEF ProfilesOK, ProfileRow
      <3> QED BY <1>0, <2>2, <3>1 DEF PatchProfile, ProfilesOK
    <2> QED BY <1>4, <2>1, <2>2 DEF RemoveProfile
  <1>8. ASSUME NEW e \in Accounts, PostProfile(e)
        PROVE  ProfilesOK' /\ UNCHANGED <<account, code, token, request>>
    BY <1>0, <1>8, MakeTyped DEF PostProfile
  <1>5. ASSUME Reap
        PROVE  TokenEffect /\ CodeEffect /\ UNCHANGED <<account, profile, request>>
    BY <1>0, <1>5 DEF Reap, ReapableTokens, ReapableCodes, TokensOK, TokenEffect, CodeEffect
  <1>6. ASSUME UNCHANGED vars
        PROVE  UNCHANGED <<account, code, token, profile, request>>
    BY <1>6 DEF vars
  <1>7. /\ UNCHANGED account => Quiet
        /\ UNCHANGED code => CodeEffect
        /\ UNCHANGED token => TokenEffect
        /\ UNCHANGED profile => ProfilesOK'
    BY <1>0 DEF Quiet, CodeEffect, TokenEffect, ProfilesOK
  <1> QED BY <1>1, <1>2, <1>3, <1>4, <1>5, <1>6, <1>7, <1>8 DEF Others

\* What any step is: an arrival, the step of a request, its failure, or neither's.
LEMMA Moments ==
    ASSUME Typed, [Next]_vars
    PROVE  \/ \E r \in Requests : Arrival(r)
           \/ \E r \in Requests : Step(r)
           \/ \E r \in Requests : Fail(r)
           \/ Others
  BY DEF Next, Others

LEMMA TypedStep ==
    ASSUME Typed, [Next]_vars
    PROVE  Typed'
  <1>0. AccountsOK /\ CodesOK /\ TokensOK /\ ProfilesOK /\ RequestsOK
    BY DEF Typed
  <1>1. ASSUME UNCHANGED <<account, code, token, profile>>, NEW r \in Requests, NEW q, Begun(r, q) \/ Goes(r, q)
        PROVE  Typed'
    <2>1. AccountsOK' /\ CodesOK' /\ TokensOK' /\ ProfilesOK'
      BY <1>0, <1>1 DEF AccountsOK, CodesOK, TokensOK, ProfilesOK
    <2>2. RequestsOK'
      BY <1>0, <1>1, RequestsTyped
    <2> QED BY <2>1, <2>2 DEF Typed
  <1>2. ASSUME NEW r \in Requests, Step(r)
        PROVE  Typed'
    <2>1. CodeEffect \/ (\E i \in Codes : code[i].state # "unissued" /\ Guess(i))
      <3>1. CASE RegisterAttempt(r) /\ request[r].code \in Codes /\ Guess(request[r].code)
        <4>1. request[r].code # 0
          BY <3>1, AuthAssumption DEF Codes
        <4> QED BY <1>0, <3>1, <4>1 DEF RequestsOK
      <3> QED BY <1>2, <3>1, StepOnCodes
    <2>2. CodesOK' /\ \A i \in Codes : code[i].state # "unissued" => code'[i].state # "unissued"
      BY <1>0, <2>1, CodesTyped
    <2>3. AccountsOK' /\ TokensOK' /\ ProfilesOK'
      BY <1>0, <1>2, StepOnAccounts, AccountsTyped, StepOnTokens, TokensTyped, StepOnProfiles
    <2>4. RequestsOK'
      BY <1>0, <1>2, <2>2, StepMoves, RequestsTyped
    <2> QED BY <2>2, <2>3, <2>4 DEF Typed
  <1>3. ASSUME Others
        PROVE  Typed'
    <2>1. UNCHANGED request /\ TokenEffect /\ CodeEffect /\ ProfilesOK' /\ Quiet
      BY <1>3, OthersEffect
    <2>2. CodesOK' /\ \A i \in Codes : code[i].state # "unissued" => code'[i].state # "unissued"
      BY <1>0, <2>1, CodesTyped
    <2>3. AccountsOK' /\ TokensOK'
      BY <1>0, <2>1, AccountsTyped, TokensTyped, AuthAssumption DEF AccountEffect
    <2>4. RequestsOK'
      BY <1>0, <2>1, <2>2, RequestsTyped
    <2> QED BY <2>1, <2>2, <2>3, <2>4 DEF Typed
  <1>4. ASSUME NEW r \in Requests, Arrival(r)
        PROVE  Typed'
    BY <1>1, <1>4, ArrivalMoves
  <1>5. ASSUME NEW r \in Requests, Fail(r)
        PROVE  Typed'
    <2>1. UNCHANGED <<account, code, token, profile>>
      BY <1>5 DEF Fail
    <2> QED BY <1>1, <1>5, <2>1, StepMoves
  <1> QED BY <1>2, <1>3, <1>4, <1>5, Moments

LEMMA TypedInit == Init => Typed
  <1> SUFFICES ASSUME Init
               PROVE  Typed
    OBVIOUS
  <1>1. NoAccount \in AccountRow /\ KnownAccount \in AccountRow
    BY DEF NoAccount, KnownAccount, AccountRow
  <1>2. NoCode \in CodeRow /\ NoCode.state = "unissued" /\ NoCode.account = Nobody
    BY DEF NoCode, CodeRow
  <1>3. NoToken \in TokenRow /\ NoToken.state = "unissued" /\ NoToken.account = Nobody /\ ~NoToken.expired
    BY DEF NoToken, TokenRow
  <1>4. NoProfile \in ProfileRow
    BY DEF NoProfile, ProfileRow
  <1> HIDE DEF NoAccount, KnownAccount, NoCode, NoToken, NoProfile, Idle
  <1>5. AccountsOK /\ CodesOK /\ TokensOK /\ ProfilesOK
    BY <1>1, <1>2, <1>3, <1>4 DEF Init, AccountsOK, CodesOK, TokensOK, ProfilesOK
  <1>6. RequestsOK
    BY IdleCarries DEF Init, RequestsOK
  <1> QED BY <1>5, <1>6 DEF Typed

LEMMA AlwaysTyped == Spec => []Typed
  <1>1. Typed /\ [Next]_vars => Typed'
    BY TypedStep
  <1> QED BY <1>1, TypedInit, PTL DEF Spec

\* Every variable has its type, and every row that was issued its owner.
THEOREM TypeCorrect == Spec => []TypeOK
  <1>1. Typed => TypeOK
    BY DEF Typed, TypeOK, AccountsOK, CodesOK, TokensOK, ProfilesOK, RequestsOK, AccountRow, CodeRow, TokenRow,
           ProfileRow, Req
  <1> QED BY <1>1, AlwaysTyped, PTL


-----------------------------------------------------------------------------
(* Sessions *)

\* The same effects on what a family's life depends on.
Stays(u) == token'[u].state = token[u].state /\ token'[u].family = token[u].family
Fades(u) ==
    \/ Stays(u)
    \/ /\ token[u].state \in {"live", "revoked"} /\ token'[u].state \in {"revoked", "purged"}
       /\ token'[u].family = token[u].family
Opened(m) ==
    /\ token[m].state = "unissued" /\ token'[m].state = "live" /\ token'[m].family = m
    /\ \A u \in Tokens \ {m} : Stays(u)
Passed(t, m) ==
    /\ token[t].state = "live" /\ token'[t].state = "revoked" /\ token'[t].family = token[t].family
    /\ token[m].state = "unissued" /\ token'[m].state = "live" /\ token'[m].family = token[t].family
    /\ \A u \in Tokens \ {t, m} : Stays(u)

LEMMA FamilyEffect ==
    ASSUME TokensOK, TokenEffect
    PROVE  \/ \A u \in Tokens : Fades(u)
           \/ \E m \in Tokens : Opened(m)
           \/ \E t, m \in Tokens : Passed(t, m)
  <1>0. token \in [Tokens -> TokenRow]
    BY DEF TokensOK
  <1>1. ASSUME NEW m \in Tokens, NEW a \in Accounts, NEW n \in Nat, Opens(m, a, n)
        PROVE  Opened(m)
    <2>1. Issue(a, m, n).state = "live" /\ Issue(a, m, n).family = m
      BY DEF Issue, NoToken
    <2> QED BY <1>0, <1>1, <2>1 DEF Opens, Opened, Stays
  <1>2. ASSUME NEW t \in Tokens, NEW m \in Tokens, HandsOn(t, m)
        PROVE  Passed(t, m)
    <2> DEFINE x == Issue(token[t].account, token[t].family, token[t].password)
               y == [token[t] EXCEPT !.state = "revoked", !.expired = FALSE]
    <2>1. x.state = "live" /\ x.family = token[t].family
      BY DEF Issue, NoToken
    <2>2. y.state = "revoked" /\ y.family = token[t].family
      BY <1>0 DEF TokenRow
    <2>3. token' = [token EXCEPT ![t] = y, ![m] = x] /\ t # m
      BY <1>0, <1>2 DEF HandsOn
    <2> HIDE DEF x, y
    <2> QED BY <1>0, <1>2, <2>1, <2>2, <2>3 DEF HandsOn, Passed, Stays
  <1>3. ASSUME NEW S, token' = Revoked(S), NEW u \in Tokens
        PROVE  Fades(u)
    <2> DEFINE y == [token[u] EXCEPT !.state = "revoked", !.expired = FALSE]
    <2>1. y.state = "revoked" /\ y.family = token[u].family
      BY <1>0 DEF TokenRow
    <2>2. token'[u] = IF u \in S /\ token[u].state = "live" THEN y ELSE token[u]
      BY <1>3 DEF Revoked
    <2> HIDE DEF y
    <2> QED BY <2>1, <2>2 DEF Fades, Stays
  <1>4. ASSUME NEW t \in Tokens, token[t].state \in {"live", "revoked"},
               \/ token[t].state = "live" /\ token' = [token EXCEPT ![t].expired = TRUE]
               \/ token' = [token EXCEPT ![t].state = "purged", ![t].expired = FALSE],
               NEW u \in Tokens
        PROVE  Fades(u)
    <2> DEFINE x == [token[t] EXCEPT !.expired = TRUE]
               y == [token[t] EXCEPT !.state = "purged", !.expired = FALSE]
    <2>1. /\ x.state = token[t].state /\ x.family = token[t].family
          /\ y.state = "purged" /\ y.family = token[t].family
      BY <1>0 DEF TokenRow
    <2>2. token' = [token EXCEPT ![t] = x] \/ token' = [token EXCEPT ![t] = y]
      BY <1>0, <1>4
    <2> HIDE DEF x, y
    <2> QED BY <1>0, <1>4, <2>1, <2>2 DEF Fades, Stays
  <1>5. CASE UNCHANGED token
    BY <1>5 DEF Fades, Stays
  <1> QED BY <1>1, <1>2, <1>3, <1>4, <1>5 DEF TokenEffect

LEMMA TokensChange ==
    ASSUME Typed, [Next]_vars
    PROVE  TokenEffect
  <1>1. ASSUME NEW r \in Requests, Arrival(r) \/ Fail(r)
        PROVE  UNCHANGED token
    BY <1>1, ArrivalMoves DEF Fail
  <1>2. UNCHANGED token => TokenEffect
    BY DEF TokenEffect
  <1> QED BY <1>1, <1>2, Moments, StepOnTokens, OthersEffect

LEMMA FamiliesStep ==
    ASSUME Typed, Families, [Next]_vars
    PROVE  Families'
  <1>0. TokensOK /\ TokensOK' /\ TokenEffect
    BY TypedStep, TokensChange DEF Typed
  <1>1. CASE \A u \in Tokens : Fades(u)
    BY <1>1 DEF Fades, Stays, Families
  <1>2. ASSUME NEW m \in Tokens, Opened(m)
        PROVE  Families'
    BY <1>2 DEF Opened, Stays, Families
  <1>3. ASSUME NEW t \in Tokens, NEW m \in Tokens, Passed(t, m)
        PROVE  Families'
    BY <1>3 DEF Passed, Stays, Families
  <1> QED BY <1>0, <1>1, <1>2, <1>3, FamilyEffect

LEMMA AlwaysFamilies == Spec => [](Typed /\ Families)
  <1>1. Init => Families
    BY DEF Init, Families, NoToken
  <1>2. Typed /\ Families /\ [Next]_vars => (Typed /\ Families)'
    BY TypedStep, FamiliesStep
  <1> QED BY <1>1, <1>2, TypedInit, PTL DEF Spec

\* However refreshes, log-outs and revocations of it interleave, a family has one live
\* token at most.
THEOREM OneLiveToken == Spec => []OneLivePerFamily
  <1>1. ASSUME Families, NEW f \in Tokens
        PROVE  Cardinality(LiveIn(f)) <= 1
    <2>1. CASE LiveIn(f) = {}
      BY <2>1, FS_EmptySet
    <2>2. ASSUME NEW t \in LiveIn(f)
          PROVE  Cardinality(LiveIn(f)) <= 1
      <3>1. LiveIn(f) = {t}
        BY <1>1 DEF Families, LiveIn
      <3> QED BY <3>1, FS_Singleton
    <2> QED BY <2>1, <2>2
  <1>2. Families => OneLivePerFamily
    BY <1>1 DEF OneLivePerFamily
  <1> QED BY <1>2, AlwaysFamilies, PTL

\* A session that was ended is never revived by a refresh that was under way.
THEOREM NeverRevived == Spec => EndedForGood
  <1>1. ASSUME Typed, Families, [Next]_vars, NEW f \in Tokens,
               token[f].state # "unissued", LiveIn(f) = {}
        PROVE  LiveIn(f)' = {}
    <2>0. TokensOK /\ TokenEffect
      BY <1>1, TokensChange DEF Typed
    <2>1. \A u \in Tokens : token[u].state = "live" => token[u].family # f
      BY <1>1 DEF LiveIn
    <2>2. \A u \in Tokens : token'[u].state = "live" => token'[u].family # f
      <3>1. CASE \A u \in Tokens : Fades(u)
        BY <2>1, <3>1 DEF Fades, Stays
      <3>2. ASSUME NEW m \in Tokens, Opened(m)
            PROVE  \A u \in Tokens : token'[u].state = "live" => token'[u].family # f
        BY <1>1, <2>1, <3>2 DEF Opened, Stays
      <3>3. ASSUME NEW t \in Tokens, NEW m \in Tokens, Passed(t, m)
            PROVE  \A u \in Tokens : token'[u].state = "live" => token'[u].family # f
        BY <2>1, <3>3 DEF Passed, Stays
      <3> QED BY <2>0, <3>1, <3>2, <3>3, FamilyEffect
    <2> QED BY <2>2 DEF LiveIn
  <1>2. Typed /\ Families /\ [Next]_vars =>
          [\A f \in Tokens : (token[f].state # "unissued" /\ token[f].family = f /\ LiveIn(f) = {})
                                 => LiveIn(f)' = {}]_vars
    BY <1>1
  <1> QED BY <1>2, AlwaysFamilies, PTL DEF Spec, EndedForGood


-----------------------------------------------------------------------------
(* Codes and guesses *)

\* Of the requests, a part counts no more than the whole, and less when it lacks one.
LEMMA Fewer ==
    ASSUME NEW S \in SUBSET Requests, NEW T \in SUBSET S
    PROVE  /\ Cardinality(T) \in Nat /\ Cardinality(S) \in Nat /\ Cardinality(Requests) \in Nat
           /\ Cardinality(T) <= Cardinality(S) /\ Cardinality(S) <= Cardinality(Requests)
           /\ \A x \in S : x \notin T => Cardinality(T) + 1 <= Cardinality(S)
  <1>1. IsFiniteSet(Requests) /\ IsFiniteSet(S) /\ Cardinality(S) <= Cardinality(Requests)
    BY AuthAssumption, FS_Subset
  <1>2. IsFiniteSet(T) /\ Cardinality(T) <= Cardinality(S)
    BY <1>1, FS_Subset
  <1>3. Cardinality(T) \in Nat /\ Cardinality(S) \in Nat /\ Cardinality(Requests) \in Nat
    BY <1>1, <1>2, FS_CardinalityType
  <1>4. ASSUME NEW x \in S, x \notin T
        PROVE  Cardinality(T) + 1 <= Cardinality(S)
    <2>1. IsFiniteSet(S \ {x}) /\ Cardinality(S \ {x}) = Cardinality(S) - 1
      BY <1>1, <1>4, FS_RemoveElement
    <2>2. Cardinality(T) <= Cardinality(S \ {x})
      BY <1>4, <2>1, FS_Subset
    <2>3. \A k, n, c \in Int : c = n - 1 /\ k <= c => k + 1 <= n
      OBVIOUS
    <2> QED BY <1>3, <2>1, <2>2, <2>3
  <1> QED BY <1>1, <1>2, <1>3, <1>4

\* What the guesses and uses of a code depend on.
Untried(i) ==
    /\ code[i].state = "unissued" /\ code'[i].state = "PENDING"
    /\ code'[i].uses = 0 /\ code'[i].guesses = 0 /\ code'[i].attempts = 0
Holds(i) ==
    /\ code'[i].guesses = code[i].guesses /\ code'[i].attempts = code[i].attempts
    /\ \/ /\ code'[i].uses = code[i].uses
          /\ code'[i].state = code[i].state \/ code'[i].state \notin {"unissued", "PENDING"}
       \/ /\ code[i].state = "PENDING" /\ code'[i].state = "VERIFIED"
          /\ code'[i].uses = code[i].uses + 1
Tried(i) ==
    /\ code'[i].guesses = code[i].guesses + 1 /\ code'[i].attempts = code[i].attempts + 1
    /\ code'[i].uses = code[i].uses /\ code'[i].state \in {code[i].state, "EXPIRED"}

LEMMA CodeByCode ==
    ASSUME CodesOK, CodeEffect, NEW i \in Codes
    PROVE  Untried(i) \/ Holds(i)
  <1>0. code \in [Codes -> CodeRow] /\ code[i] \in CodeRow
    BY DEF CodesOK
  <1>1. ASSUME NEW m \in Codes, NEW a \in Accounts, NEW type \in {"EMAIL_VERIFICATION", "PASSWORD_RESET"}, NEW S,
               Inserts(m, a, type, S)
        PROVE  Untried(i) \/ Holds(i)
    <2> DEFINE x == NewCode(a, type)
               y == [code[i] EXCEPT !.state = "REVOKED", !.age = "fresh"]
    <2>1. x.state = "PENDING" /\ x.uses = 0 /\ x.guesses = 0 /\ x.attempts = 0
      BY DEF NewCode, NoCode
    <2>2. /\ y.state = "REVOKED" /\ y.uses = code[i].uses /\ y.guesses = code[i].guesses
          /\ y.attempts = code[i].attempts
      BY <1>0 DEF CodeRow
    <2>3. code'[i] = IF i = m THEN x ELSE IF i \in S /\ code[i].state = "PENDING" THEN y ELSE code[i]
      BY <1>1 DEF Inserts
    <2>4. code[m].state = "unissued"
      BY <1>1 DEF Inserts
    <2> HIDE DEF x, y
    <2> QED BY <2>1, <2>2, <2>3, <2>4 DEF Untried, Holds
  <1>2. ASSUME NEW j \in Codes, NEW b \in BOOLEAN, NEW s \in {"cooled", "expired"},
               \/ code' = [code EXCEPT ![j].mailed = b]
               \/ code' = [code EXCEPT ![j].age = s]
               \/ /\ code[j].state \notin {"unissued", "PENDING"}
                  /\ code' = [code EXCEPT ![j].state = "purged"]
        PROVE  Holds(i)
    <2> DEFINE x == [code[j] EXCEPT !.mailed = b]
               y == [code[j] EXCEPT !.age = s]
               z == [code[j] EXCEPT !.state = "purged"]
    <2>1. code[j] \in CodeRow
      BY DEF CodesOK
    <2>2. /\ x.state = code[j].state /\ x.uses = code[j].uses
          /\ x.guesses = code[j].guesses /\ x.attempts = code[j].attempts
          /\ y.state = code[j].state /\ y.uses = code[j].uses
          /\ y.guesses = code[j].guesses /\ y.attempts = code[j].attempts
          /\ z.state = "purged" /\ z.uses = code[j].uses
          /\ z.guesses = code[j].guesses /\ z.attempts = code[j].attempts
      BY <2>1 DEF CodeRow
    <2>3. \/ code' = [code EXCEPT ![j] = x]
          \/ code' = [code EXCEPT ![j] = y]
          \/ code' = [code EXCEPT ![j] = z]
      BY <1>0, <1>2
    <2> HIDE DEF x, y, z
    <2> QED BY <1>0, <2>2, <2>3 DEF Holds
  <1>3. ASSUME NEW j \in Codes, code[j].state = "PENDING", code' = Used(j)
        PROVE  Holds(i)
    <2> DEFINE n == code[j].uses + 1
               x == [code[j] EXCEPT !.state = "VERIFIED", !.age = "fresh", !.uses = n]
    <2>1. code' = [code EXCEPT ![j] = x]
      BY <1>0, <1>3 DEF Used
    <2>2. n = code[j].uses + 1
      OBVIOUS
    <2> HIDE DEF n
    <2>3. /\ x.state = "VERIFIED" /\ x.uses = n
          /\ x.guesses = code[j].guesses /\ x.attempts = code[j].attempts
      BY <1>0 DEF CodeRow
    <2> HIDE DEF x
    <2> QED BY <1>0, <1>3, <2>1, <2>2, <2>3 DEF Holds
  <1>4. CASE UNCHANGED code
    BY <1>4 DEF Holds
  <1> QED BY <1>1, <1>2, <1>3, <1>4 DEF CodeEffect

LEMMA GuessByCode ==
    ASSUME CodesOK, NEW j \in Codes, Guess(j), NEW i \in Codes
    PROVE  IF i = j THEN Tried(i) ELSE Holds(i)
  <1>1. PICK s \in {code[j].state, "EXPIRED"}, y \in {code[j].age, "fresh"} :
            code' = [code EXCEPT ![j] = [code[j] EXCEPT !.attempts = @ + 1, !.guesses = @ + 1, !.state = s, !.age = y]]
    BY DEF Guess
  <1> DEFINE n == code[j].attempts + 1
             g == code[j].guesses + 1
             x == [code[j] EXCEPT !.attempts = n, !.guesses = g, !.state = s, !.age = y]
  <1>2. code' = [code EXCEPT ![j] = x] /\ n = code[j].attempts + 1 /\ g = code[j].guesses + 1
    BY <1>1
  <1>0. code \in [Codes -> CodeRow] /\ code[j] \in CodeRow
    BY DEF CodesOK
  <1> HIDE DEF n, g
  <1>3. x.attempts = n /\ x.guesses = g /\ x.state = s /\ x.uses = code[j].uses
    BY <1>0 DEF CodeRow
  <1> HIDE DEF x
  <1> QED BY <1>0, <1>1, <1>2, <1>3 DEF Tried, Holds

\* A step tries no code, or its request tries the one it holds and is done.
LEMMA CodesChange ==
    ASSUME Typed, [Next]_vars
    PROVE  \/ CodeEffect
           \/ \E r \in Requests : /\ At(r, "attempt") /\ Done(r)
                                  /\ request[r].code \in Codes /\ Guess(request[r].code)
  <1>1. ASSUME NEW r \in Requests, Arrival(r) \/ Fail(r)
        PROVE  UNCHANGED code
    BY <1>1, ArrivalMoves DEF Fail
  <1>2. UNCHANGED code => CodeEffect
    BY DEF CodeEffect
  <1>3. ASSUME NEW r \in Requests, RegisterAttempt(r)
        PROVE  At(r, "attempt") /\ Done(r)
    BY <1>3 DEF RegisterAttempt
  <1> QED BY <1>1, <1>2, <1>3, Moments, StepOnCodes, OthersEffect

LEMMA UsesStep ==
    ASSUME Typed, UsedAtMostOnce, [Next]_vars
    PROVE  UsedAtMostOnce'
  <1> SUFFICES ASSUME NEW i \in Codes
               PROVE  /\ code'[i].uses <= 1
                      /\ code'[i].state \in {"unissued", "PENDING"} => code'[i].uses = 0
    BY DEF UsedAtMostOnce
  <1>0. /\ CodesOK /\ code[i].uses \in Nat /\ code[i].uses <= 1
        /\ code[i].state \in {"unissued", "PENDING"} => code[i].uses = 0
    BY DEF Typed, CodesOK, CodeRow, UsedAtMostOnce
  <1>1. CASE Untried(i) \/ Holds(i)
    BY <1>0, <1>1 DEF Untried, Holds
  <1>2. CASE Tried(i)
    BY <1>0, <1>2 DEF Tried
  <1> QED BY <1>0, <1>1, <1>2, CodesChange, CodeByCode, GuessByCode

\* One code verifies or resets once, however many submissions of it are under way.
THEOREM UsedOnce == Spec => []CodeUsedOnce
  <1>1. Init => UsedAtMostOnce
    BY DEF Init, UsedAtMostOnce, NoCode
  <1>2. Typed /\ UsedAtMostOnce /\ [Next]_vars => (Typed /\ UsedAtMostOnce)'
    BY TypedStep, UsesStep
  <1>3. UsedAtMostOnce => CodeUsedOnce
    BY DEF UsedAtMostOnce, CodeUsedOnce
  <1> QED BY <1>1, <1>2, <1>3, TypedInit, PTL DEF Spec


\* How the requests move, and what the step that moves them reads.
LEMMA RequestsChange ==
    ASSUME Typed, [Next]_vars
    PROVE  \/ UNCHANGED request
           \/ \E r \in Requests : \E q : Begun(r, q) /\ UNCHANGED <<account, code>>
           \/ \E r \in Requests : \E q : Goes(r, q)
  BY Moments, ArrivalMoves, StepMoves, OthersEffect

LEMMA GuessesStep ==
    ASSUME Typed, GuessesCounted, [Next]_vars
    PROVE  GuessesCounted'
  <1> SUFFICES ASSUME NEW i \in Codes
               PROVE  /\ code'[i].guesses = code'[i].attempts
                      /\ code'[i].guesses + Cardinality(Guessing(i)') < CodeAttempts + Cardinality(Requests)
    BY DEF GuessesCounted
  <1> DEFINE S == Guessing(i)
             T == Guessing(i)'
             N == Cardinality(Requests)
             g == code[i].guesses
             h == code'[i].guesses
             Few == h + Cardinality(T) < CodeAttempts + N
  <1>0. /\ CodesOK /\ CodesOK' /\ g = code[i].attempts /\ g + Cardinality(S) < CodeAttempts + N
        /\ request \in [Requests -> Req] /\ request' \in [Requests -> Req]
    BY TypedStep DEF Typed, RequestsOK, GuessesCounted
  <1>1. g \in Nat /\ h \in Nat /\ CodeAttempts \in Nat
    BY <1>0, AuthAssumption DEF CodesOK, CodeRow
  <1>2. S \in SUBSET Requests /\ T \in SUBSET Requests
    BY DEF Guessing
  <1>3. Cardinality(S) \in Nat /\ Cardinality(T) \in Nat /\ N \in Nat /\ Cardinality(T) <= N
    <2> HIDE DEF S, T
    <2> QED BY <1>2, Fewer
  <1>4. ASSUME h <= g, T \subseteq S
        PROVE  Few
    <2>1. Cardinality(T) <= Cardinality(S)
      <3> HIDE DEF S, T
      <3> QED BY <1>2, <1>4, Fewer
    <2> HIDE DEF S, T, N, g, h
    <2> QED BY <1>0, <1>1, <1>3, <1>4, <2>1
  <1>5. ASSUME h < CodeAttempts
        PROVE  Few
    <2> HIDE DEF S, T, N, g, h
    <2> QED BY <1>1, <1>3, <1>5
  <1>6. ASSUME CodeEffect
        PROVE  code'[i].guesses = code'[i].attempts /\ Few
    <2>1. h = code'[i].attempts /\ h <= g
      BY <1>0, <1>1, <1>6, CodeByCode DEF Untried, Holds
    <2>2. CASE UNCHANGED request
      BY <1>4, <2>1, <2>2 DEF Guessing, At
    <2>3. ASSUME NEW r \in Requests, NEW q, Moves(r, q), q.pc # "attempt" \/ q.code # i
          PROVE  T \subseteq S
      BY <1>0, <2>3 DEF Guessing, At, Moves
    <2>4. ASSUME NEW r \in Requests, NEW q, Goes(r, q), q.pc = "attempt", q.code = i
          PROVE  h < CodeAttempts
      BY <1>0, <2>4 DEF Goes
    <2> HIDE DEF S, T, h, g, Few
    <2> QED BY <1>4, <1>5, <2>1, <2>2, <2>3, <2>4, RequestsChange DEF Begun, Goes, h
  <1>7. ASSUME NEW r \in Requests, At(r, "attempt"), Done(r), request[r].code \in Codes, Guess(request[r].code)
        PROVE  code'[i].guesses = code'[i].attempts /\ Few
    <2>1. T \subseteq S /\ r \notin T
      BY <1>0, <1>7, IdleCarries DEF Done, Guessing, At
    <2>2. CASE i = request[r].code
      <3>1. h = g + 1 /\ h = code'[i].attempts
        BY <1>0, <1>7, <2>2, GuessByCode DEF Tried
      <3>2. r \in S
        BY <1>7, <2>2 DEF Guessing
      <3>3. Cardinality(T) + 1 <= Cardinality(S)
        <4> HIDE DEF S, T
        <4> QED BY <1>2, <2>1, <3>2, Fewer
      <3>4. Few
        <4> HIDE DEF S, T, N, g, h
        <4> QED BY <1>0, <1>1, <1>3, <3>1, <3>3
      <3> QED BY <3>1, <3>4
    <2>3. CASE i # request[r].code
      <3>1. h = g /\ h = code'[i].attempts
        BY <1>0, <1>7, <2>3, GuessByCode DEF Holds
      <3> QED BY <1>1, <1>4, <2>1, <3>1
    <2> QED BY <2>2, <2>3
  <1> QED BY <1>6, <1>7, CodesChange

\* Parallel guesses read one count, so the ceiling can be overrun, but only by the
\* requests in flight when it is reached.
THEOREM FewGuesses == Spec => []GuessesBounded
  <1>1. Init => GuessesCounted
    <2> SUFFICES ASSUME Init, NEW i \in Codes
                 PROVE  /\ code[i].guesses = 0 /\ code[i].attempts = 0
                        /\ 0 + Cardinality(Guessing(i)) < CodeAttempts + Cardinality(Requests)
      BY DEF GuessesCounted
    <2>1. Guessing(i) = {}
      BY IdleCarries DEF Init, Guessing, At
    <2>2. Cardinality(Guessing(i)) = 0 /\ Cardinality(Requests) \in Nat
      BY <2>1, FS_EmptySet, AuthAssumption, FS_CardinalityType
    <2>3. code[i].guesses = 0 /\ code[i].attempts = 0
      BY DEF Init, NoCode
    <2> QED BY <2>2, <2>3, AuthAssumption
  <1>2. Typed /\ GuessesCounted /\ [Next]_vars => (Typed /\ GuessesCounted)'
    BY TypedStep, GuessesStep
  <1>3. Typed /\ GuessesCounted => GuessesBounded
    <2> SUFFICES ASSUME Typed, GuessesCounted, NEW i \in Codes
                 PROVE  code[i].guesses < CodeAttempts + Cardinality(Requests)
      BY DEF GuessesBounded
    <2>1. Guessing(i) \in SUBSET Requests
      BY DEF Guessing
    <2>2. Cardinality(Guessing(i)) \in Nat /\ Cardinality(Requests) \in Nat
      BY <2>1, Fewer
    <2>3. code[i].guesses \in Nat /\ code[i].guesses + Cardinality(Guessing(i)) < CodeAttempts + Cardinality(Requests)
      BY DEF Typed, CodesOK, CodeRow, GuessesCounted
    <2> HIDE DEF Guessing
    <2> QED BY <2>2, <2>3, AuthAssumption
  <1> QED BY <1>1, <1>2, <1>3, TypedInit, PTL DEF Spec

-----------------------------------------------------------------------------
(* Failed logins *)

\* What the lock of an account depends on.
Firm(a) ==
    /\ account'[a].failed = account[a].failed
    /\ account'[a].locked = "no" => account[a].locked = "no"
Forgiven(a) == account'[a].failed = 0
Charged(a, read) ==
    /\ account'[a].failed = account[a].failed + 1
    /\ account'[a].locked = "no" => account[a].locked = "no" /\ ~Locks(read)

\* A step leaves the locks alone, or its request forgives an account, or counts a
\* failure and is done.
LEMMA LocksChange ==
    ASSUME Typed, [Next]_vars
    PROVE  \/ (\A a \in Accounts : Firm(a))
           \/ \E r \in Requests : \E q : /\ Goes(r, q) /\ Of(r) \in Accounts
                                         /\ Forgiven(Of(r)) /\ \A a \in Accounts \ {Of(r)} : Firm(a)
           \/ \E r \in Requests : /\ At(r, "failed") /\ Done(r) /\ Of(r) \in Accounts
                                  /\ Charged(Of(r), request[r].read)
                                  /\ \A a \in Accounts \ {Of(r)} : Firm(a)
  <1>0. account \in [Accounts -> AccountRow]
    BY DEF Typed, AccountsOK
  <1>1. CASE UNCHANGED account
    BY <1>1 DEF Firm
  <1>2. ASSUME NEW b \in Accounts, NEW x, Rewrites(b, x), x.failed = account[b].failed,
               x.locked \in {account[b].locked, "over"}
        PROVE  \A a \in Accounts : Firm(a)
    BY <1>0, <1>2 DEF Rewrites, Firm
  <1>3. ASSUME NEW r \in Requests, Step(r), NEW x, Rewrites(Of(r), x), x.failed = 0,
               request[r].pc \in {"create", "success", "reset"}
        PROVE  \E q : /\ Goes(r, q) /\ Of(r) \in Accounts
                      /\ Forgiven(Of(r)) /\ \A a \in Accounts \ {Of(r)} : Firm(a)
    <2>1. Of(r) \in Accounts
      BY <1>3 DEF Typed, RequestsOK, Carries, Of
    <2>2. Forgiven(Of(r)) /\ \A a \in Accounts \ {Of(r)} : Firm(a)
      <3> HIDE DEF Of
      <3> QED BY <1>0, <1>3, <2>1 DEF Rewrites, Forgiven, Firm
    <2> QED BY <1>3, <2>1, <2>2, StepMoves
  <1>4. ASSUME NEW r \in Requests, FailLogin(r)
        PROVE  /\ At(r, "failed") /\ Done(r) /\ Of(r) \in Accounts /\ Charged(Of(r), request[r].read)
               /\ \A a \in Accounts \ {Of(r)} : Firm(a)
    <2> DEFINE b == Of(r)
               n == account[b].failed + 1
               l == IF Locks(request[r].read) THEN "yes" ELSE account[b].locked
               x == [account[b] EXCEPT !.failed = n, !.locked = l]
    <2>1. At(r, "failed") /\ Done(r) /\ b \in Accounts
      BY <1>4 DEF FailLogin, At, Of, Typed, RequestsOK, Carries
    <2>2. account' = [account EXCEPT ![b] = x] /\ n = account[b].failed + 1
      BY <1>0, <1>4, <2>1 DEF FailLogin
    <2>3. l = "no" => account[b].locked = "no" /\ ~Locks(request[r].read)
      OBVIOUS
    <2> HIDE DEF b, n, l
    <2>4. x.failed = n /\ x.locked = l
      BY <1>0, <2>1 DEF AccountRow
    <2> HIDE DEF x
    <2>5. Charged(b, request[r].read) /\ \A a \in Accounts \ {b} : Firm(a)
      BY <1>0, <2>1, <2>2, <2>3, <2>4 DEF Charged, Firm
    <2> QED BY <2>1, <2>5 DEF b
  <1>5. ASSUME NEW r \in Requests, Arrival(r) \/ Fail(r)
        PROVE  UNCHANGED account
    BY <1>5, ArrivalMoves DEF Fail
  <1>6. ASSUME NEW r \in Requests, Step(r)
        PROVE  AccountEffect(r)
    BY <1>6, StepOnAccounts
  <1>7. ASSUME Others
        PROVE  Quiet
    BY <1>7, OthersEffect
  <1> QED BY <1>1, <1>2, <1>3, <1>4, <1>5, <1>6, <1>7, Moments DEF AccountEffect, Quiet


LEMMA FailuresStep ==
    ASSUME Typed, FailuresCounted, [Next]_vars
    PROVE  FailuresCounted'
  <1> SUFFICES ASSUME NEW a \in Accounts, account'[a].locked = "no"
               PROVE  account'[a].failed + Cardinality(Sparing(a)')
                          < LoginAttempts + Cardinality(Requests) - 1
    BY DEF FailuresCounted
  <1> DEFINE S == Sparing(a)
             T == Sparing(a)'
             N == Cardinality(Requests)
             f == account[a].failed
             h == account'[a].failed
             Few == h + Cardinality(T) < LoginAttempts + N - 1
  <1> SUFFICES Few
    OBVIOUS
  <1>0. /\ request \in [Requests -> Req] /\ request' \in [Requests -> Req]
        /\ account[a].locked = "no" => f + Cardinality(S) < LoginAttempts + N - 1
    BY TypedStep DEF Typed, RequestsOK, FailuresCounted
  <1>1. f \in Nat /\ h \in Nat /\ LoginAttempts \in Nat \ {0}
    BY TypedStep, AuthAssumption DEF Typed, AccountsOK, AccountRow
  <1>2. S \in SUBSET Requests /\ T \in SUBSET Requests
    BY DEF Sparing
  <1>3. Cardinality(S) \in Nat /\ Cardinality(T) \in Nat /\ N \in Nat /\ Cardinality(T) <= N
    <2> HIDE DEF S, T
    <2> QED BY <1>2, Fewer
  <1>4. ASSUME Firm(a), T \subseteq S
        PROVE  Few
    <2>1. Cardinality(T) <= Cardinality(S)
      <3> HIDE DEF S, T
      <3> QED BY <1>2, <1>4, Fewer
    <2>2. h = f /\ f + Cardinality(S) < LoginAttempts + N - 1
      <3> HIDE DEF S, T, N
      <3> QED BY <1>0, <1>4 DEF Firm
    <2> HIDE DEF S, T, N, f, h
    <2> QED BY <1>1, <1>3, <2>1, <2>2
  <1>5. ASSUME NEW r \in Requests, NEW q, Moves(r, q), q.pc # "failed" \/ q.account # a \/ Locks(q.read)
        PROVE  T \subseteq S /\ r \notin T
    BY <1>0, <1>5 DEF Sparing, At, Of, Moves
  <1>6. CASE \A b \in Accounts : Firm(b)
    <2>1. CASE UNCHANGED request
      BY <1>4, <1>6, <2>1 DEF Sparing, At, Of
    <2>2. ASSUME NEW r \in Requests, NEW q, Begun(r, q), UNCHANGED account,
                 q.pc = "failed", q.account = a, ~Locks(q.read)
          PROVE  Few
      <3>1. h = f /\ f + 1 < LoginAttempts
        BY <1>1, <2>2 DEF Begun, Locks
      <3> HIDE DEF S, T, N, f, h
      <3> QED BY <1>1, <1>3, <3>1
    <2>3. ASSUME NEW r \in Requests, NEW q, Moves(r, q), q.pc # "failed" \/ q.account # a \/ Locks(q.read)
          PROVE  Few
      BY <1>4, <1>5, <1>6, <2>3
    <2> HIDE DEF Few
    <2> QED BY <2>1, <2>2, <2>3, RequestsChange DEF Begun, Goes
  <1>7. ASSUME NEW r \in Requests, NEW q, Goes(r, q), Of(r) \in Accounts, Forgiven(Of(r)),
               \A b \in Accounts \ {Of(r)} : Firm(b)
        PROVE  Few
    <2>1. T \subseteq S /\ r \notin T
      BY <1>5, <1>7 DEF Goes
    <2>2. CASE a = Of(r)
      <3>1. Cardinality(T) + 1 <= N
        <4>1. Requests \in SUBSET Requests
          OBVIOUS
        <4> HIDE DEF S, T
        <4> QED BY <1>2, <2>1, <4>1, Fewer
      <3>2. h = 0
        BY <1>7, <2>2 DEF Forgiven
      <3> HIDE DEF S, T, N, f, h
      <3> QED BY <1>1, <1>3, <3>1, <3>2
    <2>3. CASE a # Of(r)
      BY <1>4, <1>7, <2>1, <2>3
    <2> QED BY <2>2, <2>3
  <1>8. ASSUME NEW r \in Requests, At(r, "failed"), Done(r), Of(r) \in Accounts, Charged(Of(r), request[r].read),
               \A b \in Accounts \ {Of(r)} : Firm(b)
        PROVE  Few
    <2>1. T \subseteq S /\ r \notin T
      BY <1>5, <1>8, IdleCarries DEF Done, Moves
    <2>2. CASE a = Of(r)
      <3>1. h = f + 1 /\ account[a].locked = "no" /\ ~Locks(request[r].read)
        BY <1>8, <2>2 DEF Charged
      <3>2. r \in S
        BY <1>8, <2>2, <3>1 DEF Sparing
      <3>3. Cardinality(T) + 1 <= Cardinality(S)
        <4> HIDE DEF S, T
        <4> QED BY <1>2, <2>1, <3>2, Fewer
      <3>4. f + Cardinality(S) < LoginAttempts + N - 1
        BY <1>0, <3>1
      <3> HIDE DEF S, T, N, f, h
      <3> QED BY <1>1, <1>3, <3>1, <3>3, <3>4
    <2>3. CASE a # Of(r)
      BY <1>4, <1>8, <2>1, <2>3
    <2> QED BY <2>2, <2>3
  <1> QED BY <1>6, <1>7, <1>8, LocksChange

\* Failures that overrun the ceiling in parallel still lock the account, once the
\* requests in flight are through.
THEOREM FailuresDoLock == Spec => []FailuresLock
  <1>1. Init => FailuresCounted
    <2> SUFFICES ASSUME Init, NEW a \in Accounts
                 PROVE  account[a].failed + Cardinality(Sparing(a)) < LoginAttempts + Cardinality(Requests) - 1
      BY DEF FailuresCounted
    <2>1. Sparing(a) = {} /\ Cardinality(Sparing(a)) = 0
      BY IdleCarries, FS_EmptySet DEF Init, Sparing, At
    <2>2. account[a].failed = 0
      BY DEF Init, NoAccount, KnownAccount
    <2>3. Cardinality(Requests) \in Nat \ {0}
      BY AuthAssumption, FS_EmptySet, FS_CardinalityType
    <2> QED BY <2>1, <2>2, <2>3, AuthAssumption
  <1>2. Typed /\ FailuresCounted /\ [Next]_vars => (Typed /\ FailuresCounted)'
    BY TypedStep, FailuresStep
  <1>3. Typed /\ FailuresCounted => FailuresLock
    <2> SUFFICES ASSUME Typed, FailuresCounted, NEW a \in Accounts, account[a].locked = "no"
                 PROVE  ~(account[a].failed >= LoginAttempts + Cardinality(Requests) - 1)
      BY DEF FailuresLock
    <2>1. Sparing(a) \in SUBSET Requests
      BY DEF Sparing
    <2>2. Cardinality(Sparing(a)) \in Nat /\ Cardinality(Requests) \in Nat
      BY <2>1, Fewer
    <2>3. /\ account[a].failed \in Nat
          /\ account[a].failed + Cardinality(Sparing(a)) < LoginAttempts + Cardinality(Requests) - 1
      BY DEF Typed, AccountsOK, AccountRow, FailuresCounted
    <2> HIDE DEF Sparing
    <2> QED BY <2>2, <2>3, AuthAssumption
  <1> QED BY <1>1, <1>2, <1>3, TypedInit, PTL DEF Spec

===============================================================================
