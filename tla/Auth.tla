--------------------------------- MODULE Auth ---------------------------------
(***************************************************************************)
(* The auth service: accounts, the codes that verify an address or reset a *)
(* password, the refresh tokens that make up a session, and the hand-off   *)
(* of a new account's profile to the user service.                         *)
(*                                                                         *)
(* A request is a process that runs from one await to the next. Postgres   *)
(* runs the transactions at Read Committed, so a statement that revokes    *)
(* many rows acts on those it saw when it began: it takes two steps here,  *)
(* and a row that another transaction commits in between is missed. Tokens,*)
(* codes and profiles are numbered in the order they come into being, and  *)
(* a family is named by its first token.                                   *)
(*                                                                         *)
(* Left out: the login history (written, listed, purged and read by no     *)
(* decision), the id of the mail a code went out with, and the access      *)
(* tokens, which nothing stores or revokes.                                *)
(***************************************************************************)
EXTENDS Naturals, FiniteSets, FiniteSetsExt

CONSTANTS
    Accounts,       \* email addresses, each of which may hold an account
    Usernames,
    Requests,       \* the requests that are served at once
    Offered,        \* the endpoints an instance exercises
    Known,          \* accounts that are verified and owe no profile from the start
    TooLong,        \* addresses that this service takes and the user service does not
    CodeAttempts,   \* VERIFICATION_MAX_ATTEMPTS
    LoginAttempts,  \* MAX_FAILED_LOGIN_ATTEMPTS
    MaxTokens, MaxCodes, MaxProfiles,   \* bounds: rows ever made
    MaxFailures,    \* bound: failed logins in a row
    Faults,         \* what may fail
    Nobody, NoName  \* no account, no user name

ASSUME AuthAssumption ==
    /\ CodeAttempts \in Nat \ {0} /\ LoginAttempts \in Nat \ {0}
    /\ MaxTokens \in Nat /\ MaxCodes \in Nat /\ MaxProfiles \in Nat
    /\ MaxFailures \in Nat
    /\ IsFiniteSet(Requests) /\ Requests # {}
    /\ Faults \subseteq {"database", "mail", "users", "lostReply"}
    /\ Known \subseteq Accounts /\ TooLong \subseteq Accounts /\ Nobody \notin Accounts /\ NoName \notin Usernames

VARIABLES
    account,    \* address -> its AuthUser row
    code,       \* number -> Verification row
    token,      \* number -> RefreshToken row
    profile,    \* number -> User row of the user service
    request     \* request -> where it is and what it has read

vars == <<account, code, token, profile, request>>

Tokens == 1 .. MaxTokens
Codes == 1 .. MaxCodes
Profiles == 1 .. MaxProfiles

NoAccount == [state |-> "none", username |-> NoName, verified |-> FALSE, password |-> 0, failed |-> 0,
              locked |-> "no", userId |-> 0, pending |-> FALSE]
KnownAccount == [NoAccount EXCEPT !.state = "ACTIVE", !.verified = TRUE, !.password = 1]
NoCode == [state |-> "unissued", account |-> Nobody, type |-> "none", age |-> "fresh", attempts |-> 0,
           mailed |-> FALSE, guesses |-> 0, uses |-> 0]
NoToken == [state |-> "unissued", account |-> Nobody, family |-> 0, expired |-> FALSE, password |-> 0]
NoProfile == [state |-> "unmade", owner |-> Nobody, email |-> Nobody]
Idle == [pc |-> "idle", account |-> Nobody, username |-> NoName, type |-> "none", code |-> 0,
         token |-> 0, profile |-> 0, read |-> 0, proved |-> 0, handoff |-> FALSE, doomed |-> {}]

Init ==
    /\ account = [a \in Accounts |-> IF a \in Known THEN KnownAccount ELSE NoAccount]
    /\ code = [i \in Codes |-> NoCode]
    /\ token = [t \in Tokens |-> NoToken]
    /\ profile = [p \in Profiles |-> NoProfile]
    /\ request = [r \in Requests |-> Idle]

-----------------------------------------------------------------------------
(* Rows *)

FreshCodes == {i \in Codes : code[i].state = "unissued"}
FreshTokens == {t \in Tokens : token[t].state = "unissued"}
FreshProfiles == {p \in Profiles : profile[p].state = "unmade"}

Pending(a, type) ==
    {i \in Codes : code[i].state = "PENDING" /\ code[i].account = a /\ code[i].type = type}
LiveOf(a) == {t \in Tokens : token[t].state = "live" /\ token[t].account = a}
LiveIn(f) == {t \in Tokens : token[t].state = "live" /\ token[t].family = f}
ProfilesOf(a) == {p \in Profiles : profile[p].state = "there" /\ profile[p].owner = a}
HoldersOf(e) == {p \in Profiles : profile[p].state = "there" /\ profile[p].email = e}

\* Where a request is and what it works on.
At(r, pc) == request[r].pc = pc
Of(r) == request[r].account
To(r, pc) == request' = [request EXCEPT ![r].pc = pc]
Done(r) == request' = [request EXCEPT ![r] = Idle]
Arrives(r, operation) == At(r, "idle") /\ operation \in Offered

\* updateMany ... where revokedAt is null, on the rows its statement saw.
Revoked(tokens) ==
    [t \in Tokens |-> IF t \in tokens /\ token[t].state = "live"
                      THEN [token[t] EXCEPT !.state = "revoked", !.expired = FALSE] ELSE token[t]]

NewCode(a, type) == [NoCode EXCEPT !.state = "PENDING", !.account = a, !.type = type]

-----------------------------------------------------------------------------
(* Registration and codes *)

\* The bound on codes: one is asked for while there is a row for it, or one in force.
MayAsk(a, type) == FreshCodes # {} \/ Pending(a, type) # {}

\* Both look-ups are advisory: they only decide who goes on.
Register(r, a, n) ==
    /\ Arrives(r, "register") /\ FreshCodes # {}
    /\ account[a].state = "none" /\ \A b \in Accounts : account[b].username # n
    /\ request' = [request EXCEPT ![r] = [Idle EXCEPT !.pc = "create", !.account = a, !.username = n]]
    /\ UNCHANGED <<account, code, token, profile>>

\* What the unique indexes on email and username leave free.
Free(r) ==
    /\ account[Of(r)].state = "none"
    /\ \A b \in Accounts : account[b].username # request[r].username

\* createAuthUserWithVerification: account and code, or neither.
CreateAccount(r) ==
    /\ At(r, "create")
    /\ \/ /\ Free(r) /\ FreshCodes # {}
          /\ account' = [account EXCEPT ![Of(r)] =
                 [NoAccount EXCEPT !.state = "ACTIVE", !.username = request[r].username,
                                   !.password = 1, !.pending = TRUE]]
          /\ code' = [code EXCEPT ![Min(FreshCodes)] = NewCode(Of(r), "EMAIL_VERIFICATION")]
          /\ request' = [request EXCEPT ![r].pc = "dispatch", ![r].code = Min(FreshCodes)]
       \/ /\ ~Free(r) \/ FreshCodes = {}
          /\ Done(r)
          /\ UNCHANGED <<account, code>>
    /\ UNCHANGED <<token, profile>>

\* dispatchCode: the mail service takes the code, or the request goes on without.
Dispatch(r) ==
    /\ At(r, "dispatch")
    /\ \/ code' = [code EXCEPT ![request[r].code].mailed = (code[request[r].code].state # "purged")]
       \/ "mail" \in Faults /\ UNCHANGED code
    /\ Done(r)
    /\ UNCHANGED <<account, token, profile>>

ResendVerification(r, a) ==
    /\ Arrives(r, "resend") /\ MayAsk(a, "EMAIL_VERIFICATION")
    /\ account[a].state = "ACTIVE" /\ ~account[a].verified
    /\ request' = [request EXCEPT ![r] = [Idle EXCEPT !.pc = "active", !.account = a,
                                                      !.type = "EMAIL_VERIFICATION"]]
    /\ UNCHANGED <<account, code, token, profile>>

ForgotPassword(r, a) ==
    /\ Arrives(r, "forgot") /\ MayAsk(a, "PASSWORD_RESET")
    /\ account[a].state = "ACTIVE"
    /\ request' = [request EXCEPT ![r] = [Idle EXCEPT !.pc = "active", !.account = a,
                                                      !.type = "PASSWORD_RESET"]]
    /\ UNCHANGED <<account, code, token, profile>>

\* A code younger than the cooldown is not replaced.
WithinCooldown(i) == code[i].age = "fresh"

FindActive(r) ==
    /\ At(r, "active")
    /\ LET live == Pending(Of(r), request[r].type) IN
       IF live # {} /\ WithinCooldown(Max(live)) THEN Done(r) ELSE To(r, "revokeCodes")
    /\ UNCHANGED <<account, code, token, profile>>

\* replaceVerification, first statement ...
RevokeCodes(r) ==
    /\ At(r, "revokeCodes")
    /\ request' = [request EXCEPT ![r].pc = "insertCode", ![r].doomed = Pending(Of(r), request[r].type)]
    /\ UNCHANGED <<account, code, token, profile>>

\* ... and its commit.
InsertCode(r) ==
    /\ At(r, "insertCode")
    /\ \/ /\ FreshCodes # {}
          /\ code' = [i \in Codes |->
                 CASE i = Min(FreshCodes) -> NewCode(Of(r), request[r].type)
                   [] i \in request[r].doomed /\ code[i].state = "PENDING" ->
                          [code[i] EXCEPT !.state = "REVOKED", !.age = "fresh"]
                   [] OTHER -> code[i]]
          /\ request' = [request EXCEPT ![r].pc = "dispatch", ![r].code = Min(FreshCodes), ![r].doomed = {}]
       \/ FreshCodes = {} /\ Done(r) /\ UNCHANGED code
    /\ UNCHANGED <<account, token, profile>>

VerifyEmail(r, a) ==
    /\ Arrives(r, "verify")
    /\ account[a].state = "ACTIVE" /\ ~account[a].verified
    /\ request' = [request EXCEPT ![r] = [Idle EXCEPT !.pc = "code", !.account = a,
                                                      !.type = "EMAIL_VERIFICATION"]]
    /\ UNCHANGED <<account, code, token, profile>>

ResetPassword(r, a) ==
    /\ Arrives(r, "reset")
    /\ account[a].state = "ACTIVE"
    /\ request' = [request EXCEPT ![r] = [Idle EXCEPT !.pc = "code", !.account = a,
                                                      !.type = "PASSWORD_RESET"]]
    /\ UNCHANGED <<account, code, token, profile>>

\* A check that leaves the ceiling to the status alone.
UsableUncounted(i) == code[i].age # "expired"

\* The two checks consumeCode makes of the code it found.
Usable(i) == code[i].age # "expired" /\ code[i].attempts < CodeAttempts

\* consumeCode: the newest code in force; a right answer needs the mail.
CheckCode(r) ==
    /\ At(r, "code")
    /\ LET live == Pending(Of(r), request[r].type)
           usable == {i \in live : i = Max(live) /\ Usable(i)}
       IN  \/ usable = {} /\ Done(r)
           \/ \E i \in usable :
                  request' = [request EXCEPT ![r].pc = "attempt", ![r].code = i,
                                             ![r].read = code[i].attempts]
           \/ \E i \in usable :
                  /\ code[i].mailed
                  /\ request' = [request EXCEPT ![r].code = i,
                         ![r].pc = IF request[r].type = "EMAIL_VERIFICATION" THEN "consume" ELSE "doom"]
    /\ UNCHANGED <<account, code, token, profile>>

\* The count after this guess: the database adds.
Counted(r) == code[request[r].code].attempts + 1

\* The decision to burn the code comes from the count that was read.
Burns(r) == request[r].read + 1 >= CodeAttempts

\* registerVerificationAttempt: by id, whatever became of the code meanwhile.
RegisterAttempt(r) ==
    /\ At(r, "attempt")
    /\ LET i == request[r].code
           row == code[i]
       IN  code' = IF row.state = "purged" THEN code
                   ELSE [code EXCEPT ![i] = [row EXCEPT
                            !.attempts = Counted(r), !.guesses = @ + 1,
                            !.state = IF Burns(r) THEN "EXPIRED" ELSE @,
                            !.age = IF Burns(r) THEN "fresh" ELSE @]]
    /\ Done(r)
    /\ UNCHANGED <<account, token, profile>>

\* A consumption that trusts the check made before it.
StillInForceUnchecked(r) == code[request[r].code].state # "purged"
\* where: { id, status: "PENDING" }
StillInForce(r) == code[request[r].code].state = "PENDING"

Used(i) == [code EXCEPT ![i].state = "VERIFIED", ![i].age = "fresh", ![i].uses = @ + 1]

\* consumeEmailVerification
ConsumeEmail(r) ==
    /\ At(r, "consume")
    /\ \/ /\ StillInForce(r)
          /\ code' = Used(request[r].code)
          /\ account' = [account EXCEPT ![Of(r)].verified = TRUE]
          /\ request' = [request EXCEPT ![r] =
                 [Idle EXCEPT !.pc = "profile", !.account = Of(r), !.proved = account[Of(r)].password,
                              !.handoff = account[Of(r)].pending /\ account[Of(r)].userId = 0]]
       \/ ~StillInForce(r) /\ Done(r) /\ UNCHANGED <<account, code>>
    /\ UNCHANGED <<token, profile>>

-----------------------------------------------------------------------------
(* Login *)

\* The password is compared with the row that was read. A right one goes no further
\* when that row was locked, inactive or unverified.
Login(r, a) ==
    /\ Arrives(r, "login")
    /\ account[a].state # "none"
    /\ \/ /\ account[a].failed < MaxFailures
          /\ request' = [request EXCEPT ![r] = [Idle EXCEPT !.pc = "failed", !.account = a,
                                                            !.read = account[a].failed]]
       \/ /\ account[a].locked # "yes" /\ account[a].state = "ACTIVE" /\ account[a].verified
          /\ request' = [request EXCEPT ![r] = [Idle EXCEPT !.pc = "success", !.account = a,
                                                            !.proved = account[a].password]]
    /\ UNCHANGED <<account, code, token, profile>>

\* A ceiling that is one too high.
LocksLate(read) == read + 1 > LoginAttempts
\* Whether a failure locks the account, from the count the request read.
Locks(read) == read + 1 >= LoginAttempts

\* registerFailedLogin
FailLogin(r) ==
    /\ At(r, "failed")
    /\ account' = [account EXCEPT ![Of(r)].failed = @ + 1,
                                  ![Of(r)].locked = IF Locks(request[r].read) THEN "yes" ELSE @]
    /\ Done(r)
    /\ UNCHANGED <<code, token, profile>>

\* registerSuccessfulLogin
SucceedLogin(r) ==
    /\ At(r, "success")
    /\ account' = [account EXCEPT ![Of(r)].failed = 0, ![Of(r)].locked = "no"]
    /\ request' = [request EXCEPT ![r].pc = "profile",
                       ![r].handoff = account[Of(r)].pending /\ account[Of(r)].userId = 0]
    /\ UNCHANGED <<code, token, profile>>

-----------------------------------------------------------------------------
(* The profile hand-off, and the user service *)

\* A profile of an account, or of a login that is none of this service's. What the
\* user service looks up first decides no more than its unique indexes do.
Make(p, a, e) == profile' = [profile EXCEPT ![p] = [state |-> "there", owner |-> a, email |-> e]]

\* POST /users of an account's profile answers 422 for an address that is too long, 409
\* when the account or its address has a profile, and 201 otherwise.
Accepted(a) == a \notin TooLong /\ ProfilesOf(a) = {} /\ HoldersOf(a) = {}
Conflicts(a) == a \notin TooLong /\ (ProfilesOf(a) # {} \/ HoldersOf(a) # {})

Created(r) ==
    /\ request[r].handoff /\ Accepted(Of(r)) /\ FreshProfiles # {}
    /\ Make(Min(FreshProfiles), Of(r), Of(r))
    /\ request' = [request EXCEPT ![r].pc = "attach", ![r].profile = Min(FreshProfiles)]

\* A hand-off that takes a 409 for a failure.
CreateProfileStrict(r) ==
    /\ At(r, "profile")
    /\ \/ (~request[r].handoff \/ ~Accepted(Of(r))) /\ To(r, "session") /\ UNCHANGED profile
       \/ Created(r)
    /\ UNCHANGED <<account, code, token>>

\* ensureProfile: a 409 is read as a profile that an earlier attempt made, and anything
\* else that is not a 201 ends the attempt: the login goes on.
CreateProfile(r) ==
    /\ At(r, "profile")
    /\ \/ (~request[r].handoff \/ Of(r) \in TooLong) /\ To(r, "session") /\ UNCHANGED profile
       \/ Created(r)
       \/ request[r].handoff /\ Conflicts(Of(r)) /\ To(r, "find") /\ UNCHANGED profile
    /\ UNCHANGED <<account, code, token>>

\* The user service is not reached, or its answer is not, or it has no profile for the
\* account after all.
HandoffFails(r) ==
    /\ \/ /\ At(r, "profile") /\ request[r].handoff
          /\ \/ "users" \in Faults /\ UNCHANGED profile
             \/ /\ "lostReply" \in Faults /\ Accepted(Of(r)) /\ FreshProfiles # {}
                /\ Make(Min(FreshProfiles), Of(r), Of(r))
       \/ At(r, "find") /\ ("users" \in Faults \/ ProfilesOf(Of(r)) = {}) /\ UNCHANGED profile
       \/ At(r, "attach") /\ "database" \in Faults /\ UNCHANGED profile
    /\ request' = [request EXCEPT ![r].pc = "session", ![r].profile = 0]
    /\ UNCHANGED <<account, code, token>>

\* After a 409: GET /users/auth/:authUserId
FindProfile(r) ==
    /\ At(r, "find")
    /\ \E p \in ProfilesOf(Of(r)) :
           request' = [request EXCEPT ![r].pc = "attach", ![r].profile = p]
    /\ UNCHANGED <<account, code, token, profile>>

\* attachProfile: the pointer is set and the copy dropped in one write.
AttachProfile(r) ==
    /\ At(r, "attach")
    /\ account' = [account EXCEPT ![Of(r)].userId = request[r].profile, ![Of(r)].pending = FALSE]
    /\ request' = [request EXCEPT ![r].pc = "session", ![r].profile = 0]
    /\ UNCHANGED <<code, token, profile>>

\* POST /users by somebody else, for a login of another provider. One row is left for
\* the hand-off.
PostProfile(e) ==
    /\ "postUser" \in Offered
    /\ e \notin TooLong /\ HoldersOf(e) = {} /\ Cardinality(FreshProfiles) > 1
    /\ Make(Min(FreshProfiles), Nobody, e)
    /\ UNCHANGED <<account, code, token, request>>

\* PATCH /users/:id, where it moves the address.
PatchProfile(p, e) ==
    /\ "patchUser" \in Offered
    /\ profile[p].state = "there" /\ e \notin TooLong /\ HoldersOf(e) = {}
    /\ profile' = [profile EXCEPT ![p].email = e]
    /\ UNCHANGED <<account, code, token, request>>

\* DELETE /users/:id
RemoveProfile(p) ==
    /\ "removeUser" \in Offered
    /\ profile[p].state = "there" /\ FreshProfiles # {}
    /\ profile' = [profile EXCEPT ![p] = [NoProfile EXCEPT !.state = "removed"]]
    /\ UNCHANGED <<account, code, token, request>>

-----------------------------------------------------------------------------
(* Sessions *)

Issue(a, f, password) ==
    [NoToken EXCEPT !.state = "live", !.account = a, !.family = f, !.password = password]

\* startSession: a family of its own.
StartSession(r) ==
    /\ At(r, "session")
    /\ token' = IF FreshTokens = {} THEN token
                ELSE [token EXCEPT ![Min(FreshTokens)] =
                          Issue(Of(r), Min(FreshTokens), request[r].proved)]
    /\ Done(r)
    /\ UNCHANGED <<account, code, profile>>

\* refresh: a token that was revoked before gives its family away.
Refresh(r, t) ==
    /\ Arrives(r, "refresh")
    /\ token[t].state \in {"live", "revoked"}
    /\ token[t].state = "live" => ~token[t].expired
    /\ request' = [request EXCEPT ![r] =
           [Idle EXCEPT !.pc = IF token[t].state = "revoked" THEN "reuse" ELSE "user",
                        !.account = token[t].account, !.token = t]]
    /\ UNCHANGED <<account, code, token, profile>>

CheckUser(r) ==
    /\ At(r, "user")
    /\ To(r, IF account[Of(r)].state = "ACTIVE" /\ account[Of(r)].verified THEN "rotate" ELSE "revokeAll")
    /\ UNCHANGED <<account, code, token, profile>>

\* A rotation that trusts the look-up made before it.
ExchangeableUnchecked(t) == token[t].state # "purged"
\* where: { id, revokedAt: null }
Exchangeable(t) == token[t].state = "live"

\* An exchange that leaves the old token in force.
ExchangedKeeping(t) ==
    [token EXCEPT ![Min(FreshTokens)] = Issue(token[t].account, token[t].family, token[t].password)]
Exchanged(t) ==
    [token EXCEPT ![t].state = "revoked", ![t].expired = FALSE,
                  ![Min(FreshTokens)] = Issue(token[t].account, token[t].family, token[t].password)]

\* rotateRefreshToken: the successor comes and the predecessor goes, or neither.
Rotate(r) ==
    /\ At(r, "rotate")
    /\ token' = IF Exchangeable(request[r].token) /\ FreshTokens # {}
                THEN Exchanged(request[r].token) ELSE token
    /\ Done(r)
    /\ UNCHANGED <<account, code, profile>>

\* logout
Logout(r, t) ==
    /\ Arrives(r, "logout")
    /\ token[t].state \in {"live", "revoked"}
    /\ request' = [request EXCEPT ![r] = [Idle EXCEPT !.pc = "revoke", !.doomed = {t}]]
    /\ UNCHANGED <<account, code, token, profile>>

\* Whoever has been signed in may hold an access token still.
SignedIn(a) == \E t \in Tokens : token[t].account = a

LogoutAll(r, a) ==
    /\ Arrives(r, "logoutAll")
    /\ SignedIn(a)
    /\ request' = [request EXCEPT ![r] = [Idle EXCEPT !.pc = "revokeAll", !.account = a]]
    /\ UNCHANGED <<account, code, token, profile>>

\* changePassword: the current one is compared with the row that was read.
ChangePassword(r, a) ==
    /\ Arrives(r, "change")
    /\ SignedIn(a)
    /\ request' = [request EXCEPT ![r] = [Idle EXCEPT !.pc = "doom", !.account = a, !.type = "change"]]
    /\ UNCHANGED <<account, code, token, profile>>

\* revokeFamily, revokeAllForUser, and the revocations inside consumePasswordReset and
\* updatePassword: the rows that the statement sees.
SeeTokens(r) ==
    /\ \/ /\ At(r, "reuse")
          /\ request' = [request EXCEPT ![r] =
                 [Idle EXCEPT !.pc = "revoke", !.doomed = LiveIn(token[request[r].token].family)]]
       \/ /\ At(r, "revokeAll")
          /\ request' = [request EXCEPT ![r] = [Idle EXCEPT !.pc = "revoke", !.doomed = LiveOf(Of(r))]]
       \/ /\ At(r, "doom")
          /\ request' = [request EXCEPT ![r].doomed = LiveOf(Of(r)),
                             ![r].pc = IF request[r].type = "change" THEN "update" ELSE "reset"]
    /\ UNCHANGED <<account, code, token, profile>>

\* The statement writes.
Revoke(r) ==
    /\ At(r, "revoke")
    /\ token' = Revoked(request[r].doomed)
    /\ Done(r)
    /\ UNCHANGED <<account, code, profile>>

\* consumePasswordReset commits: the code, the sessions and the account.
CommitReset(r) ==
    /\ At(r, "reset")
    /\ \/ /\ StillInForce(r)
          /\ code' = Used(request[r].code)
          /\ token' = Revoked(request[r].doomed)
          /\ account' = [account EXCEPT ![Of(r)].password = @ + 1, ![Of(r)].verified = TRUE,
                                        ![Of(r)].failed = 0, ![Of(r)].locked = "no"]
       \/ ~StillInForce(r) /\ UNCHANGED <<account, code, token>>
    /\ Done(r)
    /\ UNCHANGED profile

\* updatePassword commits, and the caller gets a session.
UpdatePassword(r) ==
    /\ At(r, "update")
    /\ token' = Revoked(request[r].doomed)
    /\ account' = [account EXCEPT ![Of(r)].password = @ + 1]
    /\ request' = [request EXCEPT ![r] = [Idle EXCEPT !.pc = "session", !.account = Of(r),
                                                      !.proved = account[Of(r)].password + 1]]
    /\ UNCHANGED <<code, profile>>

-----------------------------------------------------------------------------
(* Failure, the clock, the reaper and the operator *)

\* A statement fails, or the process dies: the request ends where it is.
Fail(r) ==
    /\ "database" \in Faults
    /\ request[r].pc \notin {"idle", "attach"}
    /\ Done(r)
    /\ UNCHANGED <<account, code, token, profile>>

\* The resend cooldown is over, then the code's life. Age is followed while it matters.
CodeAges(i) ==
    /\ code[i].state = "PENDING" /\ code[i].age # "expired"
    /\ code' = [code EXCEPT ![i].age = IF @ = "fresh" THEN "cooled" ELSE "expired"]
    /\ UNCHANGED <<account, token, profile, request>>

\* Whether a token that was revoked has expired too makes no difference.
TokenExpires(t) ==
    /\ "expire" \in Offered
    /\ token[t].state = "live" /\ ~token[t].expired
    /\ token' = [token EXCEPT ![t].expired = TRUE]
    /\ UNCHANGED <<account, code, profile, request>>

LockEnds(a) ==
    /\ account[a].locked = "yes"
    /\ account' = [account EXCEPT ![a].locked = "over"]
    /\ UNCHANGED <<code, token, profile, request>>

\* What the reaper takes, once it is old enough: dead tokens and settled codes.
ReapableTokens == {t \in Tokens : token[t].state = "revoked" \/ token[t].expired}
ReapableCodes == {i \in Codes : code[i].state \in {"VERIFIED", "EXPIRED", "REVOKED"}}

Reap ==
    /\ "reap" \in Offered
    /\ \/ \E t \in ReapableTokens : token' = [token EXCEPT ![t].state = "purged", ![t].expired = FALSE] /\ UNCHANGED code
       \/ \E i \in ReapableCodes : code' = [code EXCEPT ![i].state = "purged"] /\ UNCHANGED token
    /\ UNCHANGED <<account, profile, request>>

\* Done in the database: the service only reads status.
Suspend(a) ==
    /\ "suspend" \in Offered
    /\ account[a].state = "ACTIVE"
    /\ account' = [account EXCEPT ![a].state = "SUSPENDED"]
    /\ UNCHANGED <<code, token, profile, request>>

-----------------------------------------------------------------------------
\* What a request does next.
Step(r) ==
    \/ CreateAccount(r) \/ Dispatch(r) \/ FindActive(r) \/ RevokeCodes(r) \/ InsertCode(r)
    \/ CheckCode(r) \/ RegisterAttempt(r) \/ ConsumeEmail(r)
    \/ FailLogin(r) \/ SucceedLogin(r)
    \/ CreateProfile(r) \/ FindProfile(r) \/ AttachProfile(r) \/ HandoffFails(r)
    \/ StartSession(r) \/ CheckUser(r) \/ Rotate(r) \/ SeeTokens(r) \/ Revoke(r)
    \/ CommitReset(r) \/ UpdatePassword(r)

Arrival(r) ==
    \/ \E a \in Accounts :
           \/ \E n \in Usernames : Register(r, a, n)
           \/ ResendVerification(r, a) \/ ForgotPassword(r, a) \/ VerifyEmail(r, a) \/ ResetPassword(r, a)
           \/ Login(r, a) \/ LogoutAll(r, a) \/ ChangePassword(r, a)
    \/ \E t \in Tokens : Refresh(r, t) \/ Logout(r, t)

Next ==
    \/ \E r \in Requests : Arrival(r) \/ Step(r) \/ Fail(r)
    \/ \E i \in Codes : CodeAges(i)
    \/ \E t \in Tokens : TokenExpires(t)
    \/ \E a \in Accounts : LockEnds(a) \/ Suspend(a)
    \/ \E p \in Profiles : RemoveProfile(p) \/ \E e \in Accounts : PatchProfile(p, e)
    \/ \E e \in Accounts : PostProfile(e)
    \/ Reap

Spec == Init /\ [][Next]_vars

\* A request that was taken on is served, locks end, and the owner of an account goes on
\* signing in. The statements and calls on the way to the pointer may fail time and
\* again, but not every time.
Fairness ==
    /\ \A r \in Requests : WF_vars(Step(r))
    /\ \A a \in Accounts \ (Known \cup TooLong) :
           /\ WF_vars(LockEnds(a))
           /\ SF_vars(\E r \in Requests : Login(r, a) /\ request'[r].pc = "success")
           /\ SF_vars(\E r \in Requests : SucceedLogin(r) /\ Of(r) = a)
           /\ SF_vars(\E r \in Requests : CreateProfile(r) /\ Of(r) = a /\ request'[r].pc # "session")
           /\ SF_vars(\E r \in Requests : FindProfile(r) /\ Of(r) = a)
           /\ SF_vars(\E r \in Requests : AttachProfile(r) /\ Of(r) = a)

FairSpec == Spec /\ Fairness

-----------------------------------------------------------------------------
(* Properties *)

\* Every variable has its type, and every row that was issued its owner.
TypeOK ==
    /\ \A i \in Codes : (code[i].state = "unissued" <=> code[i].account = Nobody)
    /\ \A t \in Tokens : (token[t].state = "unissued" <=> token[t].account = Nobody)
    /\ account \in [Accounts ->
           [state : {"none", "ACTIVE", "SUSPENDED"}, username : Usernames \cup {NoName},
            verified : BOOLEAN, password : Nat, failed : Nat, locked : {"no", "yes", "over"},
            userId : Profiles \cup {0}, pending : BOOLEAN]]
    /\ code \in [Codes ->
           [state : {"unissued", "PENDING", "VERIFIED", "EXPIRED", "REVOKED", "purged"},
            account : Accounts \cup {Nobody}, type : {"none", "EMAIL_VERIFICATION", "PASSWORD_RESET"},
            age : {"fresh", "cooled", "expired"}, attempts : Nat, mailed : BOOLEAN, guesses : Nat,
            uses : Nat]]
    /\ token \in [Tokens ->
           [state : {"unissued", "live", "revoked", "purged"}, account : Accounts \cup {Nobody},
            family : Tokens \cup {0}, expired : BOOLEAN, password : Nat]]
    /\ profile \in [Profiles -> [state : {"unmade", "there", "removed"}, owner : Accounts \cup {Nobody},
                              email : Accounts \cup {Nobody}]]
    /\ request \in [Requests ->
           [pc : {"idle", "create", "dispatch", "active", "revokeCodes", "insertCode", "code", "attempt",
                  "consume", "failed", "success", "profile", "find", "attach", "session", "user",
                  "rotate", "reuse", "revokeAll", "revoke", "doom", "reset", "update"},
            account : Accounts \cup {Nobody}, username : Usernames \cup {NoName},
            type : {"none", "EMAIL_VERIFICATION", "PASSWORD_RESET", "change"}, code : Codes \cup {0},
            token : Tokens \cup {0}, profile : Profiles \cup {0}, read : Nat, proved : Nat,
            handoff : BOOLEAN, doomed : SUBSET (Tokens \cup Codes)]]

\* However refreshes, log-outs and revocations of it interleave, a family has one live
\* token at most (rotateRefreshToken mints no successor of a token that is gone).
OneLivePerFamily == \A t \in Tokens : Cardinality(LiveIn(t)) <= 1

\* A session that was ended (logout, reuse, reset, change, expiry past the reaper) is
\* never revived by a refresh that was under way.
EndedForGood ==
    [][\A f \in Tokens : (token[f].state # "unissued" /\ token[f].family = f /\ LiveIn(f) = {})
                             => LiveIn(f)' = {}]_vars

\* One code verifies or resets once, however many submissions of it are under way
\* (status: "PENDING" in consumeEmailVerification and consumePasswordReset).
CodeUsedOnce == \A i \in Codes : code[i].uses <= 1

\* Parallel guesses read one count, so the ceiling can be overrun, but only by the
\* requests in flight when it is reached (consumeCode, registerVerificationAttempt).
GuessesBounded == \A i \in Codes : code[i].guesses < CodeAttempts + Cardinality(Requests)

\* The same of logins: failures that overrun the ceiling in parallel still lock
\* the account, once the requests in flight are through (login, registerFailedLogin).
FailuresLock ==
    \A a \in Accounts :
        account[a].failed >= LoginAttempts + Cardinality(Requests) - 1 => account[a].locked # "no"

\* The user service answers 409 for an address that the profile of somebody else holds.
Taken(a) == \E p \in HoldersOf(a) : profile[p].owner # a

\* An account that was verified gets its profile in the end, though the user service
\* was away or its answer was lost when it was first asked (ensureProfile: "the gap is
\* left open and closed on the next attempt"). It waits for ever only if the profile
\* of somebody else holds its address again and again, or if the address is one that
\* the user service does not take.
HandoffCompletes ==
    \A a \in Accounts \ (Known \cup TooLong) :
        account[a].verified ~> (account[a].userId # 0 \/ Taken(a))

-----------------------------------------------------------------------------
(* What comments in the code say that does not hold of it *)

\* After a reset or a change of password, no session is left that was opened with an
\* older one ("cuts every existing session in one transaction"): but a login that had
\* compared the old password opens its session afterwards.
OnlyCurrentPassword ==
    \A t \in Tokens : token[t].state = "live" => token[t].password = account[token[t].account].password

\* "The invariant is at most one live code per account per type" (replaceVerification):
\* but two transactions that overlap revoke neither's new code.
OneLiveCode ==
    \A a \in Accounts, type \in {"EMAIL_VERIFICATION", "PASSWORD_RESET"} : Cardinality(Pending(a, type)) <= 1

\* "A 409 from the user service is treated as success ... The profile exists"
\* (ensureProfile): but the user service answers 409 for an address that somebody
\* else's profile holds too, and then there is none to find.
ConflictMeansProfile == \A r \in Requests : At(r, "find") => ProfilesOf(Of(r)) # {}
=============================================================================
