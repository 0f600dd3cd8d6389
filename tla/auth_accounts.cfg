\* A new account on its way to a profile, beside one that resets its password.
SPECIFICATION FairSpec
INVARIANTS
    CodeUsedOnce
    GuessesBounded
PROPERTIES
    HandoffCompletes
CHECK_DEADLOCK FALSE
CONSTANTS
    a = a
    b = b
    c = c
    n = n
    Nobody = Nobody
    NoName = NoName
    r1 = r1
    r2 = r2
    Accounts = {a, b, c}
    Usernames = {n}
    Requests = {r1, r2}
    Known = {b}
    TooLong = {c}
    Offered = {"register", "resend", "verify", "login", "postUser", "patchUser", "removeUser", "forgot", "reset", "reap"}
    CodeAttempts = 2
    LoginAttempts = 2
    MaxTokens = 0
    MaxCodes = 1
    MaxProfiles = 2
    MaxFailures = 0
    Faults = {"database", "mail", "users", "lostReply"}
