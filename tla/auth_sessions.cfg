\* Logins, refreshes, log-outs, changes of password and the reaper on one account.
SPECIFICATION Spec
SYMMETRY Interchangeable
INVARIANTS
    OneLivePerFamily
    FailuresLock
PROPERTIES
    EndedForGood
VIEW PasswordsAside
CHECK_DEADLOCK FALSE
CONSTANTS
    a = a
    n = n
    Nobody = Nobody
    NoName = NoName
    r1 = r1
    r2 = r2
    Accounts = {a}
    Usernames = {n}
    Requests = {r1, r2}
    Known = {a}
    TooLong = {}
    Offered = {"login", "refresh", "logout", "logoutAll", "change", "suspend", "expire", "reap"}
    CodeAttempts = 1
    LoginAttempts = 2
    MaxTokens = 3
    MaxCodes = 0
    MaxProfiles = 0
    MaxFailures = 2
    Faults = {}
