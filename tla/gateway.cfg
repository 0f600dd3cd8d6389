\* Two requests of one client: two may go by in a window, one for credentials.
SPECIFICATION FairSpec
INVARIANTS
    RefusedIsUntouched
    EdgeMirrorsAuth
    CredentialBudget
PROPERTIES
    EveryRequestAnswered
CHECK_DEADLOCK FALSE
CONSTANTS
    None = None
    r1 = r1
    r2 = r2
    Requests = {r1, r2}
    Offered <- OfferedByOne
    RATE_LIMIT_MAX = 2
    AUTH_RATE_LIMIT_MAX = 1
    TRUST_CLIENT_ACTOR = FALSE
    Frail = {"auth"}
    MaxCrashes = 1
