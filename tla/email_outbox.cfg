\* Two requests racing for one key, two workers on one row, everything failing: it
\* settles all the same.
SPECIFICATION FairSpec
CONSTANTS
    r1 = r1
    r2 = r2
    k1 = k1
    a = a
    b = b
    Messages = {m1}
    Cycles = {c1, c2}
    Callers = {r1, r2}
    Keys = {k1}
    Payloads = {a, b}
    Asks <- RaceForKey
    MaxAttempts = 2
    BatchSize = 1
    Concurrency = 1
    MaxRevivals = 1
    Faults = {"crash", "database", "lostReply", "slow"}
    NoKey = NoKey
    NoMessage = NoMessage
    Unlocked = Unlocked
    Former = Former
INVARIANTS TypeOK CopiesOnlyInDoubt SentWasAccepted OneHolder AnswerIsForPayload
PROPERTIES Settles
CHECK_DEADLOCK FALSE
