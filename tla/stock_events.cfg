\* Two messages and two faults of any kind.
SPECIFICATION FairSpec
INVARIANTS
    ConfirmedNotLost
PROPERTIES
    PublishNeverHangs
    ConfirmedIsHandled
CHECK_DEADLOCK FALSE
CONSTANTS
    m1 = m1
    m2 = m2
    Messages = {m1, m2}
    Unfit = {m2}
    Prefetch = 2
    MaxTroubles = 2
    Faults = {"connection", "channel", "connect", "nack", "wipe", "database", "refusal", "crash", "shutdown"}
