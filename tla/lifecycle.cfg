\* Each service once, with two requests and its worker.
SPECIFICATION FairSpec
INVARIANTS
    PoolOutlivesWork
    CleanExitCutsNothing
PROPERTIES
    ShutdownEnds
CHECK_DEADLOCK FALSE
CONSTANTS
    r1 = r1
    r2 = r2
    Requests = {r1, r2}
    Services = {"auth", "email", "inventory", "product", "user", "gateway", "cart"}
