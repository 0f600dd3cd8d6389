\* Updates, checkouts, abandons, expiries and sweeps, releases going over HTTP or
\* published to the broker and consumed later, in any order; calls fail.
SPECIFICATION Spec
CONSTANTS
    Carts = {c1, c2}
    Orders = {o1}
    Products = {x1}
    Procs = {sweeper, p1, p2}
    Sweeper = sweeper
    Replicas = 2
    Units = 1
    MaxLine = 1
    MaxLines = 1
    MaxQueue = 2
    Transports = {"http", "amqp"}
    Ops = {"set", "checkout", "abandon"}
    Faults = {"unreachable"}
    Nobody = Nobody
    Gone = Gone
INVARIANTS CartMatchesHold NoForeignRelease
SYMMETRY Interchangeable
CONSTRAINT NothingLogged
CHECK_DEADLOCK FALSE
