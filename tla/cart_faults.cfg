\* Replicas die, Redis commands fail, replies are lost and requests are slow.
SPECIFICATION Spec
CONSTANTS
    Carts = {c1}
    Orders = {o1}
    Products = {x1, x2}
    Procs = {sweeper, p1, p2}
    Sweeper = sweeper
    Replicas = 1
    Units = 1
    MaxLine = 1
    MaxLines = 1
    MaxQueue = 0
    Transports = {"http"}
    Ops = {"set", "checkout", "abandon"}
    Faults = {"unreachable", "lostReply", "redis", "crash", "slow", "grace"}
    Nobody = Nobody
    Gone = Gone
INVARIANTS SweeperFindsEveryCart OneWriterPerCart
SYMMETRY Interchangeable
CHECK_DEADLOCK FALSE
