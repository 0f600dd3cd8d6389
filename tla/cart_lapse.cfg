\* Sweeps and expiries of carts whose shopper may still be there, one request at a
\* time, with locks that lapse under holders still at work, replicas that die and
\* Redis commands that fail: dead carts drain all the same.
SPECIFICATION FairSpec
CONSTANTS
    Carts = {c1}
    Orders = {}
    Products = {x1}
    Procs = {sweeper, p1}
    Sweeper = sweeper
    Replicas = 1
    Units = 1
    MaxLine = 1
    MaxLines = 1
    MaxQueue = 0
    Transports = {"http"}
    Ops = {"set", "view", "abandon"}
    Faults = {"unreachable", "lostReply", "crash", "redis", "lapse"}
    Nobody = Nobody
    Gone = Gone
PROPERTIES DeadCartsDrain
CHECK_DEADLOCK FALSE
