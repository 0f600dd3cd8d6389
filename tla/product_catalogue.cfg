\* Creations, renamings and removals of two products, with every call and write failing.
SPECIFICATION Spec
SYMMETRY Interchangeable
VIEW ReasonsAside
INVARIANTS
    ListedHasStock
    OrphansExplained
    RefusalIsClean
PROPERTIES
    ReadsAreHonest
CHECK_DEADLOCK FALSE
CONSTANTS
    p1 = p1
    p2 = p2
    s1 = s1
    s2 = s2
    r1 = r1
    r2 = r2
    Products = {p1, p2}
    Skus = {s1, s2}
    Requests = {r1, r2}
    MaxUnits = 1
    Faults = {"unreachable", "lostReply", "late", "database", "crash"}
    NoProduct = NoProduct
    NoSku = NoSku
