\* Batches by product, stock events with a message id, creates, removals and
\* re-pointed rows: the transactions implement the atomic store.
SPECIFICATION Spec
CONSTANTS
    Items = {i1, i2}
    Products = {p1, p2}
    Messages = {m1}
    Workers = {w1, w2}
    Requests = {"reserve", "reserveMany", "releaseMany", "update", "create", "remove"}
    MaxInt = 1
    MaxUnits = 1
    MaxMoves = 3
    NoRow = NoRow
    NoMessage = NoMessage
    NoProduct = NoProduct
INVARIANTS AppliedOnce OneRowPerProduct
PROPERTIES ImplementsStockLedger
SYMMETRY Interchangeable
VIEW LedgerAside
CHECK_DEADLOCK FALSE
