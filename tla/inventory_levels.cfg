\* Every single-row request racing another one on one item.
SPECIFICATION Spec
CONSTANTS
    Items = {i1, i2}
    Products = {p1}
    Messages = {}
    Workers = {w1, w2}
    Requests = {"reserve", "release", "fulfil", "sell", "receive", "acceptReturn", "adjust", "update", "create", "remove"}
    MaxInt = 2
    MaxUnits = 1
    MaxMoves = 3
    NoRow = NoRow
    NoMessage = NoMessage
    NoProduct = NoProduct
INVARIANTS TypeOK StockInvariant ReservedIsPromised LedgerReconciles
SYMMETRY Interchangeable
CHECK_DEADLOCK FALSE
