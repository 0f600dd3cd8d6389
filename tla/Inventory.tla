------------------------------ MODULE Inventory ------------------------------
(***************************************************************************)
(* The inventory service over its Postgres database.                       *)
(*                                                                         *)
(* Every worker runs one request at a time. A stock change, a bulk change  *)
(* and a PATCH each run in one Serializable transaction: Begin* takes the  *)
(* snapshot the planner reads, Commit* writes what was planned from that   *)
(* snapshot, and a transaction whose rows another one wrote meanwhile is   *)
(* doomed and can only roll back (P2034). Create and delete run at the     *)
(* default isolation level, after checks made outside any transaction.     *)
(***************************************************************************)
EXTENDS StockRules, Sequences

CONSTANTS
    Items,          \* inventory item ids; one is drawn fresh for each create
    Products,       \* productId values
    Messages,       \* message ids of stock events
    Workers,        \* requests in flight, of all replicas
    Requests,       \* the kinds of request the clients make
    MaxUnits,       \* bound: units one request moves
    MaxMoves,       \* bound: ledger rows kept per item
    NoRow,          \* the id has no row
    NoMessage,      \* the request carries no idempotency key
    NoProduct       \* the request names no product

Kinds == ChangeKinds \cup {"update", "create", "remove"}

ASSUME InventoryAssumption ==
    /\ MaxUnits \in Nat
    /\ MaxMoves \in Nat
    /\ Requests \subseteq Kinds
    /\ NoMessage \notin Messages
    /\ NoProduct \notin Products

Row == [product : Products, quantity : Int, reserved : Int]

ASSUME NoRowAssumption == NoRow \notin Row

VARIABLES
    rows,           \* item id -> its row, or NoRow
    used,           \* ids already given to a row: a uuid is never drawn twice
    ledger,         \* item id -> its stock movements, oldest first
    audit,          \* item id -> the fields its audit trail mentions
    processed,      \* ids recorded in processed_messages
    job,            \* worker -> the request it is running
    doomed,         \* workers whose snapshot is stale
    applied,        \* ghost: message id -> how often its lines were applied
    promised        \* ghost: item id -> units reserved less units released or shipped

ghosts == <<applied, promised>>
vars == <<rows, used, ledger, audit, processed, job, doomed, applied, promised>>

\* A request: the units it moves per item, the rows it has read, its idempotency
\* key, and for PATCH and create the product it names and the fields it patches.
Request(kind, units, snap, key, product, patch) ==
    [kind |-> kind, units |-> units, snap |-> snap, key |-> key,
     product |-> product, patch |-> patch]

Only(i, x) == [j \in {i} |-> x]
Nothing == [j \in {} |-> 0]

Idle == Request("idle", Nothing, Nothing, NoMessage, NoProduct, {})

Live == {i \in Items : rows[i] # NoRow}

Init ==
    /\ rows = [i \in Items |-> NoRow]
    /\ used = {}
    /\ ledger = [i \in Items |-> <<>>]
    /\ audit = [i \in Items |-> {}]
    /\ processed = {}
    /\ job = [w \in Workers |-> Idle]
    /\ doomed = {}
    /\ applied = [m \in Messages |-> 0]
    /\ promised = [i \in Items |-> 0]

-----------------------------------------------------------------------------
(* Transactions *)

Opens(w, request) ==
    /\ request.kind \in Requests
    /\ job[w] = Idle
    /\ job' = [job EXCEPT ![w] = request]
    /\ UNCHANGED <<rows, used, ledger, audit, processed, doomed, ghosts>>

\* The other workers whose snapshot holds a row that this one writes.
Overlapping(w, written) ==
    {v \in Workers \ {w} : written \cap DOMAIN job[v].snap # {}}

\* A commit that leaves the snapshots it invalidates usable, unless their row is
\* gone (Read Committed).
ClosesReadCommitted(w, written) ==
    /\ job' = [job EXCEPT ![w] = Idle]
    /\ doomed' = (doomed \ {w}) \cup Overlapping(w, {i \in written : rows'[i] = NoRow})

\* A commit by w ends its request and dooms the snapshots it overtakes.
Closes(w, written) ==
    /\ job' = [job EXCEPT ![w] = Idle]
    /\ doomed' = (doomed \ {w}) \cup Overlapping(w, written)

Appended(i, movement) == Append(ledger[i], movement)

LedgerHasRoom(S) == \A i \in S : Len(ledger[i]) < MaxMoves

-----------------------------------------------------------------------------
(* reserve, release, fulfil, sell, receive, return, adjust *)

Signed(kind) == IF kind = "adjust" THEN (-MaxUnits .. MaxUnits) \ {0} ELSE 1 .. MaxUnits

BeginChange(w, kind, i, n) ==
    /\ kind \in SingleKinds
    /\ i \in Live
    /\ n \in Signed(kind)
    /\ Opens(w, Request(kind, Only(i, n), Only(i, rows[i]), NoMessage, NoProduct, {}))

(* reserveMany, releaseMany: rows addressed by product, all found or refused. *)
Addressed(S) == {i \in Live : rows[i].product \in S}

BeginBulk(w, kind, lines, key) ==
    /\ kind \in BulkKinds
    /\ key # NoMessage => kind = "releaseMany"
    /\ {rows[i].product : i \in Addressed(DOMAIN lines)} = DOMAIN lines
    /\ Opens(w, Request(kind, [i \in Addressed(DOMAIN lines) |-> lines[rows[i].product]],
                        [i \in Addressed(DOMAIN lines) |-> rows[i]], key, NoProduct, {}))

\* The id is recorded after the stock change instead, so a repeat is never refused.
ClaimsLate(key) == processed' = processed \cup ({key} \cap Messages)

\* The claim on the message id, taken inside the transaction.
Claims(key) ==
    /\ key \notin processed
    /\ processed' = processed \cup ({key} \cap Messages)

\* Ghost: what a change does to the units promised to carts and orders.
Promise(kind, n) ==
    CASE kind \in {"reserve", "reserveMany"} -> n
      [] kind \in {"release", "releaseMany", "fulfil"} -> -n
      [] OTHER -> 0

\* Every line was planned from the snapshot, and all are written or none.
CommitChange(w) ==
    LET units == job[w].units
        snap == job[w].snap
        kind == job[w].kind
        key == job[w].key
    IN  /\ kind \in ChangeKinds
        /\ w \notin doomed
        /\ LedgerHasRoom(DOMAIN snap)
        /\ \A i \in DOMAIN snap : Admits(kind, snap[i], units[i])
        /\ Claims(key)
        /\ rows' = [i \in Items |-> IF i \in DOMAIN snap THEN Planned(kind, snap[i], units[i])
                                                         ELSE rows[i]]
        /\ ledger' = [i \in Items |-> IF i \in DOMAIN snap
                                      THEN Appended(i, Movement(kind, snap[i], units[i]))
                                      ELSE ledger[i]]
        /\ applied' = [m \in Messages |-> IF m = key THEN applied[m] + 1 ELSE applied[m]]
        /\ promised' = [i \in Items |-> IF i \in DOMAIN snap
                                        THEN promised[i] + Promise(kind, units[i])
                                        ELSE promised[i]]
        /\ Closes(w, DOMAIN snap)
        /\ UNCHANGED <<used, audit>>

-----------------------------------------------------------------------------
(* PATCH: the row is diffed against the patch; only a difference is written. *)

BeginUpdate(w, i, patch, n, p) ==
    /\ i \in Live
    /\ patch # {}
    /\ "quantity" \in patch \/ n = 0
    /\ ("productId" \in patch) <=> (p # NoProduct)
    /\ Opens(w, Request("update", Only(i, n), Only(i, rows[i]), NoMessage, p, patch))

Patched(item, patch, n, p) ==
    [item EXCEPT !.quantity = IF "quantity" \in patch THEN n ELSE @,
                 !.product = IF "productId" \in patch THEN p ELSE @]

Differing(item, next) ==
    {f \in Fields : \/ f = "quantity" /\ item.quantity # next.quantity
                    \/ f = "productId" /\ item.product # next.product}

\* validate: a patched quantity must still cover what is promised.
validate(item, patch, next) == "quantity" \in patch => assertInvariants(next)

\* No unique index: only the service's own lookup guards a product.
ProductUnguarded(p, i) == TRUE

\* The unique index on productId.
ProductFree(p, i) == \A j \in Live \ {i} : rows[j].product # p

CommitUpdate(w) ==
    \E i \in DOMAIN job[w].snap :
    LET old == job[w].snap[i]
        new == Patched(old, job[w].patch, job[w].units[i], job[w].product)
        changes == Differing(old, new)
    IN  /\ job[w].kind = "update"
        /\ w \notin doomed
        /\ validate(old, job[w].patch, new)
        /\ changes # {}
        /\ FitsColumn(new)
        /\ ProductFree(new.product, i)
        /\ "quantity" \in changes => LedgerHasRoom({i})
        /\ rows' = [rows EXCEPT ![i] = Patched(@, job[w].patch, job[w].units[i], job[w].product)]
        /\ audit' = [audit EXCEPT ![i] = @ \cup changes]
        /\ ledger' = IF "quantity" \in changes
                     THEN [ledger EXCEPT ![i] =
                             Appended(i, Movement("adjust", old, new.quantity - old.quantity))]
                     ELSE ledger
        /\ Closes(w, {i})
        /\ UNCHANGED <<used, processed, ghosts>>

-----------------------------------------------------------------------------
(* create: two lookups, then an insert that the unique index has to settle. *)

BeginCreate(w, i, p, n) ==
    /\ i \in Items \ used
    /\ \A j \in Live : rows[j].product # p
    /\ Opens(w, Request("create", Only(i, n), Nothing, NoMessage, p, {}))

CommitCreate(w) ==
    \E i \in DOMAIN job[w].units :
    LET p == job[w].product
        n == job[w].units[i]
    IN  /\ job[w].kind = "create"
        /\ i \notin used
        /\ ProductFree(p, i)
        /\ MaxMoves > 0
        /\ rows' = [rows EXCEPT ![i] = [product |-> p, quantity |-> n, reserved |-> 0]]
        /\ used' = used \cup {i}
        /\ ledger' = [ledger EXCEPT ![i] =
                        IF n > 0 THEN <<[type |-> "INBOUND", changed |-> n, last |-> 0]>> ELSE <<>>]
        /\ Closes(w, {i})
        /\ UNCHANGED <<audit, processed, ghosts>>

-----------------------------------------------------------------------------
(* remove: the reserved count is read first, the row deleted by a later      *)
(* statement; ledger and audit rows go with it (onDelete: Cascade).          *)

BeginRemove(w, i) ==
    /\ i \in Live
    /\ rows[i].reserved = 0
    /\ Opens(w, Request("remove", Only(i, 0), Nothing, NoMessage, NoProduct, {}))

Delete(w) ==
    \E i \in DOMAIN job[w].units :
        /\ job[w].kind = "remove"
        /\ i \in Live
        /\ rows' = [rows EXCEPT ![i] = NoRow]
        /\ ledger' = [ledger EXCEPT ![i] = <<>>]
        /\ audit' = [audit EXCEPT ![i] = {}]
        /\ promised' = [promised EXCEPT ![i] = 0]
        /\ Closes(w, {i})
        /\ UNCHANGED <<used, processed, applied>>

(* Every other end of a request: a rule refuses it, the key is taken, the    *)
(* snapshot is stale, the database or the process fails. Nothing is written, *)
(* the claim included.                                                       *)
Rollback(w) ==
    /\ job[w] # Idle
    /\ Closes(w, {})
    /\ UNCHANGED <<rows, used, ledger, audit, processed, ghosts>>

-----------------------------------------------------------------------------
BulkLines == UNION {[S -> 1 .. MaxUnits] : S \in (SUBSET Products) \ {{}}}

Next ==
    \E w \in Workers :
        \/ \E kind \in SingleKinds, i \in Items :
               \E n \in Signed(kind) : BeginChange(w, kind, i, n)
        \/ \E kind \in BulkKinds, lines \in BulkLines, key \in Messages \cup {NoMessage} :
               BeginBulk(w, kind, lines, key)
        \/ CommitChange(w)
        \/ \E i \in Items, patch \in SUBSET Fields, n \in 0 .. MaxInt, p \in Products \cup {NoProduct} :
               BeginUpdate(w, i, patch, n, p)
        \/ CommitUpdate(w)
        \/ \E i \in Items, p \in Products, n \in 0 .. MaxInt : BeginCreate(w, i, p, n)
        \/ CommitCreate(w)
        \/ \E i \in Items : BeginRemove(w, i)
        \/ Delete(w)
        \/ Rollback(w)

Spec == Init /\ [][Next]_vars

-----------------------------------------------------------------------------
(* Properties *)

MovementRow == [type : MovementTypes, changed : Nat, last : Int]

\* A request addresses the items of units, and its snapshot is of those it reads.
JobOK(j) ==
    /\ j.kind \in Kinds \cup {"idle"}
    /\ DOMAIN j.units \subseteq Items
    /\ j.units \in [DOMAIN j.units -> Int]
    /\ DOMAIN j.snap \subseteq DOMAIN j.units
    /\ j.snap \in [DOMAIN j.snap -> Row]
    /\ j.key \in Messages \cup {NoMessage}
    /\ j.product \in Products \cup {NoProduct}
    /\ j.patch \subseteq Fields

\* Every variable has its type; job holds a snapshot only of rows it addresses.
TypeOK ==
    /\ rows \in [Items -> Row \cup {NoRow}]
    /\ used \subseteq Items
    /\ ledger \in [Items -> Seq(MovementRow)]
    /\ audit \in [Items -> SUBSET Fields]
    /\ processed \subseteq Messages
    /\ job = [w \in Workers |-> job[w]]
    /\ \A w \in Workers : JobOK(job[w])
    /\ doomed \subseteq Workers
    /\ applied \in [Messages -> Nat]
    /\ promised \in [Items -> Int]

\* No oversell: an item never has more units promised than it has on hand, and
\* neither count goes negative or outgrows its column, whatever requests race
\* (assertInvariants holds of every committed row, PATCH included).
StockInvariant ==
    \A i \in Live : /\ 0 <= rows[i].reserved
                    /\ rows[i].reserved <= rows[i].quantity
                    /\ rows[i].quantity <= MaxInt

\* No lost update: the reserved counter of a row is exactly what the accepted
\* reservations, releases and fulfilments add up to (the Serializable
\* transaction around read, plan and write).
ReservedIsPromised == \A i \in Live : rows[i].reserved = promised[i]

\* What the proofs need besides: the shape of a request in flight, and that a
\* transaction that is not doomed still sees the current rows.
ShapeOK(j) ==
    /\ j.kind \in ChangeKinds =>
           /\ DOMAIN j.snap = DOMAIN j.units
           /\ DOMAIN j.units # {}
           /\ \A i \in DOMAIN j.units : j.units[i] \in -MaxUnits .. MaxUnits
    /\ j.kind \in ChangeKinds \ {"adjust"} => \A i \in DOMAIN j.units : j.units[i] > 0
    /\ j.kind \in SingleKinds => \E i \in Items : DOMAIN j.units = {i}
    /\ j.kind \in {"update", "create"} => \A i \in DOMAIN j.units : j.units[i] \in 0 .. MaxInt
    /\ (j.kind = "create" \/ "productId" \in j.patch) => j.product \in Products
    /\ j.key # NoMessage => j.kind = "releaseMany"

JobShape == \A w \in Workers : ShapeOK(job[w])

SnapshotCurrent ==
    \A w \in Workers \ doomed : \A i \in DOMAIN job[w].snap : rows[i] = job[w].snap[i]

\* What a movement may do to the on-hand count, from its type and units.
Explains(movement, quantity) ==
    CASE movement.type \in {"INBOUND", "RETURN"} -> quantity = movement.last + movement.changed
      [] movement.type = "OUTBOUND" -> quantity = movement.last - movement.changed
      [] movement.type = "ADJUSTMENT" -> Abs(quantity - movement.last) = movement.changed
      [] OTHER -> quantity = movement.last

\* The movement history reconciles with on-hand: each row starts from the count
\* the row before it left, and the last one leaves the count of the item
\* (repository: every write of quantity also writes its movement).
LedgerReconciles ==
    \A i \in Live :
        LET n == Len(ledger[i]) IN
        /\ n = 0 => rows[i].quantity = 0
        /\ n > 0 => /\ ledger[i][1].last = 0
                    /\ Explains(ledger[i][n], rows[i].quantity)
        /\ \A k \in 1 .. n - 1 : Explains(ledger[i][k], ledger[i][k + 1].last)

\* A stock event changes stock at most once, and is recorded as processed
\* exactly when it did (the claim commits or rolls back with the change).
AppliedOnce == \A m \in Messages : applied[m] = IF m \in processed THEN 1 ELSE 0

\* One stock record per product, although create looks the product up before
\* its transaction and PATCH may re-point a row.
OneRowPerProduct == \A i, j \in Live : rows[i].product = rows[j].product => i = j

\* README: DELETE answers 409 while units are reserved. A deleted row had none.
RemovesOnlyUnreserved ==
    [][\A i \in Live : rows'[i] = NoRow => rows[i].reserved = 0]_vars

-----------------------------------------------------------------------------
(* The atomic store the transactions implement. *)

Abstract == INSTANCE StockLedger WITH
    Items <- Items, Products <- Products, Messages <- Messages, MaxUnits <- MaxUnits,
    MaxInt <- MaxInt, NoRow <- NoRow, NoMessage <- NoMessage,
    rows <- rows, processed <- processed

\* Serializable: however transactions interleave, each one that commits takes
\* effect on the current rows at once, all lines of a batch together.
ImplementsStockLedger == Abstract!Spec

=============================================================================
