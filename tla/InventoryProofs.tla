--------------------------- MODULE InventoryProofs ---------------------------
(***************************************************************************)
(* Proofs about Inventory, for any number of items, products, messages and *)
(* concurrent requests.                                                    *)
(***************************************************************************)
EXTENDS Inventory, TLAPS

\* The inductive core: types, the shape of requests, and that a transaction
\* which is not doomed has a current snapshot.
Base == TypeOK /\ JobShape /\ SnapshotCurrent

-----------------------------------------------------------------------------
(* Facts about the rules *)

\* A planned change keeps a row a row, keeps its product, and moves its reserved
\* count by what the change promises.
LEMMA PlannedRow ==
    ASSUME NEW kind \in ChangeKinds, NEW item \in Row, NEW n \in Int
    PROVE  /\ Planned(kind, item, n) \in Row
           /\ Planned(kind, item, n).product = item.product
           /\ Planned(kind, item, n).reserved = item.reserved + Promise(kind, n)
  <1>1. CASE kind \in {"reserve", "reserveMany"}
    <2>1. Planned(kind, item, n) = [item EXCEPT !.reserved = @ + n] /\ Promise(kind, n) = n
      BY <1>1 DEF Planned, Promise
    <2> QED BY <2>1 DEF Row
  <1>2. CASE kind \in {"release", "releaseMany"}
    <2>1. Planned(kind, item, n) = [item EXCEPT !.reserved = @ - n] /\ Promise(kind, n) = -n
      BY <1>2 DEF Planned, Promise
    <2> QED BY <2>1 DEF Row
  <1>3. CASE kind = "fulfil"
    <2>1. /\ Planned(kind, item, n) = [item EXCEPT !.quantity = @ - n, !.reserved = @ - n]
          /\ Promise(kind, n) = -n
      BY <1>3 DEF Planned, Promise
    <2> DEFINE shipped == [item EXCEPT !.quantity = @ - n]
    <2>2. /\ shipped \in Row
          /\ shipped.reserved = item.reserved
          /\ shipped.product = item.product
      BY DEF Row
    <2>3. Planned(kind, item, n) = [shipped EXCEPT !.reserved = @ - n]
      BY <2>1, <2>2
    <2> HIDE DEF shipped
    <2> QED BY <2>1, <2>2, <2>3 DEF Row
  <1>4. CASE kind = "sell"
    <2>1. Planned(kind, item, n) = [item EXCEPT !.quantity = @ - n] /\ Promise(kind, n) = 0
      BY <1>4 DEF Planned, Promise
    <2> QED BY <2>1 DEF Row
  <1>5. CASE kind \in {"receive", "acceptReturn", "adjust"}
    <2>1. Planned(kind, item, n) = [item EXCEPT !.quantity = @ + n] /\ Promise(kind, n) = 0
      BY <1>5 DEF Planned, Promise
    <2> QED BY <2>1 DEF Row
  <1> QED BY <1>1, <1>2, <1>3, <1>4, <1>5 DEF ChangeKinds, SingleKinds, BulkKinds

\* A movement is a well-formed ledger row.
LEMMA MovementIsRow ==
    ASSUME NEW kind, NEW item \in Row, NEW n \in Int
    PROVE  Movement(kind, item, n) \in MovementRow
  <1>1. MovementType(kind) \in MovementTypes
    BY DEF MovementType, MovementTypes
  <1>2. Abs(n) \in Nat
    BY DEF Abs
  <1>3. item.quantity \in Int
    BY DEF Row
  <1> QED BY <1>1, <1>2, <1>3 DEF Movement, MovementRow

\* A patched row is a row when the patch names a product.
LEMMA PatchedRow ==
    ASSUME NEW item \in Row, NEW patch, NEW n \in Int, NEW p,
           "productId" \in patch => p \in Products
    PROVE  /\ Patched(item, patch, n, p) \in Row
           /\ Patched(item, patch, n, p).reserved = item.reserved
           /\ Patched(item, patch, n, p).quantity = IF "quantity" \in patch THEN n ELSE item.quantity
           /\ Patched(item, patch, n, p).product = IF "productId" \in patch THEN p ELSE item.product
  BY DEF Row, Patched

-----------------------------------------------------------------------------
(* Requests in flight *)

\* A worker that runs nothing is well-formed and holds no snapshot.
LEMMA IdleOK == JobOK(Idle) /\ ShapeOK(Idle) /\ DOMAIN Idle.snap = {}
  BY InventoryAssumption
  DEF Idle, Request, Nothing, JobOK, ShapeOK, Kinds, ChangeKinds, SingleKinds, BulkKinds

\* Opening a request keeps the core when the request is well formed and reads
\* current rows.
LEMMA OpensBase ==
    ASSUME Base, NEW w \in Workers, NEW r, Opens(w, r), JobOK(r), ShapeOK(r),
           \A i \in DOMAIN r.snap : rows[i] = r.snap[i]
    PROVE  Base'
  <1>1. /\ job' = [job EXCEPT ![w] = r]
        /\ UNCHANGED <<rows, used, ledger, audit, processed, doomed, applied, promised>>
    BY DEF Opens, ghosts
  <1>2. job' = [v \in Workers |-> IF v = w THEN r ELSE job[v]]
    BY <1>1 DEF Base, TypeOK
  <1>3. \A v \in Workers : job'[v] = IF v = w THEN r ELSE job[v]
    BY <1>2
  <1>4. TypeOK'
    <2>1. job' = [v \in Workers |-> job'[v]]
      BY <1>2
    <2>2. \A v \in Workers : JobOK(job'[v])
      BY <1>3 DEF Base, TypeOK
    <2> QED BY <1>1, <2>1, <2>2 DEF Base, TypeOK, JobOK
  <1>5. JobShape'
    <2>1. \A v \in Workers : ShapeOK(job'[v])
      BY <1>3 DEF Base, JobShape
    <2> QED BY <2>1 DEF JobShape, ShapeOK
  <1>6. SnapshotCurrent'
    BY <1>1, <1>3 DEF Base, SnapshotCurrent
  <1> QED BY <1>4, <1>5, <1>6 DEF Base

\* Closing a request keeps the core when only the rows it announces are written.
LEMMA ClosesBase ==
    ASSUME Base, NEW w \in Workers, NEW S \in SUBSET Items, Closes(w, S),
           \A i \in Items \ S : rows'[i] = rows[i],
           rows' \in [Items -> Row \cup {NoRow}],
           used' \subseteq Items,
           ledger' \in [Items -> Seq(MovementRow)],
           audit' \in [Items -> SUBSET Fields],
           processed' \subseteq Messages,
           applied' \in [Messages -> Nat],
           promised' \in [Items -> Int]
    PROVE  Base'
  <1>1. /\ job' = [job EXCEPT ![w] = Idle]
        /\ doomed' = (doomed \ {w}) \cup Overlapping(w, S)
    BY DEF Closes
  <1>2. job' = [v \in Workers |-> IF v = w THEN Idle ELSE job[v]]
    BY <1>1 DEF Base, TypeOK
  <1>3. \A v \in Workers : job'[v] = IF v = w THEN Idle ELSE job[v]
    BY <1>2
  <1>4. TypeOK'
    <2>1. job' = [v \in Workers |-> job'[v]]
      BY <1>2
    <2>2. \A v \in Workers : JobOK(job'[v])
      BY <1>3, IdleOK DEF Base, TypeOK
    <2>3. doomed' \subseteq Workers
      BY <1>1 DEF Base, TypeOK, Overlapping
    <2> QED BY <2>1, <2>2, <2>3 DEF TypeOK, JobOK
  <1>5. JobShape'
    <2>1. \A v \in Workers : ShapeOK(job'[v])
      BY <1>3, IdleOK DEF Base, JobShape
    <2> QED BY <2>1 DEF JobShape, ShapeOK
  <1>6. SnapshotCurrent'
    <2> SUFFICES ASSUME NEW v \in Workers, v \notin doomed', NEW i \in DOMAIN job'[v].snap
                 PROVE  rows'[i] = job'[v].snap[i]
      BY DEF SnapshotCurrent
    <2>1. v # w
      BY <1>3, IdleOK
    <2>2. job'[v] = job[v] /\ v \notin doomed /\ i \notin S
      BY <1>1, <1>3, <2>1 DEF Overlapping
    <2>3. i \in Items
      BY <2>2 DEF Base, TypeOK, JobOK
    <2> QED BY <2>2, <2>3 DEF Base, SnapshotCurrent
  <1> QED BY <1>4, <1>5, <1>6 DEF Base

-----------------------------------------------------------------------------
(* The core is inductive: one lemma per action *)

\* Reading the row of a single-item change keeps the core.
LEMMA BeginChangeBase ==
    ASSUME Base, NEW w \in Workers, NEW kind \in SingleKinds, NEW i \in Items,
           NEW n \in Signed(kind), BeginChange(w, kind, i, n)
    PROVE  Base'
  <1> DEFINE r == Request(kind, Only(i, n), Only(i, rows[i]), NoMessage, NoProduct, {})
  <1>1. Opens(w, r) /\ rows[i] \in Row
    BY DEF BeginChange, Live, Base, TypeOK
  <1>2. n \in Int /\ n \in -MaxUnits .. MaxUnits /\ (kind # "adjust" => n > 0)
    BY InventoryAssumption DEF Signed
  <1>3. JobOK(r)
    BY <1>1, <1>2 DEF JobOK, Request, Only, Kinds, ChangeKinds
  <1>4. ShapeOK(r)
    BY <1>2 DEF ShapeOK, Request, Only, SingleKinds
  <1>5. \A j \in DOMAIN r.snap : rows[j] = r.snap[j]
    BY DEF Request, Only
  <1> HIDE DEF r
  <1> QED BY <1>1, <1>3, <1>4, <1>5, OpensBase

\* Reading the rows of a bulk change keeps the core.
LEMMA BeginBulkBase ==
    ASSUME Base, NEW w \in Workers, NEW kind \in BulkKinds, NEW lines \in BulkLines,
           NEW key \in Messages \cup {NoMessage}, BeginBulk(w, kind, lines, key)
    PROVE  Base'
  <1> DEFINE S == Addressed(DOMAIN lines)
             units == [i \in S |-> lines[rows[i].product]]
             snap == [i \in S |-> rows[i]]
             r == Request(kind, units, snap, key, NoProduct, {})
  <1>1. Opens(w, r) /\ {rows[i].product : i \in S} = DOMAIN lines
    BY DEF BeginBulk
  <1>2. PICK P \in (SUBSET Products) \ {{}} : lines \in [P -> 1 .. MaxUnits]
    BY DEF BulkLines
  <1>3. S \subseteq Items /\ \A i \in S : rows[i] \in Row /\ rows[i].product \in P
    BY <1>2 DEF Addressed, Live, Base, TypeOK
  <1>4. S # {}
    BY <1>1, <1>2
  <1>5. units \in [S -> Int] /\ \A i \in S : units[i] \in -MaxUnits .. MaxUnits /\ units[i] > 0
    BY <1>2, <1>3, InventoryAssumption
  <1>6. snap \in [S -> Row] /\ \A i \in S : rows[i] = snap[i]
    BY <1>3
  <1>7. DOMAIN units = S /\ DOMAIN snap = S
    OBVIOUS
  <1>8. key # NoMessage => kind = "releaseMany"
    BY DEF BeginBulk
  <1> HIDE DEF S, units, snap
  <1>9. JobOK(r)
    BY <1>3, <1>5, <1>6, <1>7 DEF JobOK, Request, Kinds, ChangeKinds
  <1>10. ShapeOK(r)
    BY <1>4, <1>5, <1>7, <1>8 DEF ShapeOK, Request, SingleKinds, BulkKinds
  <1>11. \A j \in DOMAIN r.snap : rows[j] = r.snap[j]
    BY <1>6, <1>7 DEF Request
  <1> HIDE DEF r
  <1> QED BY <1>1, <1>9, <1>10, <1>11, OpensBase

\* Reading the row of a PATCH keeps the core.
LEMMA BeginUpdateBase ==
    ASSUME Base, NEW w \in Workers, NEW i \in Items, NEW patch \in SUBSET Fields,
           NEW n \in 0 .. MaxInt, NEW p \in Products \cup {NoProduct},
           BeginUpdate(w, i, patch, n, p)
    PROVE  Base'
  <1> DEFINE r == Request("update", Only(i, n), Only(i, rows[i]), NoMessage, p, patch)
  <1>1. Opens(w, r) /\ rows[i] \in Row /\ ("productId" \in patch => p \in Products)
    BY DEF BeginUpdate, Live, Base, TypeOK
  <1>2. n \in Int
    BY MaxIntAssumption
  <1>3. JobOK(r)
    BY <1>1, <1>2 DEF JobOK, Request, Only, Kinds
  <1>4. ShapeOK(r)
    BY <1>1 DEF ShapeOK, Request, Only, ChangeKinds, SingleKinds, BulkKinds
  <1>5. \A j \in DOMAIN r.snap : rows[j] = r.snap[j]
    BY DEF Request, Only
  <1> HIDE DEF r
  <1> QED BY <1>1, <1>3, <1>4, <1>5, OpensBase

\* The lookups before a create keep the core.
LEMMA BeginCreateBase ==
    ASSUME Base, NEW w \in Workers, NEW i \in Items, NEW p \in Products, NEW n \in 0 .. MaxInt,
           BeginCreate(w, i, p, n)
    PROVE  Base'
  <1> DEFINE r == Request("create", Only(i, n), Nothing, NoMessage, p, {})
  <1>1. Opens(w, r)
    BY DEF BeginCreate
  <1>2. n \in Int
    BY MaxIntAssumption
  <1>3. JobOK(r)
    BY <1>2 DEF JobOK, Request, Only, Nothing, Kinds
  <1>4. ShapeOK(r)
    BY DEF ShapeOK, Request, Only, ChangeKinds, SingleKinds, BulkKinds
  <1>5. \A j \in DOMAIN r.snap : rows[j] = r.snap[j]
    BY DEF Request, Nothing
  <1> HIDE DEF r
  <1> QED BY <1>1, <1>3, <1>4, <1>5, OpensBase

\* The check before a delete keeps the core.
LEMMA BeginRemoveBase ==
    ASSUME Base, NEW w \in Workers, NEW i \in Items, BeginRemove(w, i)
    PROVE  Base'
  <1> DEFINE r == Request("remove", Only(i, 0), Nothing, NoMessage, NoProduct, {})
  <1>1. Opens(w, r)
    BY DEF BeginRemove
  <1>2. JobOK(r)
    BY DEF JobOK, Request, Only, Nothing, Kinds
  <1>3. ShapeOK(r)
    BY DEF ShapeOK, Request, Only, ChangeKinds, SingleKinds, BulkKinds
  <1>4. \A j \in DOMAIN r.snap : rows[j] = r.snap[j]
    BY DEF Request, Nothing
  <1> HIDE DEF r
  <1> QED BY <1>1, <1>2, <1>3, <1>4, OpensBase

\* Committing a single or bulk change keeps the core.
LEMMA CommitChangeBase ==
    ASSUME Base, NEW w \in Workers, CommitChange(w)
    PROVE  Base'
  <1> DEFINE S == DOMAIN job[w].snap
             units == job[w].units
             snap == job[w].snap
             kind == job[w].kind
             key == job[w].key
  <1>1. kind \in ChangeKinds /\ S \subseteq Items /\ snap \in [S -> Row] /\ units \in [S -> Int]
    BY DEF CommitChange, Base, TypeOK, JobOK, JobShape, ShapeOK
  <1>2. rows' = [i \in Items |-> IF i \in S THEN Planned(kind, snap[i], units[i]) ELSE rows[i]]
    BY DEF CommitChange
  <1>3. ledger' = [i \in Items |-> IF i \in S THEN Append(ledger[i], Movement(kind, snap[i], units[i]))
                                             ELSE ledger[i]]
    BY DEF CommitChange, Appended
  <1>4. promised' = [i \in Items |-> IF i \in S THEN promised[i] + Promise(kind, units[i])
                                               ELSE promised[i]]
    BY DEF CommitChange
  <1>5. applied' = [m \in Messages |-> IF m = key THEN applied[m] + 1 ELSE applied[m]]
    BY DEF CommitChange
  <1>6. Closes(w, S) /\ UNCHANGED <<used, audit>> /\ processed' \subseteq Messages
    BY DEF CommitChange, Claims, Base, TypeOK
  <1>7. rows' \in [Items -> Row \cup {NoRow}] /\ \A i \in Items \ S : rows'[i] = rows[i]
    <2>1. \A i \in S : Planned(kind, snap[i], units[i]) \in Row
      <3> HIDE DEF S, units, snap, kind
      <3> QED BY <1>1, PlannedRow
    <2> QED BY <1>2, <2>1 DEF Base, TypeOK
  <1>8. ledger' \in [Items -> Seq(MovementRow)]
    <2>1. \A i \in S : Movement(kind, snap[i], units[i]) \in MovementRow
      <3> HIDE DEF S, units, snap, kind
      <3> QED BY <1>1, MovementIsRow
    <2> QED BY <1>3, <2>1 DEF Base, TypeOK
  <1>9. promised' \in [Items -> Int]
    <2>1. \A i \in S : Promise(kind, units[i]) \in Int
      BY <1>1 DEF Promise
    <2> QED BY <1>4, <2>1 DEF Base, TypeOK
  <1>10. applied' \in [Messages -> Nat]
    BY <1>5 DEF Base, TypeOK
  <1>11. used' \subseteq Items /\ audit' \in [Items -> SUBSET Fields]
    BY <1>6 DEF Base, TypeOK
  <1> HIDE DEF S, units, snap, kind, key
  <1> QED BY <1>1, <1>6, <1>7, <1>8, <1>9, <1>10, <1>11, ClosesBase

\* Committing a PATCH keeps the core.
LEMMA CommitUpdateBase ==
    ASSUME Base, NEW w \in Workers, CommitUpdate(w)
    PROVE  Base'
  <1> DEFINE j == job[w]
             new(i) == Patched(j.snap[i], j.patch, j.units[i], j.product)
             changes(i) == Differing(j.snap[i], new(i))
  <1>1. PICK i \in DOMAIN j.snap :
          /\ j.kind = "update" /\ w \notin doomed
          /\ rows' = [rows EXCEPT ![i] = Patched(@, j.patch, j.units[i], j.product)]
          /\ audit' = [audit EXCEPT ![i] = @ \cup changes(i)]
          /\ ledger' = IF "quantity" \in changes(i)
                       THEN [ledger EXCEPT ![i] = Append(ledger[i],
                               Movement("adjust", j.snap[i], new(i).quantity - j.snap[i].quantity))]
                       ELSE ledger
          /\ Closes(w, {i})
          /\ UNCHANGED <<used, processed, applied, promised>>
    BY DEF CommitUpdate, Appended, ghosts
  <1>2. /\ i \in Items /\ rows[i] = j.snap[i] /\ rows[i] \in Row
        /\ j.units[i] \in Int /\ ("productId" \in j.patch => j.product \in Products)
    BY <1>1 DEF Base, TypeOK, JobOK, JobShape, ShapeOK, SnapshotCurrent
  <1>3. new(i) \in Row /\ rows' = [rows EXCEPT ![i] = new(i)]
    BY <1>1, <1>2, PatchedRow
  <1>4. changes(i) \subseteq Fields
    BY DEF Differing
  <1>5. Movement("adjust", j.snap[i], new(i).quantity - j.snap[i].quantity) \in MovementRow
    <2>1. new(i).quantity - j.snap[i].quantity \in Int
      BY <1>2, <1>3 DEF Row
    <2> HIDE DEF new, j
    <2> QED BY <1>2, <2>1, MovementIsRow
  <1> HIDE DEF new, j, changes
  <1>6. rows' \in [Items -> Row \cup {NoRow}] /\ \A k \in Items \ {i} : rows'[k] = rows[k]
    BY <1>2, <1>3 DEF Base, TypeOK
  <1>7. ledger' \in [Items -> Seq(MovementRow)]
    BY <1>1, <1>2, <1>5 DEF Base, TypeOK
  <1>8. audit' \in [Items -> SUBSET Fields]
    BY <1>1, <1>2, <1>4 DEF Base, TypeOK
  <1>9. /\ used' \subseteq Items /\ processed' \subseteq Messages
        /\ applied' \in [Messages -> Nat] /\ promised' \in [Items -> Int]
    BY <1>1 DEF Base, TypeOK
  <1> QED BY <1>1, <1>2, <1>6, <1>7, <1>8, <1>9, ClosesBase

\* Inserting a row keeps the core.
LEMMA CommitCreateBase ==
    ASSUME Base, NEW w \in Workers, CommitCreate(w)
    PROVE  Base'
  <1> DEFINE j == job[w]
             row(i) == [product |-> j.product, quantity |-> j.units[i], reserved |-> 0]
             first(i) == IF j.units[i] > 0
                         THEN <<[type |-> "INBOUND", changed |-> j.units[i], last |-> 0]>> ELSE <<>>
  <1>1. PICK i \in DOMAIN j.units :
          /\ j.kind = "create"
          /\ rows' = [rows EXCEPT ![i] = row(i)]
          /\ used' = used \cup {i}
          /\ ledger' = [ledger EXCEPT ![i] = first(i)]
          /\ Closes(w, {i})
          /\ UNCHANGED <<audit, processed, applied, promised>>
    BY DEF CommitCreate, ghosts
  <1>2. i \in Items /\ j.units[i] \in Int /\ j.product \in Products
    BY <1>1 DEF Base, TypeOK, JobOK, JobShape, ShapeOK
  <1>3. row(i) \in Row
    BY <1>2 DEF Row
  <1>4. first(i) \in Seq(MovementRow)
    <2>1. CASE j.units[i] > 0
      <3>1. [type |-> "INBOUND", changed |-> j.units[i], last |-> 0] \in MovementRow
        BY <1>2, <2>1 DEF MovementRow, MovementTypes
      <3> QED BY <2>1, <3>1
    <2>2. CASE ~(j.units[i] > 0)
      BY <2>2
    <2> QED BY <2>1, <2>2
  <1> HIDE DEF row, first, j
  <1>5. rows' \in [Items -> Row \cup {NoRow}] /\ \A k \in Items \ {i} : rows'[k] = rows[k]
    BY <1>1, <1>2, <1>3 DEF Base, TypeOK
  <1>6. ledger' \in [Items -> Seq(MovementRow)]
    BY <1>1, <1>2, <1>4 DEF Base, TypeOK
  <1>7. /\ used' \subseteq Items /\ processed' \subseteq Messages
        /\ audit' \in [Items -> SUBSET Fields]
        /\ applied' \in [Messages -> Nat] /\ promised' \in [Items -> Int]
    BY <1>1, <1>2 DEF Base, TypeOK
  <1> QED BY <1>1, <1>2, <1>5, <1>6, <1>7, ClosesBase

\* Deleting a row keeps the core.
LEMMA DeleteBase ==
    ASSUME Base, NEW w \in Workers, Delete(w)
    PROVE  Base'
  <1>1. PICK i \in DOMAIN job[w].units :
          /\ rows' = [rows EXCEPT ![i] = NoRow]
          /\ ledger' = [ledger EXCEPT ![i] = <<>>]
          /\ audit' = [audit EXCEPT ![i] = {}]
          /\ promised' = [promised EXCEPT ![i] = 0]
          /\ Closes(w, {i})
          /\ UNCHANGED <<used, processed, applied>>
    BY DEF Delete
  <1>2. i \in Items
    BY DEF Base, TypeOK, JobOK
  <1>3. rows' \in [Items -> Row \cup {NoRow}] /\ \A k \in Items \ {i} : rows'[k] = rows[k]
    BY <1>1, <1>2 DEF Base, TypeOK
  <1>4. <<>> \in Seq(MovementRow)
    OBVIOUS
  <1>5. /\ used' \subseteq Items /\ processed' \subseteq Messages
        /\ ledger' \in [Items -> Seq(MovementRow)]
        /\ audit' \in [Items -> SUBSET Fields]
        /\ applied' \in [Messages -> Nat] /\ promised' \in [Items -> Int]
    BY <1>1, <1>2, <1>4 DEF Base, TypeOK
  <1> QED BY <1>1, <1>2, <1>3, <1>5, ClosesBase

\* A request that fails keeps the core.
LEMMA RollbackBase ==
    ASSUME Base, NEW w \in Workers, Rollback(w)
    PROVE  Base'
  <1>1. Closes(w, {}) /\ UNCHANGED <<rows, used, ledger, audit, processed, applied, promised>>
    BY DEF Rollback, ghosts
  <1>2. /\ rows' \in [Items -> Row \cup {NoRow}]
        /\ used' \subseteq Items /\ processed' \subseteq Messages
        /\ ledger' \in [Items -> Seq(MovementRow)]
        /\ audit' \in [Items -> SUBSET Fields]
        /\ applied' \in [Messages -> Nat] /\ promised' \in [Items -> Int]
    BY <1>1 DEF Base, TypeOK
  <1> QED BY <1>1, <1>2, ClosesBase

\* The empty database satisfies the core.
LEMMA InitBase == Init => Base
  <1> SUFFICES ASSUME Init PROVE Base
    OBVIOUS
  <1>1. /\ \A w \in Workers : job[w] = Idle
        /\ job = [w \in Workers |-> Idle]
    BY DEF Init
  <1>2. TypeOK
    BY <1>1, IdleOK DEF Init, TypeOK
  <1>3. JobShape /\ SnapshotCurrent
    BY <1>1, IdleOK DEF JobShape, SnapshotCurrent
  <1> QED BY <1>2, <1>3 DEF Base

\* A stuttering step keeps the core.
LEMMA StutterBase == Base /\ UNCHANGED vars => Base'
  BY DEF Base, TypeOK, JobShape, SnapshotCurrent, JobOK, ShapeOK, vars

\* Every step keeps the core: one lemma per action.
LEMMA NextBase == Base /\ [Next]_vars => Base'
  <1> SUFFICES ASSUME Base, [Next]_vars PROVE Base'
    OBVIOUS
  <1>1. CASE UNCHANGED vars
    BY <1>1, StutterBase
  <1>2. CASE Next
    BY <1>2, BeginChangeBase, BeginBulkBase, CommitChangeBase, BeginUpdateBase, CommitUpdateBase,
       BeginCreateBase, CommitCreateBase, BeginRemoveBase, DeleteBase, RollbackBase DEF Next
  <1> QED BY <1>1, <1>2

\* Every variable keeps its type, and every transaction that can still commit
\* reads the current rows, in every behaviour of the service.
THEOREM BaseInvariant == Spec => []Base
  BY InitBase, NextBase, PTL DEF Spec

\* Rows, ledger, audit trail and requests in flight keep their types.
THEOREM TypeCorrect == Spec => []TypeOK
  <1>1. Base => TypeOK
    BY DEF Base
  <1> QED BY <1>1, BaseInvariant, PTL

-----------------------------------------------------------------------------
(* Safety: stock levels *)

store == <<rows, used, ledger, audit, processed, applied, promised>>

\* Only the four commits write to the database.
LEMMA Steps ==
    ASSUME [Next]_vars
    PROVE  \/ UNCHANGED store
           \/ \E w \in Workers : CommitChange(w)
           \/ \E w \in Workers : CommitUpdate(w)
           \/ \E w \in Workers : CommitCreate(w)
           \/ \E w \in Workers : Delete(w)
  <1>1. \A w, request : Opens(w, request) => UNCHANGED store
    BY DEF Opens, ghosts, store
  <1>2. \A w, kind, i, n : BeginChange(w, kind, i, n) => UNCHANGED store
    BY <1>1 DEF BeginChange
  <1>3. \A w, kind, lines, key : BeginBulk(w, kind, lines, key) => UNCHANGED store
    BY <1>1 DEF BeginBulk
  <1>4. \A w, i, patch, n, p : BeginUpdate(w, i, patch, n, p) => UNCHANGED store
    BY <1>1 DEF BeginUpdate
  <1>5. \A w, i, p, n : BeginCreate(w, i, p, n) => UNCHANGED store
    BY <1>1 DEF BeginCreate
  <1>6. \A w, i : BeginRemove(w, i) => UNCHANGED store
    BY <1>1 DEF BeginRemove
  <1>7. \A w : Rollback(w) => UNCHANGED store
    BY DEF Rollback, ghosts, store
  <1>8. UNCHANGED vars => UNCHANGED store
    BY DEF vars, store
  <1> QED BY <1>2, <1>3, <1>4, <1>5, <1>6, <1>7, <1>8 DEF Next

\* An accepted change leaves levels within bounds.
LEMMA AdmittedLevels ==
    ASSUME NEW kind, NEW item, NEW n, Admits(kind, item, n)
    PROVE  LET next == Planned(kind, item, n) IN
           /\ 0 <= next.reserved
           /\ next.reserved <= next.quantity
           /\ next.quantity <= MaxInt
  <1> DEFINE next == Planned(kind, item, n)
  <1>1. assertInvariants(next) /\ FitsColumn(next)
    BY DEF Admits
  <1> HIDE DEF next
  <1>2. 0 <= next.reserved /\ next.reserved <= next.quantity /\ next.quantity <= MaxInt
    BY <1>1 DEF assertInvariants, FitsColumn
  <1> QED BY <1>2 DEF next

\* Whatever requests run and however they interleave, no committed row has more
\* units promised than on hand, and no count is negative or out of range.
THEOREM NoOversell == Spec => []StockInvariant
  <1>1. Init => StockInvariant
    BY DEF Init, StockInvariant, Live
  <1>2. ASSUME StockInvariant, Base, Base', [Next]_vars
        PROVE  StockInvariant'
    <2> USE <1>2
    <2>1. CASE UNCHANGED rows
      BY <2>1 DEF StockInvariant, Live
    <2>2. ASSUME NEW w \in Workers, CommitChange(w) PROVE StockInvariant'
      <3> DEFINE S == DOMAIN job[w].snap
                 next(i) == Planned(job[w].kind, job[w].snap[i], job[w].units[i])
      <3>1. /\ \A i \in S : Admits(job[w].kind, job[w].snap[i], job[w].units[i])
            /\ rows' = [i \in Items |-> IF i \in S THEN next(i) ELSE rows[i]]
        BY <2>2 DEF CommitChange
      <3>2. \A i \in S : /\ 0 <= next(i).reserved
                         /\ next(i).reserved <= next(i).quantity
                         /\ next(i).quantity <= MaxInt
        BY <3>1, AdmittedLevels
      <3> HIDE DEF S, next
      <3>3. \A i \in Items : rows'[i] = IF i \in S THEN next(i) ELSE rows[i]
        BY <3>1
      <3> QED BY <3>2, <3>3 DEF StockInvariant, Live
    <2>3. ASSUME NEW w \in Workers, CommitUpdate(w) PROVE StockInvariant'
      <3> DEFINE j == job[w]
                 new(i) == Patched(j.snap[i], j.patch, j.units[i], j.product)
      <3>1. PICK i \in DOMAIN j.snap :
              /\ j.kind = "update" /\ w \notin doomed
              /\ validate(j.snap[i], j.patch, new(i)) /\ FitsColumn(new(i))
              /\ rows' = [rows EXCEPT ![i] = Patched(@, j.patch, j.units[i], j.product)]
        BY <2>3 DEF CommitUpdate
      <3>2. /\ i \in Items /\ rows[i] = j.snap[i] /\ rows[i] \in Row
            /\ j.units[i] \in Int /\ ("productId" \in j.patch => j.product \in Products)
        BY <3>1 DEF Base, TypeOK, JobOK, JobShape, ShapeOK, SnapshotCurrent
      <3>3. /\ rows' = [rows EXCEPT ![i] = new(i)]
            /\ new(i).reserved = rows[i].reserved
            /\ "quantity" \notin j.patch => new(i).quantity = rows[i].quantity
        <4>1. /\ new(i).reserved = rows[i].reserved
              /\ new(i).quantity = IF "quantity" \in j.patch THEN j.units[i] ELSE rows[i].quantity
          <5> HIDE DEF j
          <5>1. new(i) = Patched(rows[i], j.patch, j.units[i], j.product)
            BY <3>2
          <5> HIDE DEF new
          <5> QED BY <3>2, <5>1, PatchedRow
        <4> QED BY <3>1, <3>2, <4>1
      <3>4. rows[i] # NoRow
        BY <3>2, NoRowAssumption
      <3>5. 0 <= rows[i].reserved /\ rows[i].reserved <= rows[i].quantity
        BY <3>2, <3>4 DEF StockInvariant, Live
      <3>6. /\ 0 <= new(i).reserved
            /\ new(i).reserved <= new(i).quantity
            /\ new(i).quantity <= MaxInt
        <4> HIDE DEF new
        <4> QED BY <3>1, <3>3, <3>5 DEF validate, assertInvariants, FitsColumn
      <3>7. \A k \in Items : rows'[k] = IF k = i THEN new(i) ELSE rows[k]
        BY <3>2, <3>3 DEF Base, TypeOK
      <3> HIDE DEF new
      <3> QED BY <3>6, <3>7 DEF StockInvariant, Live
    <2>4. ASSUME NEW w \in Workers, CommitCreate(w) PROVE StockInvariant'
      <3>1. PICK i \in DOMAIN job[w].units :
              /\ job[w].kind = "create"
              /\ rows' = [rows EXCEPT ![i] =
                            [product |-> job[w].product, quantity |-> job[w].units[i], reserved |-> 0]]
        BY <2>4 DEF CommitCreate
      <3>2. i \in Items /\ job[w].units[i] \in 0 .. MaxInt
        BY <3>1 DEF Base, TypeOK, JobOK, JobShape, ShapeOK
      <3>3. \A k \in Items : rows'[k] = IF k = i
              THEN [product |-> job[w].product, quantity |-> job[w].units[i], reserved |-> 0]
              ELSE rows[k]
        BY <3>1, <3>2 DEF Base, TypeOK
      <3> QED BY <3>2, <3>3, MaxIntAssumption DEF StockInvariant, Live
    <2>5. ASSUME NEW w \in Workers, Delete(w) PROVE StockInvariant'
      <3>1. PICK i \in DOMAIN job[w].units : rows' = [rows EXCEPT ![i] = NoRow]
        BY <2>5 DEF Delete
      <3>2. \A k \in Items : rows'[k] = IF k = i THEN NoRow ELSE rows[k]
        BY <3>1 DEF Base, TypeOK
      <3> QED BY <3>2 DEF StockInvariant, Live
    <2> QED BY <2>1, <2>2, <2>3, <2>4, <2>5, Steps DEF store
  <1> QED BY <1>1, <1>2, BaseInvariant, PTL DEF Spec

-----------------------------------------------------------------------------
(* Safety: lost updates *)

\* ReservedIsPromised is not inductive by itself: a create starts a fresh row with
\* nothing reserved, so the ids that have no row must have nothing promised.
Promises ==
    /\ ReservedIsPromised
    /\ \A i \in Items : rows[i] = NoRow => promised[i] = 0
    /\ Live \subseteq used

\* Promises is an invariant: a change adds to both counters alike, and only an id
\* never used before gets a row.
LEMMA PromisesKept == Spec => []Promises
  <1>1. Init => Promises
    BY DEF Init, Promises, ReservedIsPromised, Live
  <1>2. ASSUME Promises, Base, Base', [Next]_vars
        PROVE  Promises'
    <2> USE <1>2
    <2>1. CASE UNCHANGED <<rows, promised, used>>
      BY <2>1 DEF Promises, ReservedIsPromised, Live
    <2>2. ASSUME NEW w \in Workers, CommitChange(w) PROVE Promises'
      <3> DEFINE S == DOMAIN job[w].snap
                 next(i) == Planned(job[w].kind, job[w].snap[i], job[w].units[i])
                 moved(i) == Promise(job[w].kind, job[w].units[i])
      <3>1. /\ rows' = [i \in Items |-> IF i \in S THEN next(i) ELSE rows[i]]
            /\ promised' = [i \in Items |-> IF i \in S THEN promised[i] + moved(i) ELSE promised[i]]
            /\ used' = used
        BY <2>2 DEF CommitChange
      <3>2. \A i \in S : i \in Items /\ rows[i] = job[w].snap[i] /\ rows[i] \in Row
        BY <2>2 DEF CommitChange, Base, TypeOK, JobOK, SnapshotCurrent
      <3>3. \A i \in S : next(i) \in Row /\ next(i).reserved = rows[i].reserved + moved(i)
        <4>1. job[w].kind \in ChangeKinds /\ \A i \in S : job[w].units[i] \in Int
          BY <2>2 DEF CommitChange, Base, TypeOK, JobOK
        <4> QED BY <3>2, <4>1, PlannedRow
      <3> HIDE DEF S, next, moved
      <3>4. /\ \A i \in Items : rows'[i] = IF i \in S THEN next(i) ELSE rows[i]
            /\ \A i \in Items : promised'[i] = IF i \in S THEN promised[i] + moved(i) ELSE promised[i]
        BY <3>1
      <3>5. \A i \in S : rows[i] # NoRow /\ next(i) # NoRow
        BY <3>2, <3>3, NoRowAssumption
      <3> QED BY <3>1, <3>2, <3>3, <3>4, <3>5 DEF Promises, ReservedIsPromised, Live
    <2>3. ASSUME NEW w \in Workers, CommitUpdate(w) PROVE Promises'
      <3> DEFINE j == job[w]
                 new(i) == Patched(rows[i], j.patch, j.units[i], j.product)
      <3>1. PICK i \in DOMAIN j.snap :
              /\ w \notin doomed
              /\ rows' = [rows EXCEPT ![i] = Patched(@, j.patch, j.units[i], j.product)]
              /\ UNCHANGED <<used, promised>>
        BY <2>3 DEF CommitUpdate, ghosts
      <3>2. /\ i \in Items /\ rows[i] \in Row
            /\ j.units[i] \in Int /\ ("productId" \in j.patch => j.product \in Products)
        BY <3>1 DEF Base, TypeOK, JobOK, JobShape, ShapeOK, SnapshotCurrent
      <3>3. new(i) \in Row /\ new(i).reserved = rows[i].reserved
        <4> HIDE DEF j
        <4>1. new(i) = Patched(rows[i], j.patch, j.units[i], j.product)
          OBVIOUS
        <4>2. /\ Patched(rows[i], j.patch, j.units[i], j.product) \in Row
              /\ Patched(rows[i], j.patch, j.units[i], j.product).reserved = rows[i].reserved
          BY <3>2, PatchedRow, SMTT(60)
        <4> HIDE DEF new
        <4> QED BY <4>1, <4>2
      <3>4. \A k \in Items : rows'[k] = IF k = i THEN new(i) ELSE rows[k]
        BY <3>1, <3>2 DEF Base, TypeOK
      <3> HIDE DEF new
      <3>5. rows[i] # NoRow /\ new(i) # NoRow
        BY <3>2, <3>3, NoRowAssumption
      <3> QED BY <3>1, <3>2, <3>3, <3>4, <3>5 DEF Promises, ReservedIsPromised, Live
    <2>4. ASSUME NEW w \in Workers, CommitCreate(w) PROVE Promises'
      <3> DEFINE row(i) == [product |-> job[w].product, quantity |-> job[w].units[i], reserved |-> 0]
      <3>1. PICK i \in DOMAIN job[w].units :
              /\ i \notin used /\ used' = used \cup {i}
              /\ rows' = [rows EXCEPT ![i] = row(i)]
              /\ UNCHANGED promised
        BY <2>4 DEF CommitCreate, ghosts
      <3>2. i \in Items /\ rows[i] = NoRow
        BY <3>1 DEF Base, TypeOK, JobOK, Promises, Live
      <3>3. \A k \in Items : rows'[k] = IF k = i THEN row(i) ELSE rows[k]
        BY <3>1 DEF Base, TypeOK
      <3>4. row(i).reserved = 0
        OBVIOUS
      <3> HIDE DEF row
      <3>5. promised[i] = 0 /\ promised' = promised
        BY <3>1, <3>2 DEF Promises
      <3>6. \A k \in Items : rows'[k] # NoRow => rows'[k].reserved = promised'[k] /\ k \in used'
        BY <3>1, <3>3, <3>4, <3>5 DEF Promises, ReservedIsPromised, Live
      <3>7. \A k \in Items : rows'[k] = NoRow => promised'[k] = 0
        BY <3>2, <3>3, <3>5 DEF Promises
      <3> QED BY <3>6, <3>7 DEF Promises, ReservedIsPromised, Live
    <2>5. ASSUME NEW w \in Workers, Delete(w) PROVE Promises'
      <3>1. PICK i \in DOMAIN job[w].units :
              /\ rows' = [rows EXCEPT ![i] = NoRow]
              /\ promised' = [promised EXCEPT ![i] = 0]
              /\ used' = used
        BY <2>5 DEF Delete
      <3>2. \A k \in Items : /\ rows'[k] = IF k = i THEN NoRow ELSE rows[k]
                             /\ promised'[k] = IF k = i THEN 0 ELSE promised[k]
        BY <3>1 DEF Base, TypeOK
      <3> QED BY <3>1, <3>2 DEF Promises, ReservedIsPromised, Live
    <2> QED BY <2>1, <2>2, <2>3, <2>4, <2>5, Steps DEF store
  <1> QED BY <1>1, <1>2, BaseInvariant, PTL DEF Spec

\* However reservations, releases and fulfilments race, none is lost: the reserved
\* counter of a row is the sum of what was accepted on it.
THEOREM NoLostUpdate == Spec => []ReservedIsPromised
  <1>1. Promises => ReservedIsPromised
    BY DEF Promises
  <1> QED BY <1>1, PromisesKept, PTL

-----------------------------------------------------------------------------
(* Safety: one row per product *)

\* Writing one row whose product no other row has keeps products distinct.
LEMMA RowWritten ==
    ASSUME OneRowPerProduct, NEW i \in Items, NEW row,
           ProductFree(row.product, i),
           \A k \in Items : rows'[k] = IF k = i THEN row ELSE rows[k]
    PROVE  OneRowPerProduct'
  BY DEF OneRowPerProduct, ProductFree, Live

\* However creates and PATCHes race their lookups, no product has two stock rows.
THEOREM ProductsDistinct == Spec => []OneRowPerProduct
  <1>1. Init => OneRowPerProduct
    BY DEF Init, OneRowPerProduct, Live
  <1>2. ASSUME OneRowPerProduct, Base, [Next]_vars
        PROVE  OneRowPerProduct'
    <2> USE <1>2
    <2>1. CASE UNCHANGED rows
      BY <2>1 DEF OneRowPerProduct, Live
    <2>2. ASSUME NEW w \in Workers, CommitChange(w) PROVE OneRowPerProduct'
      <3> DEFINE S == DOMAIN job[w].snap
                 next(i) == Planned(job[w].kind, job[w].snap[i], job[w].units[i])
      <3>1. rows' = [i \in Items |-> IF i \in S THEN next(i) ELSE rows[i]]
        BY <2>2 DEF CommitChange
      <3>2. \A i \in S : i \in Items /\ rows[i] = job[w].snap[i] /\ rows[i] \in Row
        BY <2>2 DEF CommitChange, Base, TypeOK, JobOK, SnapshotCurrent
      <3>3. \A i \in S : next(i).product = rows[i].product
        <4>1. job[w].kind \in ChangeKinds /\ \A i \in S : job[w].units[i] \in Int
          BY <2>2 DEF CommitChange, Base, TypeOK, JobOK
        <4> QED BY <3>2, <4>1, PlannedRow
      <3> HIDE DEF S, next
      <3>4. \A i \in Items : rows'[i] = IF i \in S THEN next(i) ELSE rows[i]
        BY <3>1
      <3>5. \A i \in Items : rows'[i] # NoRow =>
                rows[i] # NoRow /\ rows'[i].product = rows[i].product
        BY <3>2, <3>3, <3>4, NoRowAssumption
      <3> QED BY <3>5 DEF OneRowPerProduct, Live
    <2>3. ASSUME NEW w \in Workers, CommitUpdate(w) PROVE OneRowPerProduct'
      <3> DEFINE j == job[w]
                 new(i) == Patched(j.snap[i], j.patch, j.units[i], j.product)
      <3>1. PICK i \in DOMAIN j.snap :
              /\ w \notin doomed
              /\ ProductFree(new(i).product, i)
              /\ rows' = [rows EXCEPT ![i] = Patched(@, j.patch, j.units[i], j.product)]
        BY <2>3 DEF CommitUpdate
      <3>2. i \in Items /\ rows[i] = j.snap[i]
        BY <3>1 DEF Base, TypeOK, JobOK, SnapshotCurrent
      <3>3. \A k \in Items : rows'[k] = IF k = i THEN new(i) ELSE rows[k]
        BY <3>1, <3>2 DEF Base, TypeOK
      <3> HIDE DEF new
      <3> QED BY <3>1, <3>2, <3>3, RowWritten
    <2>4. ASSUME NEW w \in Workers, CommitCreate(w) PROVE OneRowPerProduct'
      <3> DEFINE row(i) == [product |-> job[w].product, quantity |-> job[w].units[i], reserved |-> 0]
      <3>1. PICK i \in DOMAIN job[w].units :
              /\ ProductFree(job[w].product, i)
              /\ rows' = [rows EXCEPT ![i] = row(i)]
        BY <2>4 DEF CommitCreate
      <3>2. i \in Items /\ \A k \in Items : rows'[k] = IF k = i THEN row(i) ELSE rows[k]
        BY <3>1 DEF Base, TypeOK, JobOK
      <3>3. row(i).product = job[w].product
        OBVIOUS
      <3> HIDE DEF row
      <3> QED BY <3>1, <3>2, <3>3, RowWritten
    <2>5. ASSUME NEW w \in Workers, Delete(w) PROVE OneRowPerProduct'
      <3>1. PICK i \in DOMAIN job[w].units : rows' = [rows EXCEPT ![i] = NoRow]
        BY <2>5 DEF Delete
      <3>2. \A k \in Items : rows'[k] = IF k = i THEN NoRow ELSE rows[k]
        BY <3>1 DEF Base, TypeOK
      <3> QED BY <3>2 DEF OneRowPerProduct, Live
    <2> QED BY <2>1, <2>2, <2>3, <2>4, <2>5, Steps DEF store
  <1> QED BY <1>1, <1>2, BaseInvariant, PTL DEF Spec

-----------------------------------------------------------------------------
(* Safety: stock events *)

\* A stock event changes stock at most once, and its id is recorded exactly when
\* it did, whatever redeliveries and concurrent consumers there are.
THEOREM EventAppliedOnce == Spec => []AppliedOnce
  <1>1. Init => AppliedOnce
    BY DEF Init, AppliedOnce
  <1>2. ASSUME AppliedOnce, Base, [Next]_vars
        PROVE  AppliedOnce'
    <2> USE <1>2
    <2>1. CASE UNCHANGED <<applied, processed>>
      BY <2>1 DEF AppliedOnce
    <2>2. ASSUME NEW w \in Workers, CommitChange(w) PROVE AppliedOnce'
      <3> DEFINE key == job[w].key
      <3>1. /\ key \notin processed
            /\ processed' = processed \cup ({key} \cap Messages)
            /\ applied' = [m \in Messages |-> IF m = key THEN applied[m] + 1 ELSE applied[m]]
        BY <2>2 DEF CommitChange, Claims
      <3> QED BY <3>1 DEF AppliedOnce
    <2>3. ASSUME NEW w \in Workers, CommitUpdate(w) \/ CommitCreate(w) \/ Delete(w)
          PROVE  AppliedOnce'
      <3>1. CASE CommitUpdate(w)
        <4>1. UNCHANGED <<processed, applied>>
          BY <3>1 DEF CommitUpdate, ghosts
        <4> QED BY <4>1, <2>1
      <3>2. CASE CommitCreate(w)
        <4>1. UNCHANGED <<processed, applied>>
          BY <3>2 DEF CommitCreate, ghosts
        <4> QED BY <4>1, <2>1
      <3>3. CASE Delete(w)
        <4>1. UNCHANGED <<processed, applied>>
          BY <3>3 DEF Delete
        <4> QED BY <4>1, <2>1
      <3> QED BY <2>3, <3>1, <3>2, <3>3
    <2> QED BY <2>1, <2>2, <2>3, Steps DEF store
  <1> QED BY <1>1, <1>2, BaseInvariant, PTL DEF Spec

-----------------------------------------------------------------------------
(* Safety: the movement history *)

\* What LedgerReconciles says of one item: its history h accounts for the count q.
Accounts(h, q) ==
    /\ Len(h) = 0 => q = 0
    /\ Len(h) > 0 => h[1].last = 0 /\ Explains(h[Len(h)], q)
    /\ \A k \in 1 .. Len(h) - 1 : Explains(h[k], h[k + 1].last)

\* A movement that starts from the count so far and explains the next one extends
\* a history that accounts.
LEMMA MovementAccounts ==
    ASSUME NEW h \in Seq(MovementRow), NEW q, Accounts(h, q),
           NEW m \in MovementRow, m.last = q, NEW r, Explains(m, r)
    PROVE  Accounts(Append(h, m), r)
  <1> DEFINE g == Append(h, m)
             n == Len(h)
  <1>1. n \in Nat /\ Len(g) = n + 1 /\ g[n + 1] = m /\ \A k \in 1 .. n : g[k] = h[k]
    OBVIOUS
  <1> HIDE DEF g
  <1>2. g[1].last = 0
    <2>1. CASE n = 0
      BY <1>1, <2>1 DEF Accounts
    <2>2. CASE n > 0
      <3>1. g[1] = h[1] /\ h[1].last = 0
        BY <1>1, <2>2 DEF Accounts
      <3> QED BY <3>1
    <2> QED BY <1>1, <2>1, <2>2
  <1>3. ASSUME NEW k \in 1 .. n PROVE Explains(g[k], g[k + 1].last)
    <2>1. CASE k = n
      <3>1. g[k] = h[n] /\ g[k + 1] = m /\ Explains(h[n], q)
        BY <1>1, <1>3, <2>1 DEF Accounts
      <3> QED BY <3>1
    <2>2. CASE k # n
      <3>1. k \in 1 .. n - 1 /\ k + 1 \in 1 .. n
        BY <1>1, <1>3, <2>2
      <3>2. g[k] = h[k] /\ g[k + 1] = h[k + 1] /\ Explains(h[k], h[k + 1].last)
        BY <1>1, <3>1, <1>3 DEF Accounts
      <3> QED BY <3>2
    <2> QED BY <2>1, <2>2
  <1>4. Accounts(g, r)
    BY <1>1, <1>2, <1>3 DEF Accounts
  <1> QED BY <1>4 DEF g

\* The movement of a change explains the count that the change leaves. The units
\* of everything but an adjustment are positive; an adjustment records their size.
LEMMA ChangeExplained ==
    ASSUME NEW kind \in ChangeKinds, NEW item \in Row, NEW n \in Int,
           kind # "adjust" => n > 0
    PROVE  /\ Movement(kind, item, n).last = item.quantity
           /\ Explains(Movement(kind, item, n), Planned(kind, item, n).quantity)
  <1> DEFINE m == Movement(kind, item, n)
             r == Planned(kind, item, n).quantity
  <1> SUFFICES m.last = item.quantity /\ Explains(m, r)
    OBVIOUS
  <1>1. m.type = MovementType(kind) /\ m.changed = Abs(n) /\ m.last = item.quantity
    BY DEF Movement
  <1>2. item.quantity \in Int
    BY DEF Row
  <1>3. CASE kind \in {"reserve", "reserveMany"}
    <2>1. r = item.quantity
      BY <1>3 DEF Planned, Row
    <2>2. m.type = "RESERVATION"
      BY <1>1, <1>3 DEF MovementType
    <2> HIDE DEF m, r
    <2> QED BY <1>1, <2>1, <2>2 DEF Explains
  <1>4. CASE kind \in {"release", "releaseMany"}
    <2>1. r = item.quantity
      BY <1>4 DEF Planned, Row
    <2>2. m.type = "RELEASE"
      BY <1>1, <1>4 DEF MovementType
    <2> HIDE DEF m, r
    <2> QED BY <1>1, <2>1, <2>2 DEF Explains
  <1>5. CASE kind \in {"fulfil", "sell"}
    <2>1. r = item.quantity - n
      BY <1>5 DEF Planned, Row
    <2>2. m.type = "OUTBOUND" /\ m.changed = n
      BY <1>1, <1>5 DEF MovementType, Abs
    <2> HIDE DEF m, r
    <2> QED BY <1>1, <1>2, <2>1, <2>2 DEF Explains
  <1>6. CASE kind \in {"receive", "acceptReturn"}
    <2>1. r = item.quantity + n
      BY <1>6 DEF Planned, Row
    <2>2. m.type \in {"INBOUND", "RETURN"} /\ m.changed = n
      BY <1>1, <1>6 DEF MovementType, Abs
    <2> HIDE DEF m, r
    <2> QED BY <1>1, <1>2, <2>1, <2>2 DEF Explains
  <1>7. CASE kind = "adjust"
    <2>1. r = item.quantity + n
      BY <1>7 DEF Planned, Row
    <2>2. m.type = "ADJUSTMENT" /\ m.changed = Abs(n)
      BY <1>1, <1>7 DEF MovementType
    <2>3. Abs(r - item.quantity) = Abs(n)
      BY <1>2, <2>1
    <2> HIDE DEF m, r
    <2> QED BY <1>1, <2>1, <2>2, <2>3 DEF Explains
  <1> QED BY <1>1, <1>3, <1>4, <1>5, <1>6, <1>7 DEF ChangeKinds, SingleKinds, BulkKinds

\* However changes and PATCHes race, the movements of an item add up to what it
\* has on hand: no write of quantity goes without its movement, and no movement
\* records a count that somebody else's write had overtaken.
THEOREM HistoryAccounts == Spec => []LedgerReconciles
  <1> DEFINE Inv == \A i \in Live : Accounts(ledger[i], rows[i].quantity)
  <1>1. Init => Inv
    BY DEF Init, Live
  <1>2. ASSUME Inv, Base, [Next]_vars
        PROVE  Inv'
    <2> USE <1>2
    <2> SUFFICES ASSUME NEW k \in Items, rows'[k] # NoRow
                 PROVE  Accounts(ledger'[k], rows'[k].quantity)
      BY DEF Live
    <2>0. rows[k] # NoRow => Accounts(ledger[k], rows[k].quantity)
      BY DEF Live
    <2> HIDE DEF Inv
    <2>1. CASE rows'[k] = rows[k] /\ ledger'[k] = ledger[k]
      BY <2>0, <2>1
    <2>2. ASSUME NEW w \in Workers, CommitChange(w) PROVE Accounts(ledger'[k], rows'[k].quantity)
      <3> DEFINE S == DOMAIN job[w].snap
                 next(i) == Planned(job[w].kind, job[w].snap[i], job[w].units[i])
                 moved(i) == Movement(job[w].kind, job[w].snap[i], job[w].units[i])
      <3>1. /\ rows' = [i \in Items |-> IF i \in S THEN next(i) ELSE rows[i]]
            /\ ledger' = [i \in Items |-> IF i \in S THEN Append(ledger[i], moved(i)) ELSE ledger[i]]
            /\ w \notin doomed /\ job[w].kind \in ChangeKinds
        BY <2>2 DEF CommitChange, Appended
      <3>2. CASE k \notin S
        BY <3>1, <3>2, <2>1
      <3>3. CASE k \in S
        <4>1. /\ rows[k] = job[w].snap[k] /\ rows[k] \in Row
              /\ job[w].units[k] \in Int /\ (job[w].kind # "adjust" => job[w].units[k] > 0)
          BY <3>1, <3>3 DEF Base, TypeOK, JobOK, JobShape, ShapeOK, SnapshotCurrent
        <4>2. /\ moved(k).last = rows[k].quantity
              /\ Explains(moved(k), next(k).quantity)
              /\ moved(k) \in MovementRow
          BY <3>1, <4>1, ChangeExplained, MovementIsRow
        <4>3. ledger'[k] = Append(ledger[k], moved(k)) /\ rows'[k] = next(k)
          BY <3>1, <3>3
        <4>4. ledger[k] \in Seq(MovementRow) /\ Accounts(ledger[k], rows[k].quantity)
          BY <2>0, <4>1, NoRowAssumption DEF Base, TypeOK
        <4> HIDE DEF moved, next
        <4> QED BY <4>2, <4>3, <4>4, MovementAccounts
      <3> QED BY <3>2, <3>3
    <2>3. ASSUME NEW w \in Workers, CommitUpdate(w) PROVE Accounts(ledger'[k], rows'[k].quantity)
      <3> DEFINE j == job[w]
                 new(i) == Patched(j.snap[i], j.patch, j.units[i], j.product)
                 moved(i) == Movement("adjust", j.snap[i], new(i).quantity - j.snap[i].quantity)
      <3>1. PICK i \in DOMAIN j.snap :
              /\ j.kind = "update" /\ w \notin doomed
              /\ rows' = [rows EXCEPT ![i] = Patched(@, j.patch, j.units[i], j.product)]
              /\ ledger' = IF "quantity" \in Differing(j.snap[i], new(i))
                           THEN [ledger EXCEPT ![i] = Append(ledger[i], moved(i))] ELSE ledger
        BY <2>3 DEF CommitUpdate, Appended
      <3>2. /\ i \in Items /\ rows[i] = j.snap[i] /\ rows[i] \in Row
            /\ j.units[i] \in Int /\ ("productId" \in j.patch => j.product \in Products)
        BY <3>1 DEF Base, TypeOK, JobOK, JobShape, ShapeOK, SnapshotCurrent
      <3>3. CASE k # i
        BY <3>1, <3>2, <3>3, <2>1
      <3>4. CASE k = i
        <4>1. rows'[k] = new(k) /\ new(k) \in Row
          <5>1. rows'[k] = new(k)
            BY <3>1, <3>2, <3>4 DEF Base, TypeOK
          <5>2. new(k) \in Row
            <6> HIDE DEF j
            <6> QED BY <3>2, <3>4, PatchedRow
          <5> QED BY <5>1, <5>2
        <4>2. rows[k].quantity \in Int /\ new(k).quantity \in Int
          <5> HIDE DEF new
          <5> QED BY <3>2, <3>4, <4>1 DEF Row
        <4>3. ledger[k] \in Seq(MovementRow) /\ Accounts(ledger[k], rows[k].quantity)
          BY <2>0, <3>2, <3>4, NoRowAssumption DEF Base, TypeOK
        <4>4. CASE "quantity" \in Differing(j.snap[i], new(i))
          <5> DEFINE d == new(k).quantity - rows[k].quantity
          <5>1. ledger'[k] = Append(ledger[k], Movement("adjust", rows[k], d))
            BY <3>1, <3>2, <3>4, <4>4 DEF Base, TypeOK
          <5>2. Movement("adjust", rows[k], d) \in MovementRow
            BY <3>2, <3>4, <4>2, MovementIsRow
          <5>3. /\ Movement("adjust", rows[k], d).last = rows[k].quantity
                /\ Explains(Movement("adjust", rows[k], d), new(k).quantity)
            BY <4>2 DEF Movement, MovementType, Explains
          <5> HIDE DEF new, d
          <5> QED BY <4>1, <4>3, <5>1, <5>2, <5>3, MovementAccounts
        <4>5. CASE "quantity" \notin Differing(j.snap[i], new(i))
          <5>1. new(k).quantity = rows[k].quantity /\ ledger'[k] = ledger[k]
            <6> HIDE DEF new
            <6> QED BY <3>1, <3>2, <3>4, <4>5 DEF Differing, Fields
          <5> HIDE DEF new
          <5> QED BY <4>1, <4>3, <5>1
        <4> QED BY <4>4, <4>5
      <3> QED BY <3>3, <3>4
    <2>4. ASSUME NEW w \in Workers, CommitCreate(w) PROVE Accounts(ledger'[k], rows'[k].quantity)
      <3> DEFINE n(i) == job[w].units[i]
                 row(i) == [product |-> job[w].product, quantity |-> n(i), reserved |-> 0]
      <3>1. PICK i \in DOMAIN job[w].units :
              /\ job[w].kind = "create"
              /\ rows' = [rows EXCEPT ![i] = row(i)]
              /\ ledger' = [ledger EXCEPT ![i] =
                              IF n(i) > 0 THEN <<[type |-> "INBOUND", changed |-> n(i), last |-> 0]>>
                                          ELSE <<>>]
        BY <2>4 DEF CommitCreate
      <3>2. i \in Items /\ n(i) \in 0 .. MaxInt
        BY <3>1 DEF Base, TypeOK, JobOK, JobShape, ShapeOK
      <3>3. CASE k # i
        BY <3>1, <3>2, <3>3, <2>1
      <3>4. CASE k = i
        <4>1. rows'[k].quantity = n(k)
          BY <3>1, <3>2, <3>4 DEF Base, TypeOK
        <4> DEFINE m == [type |-> "INBOUND", changed |-> n(k), last |-> 0]
        <4>2. ledger'[k] = IF n(k) > 0 THEN <<m>> ELSE <<>>
          BY <3>1, <3>2, <3>4 DEF Base, TypeOK
        <4>3. CASE n(k) > 0
          <5>1. m.last = 0 /\ Explains(m, n(k))
            BY <3>2, <3>4, MaxIntAssumption DEF Explains
          <5>2. Len(<<m>>) = 1 /\ <<m>>[1] = m
            OBVIOUS
          <5> HIDE DEF m, n
          <5>3. Accounts(<<m>>, n(k))
            BY <5>1, <5>2 DEF Accounts
          <5> QED BY <4>1, <4>2, <4>3, <5>3
        <4>4. CASE ~(n(k) > 0)
          <5>1. n(k) = 0
            BY <3>2, <3>4, <4>4, MaxIntAssumption
          <5> HIDE DEF m, n
          <5>2. Accounts(<<>>, 0)
            BY DEF Accounts
          <5> QED BY <4>1, <4>2, <4>4, <5>1, <5>2
        <4> QED BY <4>3, <4>4
      <3> QED BY <3>3, <3>4
    <2>5. ASSUME NEW w \in Workers, Delete(w) PROVE Accounts(ledger'[k], rows'[k].quantity)
      <3>1. PICK i \in DOMAIN job[w].units :
              /\ rows' = [rows EXCEPT ![i] = NoRow]
              /\ ledger' = [ledger EXCEPT ![i] = <<>>]
        BY <2>5 DEF Delete
      <3>2. k # i
        BY <3>1 DEF Base, TypeOK
      <3> QED BY <3>1, <3>2, <2>1
    <2>6. CASE UNCHANGED store
      BY <2>6, <2>1 DEF store
    <2> QED BY <2>2, <2>3, <2>4, <2>5, <2>6, Steps
  <1>3. Inv => LedgerReconciles
    BY DEF Accounts, LedgerReconciles
  <1> QED BY <1>1, <1>2, <1>3, BaseInvariant, PTL DEF Spec

-----------------------------------------------------------------------------
(* Refinement: the transactions implement the atomic store *)

\* The abstract store judges and applies a change by the same rules.
LEMMA SameRules ==
    ASSUME NEW kind, NEW item, NEW n
    PROVE  /\ Abstract!Admits(kind, item, n) <=> Admits(kind, item, n)
           /\ Abstract!Planned(kind, item, n) = Planned(kind, item, n)
  BY DEF Abstract!Admits, Admits, Abstract!Allowed, Allowed, Abstract!availableStock, availableStock,
         Abstract!Planned, Planned, Abstract!assertInvariants, assertInvariants,
         Abstract!FitsColumn, FitsColumn

\* Rows that are distinct by product are so in the abstract store.
LEMMA SameDistinct == OneRowPerProduct' => Abstract!Distinct(rows')
  BY DEF OneRowPerProduct, Live, Abstract!Distinct

\* What the refinement rests on: every step starts and ends in a state in which
\* the theorems above hold. An id with no row was never reserved on.
Coherent == Base /\ StockInvariant /\ OneRowPerProduct /\ Promises

\* A commit takes effect on the rows as they are, not as they were read.
LEMMA ChangeImplements ==
    ASSUME Coherent, NEW w \in Workers, CommitChange(w)
    PROVE  Abstract!AbstractNext
  <1> DEFINE S == DOMAIN job[w].snap
             units == job[w].units
             snap == job[w].snap
             kind == job[w].kind
             key == job[w].key
  <1>1. /\ kind \in ChangeKinds
        /\ DOMAIN units = S /\ S # {} /\ S \subseteq Items
        /\ \A i \in S : units[i] \in -MaxUnits .. MaxUnits
        /\ units = [i \in S |-> units[i]]
        /\ kind \in SingleKinds => \E i \in Items : S = {i}
        /\ key \in Messages \cup {NoMessage} /\ (key # NoMessage => kind = "releaseMany")
    BY DEF CommitChange, Coherent, Base, TypeOK, JobOK, JobShape, ShapeOK
  <1>2. /\ w \notin doomed
        /\ \A i \in S : Admits(kind, snap[i], units[i])
        /\ key \notin processed /\ processed' = processed \cup ({key} \cap Messages)
        /\ rows' = [i \in Items |-> IF i \in S THEN Planned(kind, snap[i], units[i]) ELSE rows[i]]
    BY DEF CommitChange, Claims
  <1>3. \A i \in S : rows[i] = snap[i] /\ rows[i] \in Row
    BY <1>2 DEF Coherent, Base, TypeOK, JobOK, SnapshotCurrent
  <1> HIDE DEF S, units, snap, kind, key
  <1>4. units \in Abstract!UnitVectors
    <2>1. units \in [S -> -MaxUnits .. MaxUnits]
      BY <1>1
    <2> QED BY <1>1, <2>1 DEF Abstract!UnitVectors
  <1>5. \A i \in S : i \in Abstract!Stocked /\ Abstract!Admits(kind, rows[i], units[i])
    BY <1>1, <1>2, <1>3, NoRowAssumption, SameRules DEF Abstract!Stocked
  <1>6. rows' = [i \in Items |-> IF i \in DOMAIN units
                                 THEN Abstract!Planned(kind, rows[i], units[i]) ELSE rows[i]]
    BY <1>1, <1>2, <1>3, SameRules
  <1>7. Abstract!Change(kind, units, key)
    BY <1>1, <1>2, <1>5, <1>6 DEF Abstract!Change, Abstract!SingleKinds, SingleKinds
  <1>8. kind \in Abstract!ChangeKinds
    BY <1>1 DEF Abstract!ChangeKinds, Abstract!SingleKinds, Abstract!BulkKinds,
                ChangeKinds, SingleKinds, BulkKinds
  <1> QED BY <1>1, <1>4, <1>7, <1>8 DEF Abstract!AbstractNext

\* A PATCH is one edit of the row as it is, and never leaves less on hand than is
\* reserved.
LEMMA UpdateImplements ==
    ASSUME Coherent, Coherent', NEW w \in Workers, CommitUpdate(w)
    PROVE  Abstract!AbstractNext
  <1> DEFINE j == job[w]
             new(i) == Patched(rows[i], j.patch, j.units[i], j.product)
  <1>1. PICK i \in DOMAIN j.snap :
          /\ j.kind = "update" /\ w \notin doomed
          /\ rows' = [rows EXCEPT ![i] = Patched(@, j.patch, j.units[i], j.product)]
          /\ processed' = processed
    BY DEF CommitUpdate
  <1>2. /\ i \in Items /\ rows[i] \in Row
        /\ j.units[i] \in 0 .. MaxInt /\ ("productId" \in j.patch => j.product \in Products)
    BY <1>1 DEF Coherent, Base, TypeOK, JobOK, JobShape, ShapeOK, SnapshotCurrent
  <1>3. rows[i] # NoRow /\ i \in Abstract!Stocked
    BY <1>2, NoRowAssumption DEF Abstract!Stocked
  <1> DEFINE n == IF "quantity" \in j.patch THEN j.units[i] ELSE rows[i].quantity
             p == IF "productId" \in j.patch THEN j.product ELSE rows[i].product
  <1>4. n \in 0 .. MaxInt /\ p \in Products
    <2>1. 0 <= rows[i].quantity /\ rows[i].quantity <= MaxInt /\ rows[i].quantity \in Int
      <3>1. 0 <= rows[i].reserved /\ rows[i].reserved <= rows[i].quantity /\ rows[i].quantity <= MaxInt
        BY <1>2, <1>3 DEF Coherent, StockInvariant, Live
      <3>2. rows[i].reserved \in Int /\ rows[i].quantity \in Int
        BY <1>2 DEF Row
      <3> QED BY <3>1, <3>2, MaxIntAssumption
    <2>2. rows[i].product \in Products
      BY <1>2 DEF Row
    <2> QED BY <1>2, <2>1, <2>2
  <1>5. new(i) = [rows[i] EXCEPT !.quantity = n, !.product = p]
    BY <1>2 DEF Patched, Row
  <1>6. rows' = [rows EXCEPT ![i] = [@ EXCEPT !.quantity = n, !.product = p]]
    BY <1>1, <1>5
  <1>7. rows[i].reserved <= n
    <2>1. rows'[i] = new(i) /\ new(i) \in Row /\ new(i).quantity = n /\ new(i).reserved = rows[i].reserved
      BY <1>1, <1>2, <1>5, MaxIntAssumption, PatchedRow DEF Coherent, Base, TypeOK
    <2>2. rows'[i].reserved <= rows'[i].quantity
      BY <1>2, <2>1, NoRowAssumption DEF Coherent, StockInvariant, Live
    <2> QED BY <2>1, <2>2
  <1>8. Abstract!Distinct(rows')
    BY SameDistinct DEF Coherent
  <1> HIDE DEF n, p, new, j
  <1>9. Abstract!Edit(i, n, p)
    BY <1>1, <1>3, <1>6, <1>7, <1>8 DEF Abstract!Edit
  <1> QED BY <1>2, <1>4, <1>9 DEF Abstract!AbstractNext

\* An insert is one creation on an id that has no row.
LEMMA CreateImplements ==
    ASSUME Coherent, Coherent', NEW w \in Workers, CommitCreate(w)
    PROVE  Abstract!AbstractNext
  <1>1. PICK i \in DOMAIN job[w].units :
          /\ job[w].kind = "create" /\ i \notin used
          /\ rows' = [rows EXCEPT ![i] = [product |-> job[w].product, quantity |-> job[w].units[i],
                                          reserved |-> 0]]
          /\ processed' = processed
    BY DEF CommitCreate
  <1>2. i \in Items /\ job[w].units[i] \in 0 .. MaxInt /\ job[w].product \in Products
    BY <1>1 DEF Coherent, Base, TypeOK, JobOK, JobShape, ShapeOK
  <1>3. i \notin Abstract!Stocked
    BY <1>1 DEF Coherent, Promises, Live, Abstract!Stocked
  <1>4. Abstract!Distinct(rows')
    BY SameDistinct DEF Coherent
  <1>5. Abstract!Create(i, job[w].units[i], job[w].product)
    BY <1>1, <1>3, <1>4 DEF Abstract!Create
  <1> QED BY <1>2, <1>5 DEF Abstract!AbstractNext

\* A delete is one removal of a row that is there.
LEMMA DeleteImplements ==
    ASSUME Coherent, NEW w \in Workers, Delete(w)
    PROVE  Abstract!AbstractNext
  <1>1. PICK i \in DOMAIN job[w].units :
          /\ i \in Live /\ rows' = [rows EXCEPT ![i] = NoRow] /\ processed' = processed
    BY DEF Delete
  <1>2. i \in Items /\ Abstract!Remove(i)
    BY <1>1 DEF Live, Abstract!Remove, Abstract!Stocked
  <1> QED BY <1>2 DEF Abstract!AbstractNext

\* The inventory service implements the atomic store: each transaction takes
\* effect at its commit, on the current rows, all lines of a batch together; the
\* requests that only read, and those that roll back, are stutters.
THEOREM Serializable == Spec => ImplementsStockLedger
  <1>1. Init => Abstract!AbstractInit
    BY DEF Init, Abstract!AbstractInit
  <1>2. ASSUME Coherent, Coherent', [Next]_vars
        PROVE  [Abstract!AbstractNext]_<<rows, processed>>
    <2>1. CASE UNCHANGED store
      BY <2>1 DEF store
    <2> QED BY <1>2, <2>1, Steps, ChangeImplements, UpdateImplements, CreateImplements,
               DeleteImplements
  <1>3. Spec => []Coherent
    BY BaseInvariant, NoOversell, ProductsDistinct, PromisesKept, PTL DEF Coherent
  <1> QED BY <1>1, <1>2, <1>3, PTL DEF Spec, ImplementsStockLedger, Abstract!Spec

=============================================================================
