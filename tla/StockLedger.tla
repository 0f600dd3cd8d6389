----------------------------- MODULE StockLedger -----------------------------
(***************************************************************************)
(* What the inventory service promises its callers: a store of stock rows  *)
(* in which each change reads and writes the current rows in one step, a   *)
(* batch changes all its lines or none, and a message id is consumed by at *)
(* most one change. How transactions interleave is not visible here.       *)
(***************************************************************************)
EXTENDS StockRules

CONSTANTS
    Items, Products, Messages,
    MaxUnits,       \* bound: units one request moves
    NoRow, NoMessage

VARIABLES
    rows,           \* item id -> its row, or NoRow
    processed       \* message ids consumed

Stocked == {i \in Items : rows[i] # NoRow}

AbstractInit ==
    /\ rows = [i \in Items |-> NoRow]
    /\ processed = {}

Distinct(store) ==
    \A i, j \in Items : (i # j /\ store[i] # NoRow /\ store[j] # NoRow)
                            => store[i].product # store[j].product

\* One change, single or bulk, decided on and applied to the current rows.
Change(kind, units, key) ==
    /\ DOMAIN units # {}
    /\ kind \in SingleKinds => \E i \in Items : DOMAIN units = {i}
    /\ key # NoMessage => kind = "releaseMany"
    /\ key \notin processed
    /\ \A i \in DOMAIN units : i \in Stocked /\ Admits(kind, rows[i], units[i])
    /\ rows' = [i \in Items |-> IF i \in DOMAIN units THEN Planned(kind, rows[i], units[i])
                                                      ELSE rows[i]]
    /\ processed' = processed \cup ({key} \cap Messages)

\* A hand edit never leaves less on hand than is reserved.
Edit(i, n, p) ==
    /\ i \in Stocked
    /\ rows[i].reserved <= n
    /\ rows' = [rows EXCEPT ![i] = [@ EXCEPT !.quantity = n, !.product = p]]
    /\ Distinct(rows')
    /\ UNCHANGED processed

Create(i, n, p) ==
    /\ i \notin Stocked
    /\ rows' = [rows EXCEPT ![i] = [product |-> p, quantity |-> n, reserved |-> 0]]
    /\ Distinct(rows')
    /\ UNCHANGED processed

Remove(i) ==
    /\ i \in Stocked
    /\ rows' = [rows EXCEPT ![i] = NoRow]
    /\ UNCHANGED processed

UnitVectors == UNION {[S -> -MaxUnits .. MaxUnits] : S \in SUBSET Items}

AbstractNext ==
    \/ \E kind \in ChangeKinds, units \in UnitVectors, key \in Messages \cup {NoMessage} :
           Change(kind, units, key)
    \/ \E i \in Items, n \in 0 .. MaxInt, p \in Products : Edit(i, n, p) \/ Create(i, n, p)
    \/ \E i \in Items : Remove(i)

Spec == AbstractInit /\ [][AbstractNext]_<<rows, processed>>

=============================================================================
