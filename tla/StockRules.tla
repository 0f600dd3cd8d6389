----------------------------- MODULE StockRules -----------------------------
(***************************************************************************)
(* The stock rules of the inventory service (inventory.rules.ts): what each *)
(* operation needs of the row it is applied to, the levels it leaves and   *)
(* the kind of ledger row it writes. Pure operators, shared by the abstract *)
(* store (StockLedger) and by the transactions that implement it           *)
(* (Inventory).                                                            *)
(***************************************************************************)
EXTENDS Integers

CONSTANT
    MaxInt      \* largest value of the Postgres Int columns of an item

ASSUME MaxIntAssumption == MaxInt \in Nat

(***************************************************************************)
(* Requests. The single-item endpoints address a row by id, the bulk ones  *)
(* address rows by product; planReservation and planRelease serve both.    *)
(***************************************************************************)
SingleKinds == {"reserve", "release", "fulfil", "sell", "receive", "acceptReturn", "adjust"}
BulkKinds == {"reserveMany", "releaseMany"}
ChangeKinds == SingleKinds \cup BulkKinds

Fields == {"quantity", "productId"}     \* patchable columns that are modelled
MovementTypes == {"INBOUND", "OUTBOUND", "RESERVATION", "RELEASE", "RETURN", "ADJUSTMENT"}

availableStock(item) == item.quantity - item.reserved

\* What a row must satisfy, or the operation is refused. n is signed for "adjust" only.
Allowed(kind, item, n) ==
    CASE kind \in {"reserve", "reserveMany", "sell"} -> n <= availableStock(item)
      [] kind \in {"release", "releaseMany", "fulfil"} -> n <= item.reserved
      [] kind = "adjust" -> item.quantity + n >= item.reserved
      [] OTHER -> TRUE

\* A fulfilment that ships the units and leaves them promised.
PlannedKeepingPromise(kind, item, n) ==
    CASE kind \in {"reserve", "reserveMany"} -> [item EXCEPT !.reserved = @ + n]
      [] kind \in {"release", "releaseMany"} -> [item EXCEPT !.reserved = @ - n]
      [] kind \in {"fulfil", "sell"} -> [item EXCEPT !.quantity = @ - n]
      [] OTHER -> [item EXCEPT !.quantity = @ + n]

\* The levels the operation leaves.
Planned(kind, item, n) ==
    CASE kind \in {"reserve", "reserveMany"} -> [item EXCEPT !.reserved = @ + n]
      [] kind \in {"release", "releaseMany"} -> [item EXCEPT !.reserved = @ - n]
      [] kind = "fulfil" -> [item EXCEPT !.quantity = @ - n, !.reserved = @ - n]
      [] kind = "sell" -> [item EXCEPT !.quantity = @ - n]
      [] OTHER -> [item EXCEPT !.quantity = @ + n]

\* Checked on every result before it is written.
assertInvariants(item) ==
    /\ item.quantity >= 0
    /\ item.reserved >= 0
    /\ item.reserved <= item.quantity

\* The database refuses a value its Int column cannot hold.
FitsColumn(item) == item.quantity <= MaxInt

Admits(kind, item, n) ==
    /\ Allowed(kind, item, n)
    /\ assertInvariants(Planned(kind, item, n))
    /\ FitsColumn(Planned(kind, item, n))

MovementType(kind) ==
    CASE kind \in {"reserve", "reserveMany"} -> "RESERVATION"
      [] kind \in {"release", "releaseMany"} -> "RELEASE"
      [] kind \in {"fulfil", "sell"} -> "OUTBOUND"
      [] kind = "receive" -> "INBOUND"
      [] kind = "acceptReturn" -> "RETURN"
      [] OTHER -> "ADJUSTMENT"

\* The signed delta itself, stored as it came in.
Unsigned(n) == n

Abs(n) == IF n < 0 THEN -n ELSE n

\* A row that records the count the movement leaves, not the one it found.
MovementAfter(kind, item, n) ==
    [type |-> MovementType(kind), changed |-> Abs(n), last |-> Planned(kind, item, n).quantity]

\* A ledger row: its type, the units moved (never signed) and the on-hand count before it.
Movement(kind, item, n) ==
    [type |-> MovementType(kind), changed |-> Abs(n), last |-> item.quantity]

=============================================================================
