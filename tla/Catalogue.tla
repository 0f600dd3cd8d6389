------------------------------- MODULE Catalogue -------------------------------
(***************************************************************************)
(* The product service: products, and the inventory record that each of    *)
(* them has in another service. No transaction spans the two, so create,   *)
(* update and remove write one after the other and undo what they can.     *)
(*                                                                         *)
(* A call to inventory is carried out and answered, carried out and not    *)
(* answered, not carried out, or carried out after its caller gave up; a   *)
(* write to the database fails with or without having been committed.      *)
(* A page is read as each of its products is: the product, then its stock. *)
(***************************************************************************)
EXTENDS Naturals, FiniteSets

CONSTANTS
    Products,   \* product ids
    Skus,
    Requests,   \* the requests that are served at once
    MaxUnits,   \* bound: units of one item on hand
    Faults,     \* what may fail
    NoProduct, NoSku

ASSUME CatalogueAssumption ==
    /\ MaxUnits \in Nat
    /\ Faults \subseteq {"unreachable", "lostReply", "late", "database", "crash"}
    /\ NoProduct \notin Products /\ NoSku \notin Skus

VARIABLES
    product,    \* product id -> its row
    stock,      \* product id -> the inventory record keyed by it
    late,       \* provisioning calls that inventory has yet to carry out
    request,    \* request -> where it is
    excuse      \* ghost: product id -> why its rows may be out of step

vars == <<product, stock, late, request, excuse>>

NoRow == [state |-> "none", sku |-> NoSku]
NoStock == [there |-> FALSE, sku |-> NoSku, quantity |-> 0, reserved |-> 0]
AtWork(pc, p, s, old) == [pc |-> pc, product |-> p, sku |-> s, old |-> old, item |-> FALSE]
Idle == AtWork("idle", NoProduct, NoSku, NoSku)

Init ==
    /\ product = [p \in Products |-> NoRow]
    /\ stock = [p \in Products |-> NoStock]
    /\ late = {}
    /\ request = [r \in Requests |-> Idle]
    /\ excuse = [p \in Products |-> {}]

-----------------------------------------------------------------------------
At(r, pc) == request[r].pc = pc
Of(r) == request[r].product
To(r, pc) == request' = [request EXCEPT ![r].pc = pc]
Done(r) == request' = [request EXCEPT ![r] = Idle]
Excused(p, why) == excuse' = [excuse EXCEPT ![p] = @ \cup {why}]

Listed(p) == product[p].state \in {"new", "there"}
\* sku is unique in either service.
SkuListed(s) == \E p \in Products : Listed(p) /\ product[p].sku = s
SkuStocked(s) == \E p \in Products : stock[p].there /\ stock[p].sku = s
ListedByOther(s, p) == \E q \in Products \ {p} : Listed(q) /\ product[q].sku = s
StockedByOther(s, p) == \E q \in Products \ {p} : stock[q].there /\ stock[q].sku = s

-----------------------------------------------------------------------------
(* create *)

Create(r, s) ==
    /\ At(r, "idle")
    /\ ~SkuListed(s) /\ \E p \in Products : product[p].state = "none"
    /\ request' = [request EXCEPT ![r] = AtWork("insert", NoProduct, s, NoSku)]
    /\ UNCHANGED <<product, stock, late, excuse>>

\* The product row: the unique index settles what the look-up could not. It is outside
\* the try: of a row that was committed after all, nobody will hear.
Insert(r) ==
    /\ At(r, "insert")
    /\ LET fresh == {p \in Products : product[p].state = "none"} IN
       \/ /\ ~SkuListed(request[r].sku)
          /\ \E p \in fresh :
                 /\ product' = [product EXCEPT ![p] = [state |-> "new", sku |-> request[r].sku]]
                 /\ \/ /\ request' = [request EXCEPT ![r].pc = "provision", ![r].product = p]
                       /\ UNCHANGED excuse
                    \/ "database" \in Faults /\ Done(r) /\ Excused(p, "unclear")
       \/ /\ SkuListed(request[r].sku) \/ fresh = {} \/ "database" \in Faults
          /\ Done(r) /\ UNCHANGED <<product, excuse>>
    /\ UNCHANGED <<stock, late>>

\* POST /inventory, refused when the SKU is taken there.
Stocked(p, s) ==
    stock' = IF SkuStocked(s) THEN stock
             ELSE [stock EXCEPT ![p] = [there |-> TRUE, sku |-> s, quantity |-> 0, reserved |-> 0]]

Provision(r) ==
    /\ At(r, "provision")
    /\ ~SkuStocked(request[r].sku)
    /\ Stocked(Of(r), request[r].sku)
    /\ product' = [product EXCEPT ![Of(r)].state = IF @ = "new" THEN "there" ELSE @]
    /\ Done(r)
    /\ UNCHANGED <<late, excuse>>

\* A failure that is taken to mean that nothing was written.
GiveUpInferring(r) == To(r, "undo")
\* A failure says nothing of what was written: inventory is asked first.
GiveUp(r) == To(r, "ask")

ProvisionFails(r) ==
    /\ At(r, "provision")
    /\ \/ SkuStocked(request[r].sku) /\ UNCHANGED <<stock, late, excuse>>
       \/ "unreachable" \in Faults /\ UNCHANGED <<stock, late, excuse>>
       \/ "lostReply" \in Faults /\ Stocked(Of(r), request[r].sku) /\ UNCHANGED <<late, excuse>>
       \/ /\ "late" \in Faults
          /\ late' = late \cup {[product |-> Of(r), sku |-> request[r].sku]}
          /\ Excused(Of(r), "late")
          /\ UNCHANGED stock
    /\ GiveUp(r)
    /\ UNCHANGED product

\* A call that was given up on is carried out after all.
CarriedOutLate(c) ==
    /\ c \in late
    /\ late' = late \ {c}
    /\ Stocked(c.product, c.sku)
    /\ UNCHANGED <<product, request, excuse>>

\* A look-up whose failure escapes the compensation.
AskUncaught(r) ==
    /\ At(r, "ask")
    /\ \/ To(r, IF stock[Of(r)].there THEN "discard" ELSE "undo")
       \/ "unreachable" \in Faults /\ Done(r)
    /\ UNCHANGED <<product, stock, late, excuse>>

\* discardStock: the look-up ...
Ask(r) ==
    /\ At(r, "ask")
    /\ \/ /\ To(r, IF stock[Of(r)].there THEN "discard" ELSE "undo")
          /\ UNCHANGED excuse
       \/ "unreachable" \in Faults /\ To(r, "undo") /\ Excused(Of(r), "logged")
    /\ UNCHANGED <<product, stock, late>>

\* DELETE /inventory/:id, refused while units are reserved.
Unstocked(p) == [stock EXCEPT ![p] = IF @.reserved > 0 THEN @ ELSE NoStock]

\* A compensation that is tried once: an exception is logged.
Discards(r) ==
    \/ /\ stock' = Unstocked(Of(r))
       /\ IF stock[Of(r)].reserved > 0 THEN Excused(Of(r), "logged") ELSE UNCHANGED excuse
    \/ "lostReply" \in Faults /\ stock' = Unstocked(Of(r)) /\ Excused(Of(r), "logged")
    \/ "unreachable" \in Faults /\ UNCHANGED stock /\ Excused(Of(r), "logged")

\* ... and the delete.
Discard(r) ==
    /\ At(r, "discard")
    /\ Discards(r)
    /\ To(r, "undo")
    /\ UNCHANGED <<product, late>>

\* The product goes too, unless somebody removed it meanwhile.
Undo(r) ==
    /\ At(r, "undo")
    /\ \/ /\ product' = [product EXCEPT ![Of(r)].state = "gone"]
          /\ IF Listed(Of(r)) THEN UNCHANGED excuse ELSE Excused(Of(r), "logged")
       \/ /\ "database" \in Faults /\ Excused(Of(r), "logged")
          /\ product' \in {product, [product EXCEPT ![Of(r)].state = "gone"]}
    /\ Done(r)
    /\ UNCHANGED <<stock, late>>

-----------------------------------------------------------------------------
(* update: only a new SKU concerns inventory *)

Update(r, p, s) ==
    /\ At(r, "idle")
    /\ Listed(p) /\ product[p].sku # s
    /\ request' = [request EXCEPT ![r] = AtWork("readStock", p, s, product[p].sku)]
    /\ UNCHANGED <<product, stock, late, excuse>>

\* readStock answers null when there is no record, and when it cannot tell. findBySku
\* follows.
ReadStock(r) ==
    /\ At(r, "readStock")
    /\ \/ ListedByOther(request[r].sku, Of(r)) /\ Done(r)
       \/ /\ ~ListedByOther(request[r].sku, Of(r))
          /\ \E found \in {stock[Of(r)].there} \cup (IF "unreachable" \in Faults THEN {FALSE} ELSE {}) :
                 request' = [request EXCEPT ![r].item = found, ![r].pc = IF found THEN "patch" ELSE "save"]
    /\ UNCHANGED <<product, stock, late, excuse>>

Renamed(p, s) == [stock EXCEPT ![p].sku = s]

\* Inventory goes first: it may refuse.
Patch(r) ==
    /\ At(r, "patch")
    /\ \/ /\ stock[Of(r)].there /\ ~StockedByOther(request[r].sku, Of(r))
          /\ stock' = Renamed(Of(r), request[r].sku) /\ To(r, "save")
       \/ /\ ~stock[Of(r)].there \/ StockedByOther(request[r].sku, Of(r)) \/ "unreachable" \in Faults
          /\ Done(r) /\ UNCHANGED stock
       \/ /\ "lostReply" \in Faults /\ stock[Of(r)].there /\ ~StockedByOther(request[r].sku, Of(r))
          /\ stock' = Renamed(Of(r), request[r].sku) /\ Done(r)
    /\ UNCHANGED <<product, late, excuse>>

Save(r) ==
    /\ At(r, "save")
    /\ \/ /\ Listed(Of(r)) /\ ~ListedByOther(request[r].sku, Of(r))
          /\ product' = [product EXCEPT ![Of(r)].sku = request[r].sku]
          /\ IF request[r].item THEN Done(r) ELSE To(r, "lookBack")
       \/ /\ \/ /\ ~Listed(Of(r)) \/ ListedByOther(request[r].sku, Of(r)) \/ "database" \in Faults
                /\ UNCHANGED product
             \/ /\ "database" \in Faults /\ Listed(Of(r)) /\ ~ListedByOther(request[r].sku, Of(r))
                /\ product' = [product EXCEPT ![Of(r)].sku = request[r].sku]
          /\ IF request[r].item THEN To(r, "unpatch") ELSE Done(r)
    /\ UNCHANGED <<stock, late, excuse>>

\* The SKU that the product had goes back to inventory, or its failure to the log.
Unpatch(r) ==
    /\ At(r, "unpatch")
    /\ \/ /\ stock[Of(r)].there /\ ~StockedByOther(request[r].old, Of(r))
          /\ stock' = Renamed(Of(r), request[r].old)
          /\ UNCHANGED excuse \/ ("lostReply" \in Faults /\ Excused(Of(r), "logged"))
       \/ /\ ~stock[Of(r)].there \/ StockedByOther(request[r].old, Of(r)) \/ "unreachable" \in Faults
          /\ UNCHANGED stock /\ Excused(Of(r), "logged")
    /\ Done(r)
    /\ UNCHANGED <<product, late>>

-----------------------------------------------------------------------------
(* remove *)

Remove(r, p) ==
    /\ At(r, "idle")
    /\ Listed(p)
    /\ request' = [request EXCEPT ![r] = AtWork("check", p, NoSku, NoSku)]
    /\ UNCHANGED <<product, stock, late, excuse>>

\* Refused while the record holds stock, or cannot be read.
Check(r) ==
    /\ At(r, "check")
    /\ \/ /\ stock[Of(r)].quantity = 0 /\ stock[Of(r)].reserved = 0
          /\ request' = [request EXCEPT ![r].pc = "delete", ![r].item = stock[Of(r)].there]
       \/ /\ stock[Of(r)].quantity > 0 \/ stock[Of(r)].reserved > 0 \/ "unreachable" \in Faults
          /\ Done(r)
    /\ UNCHANGED <<product, stock, late, excuse>>

\* A create that is still to provision this product has nothing to undo.
Provisioning(p) == \E q \in Requests : At(q, "provision") /\ Of(q) = p

\* A removal in the opposite order: the stock goes with the product still listed.
DeleteStockFirst(r) ==
    /\ At(r, "delete")
    /\ stock' = IF request[r].item THEN Unstocked(Of(r)) ELSE stock
    /\ Done(r)
    /\ UNCHANGED <<product, late, excuse>>

\* The product goes first ...
DeleteProduct(r) ==
    /\ At(r, "delete")
    /\ \/ /\ Listed(Of(r))
          /\ product' = [product EXCEPT ![Of(r)].state = "gone"]
          /\ IF request[r].item THEN To(r, "cleanup") /\ UNCHANGED excuse
             ELSE Done(r) /\ (IF Provisioning(Of(r)) \/ stock[Of(r)].there
                              THEN Excused(Of(r), "raced") ELSE UNCHANGED excuse)
       \/ /\ "database" \in Faults /\ Listed(Of(r)) /\ Done(r)
          /\ product' = [product EXCEPT ![Of(r)].state = "gone"] /\ Excused(Of(r), "unclear")
       \/ (~Listed(Of(r)) \/ "database" \in Faults) /\ Done(r) /\ UNCHANGED <<product, excuse>>
    /\ UNCHANGED <<stock, late>>

\* ... and then what was found of it in inventory.
Cleanup(r) ==
    /\ At(r, "cleanup")
    /\ Discards(r)
    /\ Done(r)
    /\ UNCHANGED <<product, late>>

-----------------------------------------------------------------------------
(* list and getById, and what is answered of the stock *)

ReadProduct(r, p) ==
    /\ At(r, "idle")
    /\ Listed(p)
    /\ request' = [request EXCEPT ![r] = AtWork("lookUp", p, NoSku, NoSku)]
    /\ UNCHANGED <<product, stock, late, excuse>>

StockStatuses == {"IN_STOCK", "LOW_STOCK", "OUT_OF_STOCK", "UNPROVISIONED", "UNKNOWN"}

\* A status that takes no answer for nothing to sell.
ToStockStatusCollapsed(p, found, reachable, low) ==
    IF ~found \/ stock[p].quantity = stock[p].reserved THEN "OUT_OF_STOCK"
    ELSE IF low THEN "LOW_STOCK" ELSE "IN_STOCK"
\* low is what the record says of itself: its reorder level is inventory's.
ToStockStatus(p, found, reachable, low) ==
    IF ~found THEN IF reachable THEN "UNPROVISIONED" ELSE "UNKNOWN"
    ELSE IF stock[p].quantity = stock[p].reserved THEN "OUT_OF_STOCK"
    ELSE IF low THEN "LOW_STOCK" ELSE "IN_STOCK"

\* A read says whether inventory answered; update's look-up after a write takes it for
\* granted.
LookUpStock(r) ==
    /\ \/ At(r, "lookUp") \/ At(r, "lookBack")
    /\ \E low \in BOOLEAN :
           \/ To(r, ToStockStatus(Of(r), stock[Of(r)].there, TRUE, low))
           \/ "unreachable" \in Faults /\ To(r, ToStockStatus(Of(r), FALSE, At(r, "lookBack"), low))
    /\ UNCHANGED <<product, stock, late, excuse>>

Answer(r) ==
    /\ request[r].pc \in StockStatuses
    /\ Done(r)
    /\ UNCHANGED <<product, stock, late, excuse>>

-----------------------------------------------------------------------------
\* The process dies under a request, which nobody resumes.
Crash(r) ==
    /\ "crash" \in Faults
    /\ ~At(r, "idle")
    /\ IF Of(r) = NoProduct THEN UNCHANGED excuse ELSE Excused(Of(r), "crash")
    /\ Done(r)
    /\ UNCHANGED <<product, stock, late>>

\* Receipts, sales and reservations, by whoever else calls inventory.
StockMoves(p) ==
    /\ stock[p].there
    /\ \E q \in 0 .. MaxUnits, v \in 0 .. MaxUnits :
           v <= q /\ stock' = [stock EXCEPT ![p].quantity = q, ![p].reserved = v]
    /\ UNCHANGED <<product, late, request, excuse>>

Step(r) ==
    \/ Insert(r) \/ Provision(r) \/ ProvisionFails(r) \/ Ask(r) \/ Discard(r) \/ Undo(r)
    \/ ReadStock(r) \/ Patch(r) \/ Save(r) \/ Unpatch(r)
    \/ Check(r) \/ DeleteProduct(r) \/ Cleanup(r)
    \/ LookUpStock(r) \/ Answer(r)

Next ==
    \/ \E r \in Requests :
           \/ \E s \in Skus : Create(r, s) \/ \E p \in Products : Update(r, p, s)
           \/ \E p \in Products : Remove(r, p) \/ ReadProduct(r, p)
           \/ Step(r) \/ Crash(r)
    \/ \E c \in late : CarriedOutLate(c)
    \/ \E p \in Products : StockMoves(p)

Spec == Init /\ [][Next]_vars

-----------------------------------------------------------------------------
(* Properties *)

\* No request works on p any more.
Settled(p) == \A r \in Requests : Of(r) # p

\* Every variable has its type, and a record never promises more than it holds.
TypeOK ==
    /\ product \in [Products -> [state : {"none", "new", "there", "gone"}, sku : Skus \cup {NoSku}]]
    /\ stock \in [Products -> [there : BOOLEAN, sku : Skus \cup {NoSku}, quantity : 0 .. MaxUnits,
                               reserved : 0 .. MaxUnits]]
    /\ \A p \in Products : (stock[p].there <=> stock[p].sku # NoSku)
    /\ late \subseteq [product : Products, sku : Skus]
    /\ request \in [Requests ->
           [pc : {"idle", "insert", "provision", "ask", "discard", "undo", "readStock", "patch", "save",
                  "unpatch", "check", "delete", "cleanup", "lookUp", "lookBack"} \cup StockStatuses,
            product : Products \cup {NoProduct}, sku : Skus \cup {NoSku}, old : Skus \cup {NoSku},
            item : BOOLEAN]]
    /\ excuse \in [Products -> SUBSET {"late", "logged", "raced", "crash", "unclear"}]

\* A product whose creation was reported never loses its stock record while it is
\* listed, however removals, updates and failures interleave ("a product pointing at
\* deleted stock would surface as a broken read": remove deletes the product first).
ListedHasStock == \A p \in Products : product[p].state = "there" => stock[p].there

\* A stock record that outlives its product is one that a failed compensation logged,
\* that a call carried out after its time-out wrote, whose process died, whose product
\* went in a removal that was answered an error, or was removed while it was being
\* created (create asks before it infers).
OrphansExplained ==
    \A p \in Products : (Settled(p) /\ stock[p].there /\ ~Listed(p)) => excuse[p] # {}

\* A creation that failed leaves no product behind, unless its undoing was logged as
\* failed, the process died, or the insert itself was answered an error after it was
\* committed ("the caller sees a clean failure").
RefusalIsClean ==
    \A p \in Products : (Settled(p) /\ product[p].state = "new") =>
        excuse[p] \cap {"logged", "crash", "unclear"} # {}

\* What a reader is told of the stock was so when inventory was asked: an outage is
\* never told as nothing to sell, and of a product whose creation was reported, and
\* that is still listed, never that it has no record (STOCK_STATUSES: "neither may be
\* collapsed into OUT_OF_STOCK").
ReadsAreHonest ==
    [][\A r \in Requests : At(r, "lookUp") =>
           /\ request'[r].pc = "OUT_OF_STOCK" => stock[Of(r)].there /\ stock[Of(r)].quantity = stock[Of(r)].reserved
           /\ request'[r].pc = "UNPROVISIONED" => product[Of(r)].state # "there"]_vars

-----------------------------------------------------------------------------
(* What a comment in the code says that does not hold of it *)

\* "A SKU change has to reach the inventory record too, or the two services disagree
\* about what the item is called" (update): but a look-up that fails is taken for a
\* product without a record, and the change passes inventory by.
SkusAgree ==
    \A p \in Products : (Settled(p) /\ product[p].state = "there" /\ excuse[p] = {})
        => stock[p].sku = product[p].sku
=============================================================================
