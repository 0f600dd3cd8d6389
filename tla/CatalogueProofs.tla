---------------------------- MODULE CatalogueProofs ----------------------------
(***************************************************************************)
(* Proofs about Catalogue, for any number of products, SKUs and requests   *)
(* and any combination of faults. Every product has one creator, and what  *)
(* a stock record or a product still waits for is a request that is under  *)
(* way, or has an excuse.                                                  *)
(***************************************************************************)
EXTENDS Catalogue, TLAPS

-----------------------------------------------------------------------------
(* Typing *)

ProductRow == [state : {"none", "new", "there", "gone"}, sku : Skus \cup {NoSku}]
StockRow == [there : BOOLEAN, sku : Skus \cup {NoSku}, quantity : 0 .. MaxUnits, reserved : 0 .. MaxUnits]
Req ==
    [pc : {"idle", "insert", "provision", "ask", "discard", "undo", "readStock", "patch", "save",
           "unpatch", "check", "delete", "cleanup", "lookUp", "lookBack"} \cup StockStatuses,
     product : Products \cup {NoProduct}, sku : Skus \cup {NoSku}, old : Skus \cup {NoSku}, item : BOOLEAN]

GoodProduct(x) == x \in ProductRow /\ (x.state \in {"new", "there"} => x.sku \in Skus)
GoodStock(x) == x \in StockRow /\ (x.there <=> x.sku # NoSku)

\* What a request carries where it is.
Carries(q) ==
    /\ q \in Req
    /\ IF q.pc \in {"idle", "insert"} THEN q.product = NoProduct ELSE q.product \in Products
    /\ q.pc \in {"insert", "provision", "readStock", "patch", "save", "unpatch"} => q.sku \in Skus
    /\ q.pc \in {"readStock", "patch", "save", "unpatch"} => q.old \in Skus

ProductsOK == product \in [Products -> ProductRow] /\ \A p \in Products : GoodProduct(product[p])
StocksOK == stock \in [Products -> StockRow] /\ \A p \in Products : GoodStock(stock[p])
RequestsOK == request \in [Requests -> Req] /\ \A r \in Requests : Carries(request[r])
Typed ==
    /\ ProductsOK /\ StocksOK /\ RequestsOK
    /\ late \subseteq [product : Products, sku : Skus]
    /\ excuse \in [Products -> SUBSET {"late", "logged", "raced", "crash", "unclear"}]

-----------------------------------------------------------------------------
(* Invariants *)

Creating == {"provision", "ask", "discard", "undo"}
State(p) == product[p].state
There(p) == stock[p].there

\* A product has one creator, until it is there; who works on a product, works on one
\* that was inserted.
Roles ==
    /\ \A r \in Requests : request[r].pc \notin {"idle", "insert"} => State(Of(r)) # "none"
    /\ \A r \in Requests : request[r].pc \in Creating => State(Of(r)) \in {"new", "gone"}
    /\ \A r, q \in Requests : request[r].pc \in Creating /\ request[q].pc \in Creating /\ Of(r) = Of(q) => r = q
    /\ \A r \in Requests : request[r].pc = "cleanup" => State(Of(r)) = "gone"

\* Before a product is provisioned, and while it is, it has no record, and no call that
\* would make one is under way.
Unstarted ==
    /\ \A p \in Products : State(p) = "none" => ~There(p)
    /\ \A c \in late : State(c.product) # "none" /\ excuse[c.product] # {}
    /\ \A r \in Requests : request[r].pc = "provision" =>
           /\ ~There(Of(r)) /\ \A c \in late : c.product # Of(r)
           /\ ~Listed(Of(r)) => excuse[Of(r)] # {}
    /\ \A r, q \in Requests :
           request[r].pc = "delete" /\ request[r].item /\ request[q].pc = "provision" => Of(r) # Of(q)

\* Where a record is left of a product that is not listed, somebody is about to look
\* after it, or there is an excuse.
Tended(p) == \E r \in Requests : request[r].pc \in {"ask", "discard", "cleanup"} /\ Of(r) = p
Tidy ==
    /\ \A p \in Products : There(p) /\ ~Listed(p) => Tended(p) \/ excuse[p] # {}
    /\ \A r \in Requests : request[r].pc = "undo" => ~There(Of(r)) \/ excuse[Of(r)] # {}

\* A product whose creation was not reported has its creator, or an excuse.
Created(p) == \E r \in Requests : request[r].pc \in Creating /\ Of(r) = p
Pursued == \A p \in Products : State(p) = "new" => Created(p) \/ excuse[p] \cap {"logged", "crash", "unclear"} # {}

Kept == Roles /\ Unstarted /\ Tidy /\ Pursued /\ ListedHasStock
Sound == Typed /\ Kept

-----------------------------------------------------------------------------
(* What a write does to a variable *)

Light == {"ask", "discard", "undo", "check", "delete", "cleanup", "lookUp", "lookBack"} \cup StockStatuses
Renaming == {"readStock", "patch", "save", "unpatch"}
OthersStay(r) == \A x \in Requests \ {r} : request'[x] = request[x]

LEMMA PutsProduct ==
    ASSUME ProductsOK, NEW p \in Products, NEW x, GoodProduct(x), product' = [product EXCEPT ![p] = x]
    PROVE  ProductsOK' /\ product'[p] = x /\ \A y \in Products \ {p} : product'[y] = product[y]
  BY DEF ProductsOK, GoodProduct

LEMMA PutsStock ==
    ASSUME StocksOK, NEW p \in Products, NEW x, GoodStock(x), stock' = [stock EXCEPT ![p] = x]
    PROVE  StocksOK' /\ stock'[p] = x /\ \A y \in Products \ {p} : stock'[y] = stock[y]
  BY DEF StocksOK, GoodStock

LEMMA PutsRequest ==
    ASSUME RequestsOK, NEW r \in Requests, NEW q, Carries(q), request' = [request EXCEPT ![r] = q]
    PROVE  RequestsOK' /\ request'[r] = q /\ OthersStay(r)
  BY DEF RequestsOK, Carries, OthersStay

\* A request that is over has no product.
LEMMA Ends ==
    ASSUME RequestsOK, NEW r \in Requests, Done(r)
    PROVE  RequestsOK' /\ request'[r].pc = "idle" /\ OthersStay(r)
<1>1. Carries(Idle)
  BY DEF Carries, Idle, AtWork, Req
<1>2. request' = [request EXCEPT ![r] = Idle]
  BY DEF Done
<1>3. RequestsOK' /\ request'[r] = Idle /\ OthersStay(r)
  BY <1>1, <1>2, PutsRequest
<1>. QED
  BY <1>3 DEF Idle, AtWork

\* A request keeps what it carries where it goes next.
LEMMA GoesOn ==
    ASSUME RequestsOK, NEW r \in Requests, NEW pc, To(r, pc), request[r].pc \notin {"idle", "insert"},
           pc \in Light \/ (pc \in Renaming /\ request[r].pc \in Renaming)
    PROVE  /\ RequestsOK' /\ OthersStay(r)
           /\ request'[r].pc = pc /\ request'[r].product = Of(r) /\ request'[r].item = request[r].item
<1>. DEFINE q == [request[r] EXCEPT !.pc = pc]
<1>1. Carries(request[r]) /\ request[r] \in Req
  BY DEF RequestsOK
<1>2. q \in Req /\ q.pc = pc /\ q.product = Of(r) /\ q.item = request[r].item /\ q.sku = request[r].sku
      /\ q.old = request[r].old
  BY <1>1 DEF Req, Light, Renaming, Of
<1>3. Carries(q)
  BY <1>1, <1>2 DEF Carries, Light, Renaming, Of, StockStatuses
<1>4. request' = [request EXCEPT ![r] = q]
  BY DEF To
<1>. HIDE DEF q
<1>. QED
  BY <1>2, <1>3, <1>4, PutsRequest

LEMMA Excuses ==
    ASSUME Typed, NEW p \in Products, NEW why \in {"late", "logged", "raced", "crash", "unclear"}, Excused(p, why)
    PROVE  /\ excuse' \in [Products -> SUBSET {"late", "logged", "raced", "crash", "unclear"}]
           /\ why \in excuse'[p] /\ \A y \in Products : excuse[y] \subseteq excuse'[y]
  BY DEF Typed, Excused

\* What a request that is under way carries.
LEMMA Carried ==
    ASSUME Typed, NEW r \in Requests
    PROVE  /\ request[r] \in Req
           /\ IF request[r].pc \in {"idle", "insert"} THEN Of(r) = NoProduct ELSE Of(r) \in Products
           /\ request[r].pc \in {"insert", "provision"} \cup Renaming => request[r].sku \in Skus
           /\ request[r].pc \in Renaming => request[r].old \in Skus
  BY DEF Typed, RequestsOK, Carries, Of, Renaming

-----------------------------------------------------------------------------
(* The stock *)

\* There(p) afterwards, of the ways in which a record is written.
LEMMA StockedThere ==
    ASSUME Typed, NEW p \in Products, NEW s \in Skus, Stocked(p, s)
    PROVE  /\ StocksOK' /\ (~SkuStocked(s) => There(p)')
           /\ \A y \in Products : There(y) => There(y)'
           /\ \A y \in Products \ {p} : There(y)' <=> There(y)
<1>. DEFINE x == [there |-> TRUE, sku |-> s, quantity |-> 0, reserved |-> 0]
<1>1. GoodStock(x) /\ x.there
  BY CatalogueAssumption DEF GoodStock, StockRow
<1>2. CASE SkuStocked(s)
  <2>1. stock' = stock
    BY <1>2 DEF Stocked
  <2>2. StocksOK'
    BY <2>1 DEF Typed, StocksOK
  <2>. QED
    BY <1>2, <2>1, <2>2 DEF There
<1>3. CASE ~SkuStocked(s)
  <2>1. stock' = [stock EXCEPT ![p] = x]
    BY <1>3 DEF Stocked
  <2>. HIDE DEF x
  <2>2. StocksOK' /\ stock'[p] = x /\ \A y \in Products \ {p} : stock'[y] = stock[y]
    BY <1>1, <2>1, PutsStock DEF Typed
  <2>. QED
    BY <1>1, <2>2 DEF There
<1>. QED
  BY <1>2, <1>3

LEMMA UnstockedThere ==
    ASSUME Typed, NEW p \in Products, stock' = Unstocked(p)
    PROVE  /\ StocksOK' /\ (stock[p].reserved > 0 \/ ~There(p)')
           /\ \A y \in Products : There(y)' => There(y)
           /\ \A y \in Products \ {p} : There(y)' <=> There(y)
<1>. DEFINE x == IF stock[p].reserved > 0 THEN stock[p] ELSE NoStock
<1>1. GoodStock(stock[p]) /\ GoodStock(NoStock)
  BY CatalogueAssumption DEF Typed, StocksOK, GoodStock, StockRow, NoStock
<1>2. GoodStock(x) /\ (x.there => There(p)) /\ (stock[p].reserved > 0 \/ ~x.there)
  BY <1>1 DEF There, NoStock
<1>3. stock' = [stock EXCEPT ![p] = x]
  BY DEF Unstocked
<1>. HIDE DEF x
<1>4. StocksOK' /\ stock'[p] = x /\ \A y \in Products \ {p} : stock'[y] = stock[y]
  BY <1>2, <1>3, PutsStock DEF Typed
<1>. QED
  BY <1>2, <1>4 DEF There

LEMMA RenamedThere ==
    ASSUME Typed, NEW p \in Products, NEW s \in Skus, There(p), stock' = Renamed(p, s)
    PROVE  StocksOK' /\ \A y \in Products : There(y)' <=> There(y)
<1>. DEFINE x == [stock[p] EXCEPT !.sku = s]
<1>1. GoodStock(x) /\ x.there
  BY CatalogueAssumption DEF Typed, StocksOK, GoodStock, StockRow, There
<1>2. stock' = [stock EXCEPT ![p] = x]
  BY DEF Renamed
<1>. HIDE DEF x
<1>3. StocksOK' /\ stock'[p] = x /\ \A y \in Products \ {p} : stock'[y] = stock[y]
  BY <1>1, <1>2, PutsStock DEF Typed
<1>. QED
  BY <1>1, <1>3 DEF There


-----------------------------------------------------------------------------
(* What a step that neither creates nor removes does to the invariant *)

StatesStay == \A p \in Products : State(p)' = State(p)
TheresStay == \A p \in Products : There(p)' <=> There(p)
ExcusesStay == \A p \in Products : excuse[p] \subseteq excuse'[p]

\* Whom a request works for, and what a late call is about, is a product.
LEMMA Worked ==
    ASSUME Typed, Typed'
    PROVE  /\ \A r \in Requests : request[r].pc \notin {"idle", "insert"} => Of(r) \in Products
           /\ \A r \in Requests : request'[r].pc \notin {"idle", "insert"} => Of(r)' \in Products
           /\ \A c \in late : c.product \in Products /\ c.sku \in Skus
           /\ \A c \in late' : c.product \in Products /\ c.sku \in Skus
  BY DEF Typed, RequestsOK, Carries, Of

LEMMA QuietKeeps ==
    ASSUME Typed, Kept, Typed', NEW r \in Requests, OthersStay(r),
           StatesStay, TheresStay, ExcusesStay, late' = late,
           request[r].pc \notin Creating \cup {"cleanup"}, request'[r].pc \notin Creating \cup {"cleanup"},
           request'[r].pc \notin {"idle", "insert"} => State(Of(r))' # "none",
           request'[r].pc = "delete" /\ request'[r].item => There(Of(r))'
    PROVE  Kept'
<1>1. /\ \A x \in Requests : request[x].pc \notin {"idle", "insert"} => Of(x) \in Products
      /\ \A x \in Requests : request'[x].pc \notin {"idle", "insert"} => Of(x)' \in Products
      /\ \A c \in late : c.product \in Products
  BY Worked
<1>2. \A x \in Requests \ {r} : request'[x] = request[x] /\ Of(x)' = Of(x)
  BY DEF OthersStay, Of
<1>3. \A x \in Requests : request'[x].pc \in Creating \cup {"cleanup"} =>
          x # r /\ request'[x] = request[x] /\ Of(x)' = Of(x) /\ request[x].pc \in Creating \cup {"cleanup"}
  BY <1>2
<1>4. \A x \in Requests : request[x].pc \in Creating \cup {"cleanup"} =>
          x # r /\ request'[x] = request[x] /\ Of(x)' = Of(x)
  BY <1>2
<1>5. Roles'
  <2>. USE DEF Creating
  <2>1. \A x \in Requests : request'[x].pc \notin {"idle", "insert"} => State(Of(x))' # "none"
    BY <1>1, <1>2 DEF Kept, Roles, StatesStay, State
  <2>2. \A x \in Requests : request'[x].pc \in Creating => State(Of(x))' \in {"new", "gone"}
    BY <1>1, <1>3 DEF Kept, Roles, StatesStay, State
  <2>3. \A x \in Requests : request'[x].pc = "cleanup" => State(Of(x))' = "gone"
    BY <1>1, <1>3 DEF Kept, Roles, StatesStay, State
  <2>4. \A x, q \in Requests : request'[x].pc \in Creating /\ request'[q].pc \in Creating /\ Of(x)' = Of(q)' => x = q
    BY <1>3 DEF Kept, Roles
  <2>. QED
    BY <2>1, <2>2, <2>3, <2>4 DEF Roles
<1>6. Unstarted'
  <2>1. \A p \in Products : State(p)' = "none" => ~There(p)'
    BY DEF Kept, Unstarted, StatesStay, TheresStay
  <2>2. \A c \in late' : State(c.product)' # "none" /\ excuse'[c.product] # {}
    BY <1>1 DEF Kept, Unstarted, StatesStay, ExcusesStay, State
  <2>3. \A x \in Requests : request'[x].pc = "provision" =>
           /\ ~There(Of(x))' /\ \A c \in late' : c.product # Of(x)'
           /\ ~Listed(Of(x))' => excuse'[Of(x)'] # {}
    BY <1>1, <1>3 DEF Kept, Unstarted, StatesStay, TheresStay, ExcusesStay, State, There, Listed, Creating
  <2>4. \A x, q \in Requests :
           request'[x].pc = "delete" /\ request'[x].item /\ request'[q].pc = "provision" => Of(x)' # Of(q)'
    BY <1>1, <1>2, <1>3, <2>3 DEF Kept, Unstarted, Creating, There
  <2>. QED
    BY <2>1, <2>2, <2>3, <2>4 DEF Unstarted
<1>7. Tidy'
  <2>1. \A p \in Products : Tended(p) => Tended(p)'
    BY <1>4 DEF Tended, Creating
  <2>2. \A p \in Products : There(p)' /\ ~Listed(p)' => Tended(p)' \/ excuse'[p] # {}
    BY <2>1 DEF Kept, Tidy, StatesStay, TheresStay, ExcusesStay, State, Listed
  <2>3. \A x \in Requests : request'[x].pc = "undo" => ~There(Of(x))' \/ excuse'[Of(x)'] # {}
    BY <1>1, <1>3 DEF Kept, Tidy, TheresStay, ExcusesStay, There, Creating
  <2>. QED
    BY <2>2, <2>3 DEF Tidy
<1>8. Pursued'
  <2>1. \A p \in Products : Created(p) => Created(p)'
    BY <1>4 DEF Created
  <2>. QED
    BY <2>1 DEF Kept, Pursued, StatesStay, ExcusesStay
<1>9. ListedHasStock'
  BY DEF Kept, ListedHasStock, StatesStay, TheresStay, State, There
<1>. QED
  BY <1>5, <1>6, <1>7, <1>8, <1>9 DEF Kept


-----------------------------------------------------------------------------
(* What a step that works for one product does to the invariant *)

Provisions(r) == request[r].pc = "provision"
OnlyOf(p) == \A y \in Products \ {p} : State(y)' = State(y) /\ (There(y)' <=> There(y))

LEMMA WorkKeeps ==
    ASSUME Typed, Kept, Typed', NEW r \in Requests, NEW p \in Products, p = Of(r),
           request[r].pc \notin {"idle", "insert"}, OthersStay(r), OnlyOf(p), ExcusesStay,
           request'[r].pc \in {"idle", "ask", "discard", "undo", "cleanup"},
           request'[r].pc # "idle" => Of(r)' = p,
           request'[r].pc \in Creating => request[r].pc \in Creating /\ State(p)' # "there",
           request'[r].pc = "cleanup" => State(p)' = "gone",
           \A c \in late' : c \in late \/ (Provisions(r) /\ c.product = p /\ excuse'[p] # {}),
           State(p)' \in {State(p), "gone"} \/ (Provisions(r) /\ State(p) = "new" /\ State(p)' = "there"),
           State(p)' = "there" => There(p)',
           There(p)' => There(p) \/ Provisions(r),
           There(p)' /\ State(p)' = "gone" => request'[r].pc \in {"ask", "discard", "cleanup"} \/ excuse'[p] # {},
           request'[r].pc = "undo" => ~There(p)' \/ excuse'[p] # {},
           State(p)' = "new" => request'[r].pc \in Creating \/ excuse'[p] \cap {"logged", "crash", "unclear"} # {},
           State(p)' = "gone" /\ State(p) # "gone" =>
               excuse'[p] # {} \/ \A q \in Requests \ {r} : Provisions(q) => Of(q) # p
    PROVE  Kept'
<1>1. /\ \A x \in Requests : request[x].pc \notin {"idle", "insert"} => Of(x) \in Products
      /\ \A x \in Requests : request'[x].pc \notin {"idle", "insert"} => Of(x)' \in Products
      /\ \A c \in late : c.product \in Products
      /\ \A c \in late' : c.product \in Products
  BY Worked
<1>2. \A x \in Requests \ {r} : request'[x] = request[x] /\ Of(x)' = Of(x)
  BY DEF OthersStay, Of
<1>3. State(p) # "none" /\ State(p)' # "none"
  BY DEF Kept, Roles
<1>4. State(p) \in {"new", "there", "gone"} /\ State(p)' \in {"new", "there", "gone"}
  BY <1>3 DEF Typed, ProductsOK, ProductRow, State
<1>5. request[r].pc \in Creating => \A x \in Requests \ {r} : request[x].pc \in Creating => Of(x) # p
  BY DEF Kept, Roles
<1>6. Roles'
  <2>1. \A x \in Requests : request'[x].pc \notin {"idle", "insert"} => State(Of(x))' # "none"
    BY <1>1, <1>2, <1>3 DEF Kept, Roles, OnlyOf, State
  <2>2. \A x \in Requests : request'[x].pc \in Creating => State(Of(x))' \in {"new", "gone"}
    <3>1. ASSUME NEW x \in Requests \ {r}, request'[x].pc \in Creating PROVE State(Of(x))' \in {"new", "gone"}
      BY <1>1, <1>2, <1>5, <3>1 DEF Kept, Roles, OnlyOf, State, Provisions, Creating
    <3>2. ASSUME request'[r].pc \in Creating PROVE State(p)' \in {"new", "gone"}
      BY <3>2 DEF Kept, Roles, Provisions, Creating
    <3>. QED
      BY <3>1, <3>2 DEF Creating, State
  <2>3. \A x \in Requests : request'[x].pc = "cleanup" => State(Of(x))' = "gone"
    BY <1>1, <1>2, <1>5 DEF Kept, Roles, OnlyOf, State, Provisions, Creating
  <2>4. \A x, q \in Requests : request'[x].pc \in Creating /\ request'[q].pc \in Creating /\ Of(x)' = Of(q)' => x = q
    BY <1>2, <1>5 DEF Kept, Roles, Creating
  <2>. QED
    BY <2>1, <2>2, <2>3, <2>4 DEF Roles
<1>7. Unstarted'
  <2>1. \A y \in Products : State(y)' = "none" => ~There(y)'
    BY <1>3 DEF Kept, Unstarted, OnlyOf
  <2>2. \A c \in late' : State(c.product)' # "none" /\ excuse'[c.product] # {}
    BY <1>1, <1>3 DEF Kept, Unstarted, OnlyOf, ExcusesStay, State
  <2>3. ASSUME NEW x \in Requests, request'[x].pc = "provision"
        PROVE  /\ ~There(Of(x))' /\ \A c \in late' : c.product # Of(x)'
               /\ ~Listed(Of(x))' => excuse'[Of(x)'] # {}
    <3>1. x # r /\ request[x].pc = "provision" /\ Of(x)' = Of(x) /\ Of(x) \in Products
      BY <1>1, <1>2, <2>3
    <3>2. /\ ~There(Of(x)) /\ \A c \in late : c.product # Of(x)
          /\ ~Listed(Of(x)) => excuse[Of(x)] # {}
      BY <3>1 DEF Kept, Unstarted
    <3>3. CASE Of(x) # p
      <4>1. State(Of(x))' = State(Of(x)) /\ (There(Of(x))' <=> There(Of(x))) /\ (Listed(Of(x))' <=> Listed(Of(x)))
        BY <3>1, <3>3 DEF OnlyOf, State, There, Listed
      <4>. QED
        BY <3>1, <3>2, <3>3, <4>1 DEF ExcusesStay
    <3>4. CASE Of(x) = p
      <4>1. ~Provisions(r)
        BY <1>5, <3>1, <3>4 DEF Provisions, Creating
      <4>2. ~There(p)' /\ \A c \in late' : c.product # p
        BY <3>2, <3>4, <4>1
      <4>3. State(p)' \notin {"new", "there"} => excuse'[p] # {}
        BY <3>1, <3>2, <3>4, <4>1, <1>4 DEF ExcusesStay, State, Listed, Provisions
      <4>. QED
        BY <3>1, <3>4, <4>2, <4>3 DEF State, There, Listed
    <3>. QED
      BY <3>3, <3>4
  <2>4. \A x, q \in Requests :
           request'[x].pc = "delete" /\ request'[x].item /\ request'[q].pc = "provision" => Of(x)' # Of(q)'
    BY <1>2 DEF Kept, Unstarted
  <2>. QED
    BY <2>1, <2>2, <2>3, <2>4 DEF Unstarted
<1>8. Tidy'
  <2>1. ASSUME NEW y \in Products, There(y)', ~Listed(y)' PROVE Tended(y)' \/ excuse'[y] # {}
    <3>1. CASE y = p
      <4>1. State(p)' = "gone"
        BY <1>4, <2>1, <3>1 DEF State, Listed
      <4>. QED
        BY <2>1, <3>1, <4>1 DEF Tended
    <3>2. CASE y # p
      <4>1. There(y) /\ ~Listed(y)
        BY <2>1, <3>2 DEF OnlyOf, State, There, Listed
      <4>2. Tended(y) \/ excuse[y] # {}
        BY <4>1 DEF Kept, Tidy
      <4>3. Tended(y) => Tended(y)'
        BY <1>2, <3>2 DEF Tended
      <4>. QED
        BY <4>2, <4>3 DEF ExcusesStay
    <3>. QED
      BY <3>1, <3>2
  <2>2. ASSUME NEW x \in Requests, request'[x].pc = "undo" PROVE ~There(Of(x))' \/ excuse'[Of(x)'] # {}
    <3>1. CASE x = r
      BY <2>2, <3>1 DEF There
    <3>2. CASE x # r
      <4>1. request[x].pc = "undo" /\ Of(x)' = Of(x) /\ Of(x) \in Products
        BY <1>1, <1>2, <2>2, <3>2
      <4>2. ~There(Of(x)) \/ excuse[Of(x)] # {}
        BY <4>1 DEF Kept, Tidy
      <4>3. There(Of(x))' => There(Of(x))
        BY <1>5, <3>2, <4>1 DEF OnlyOf, There, Provisions, Creating
      <4>. QED
        BY <4>1, <4>2, <4>3 DEF ExcusesStay, There
    <3>. QED
      BY <3>1, <3>2
  <2>. QED
    BY <2>1, <2>2 DEF Tidy
<1>9. Pursued'
  <2>1. ASSUME NEW y \in Products, State(y)' = "new" PROVE Created(y)' \/ excuse'[y] \cap {"logged", "crash", "unclear"} # {}
    <3>1. CASE y = p
      BY <2>1, <3>1 DEF Created, Creating
    <3>2. CASE y # p
      <4>1. Created(y) \/ excuse[y] \cap {"logged", "crash", "unclear"} # {}
        BY <2>1, <3>2 DEF Kept, Pursued, OnlyOf
      <4>2. Created(y) => Created(y)'
        BY <1>2, <3>2 DEF Created
      <4>. QED
        BY <4>1, <4>2 DEF ExcusesStay
    <3>. QED
      BY <3>1, <3>2
  <2>. QED
    BY <2>1 DEF Pursued
<1>10. ListedHasStock'
  BY DEF Kept, ListedHasStock, OnlyOf, State, There
<1>. QED
  BY <1>6, <1>7, <1>8, <1>9, <1>10 DEF Kept


-----------------------------------------------------------------------------
(* The steps that neither create nor remove *)

LEMMA OnlyRequests ==
    ASSUME Typed, RequestsOK', UNCHANGED <<product, stock, late, excuse>>
    PROVE  Typed' /\ StatesStay /\ TheresStay /\ ExcusesStay /\ late' = late
  BY DEF Typed, ProductsOK, StocksOK, StatesStay, TheresStay, ExcusesStay, State, There

\* A request is received.
LEMMA ArrivalKeeps ==
    ASSUME Typed, Kept, NEW r \in Requests, NEW s \in Skus, NEW p \in Products,
           Create(r, s) \/ Update(r, p, s) \/ Remove(r, p) \/ ReadProduct(r, p)
    PROVE  Typed' /\ Kept'
<1>1. PICK q : /\ request' = [request EXCEPT ![r] = q] /\ UNCHANGED <<product, stock, late, excuse>>
               /\ Carries(q) /\ request[r].pc = "idle"
               /\ q.pc \in {"insert", "readStock", "check", "lookUp"}
               /\ q.pc # "insert" => q.product = p /\ State(p) # "none"
  <2>1. CASE Create(r, s)
    <3>. DEFINE x == AtWork("insert", NoProduct, s, NoSku)
    <3>2. Carries(x) /\ x.pc = "insert"
      BY DEF Carries, Req, AtWork
    <3>. HIDE DEF x
    <3>3. request' = [request EXCEPT ![r] = x]
      BY <2>1 DEF Create, x
    <3>. QED
      BY <2>1, <3>2, <3>3 DEF Create, At
  <2>2. CASE Update(r, p, s)
    <3>. DEFINE x == AtWork("readStock", p, s, product[p].sku)
    <3>1. product[p].sku \in Skus /\ State(p) # "none"
      BY <2>2 DEF Update, Listed, Typed, ProductsOK, GoodProduct, State
    <3>2. Carries(x) /\ x.pc = "readStock" /\ x.product = p
      BY <3>1 DEF Carries, Req, AtWork
    <3>. HIDE DEF x
    <3>3. request' = [request EXCEPT ![r] = x]
      BY <2>2 DEF Update, x
    <3>. QED
      BY <2>2, <3>1, <3>2, <3>3 DEF Update, At
  <2>3. CASE Remove(r, p)
    <3>. DEFINE x == AtWork("check", p, NoSku, NoSku)
    <3>2. Carries(x) /\ x.pc = "check" /\ x.product = p
      BY DEF Carries, Req, AtWork
    <3>. HIDE DEF x
    <3>3. request' = [request EXCEPT ![r] = x]
      BY <2>3 DEF Remove, x
    <3>. QED
      BY <2>3, <3>2, <3>3 DEF Remove, At, Listed, State
  <2>4. CASE ReadProduct(r, p)
    <3>. DEFINE x == AtWork("lookUp", p, NoSku, NoSku)
    <3>2. Carries(x) /\ x.pc = "lookUp" /\ x.product = p
      BY DEF Carries, Req, AtWork
    <3>. HIDE DEF x
    <3>3. request' = [request EXCEPT ![r] = x]
      BY <2>4 DEF ReadProduct, x
    <3>. QED
      BY <2>4, <3>2, <3>3 DEF ReadProduct, At, Listed, State
  <2>. QED
    BY <2>1, <2>2, <2>3, <2>4
<1>2. RequestsOK' /\ request'[r] = q /\ OthersStay(r)
  BY <1>1, PutsRequest DEF Typed
<1>3. Typed' /\ StatesStay /\ TheresStay /\ ExcusesStay /\ late' = late
  BY <1>1, <1>2, OnlyRequests
<1>4. /\ request[r].pc \notin Creating \cup {"cleanup"} /\ request'[r].pc \notin Creating \cup {"cleanup"}
      /\ request'[r].pc \notin {"idle", "insert"} => State(Of(r))' # "none"
      /\ request'[r].pc # "delete"
  BY <1>1, <1>2, <1>3 DEF Creating, StatesStay, State, Of
<1>. QED
  BY <1>2, <1>3, <1>4, QuietKeeps

\* A request that is over leaves all to the others.
LEMMA EndKeeps ==
    ASSUME Typed, Kept, NEW r \in Requests, Done(r), UNCHANGED <<product, stock, late, excuse>>,
           request[r].pc \notin Creating \cup {"cleanup"}
    PROVE  Typed' /\ Kept'
<1>1. RequestsOK' /\ request'[r].pc = "idle" /\ OthersStay(r)
  BY Ends DEF Typed
<1>2. Typed' /\ StatesStay /\ TheresStay /\ ExcusesStay /\ late' = late
  BY <1>1, OnlyRequests
<1>. QED
  BY <1>1, <1>2, QuietKeeps DEF Creating

\* A request that only reads goes on.
LEMMA ReadingKeeps ==
    ASSUME Typed, Kept, NEW r \in Requests, NEW pc \in {"lookBack"} \cup StockStatuses, To(r, pc),
           request[r].pc \in {"save", "lookUp", "lookBack"}, UNCHANGED <<product, stock, late, excuse>>
    PROVE  Typed' /\ Kept'
<1>1. /\ RequestsOK' /\ OthersStay(r) /\ request'[r].pc = pc /\ request'[r].product = Of(r)
  BY GoesOn DEF Typed, Light
<1>2. Typed' /\ StatesStay /\ TheresStay /\ ExcusesStay /\ late' = late
  BY <1>1, OnlyRequests
<1>3. Of(r) \in Products /\ State(Of(r)) # "none"
  BY Carried DEF Kept, Roles
<1>4. /\ request[r].pc \notin Creating \cup {"cleanup"} /\ request'[r].pc \notin Creating \cup {"cleanup"}
      /\ State(Of(r))' # "none" /\ request'[r].pc # "delete"
  BY <1>1, <1>2, <1>3 DEF Creating, StatesStay, State, Of, StockStatuses
<1>. QED
  BY <1>1, <1>2, <1>4, QuietKeeps

LEMMA LookUpKeeps ==
    ASSUME Typed, Kept, NEW r \in Requests, LookUpStock(r)
    PROVE  Typed' /\ Kept'
<1>1. PICK pc \in StockStatuses : To(r, pc)
  BY DEF LookUpStock, ToStockStatus, StockStatuses
<1>. QED
  BY <1>1, ReadingKeeps DEF LookUpStock, At

LEMMA AnswerKeeps ==
    ASSUME Typed, Kept, NEW r \in Requests, Answer(r)
    PROVE  Typed' /\ Kept'
  BY EndKeeps DEF Answer, StockStatuses, Creating


\* A look-up is remembered: what was found of the stock, and where that leads.
LEMMA Finds ==
    ASSUME RequestsOK, NEW r \in Requests, NEW found \in BOOLEAN, NEW pc \in {"patch", "save", "delete"},
           request' = [request EXCEPT ![r].item = found, ![r].pc = pc],
           request[r].pc \in (IF pc = "delete" THEN {"check"} ELSE {"readStock"})
    PROVE  /\ RequestsOK' /\ OthersStay(r) /\ request'[r].pc = pc /\ Of(r)' = Of(r)
           /\ request'[r].item = found
<1>1. request \in [Requests -> Req] /\ Carries(request[r]) /\ request[r] \in Req
  BY DEF RequestsOK
<1>2. /\ request' \in [Requests -> Req] /\ OthersStay(r)
      /\ request'[r].pc = pc /\ request'[r].item = found
      /\ request'[r].product = request[r].product /\ request'[r].sku = request[r].sku
      /\ request'[r].old = request[r].old
  BY <1>1 DEF OthersStay, Req
<1>3. Carries(request[r])'
  BY <1>1, <1>2 DEF Carries
<1>. QED
  BY <1>1, <1>2, <1>3 DEF RequestsOK, OthersStay, Of

LEMMA ReadStockKeeps ==
    ASSUME Typed, Kept, NEW r \in Requests, ReadStock(r)
    PROVE  Typed' /\ Kept'
<1>1. UNCHANGED <<product, stock, late, excuse>> /\ request[r].pc = "readStock"
  BY DEF ReadStock, At
<1>2. CASE Done(r)
  BY <1>1, <1>2, EndKeeps DEF Creating
<1>3. CASE \E found \in BOOLEAN :
               request' = [request EXCEPT ![r].item = found, ![r].pc = IF found THEN "patch" ELSE "save"]
  <2>1. PICK found \in BOOLEAN :
            request' = [request EXCEPT ![r].item = found, ![r].pc = IF found THEN "patch" ELSE "save"]
    BY <1>3
  <2>. DEFINE pc == IF found THEN "patch" ELSE "save"
  <2>2. pc \in {"patch", "save"} /\ request' = [request EXCEPT ![r].item = found, ![r].pc = pc]
    BY <2>1
  <2>. HIDE DEF pc
  <2>3. RequestsOK' /\ OthersStay(r) /\ request'[r].pc = pc /\ Of(r)' = Of(r)
    BY <1>1, <2>2, Finds DEF Typed
  <2>4. Typed' /\ StatesStay /\ TheresStay /\ ExcusesStay /\ late' = late
    BY <1>1, <2>3, OnlyRequests
  <2>5. Of(r) \in Products /\ State(Of(r)) # "none"
    BY <1>1, Carried DEF Kept, Roles
  <2>6. State(Of(r))' # "none"
    BY <2>3, <2>4, <2>5 DEF StatesStay, State
  <2>. QED
    BY <1>1, <2>2, <2>3, <2>4, <2>6, QuietKeeps DEF Creating
<1>4. Done(r) \/ \E found \in BOOLEAN :
           request' = [request EXCEPT ![r].item = found, ![r].pc = IF found THEN "patch" ELSE "save"]
  <2>1. stock[Of(r)].there \in BOOLEAN
    BY <1>1, Carried DEF Typed, StocksOK, StockRow
  <2>. QED
    BY <2>1 DEF ReadStock
<1>. QED
  BY <1>2, <1>3, <1>4

LEMMA CheckKeeps ==
    ASSUME Typed, Kept, NEW r \in Requests, Check(r)
    PROVE  Typed' /\ Kept'
<1>1. UNCHANGED <<product, stock, late, excuse>> /\ request[r].pc = "check"
  BY DEF Check, At
<1>2. CASE Done(r)
  BY <1>1, <1>2, EndKeeps DEF Creating
<1>3. CASE request' = [request EXCEPT ![r].pc = "delete", ![r].item = stock[Of(r)].there]
  <2>. DEFINE found == stock[Of(r)].there
  <2>1. Of(r) \in Products /\ State(Of(r)) # "none"
    BY <1>1, Carried DEF Kept, Roles
  <2>2. found \in BOOLEAN /\ request' = [request EXCEPT ![r].item = found, ![r].pc = "delete"]
    BY <1>3, <2>1 DEF Typed, StocksOK, StockRow
  <2>3. found <=> There(Of(r))
    BY DEF There
  <2>. HIDE DEF found
  <2>4. RequestsOK' /\ OthersStay(r) /\ request'[r].pc = "delete" /\ Of(r)' = Of(r) /\ request'[r].item = found
    BY <1>1, <2>2, Finds DEF Typed
  <2>5. Typed' /\ StatesStay /\ TheresStay /\ ExcusesStay /\ late' = late
    BY <1>1, <2>4, OnlyRequests
  <2>6. State(Of(r))' # "none" /\ (request'[r].item => There(Of(r))')
    BY <2>1, <2>3, <2>4, <2>5 DEF StatesStay, TheresStay, State, There
  <2>. QED
    BY <1>1, <2>4, <2>5, <2>6, QuietKeeps DEF Creating
<1>. QED
  BY <1>2, <1>3 DEF Check

\* Inventory is written, the product is not.
LEMMA StockWritten ==
    ASSUME Typed, StocksOK', RequestsOK', UNCHANGED <<product, late>>,
           excuse' \in [Products -> SUBSET {"late", "logged", "raced", "crash", "unclear"}]
    PROVE  Typed' /\ StatesStay
  BY DEF Typed, ProductsOK, StatesStay, State

LEMMA PatchKeeps ==
    ASSUME Typed, Kept, NEW r \in Requests, Patch(r)
    PROVE  Typed' /\ Kept'
<1>1. UNCHANGED <<product, late, excuse>> /\ request[r].pc = "patch"
  BY DEF Patch, At
<1>2. Of(r) \in Products /\ request[r].sku \in Skus /\ State(Of(r)) # "none"
  BY <1>1, Carried DEF Kept, Roles, Renaming
<1>3. CASE Done(r) /\ UNCHANGED stock
  BY <1>1, <1>3, EndKeeps DEF Creating
<1>4. CASE There(Of(r)) /\ stock' = Renamed(Of(r), request[r].sku) /\ (To(r, "save") \/ Done(r))
  <2>1. StocksOK' /\ TheresStay
    BY <1>2, <1>4, RenamedThere DEF TheresStay
  <2>2. /\ RequestsOK' /\ OthersStay(r)
        /\ request'[r].pc = "idle" \/ (request'[r].pc = "save" /\ Of(r)' = Of(r))
    BY <1>1, <1>4, Ends, GoesOn DEF Typed, Renaming, Of
  <2>3. Typed' /\ StatesStay /\ ExcusesStay /\ late' = late
    BY <1>1, <2>1, <2>2, StockWritten DEF Typed, ExcusesStay
  <2>4. request'[r].pc \notin {"idle", "insert"} => State(Of(r))' # "none"
    BY <1>2, <2>2, <2>3 DEF StatesStay, State
  <2>. QED
    BY <1>1, <2>1, <2>2, <2>3, <2>4, QuietKeeps DEF Creating
<1>. QED
  BY <1>3, <1>4 DEF Patch, There

LEMMA UnpatchKeeps ==
    ASSUME Typed, Kept, NEW r \in Requests, Unpatch(r)
    PROVE  Typed' /\ Kept'
<1>1. UNCHANGED <<product, late>> /\ request[r].pc = "unpatch" /\ Done(r)
  BY DEF Unpatch, At
<1>2. Of(r) \in Products /\ request[r].old \in Skus
  BY <1>1, Carried DEF Renaming
<1>3. RequestsOK' /\ request'[r].pc = "idle" /\ OthersStay(r)
  BY <1>1, Ends DEF Typed
<1>4. StocksOK' /\ TheresStay
  <2>1. CASE There(Of(r)) /\ stock' = Renamed(Of(r), request[r].old)
    BY <1>2, <2>1, RenamedThere DEF TheresStay
  <2>2. CASE UNCHANGED stock
    BY <2>2 DEF Typed, StocksOK, TheresStay, There
  <2>. QED
    BY <2>1, <2>2 DEF Unpatch, There
<1>5. ExcusesStay /\ excuse' \in [Products -> SUBSET {"late", "logged", "raced", "crash", "unclear"}]
  <2>1. CASE UNCHANGED excuse
    BY <2>1 DEF Typed, ExcusesStay
  <2>2. CASE Excused(Of(r), "logged")
    BY <1>2, <2>2, Excuses DEF ExcusesStay
  <2>. QED
    BY <2>1, <2>2 DEF Unpatch
<1>6. Typed' /\ StatesStay /\ late' = late
  BY <1>1, <1>3, <1>4, <1>5, StockWritten
<1>. QED
  BY <1>1, <1>3, <1>4, <1>5, <1>6, QuietKeeps DEF Creating

LEMMA SaveKeeps ==
    ASSUME Typed, Kept, NEW r \in Requests, Save(r)
    PROVE  Typed' /\ Kept'
<1>1. UNCHANGED <<stock, late, excuse>> /\ request[r].pc = "save"
  BY DEF Save, At
<1>2. Of(r) \in Products /\ request[r].sku \in Skus /\ State(Of(r)) # "none"
  BY <1>1, Carried DEF Kept, Roles, Renaming
<1>3. /\ RequestsOK' /\ OthersStay(r)
      /\ request'[r].pc = "idle" \/ (request'[r].pc \in {"lookBack", "unpatch"} /\ Of(r)' = Of(r))
  <2>1. CASE Done(r)
    BY <2>1, Ends DEF Typed
  <2>2. CASE To(r, "lookBack") \/ To(r, "unpatch")
    BY <1>1, <2>2, GoesOn DEF Typed, Renaming, Light, Of
  <2>. QED
    BY <2>1, <2>2 DEF Save
<1>4. ProductsOK' /\ StatesStay
  <2>1. CASE UNCHANGED product
    BY <2>1 DEF Typed, ProductsOK, StatesStay, State
  <2>2. CASE product' = [product EXCEPT ![Of(r)].sku = request[r].sku]
    <3>. DEFINE x == [product[Of(r)] EXCEPT !.sku = request[r].sku]
    <3>1. GoodProduct(x) /\ x.state = product[Of(r)].state
      BY <1>2 DEF GoodProduct, ProductRow, Typed, ProductsOK
    <3>2. product' = [product EXCEPT ![Of(r)] = x]
      BY <2>2
    <3>. HIDE DEF x
    <3>3. ProductsOK' /\ product'[Of(r)] = x /\ \A y \in Products \ {Of(r)} : product'[y] = product[y]
      BY <1>2, <3>1, <3>2, PutsProduct DEF Typed
    <3>. QED
      BY <1>2, <3>1, <3>3 DEF StatesStay, State
  <2>. QED
    BY <2>1, <2>2 DEF Save
<1>5. Typed' /\ TheresStay /\ ExcusesStay /\ late' = late
  BY <1>1, <1>3, <1>4 DEF Typed, StocksOK, TheresStay, ExcusesStay, There
<1>6. request'[r].pc \notin {"idle", "insert"} => State(Of(r))' # "none"
  BY <1>2, <1>3, <1>4 DEF StatesStay, State
<1>. QED
  BY <1>1, <1>3, <1>4, <1>5, <1>6, QuietKeeps DEF Creating


-----------------------------------------------------------------------------
(* The steps that create and remove *)

WellExcused == excuse' \in [Products -> SUBSET {"late", "logged", "raced", "crash", "unclear"}] /\ ExcusesStay

\* A product that was inserted is there, or gone.
LEMMA Turns ==
    ASSUME Typed, NEW p \in Products, NEW st \in {"there", "gone"}, st = "there" => State(p) = "new",
           product' = [product EXCEPT ![p].state = st]
    PROVE  ProductsOK' /\ State(p)' = st /\ \A y \in Products \ {p} : State(y)' = State(y)
<1>. DEFINE x == [product[p] EXCEPT !.state = st]
<1>1. product[p] \in ProductRow /\ GoodProduct(product[p])
  BY DEF Typed, ProductsOK
<1>2. x \in ProductRow /\ x.state = st /\ x.sku = product[p].sku
  BY <1>1 DEF ProductRow
<1>3. GoodProduct(x)
  BY <1>1, <1>2 DEF GoodProduct, State
<1>4. product' = [product EXCEPT ![p] = x]
  OBVIOUS
<1>. HIDE DEF x
<1>5. ProductsOK' /\ product'[p] = x /\ \A y \in Products \ {p} : product'[y] = product[y]
  BY <1>3, <1>4, PutsProduct DEF Typed
<1>. QED
  BY <1>2, <1>5 DEF State

\* What is left of a record that somebody tried to delete has an excuse.
LEMMA DiscardsWell ==
    ASSUME Typed, NEW r \in Requests, NEW p \in Products, p = Of(r), Discards(r)
    PROVE  /\ StocksOK' /\ WellExcused
           /\ There(p)' => There(p) /\ excuse'[p] # {}
           /\ \A y \in Products \ {p} : There(y)' <=> There(y)
<1>1. CASE Excused(p, "logged")
  <2>1. WellExcused /\ excuse'[p] # {}
    BY <1>1, Excuses DEF WellExcused, ExcusesStay
  <2>2. CASE UNCHANGED stock
    BY <2>1, <2>2 DEF Typed, StocksOK, There
  <2>3. CASE stock' = Unstocked(p)
    BY <2>1, <2>3, UnstockedThere
  <2>. QED
    BY <2>1, <2>2, <2>3 DEF Discards
<1>2. CASE UNCHANGED excuse /\ stock' = Unstocked(p) /\ ~(stock[p].reserved > 0)
  <2>1. WellExcused
    BY <1>2 DEF Typed, WellExcused, ExcusesStay
  <2>. QED
    BY <1>2, <2>1, UnstockedThere
<1>. QED
  BY <1>1, <1>2 DEF Discards

LEMMA InsertKeeps ==
    ASSUME Typed, Kept, NEW r \in Requests, Insert(r)
    PROVE  Typed' /\ Kept'
<1>1. UNCHANGED <<stock, late>> /\ request[r].pc = "insert"
  BY DEF Insert, At
<1>2. CASE Done(r) /\ UNCHANGED <<product, excuse>>
  BY <1>1, <1>2, EndKeeps DEF Creating
<1>3. ASSUME NEW p \in Products, State(p) = "none",
             product' = [product EXCEPT ![p] = [state |-> "new", sku |-> request[r].sku]],
             \/ /\ request' = [request EXCEPT ![r].pc = "provision", ![r].product = p]
                /\ UNCHANGED excuse
             \/ Done(r) /\ Excused(p, "unclear")
      PROVE  Typed' /\ Kept'
  <2>1. /\ ProductsOK' /\ State(p)' = "new"
        /\ \A y \in Products \ {p} : State(y)' = State(y) /\ (Listed(y)' <=> Listed(y))
    <3>. DEFINE x == [state |-> "new", sku |-> request[r].sku]
    <3>1. request[r].sku \in Skus
      BY <1>1, Carried
    <3>2. GoodProduct(x) /\ x.state = "new"
      BY <3>1 DEF GoodProduct, ProductRow
    <3>3. product' = [product EXCEPT ![p] = x]
      BY <1>3
    <3>. HIDE DEF x
    <3>4. ProductsOK' /\ product'[p] = x /\ \A y \in Products \ {p} : product'[y] = product[y]
      BY <3>2, <3>3, PutsProduct DEF Typed
    <3>. QED
      BY <3>2, <3>4 DEF State, Listed
  <2>2. /\ RequestsOK' /\ OthersStay(r) /\ WellExcused
        /\ \/ request'[r].pc = "provision" /\ Of(r)' = p
           \/ request'[r].pc = "idle" /\ "unclear" \in excuse'[p]
    <3>1. CASE Done(r) /\ Excused(p, "unclear")
      <4>1. RequestsOK' /\ request'[r].pc = "idle" /\ OthersStay(r)
        BY <3>1, Ends DEF Typed
      <4>2. WellExcused /\ "unclear" \in excuse'[p]
        BY <3>1, Excuses DEF WellExcused, ExcusesStay
      <4>. QED
        BY <4>1, <4>2
    <3>2. CASE request' = [request EXCEPT ![r].pc = "provision", ![r].product = p] /\ UNCHANGED excuse
      <4>1. request \in [Requests -> Req] /\ Carries(request[r]) /\ request[r] \in Req
        BY DEF Typed, RequestsOK
      <4>2. /\ request' \in [Requests -> Req] /\ OthersStay(r)
            /\ request'[r].pc = "provision" /\ request'[r].product = p
            /\ request'[r].sku = request[r].sku
        BY <3>2, <4>1 DEF OthersStay, Req
      <4>3. Carries(request[r])'
        BY <1>1, <4>1, <4>2 DEF Carries
      <4>4. WellExcused
        BY <3>2 DEF Typed, WellExcused, ExcusesStay
      <4>. QED
        BY <4>2, <4>3, <4>4 DEF RequestsOK, OthersStay, Of, Typed
    <3>. QED
      BY <1>3, <3>1, <3>2
  <2>3. Typed' /\ late' = late /\ ExcusesStay /\ (\A y \in Products : There(y)' <=> There(y))
    BY <1>1, <2>1, <2>2 DEF Typed, StocksOK, There, WellExcused
  <2>4. /\ \A x \in Requests : request[x].pc \notin {"idle", "insert"} => Of(x) \in Products /\ Of(x) # p
        /\ \A c \in late : c.product \in Products /\ c.product # p
    BY <1>3, <2>3, Worked DEF Kept, Roles, Unstarted
  <2>5. \A x \in Requests \ {r} : request'[x] = request[x] /\ Of(x)' = Of(x)
    BY <2>2 DEF OthersStay, Of
  <2>6. Roles'
    <3>1. \A x \in Requests : request'[x].pc \notin {"idle", "insert"} => State(Of(x))' # "none"
      BY <2>1, <2>2, <2>4, <2>5 DEF Kept, Roles, State
    <3>2. \A x \in Requests : request'[x].pc \in Creating => State(Of(x))' \in {"new", "gone"}
      BY <2>1, <2>2, <2>4, <2>5 DEF Kept, Roles, State, Creating
    <3>3. \A x \in Requests : request'[x].pc = "cleanup" => State(Of(x))' = "gone"
      BY <2>1, <2>2, <2>4, <2>5 DEF Kept, Roles, State
    <3>4. \A x, q \in Requests :
              request'[x].pc \in Creating /\ request'[q].pc \in Creating /\ Of(x)' = Of(q)' => x = q
      BY <2>2, <2>4, <2>5 DEF Kept, Roles, Creating
    <3>. QED
      BY <3>1, <3>2, <3>3, <3>4 DEF Roles
  <2>7. Unstarted'
    <3>1. \A y \in Products : State(y)' = "none" => ~There(y)'
      BY <2>1, <2>3 DEF Kept, Unstarted
    <3>2. \A c \in late' : State(c.product)' # "none" /\ excuse'[c.product] # {}
      BY <2>1, <2>3, <2>4 DEF Kept, Unstarted, State, ExcusesStay
    <3>3. ASSUME NEW x \in Requests, request'[x].pc = "provision"
          PROVE  /\ ~There(Of(x))' /\ \A c \in late' : c.product # Of(x)'
                 /\ ~Listed(Of(x))' => excuse'[Of(x)'] # {}
      <4>1. CASE x = r
        <5>1. ~There(p)' /\ \A c \in late' : c.product # p
          BY <1>3, <2>3, <2>4 DEF Kept, Unstarted
        <5>2. Of(x)' = p
          BY <2>2, <3>3, <4>1
        <5>. QED
          BY <2>1, <5>1, <5>2 DEF State, There, Listed
      <4>2. CASE x # r
        <5>1. request[x].pc = "provision" /\ Of(x)' = Of(x) /\ Of(x) \in Products /\ Of(x) # p
          BY <2>4, <2>5, <3>3, <4>2
        <5>2. /\ ~There(Of(x)) /\ \A c \in late : c.product # Of(x)
              /\ ~Listed(Of(x)) => excuse[Of(x)] # {}
          BY <5>1 DEF Kept, Unstarted
        <5>. QED
          BY <2>1, <2>3, <5>1, <5>2 DEF There, Listed, ExcusesStay
      <4>. QED
        BY <4>1, <4>2
    <3>4. \A x, q \in Requests :
              request'[x].pc = "delete" /\ request'[x].item /\ request'[q].pc = "provision" => Of(x)' # Of(q)'
      BY <2>2, <2>4, <2>5 DEF Kept, Unstarted
    <3>. QED
      BY <3>1, <3>2, <3>3, <3>4 DEF Unstarted
  <2>8. Tidy'
    <3>1. \A y \in Products : Tended(y) => Tended(y)'
      BY <1>1, <2>5 DEF Tended
    <3>2. \A y \in Products : There(y)' /\ ~Listed(y)' => Tended(y)' \/ excuse'[y] # {}
      BY <2>1, <2>3, <3>1 DEF Kept, Tidy, State, Listed, ExcusesStay
    <3>3. \A x \in Requests : request'[x].pc = "undo" => ~There(Of(x))' \/ excuse'[Of(x)'] # {}
      BY <2>2, <2>3, <2>4, <2>5 DEF Kept, Tidy, There, ExcusesStay
    <3>. QED
      BY <3>2, <3>3 DEF Tidy
  <2>9. Pursued'
    <3>1. \A y \in Products : Created(y) => Created(y)'
      BY <1>1, <2>5 DEF Created, Creating
    <3>2. Created(p)' \/ "unclear" \in excuse'[p]
      BY <2>2 DEF Created, Creating
    <3>. QED
      BY <2>1, <2>3, <3>1, <3>2 DEF Kept, Pursued, ExcusesStay
  <2>10. ListedHasStock'
    BY <2>1, <2>3 DEF Kept, ListedHasStock, State, There
  <2>. QED
    BY <2>3, <2>6, <2>7, <2>8, <2>9, <2>10 DEF Kept
<1>. QED
  BY <1>2, <1>3 DEF Insert, State


LEMMA Steady ==
    ASSUME Typed, UNCHANGED product, NEW p \in Products
    PROVE  ProductsOK' /\ State(p)' = State(p) /\ \A y \in Products \ {p} : State(y)' = State(y)
  BY DEF Typed, ProductsOK, State

LEMMA Untouched ==
    ASSUME Typed, UNCHANGED stock, NEW p \in Products
    PROVE  StocksOK' /\ (There(p)' <=> There(p)) /\ \A y \in Products \ {p} : There(y)' <=> There(y)
  BY DEF Typed, StocksOK, There

LEMMA Unexcused ==
    ASSUME Typed, UNCHANGED excuse
    PROVE  WellExcused
  BY DEF Typed, WellExcused, ExcusesStay

\* A creator's product is not yet there, and may be gone.
LEMMA Creator ==
    ASSUME Typed, Kept, NEW r \in Requests, request[r].pc \in Creating
    PROVE  Of(r) \in Products /\ State(Of(r)) \in {"new", "gone"} /\ request[r].pc \notin {"idle", "insert"}
  BY Carried DEF Kept, Roles, Creating

LEMMA ProvisionKeeps ==
    ASSUME Typed, Kept, NEW r \in Requests, Provision(r)
    PROVE  Typed' /\ Kept'
<1>0. PICK p \in Products : p = Of(r)
  BY Carried DEF Provision, At
<1>. USE <1>0
<1>1. UNCHANGED <<late, excuse>> /\ request[r].pc = "provision" /\ Done(r)
  BY DEF Provision, At
<1>2. p \in Products /\ State(p) \in {"new", "gone"} /\ request[r].sku \in Skus
  BY <1>1, Creator, Carried DEF Creating
<1>3. RequestsOK' /\ request'[r].pc = "idle" /\ OthersStay(r)
  BY <1>1, Ends DEF Typed
<1>4. WellExcused
  BY <1>1, Unexcused
<1>5. ~Listed(p) => excuse[p] # {}
  BY <1>1 DEF Kept, Unstarted
<1>6. /\ product' = [product EXCEPT ![p].state = IF @ = "new" THEN "there" ELSE @]
      /\ Stocked(p, request[r].sku) /\ ~SkuStocked(request[r].sku)
  BY DEF Provision
<1>7. /\ ProductsOK' /\ \A y \in Products \ {p} : State(y)' = State(y)
      /\ State(p)' = IF State(p) = "new" THEN "there" ELSE State(p)
  <2>1. CASE State(p) = "new"
    <3>1. product' = [product EXCEPT ![p].state = "there"]
      BY <1>2, <1>6, <2>1 DEF State, Typed, ProductsOK
    <3>. QED
      BY <1>2, <2>1, <3>1, Turns
  <2>2. CASE State(p) = "gone"
    <3>1. product' = [product EXCEPT ![p].state = "gone"]
      BY <1>2, <1>6, <2>2 DEF State, Typed, ProductsOK
    <3>. QED
      BY <1>2, <2>2, <3>1, Turns
  <2>. QED
    BY <1>2, <2>1, <2>2
<1>8. StocksOK' /\ There(p)' /\ \A y \in Products \ {p} : There(y)' <=> There(y)
  BY <1>2, <1>6, StockedThere
<1>9. Typed' /\ OnlyOf(p) /\ ExcusesStay /\ late' = late /\ (State(p) = "gone" => excuse'[p] # {})
  BY <1>1, <1>3, <1>4, <1>5, <1>7, <1>8 DEF Typed, OnlyOf, WellExcused, State, Listed
<1>10. p = Of(r) /\ Provisions(r)
  BY <1>1 DEF Provisions
<1>. QED
  BY <1>1, <1>2, <1>3, <1>7, <1>8, <1>9, <1>10, WorkKeeps DEF Creating

LEMMA ProvisionFailsKeeps ==
    ASSUME Typed, Kept, NEW r \in Requests, ProvisionFails(r)
    PROVE  Typed' /\ Kept'
<1>0. PICK p \in Products : p = Of(r)
  BY Carried DEF ProvisionFails, At
<1>. USE <1>0
<1>1. UNCHANGED product /\ request[r].pc = "provision" /\ To(r, "ask")
  BY DEF ProvisionFails, GiveUp, At
<1>2. p \in Products /\ State(p) \in {"new", "gone"} /\ request[r].sku \in Skus
  BY <1>1, Creator, Carried DEF Creating
<1>3. RequestsOK' /\ OthersStay(r) /\ request'[r].pc = "ask" /\ Of(r)' = p
  BY <1>1, GoesOn DEF Typed, Light, Of
<1>4. \/ UNCHANGED <<stock, late, excuse>>
      \/ Stocked(p, request[r].sku) /\ UNCHANGED <<late, excuse>>
      \/ late' = late \cup {[product |-> p, sku |-> request[r].sku]} /\ Excused(p, "late") /\ UNCHANGED stock
  BY DEF ProvisionFails
<1>5. p = Of(r) /\ Provisions(r)
  BY <1>1 DEF Provisions
<1>6. ProductsOK' /\ State(p)' = State(p) /\ \A y \in Products \ {p} : State(y)' = State(y)
  BY <1>1, <1>2, Steady
<1>7. StocksOK' /\ \A y \in Products \ {p} : There(y)' <=> There(y)
  BY <1>2, <1>4, StockedThere, Untouched
<1>8. WellExcused /\ (UNCHANGED late \/ excuse'[p] # {})
  <2>1. CASE UNCHANGED <<late, excuse>>
    BY <2>1, Unexcused
  <2>2. CASE Excused(p, "late")
    BY <1>2, <2>2, Excuses DEF WellExcused, ExcusesStay
  <2>. QED
    BY <1>4, <2>1, <2>2
<1>9. late' \subseteq [product : Products, sku : Skus] /\ \A c \in late' : c \in late \/ c.product = p
  BY <1>2, <1>4 DEF Typed
<1>10. Typed' /\ OnlyOf(p) /\ ExcusesStay
  BY <1>3, <1>6, <1>7, <1>8, <1>9 DEF Typed, OnlyOf, WellExcused
<1>. QED
  BY <1>1, <1>2, <1>3, <1>5, <1>6, <1>8, <1>9, <1>10, WorkKeeps DEF Creating

LEMMA AskKeeps ==
    ASSUME Typed, Kept, NEW r \in Requests, Ask(r)
    PROVE  Typed' /\ Kept'
<1>0. PICK p \in Products : p = Of(r)
  BY Carried DEF Ask, At
<1>. USE <1>0
<1>1. UNCHANGED <<product, stock, late>> /\ request[r].pc = "ask"
  BY DEF Ask, At
<1>2. p \in Products /\ State(p) \in {"new", "gone"}
  BY <1>1, Creator DEF Creating
<1>3. \/ There(p) /\ To(r, "discard") /\ UNCHANGED excuse
      \/ ~There(p) /\ To(r, "undo") /\ UNCHANGED excuse
      \/ To(r, "undo") /\ Excused(p, "logged")
  BY DEF Ask, There
<1>4. RequestsOK' /\ OthersStay(r) /\ request'[r].pc \in {"discard", "undo"} /\ Of(r)' = p
  BY <1>1, <1>3, GoesOn DEF Typed, Light, Of
<1>6. WellExcused /\ (request'[r].pc = "undo" => ~There(p) \/ excuse'[p] # {})
  <2>1. CASE Excused(p, "logged")
    BY <1>2, <2>1, Excuses DEF WellExcused, ExcusesStay
  <2>2. CASE There(p) /\ To(r, "discard") /\ UNCHANGED excuse
    BY <1>1, <2>2, Unexcused, GoesOn DEF Typed, Light
  <2>3. CASE ~There(p) /\ UNCHANGED excuse
    BY <2>3, Unexcused
  <2>. QED
    BY <1>3, <2>1, <2>2, <2>3
<1>7. /\ ProductsOK' /\ State(p)' = State(p) /\ \A y \in Products \ {p} : State(y)' = State(y)
      /\ StocksOK' /\ (There(p)' <=> There(p)) /\ \A y \in Products \ {p} : There(y)' <=> There(y)
  BY <1>1, <1>2, Steady, Untouched
<1>8. Typed' /\ OnlyOf(p) /\ ExcusesStay
  BY <1>1, <1>4, <1>6, <1>7 DEF Typed, OnlyOf, WellExcused
<1>. QED
  BY <1>1, <1>2, <1>4, <1>6, <1>7, <1>8, WorkKeeps DEF Creating

LEMMA DiscardKeeps ==
    ASSUME Typed, Kept, NEW r \in Requests, Discard(r)
    PROVE  Typed' /\ Kept'
<1>0. PICK p \in Products : p = Of(r)
  BY Carried DEF Discard, At
<1>. USE <1>0
<1>1. UNCHANGED <<product, late>> /\ request[r].pc = "discard" /\ To(r, "undo") /\ Discards(r)
  BY DEF Discard, At
<1>2. p \in Products /\ State(p) \in {"new", "gone"}
  BY <1>1, Creator DEF Creating
<1>3. RequestsOK' /\ OthersStay(r) /\ request'[r].pc = "undo" /\ Of(r)' = p
  BY <1>1, GoesOn DEF Typed, Light, Of
<1>5. /\ StocksOK' /\ WellExcused
      /\ There(p)' => There(p) /\ excuse'[p] # {}
      /\ \A y \in Products \ {p} : There(y)' <=> There(y)
  BY <1>1, <1>2, DiscardsWell
<1>6. ProductsOK' /\ State(p)' = State(p) /\ \A y \in Products \ {p} : State(y)' = State(y)
  BY <1>1, <1>2, Steady
<1>7. Typed' /\ OnlyOf(p) /\ ExcusesStay
  BY <1>1, <1>3, <1>5, <1>6 DEF Typed, OnlyOf, WellExcused
<1>. QED
  BY <1>1, <1>2, <1>3, <1>5, <1>6, <1>7, WorkKeeps DEF Creating

LEMMA UndoKeeps ==
    ASSUME Typed, Kept, NEW r \in Requests, Undo(r)
    PROVE  Typed' /\ Kept'
<1>0. PICK p \in Products : p = Of(r)
  BY Carried DEF Undo, At
<1>. USE <1>0
<1>1. UNCHANGED <<stock, late>> /\ request[r].pc = "undo" /\ Done(r)
  BY DEF Undo, At
<1>2. p \in Products /\ State(p) \in {"new", "gone"}
  BY <1>1, Creator DEF Creating
<1>3. RequestsOK' /\ request'[r].pc = "idle" /\ OthersStay(r)
  BY <1>1, Ends DEF Typed
<1>4. \/ product' = [product EXCEPT ![p].state = "gone"] /\ (UNCHANGED excuse \/ Excused(p, "logged"))
      \/ UNCHANGED product /\ Excused(p, "logged")
  BY DEF Undo
<1>5. p = Of(r) /\ (~There(p) \/ excuse[p] # {})
  BY <1>1 DEF Kept, Tidy
<1>6. \A q \in Requests \ {r} : Provisions(q) => Of(q) # p
  BY <1>1 DEF Kept, Roles, Creating, Provisions
<1>7. WellExcused /\ (UNCHANGED product => "logged" \in excuse'[p] \/ State(p) = "gone")
  <2>1. CASE UNCHANGED excuse /\ product' = [product EXCEPT ![p].state = "gone"]
    <3>1. State(p)' = "gone"
      BY <1>2, <2>1, Turns
    <3>. QED
      BY <2>1, <3>1, Unexcused DEF State
  <2>2. CASE Excused(p, "logged")
    BY <1>2, <2>2, Excuses DEF WellExcused, ExcusesStay
  <2>. QED
    BY <1>4, <2>1, <2>2
<1>8. /\ ProductsOK' /\ \A y \in Products \ {p} : State(y)' = State(y)
      /\ State(p)' = "gone" \/ (State(p)' = State(p) /\ "logged" \in excuse'[p])
  <2>1. CASE UNCHANGED product
    BY <1>2, <1>7, <2>1, Steady
  <2>2. CASE product' = [product EXCEPT ![p].state = "gone"]
    BY <1>2, <2>2, Turns
  <2>. QED
    BY <1>4, <2>1, <2>2
<1>9. StocksOK' /\ (There(p)' <=> There(p)) /\ \A y \in Products \ {p} : There(y)' <=> There(y)
  BY <1>1, <1>2, Untouched
<1>10. Typed' /\ OnlyOf(p) /\ ExcusesStay /\ (There(p)' => excuse'[p] # {})
  BY <1>1, <1>2, <1>3, <1>5, <1>7, <1>8, <1>9 DEF Typed, OnlyOf, WellExcused, ExcusesStay
<1>. QED
  BY <1>1, <1>2, <1>3, <1>5, <1>6, <1>8, <1>9, <1>10, WorkKeeps DEF Creating


LEMMA DeleteProductKeeps ==
    ASSUME Typed, Kept, NEW r \in Requests, DeleteProduct(r)
    PROVE  Typed' /\ Kept'
<1>0. PICK p \in Products : p = Of(r)
  BY Carried DEF DeleteProduct, At
<1>. USE <1>0
<1>1. UNCHANGED <<stock, late>> /\ request[r].pc = "delete"
  BY DEF DeleteProduct, At
<1>2. CASE Done(r) /\ UNCHANGED <<product, excuse>>
  BY <1>1, <1>2, EndKeeps DEF Creating
<1>3. ASSUME product' = [product EXCEPT ![p].state = "gone"],
             \/ request[r].item /\ To(r, "cleanup") /\ UNCHANGED excuse
             \/ /\ ~request[r].item /\ Done(r)
                /\ IF Provisioning(p) \/ There(p) THEN Excused(p, "raced") ELSE UNCHANGED excuse
             \/ Done(r) /\ Excused(p, "unclear")
      PROVE  Typed' /\ Kept'
  <2>1. ProductsOK' /\ State(p)' = "gone" /\ \A y \in Products \ {p} : State(y)' = State(y)
    BY <1>3, Turns
  <2>2. StocksOK' /\ (There(p)' <=> There(p)) /\ \A y \in Products \ {p} : There(y)' <=> There(y)
    BY <1>1, Untouched
  <2>3. CASE request[r].item /\ To(r, "cleanup") /\ UNCHANGED excuse
    <3>1. RequestsOK' /\ OthersStay(r) /\ request'[r].pc = "cleanup" /\ Of(r)' = p
      BY <1>1, <2>3, GoesOn DEF Typed, Light, Of
    <3>2. WellExcused
      BY <2>3, Unexcused
    <3>3. Typed' /\ OnlyOf(p) /\ ExcusesStay
      BY <1>1, <2>1, <2>2, <3>1, <3>2 DEF Typed, OnlyOf, WellExcused
    <3>4. \A q \in Requests \ {r} : Provisions(q) => Of(q) # p
      BY <1>1, <2>3 DEF Kept, Unstarted, Provisions
    <3>. QED
      BY <1>1, <2>1, <2>2, <3>1, <3>3, <3>4, WorkKeeps DEF Creating
  <2>4. CASE /\ Done(r)
             /\ \/ Excused(p, "unclear")
                \/ IF Provisioning(p) \/ There(p) THEN Excused(p, "raced") ELSE UNCHANGED excuse
    <3>1. RequestsOK' /\ request'[r].pc = "idle" /\ OthersStay(r)
      BY <2>4, Ends DEF Typed
    <3>2. WellExcused /\ (Provisioning(p) \/ There(p) => excuse'[p] # {})
      <4>1. CASE Excused(p, "raced") \/ Excused(p, "unclear")
        BY <4>1, Excuses DEF WellExcused, ExcusesStay
      <4>2. CASE UNCHANGED excuse /\ ~(Provisioning(p) \/ There(p))
        BY <4>2, Unexcused
      <4>. QED
        BY <2>4, <4>1, <4>2
    <3>3. Typed' /\ OnlyOf(p) /\ ExcusesStay
      BY <1>1, <2>1, <2>2, <3>1, <3>2 DEF Typed, OnlyOf, WellExcused
    <3>4. excuse'[p] # {} \/ \A q \in Requests \ {r} : Provisions(q) => Of(q) # p
      BY <3>2 DEF Provisioning, Provisions, At
    <3>. QED
      BY <1>1, <2>1, <2>2, <3>1, <3>2, <3>3, <3>4, WorkKeeps DEF Creating
  <2>. QED
    BY <1>3, <2>3, <2>4
<1>. QED
  BY <1>2, <1>3 DEF DeleteProduct, There

LEMMA CleanupKeeps ==
    ASSUME Typed, Kept, NEW r \in Requests, Cleanup(r)
    PROVE  Typed' /\ Kept'
<1>0. PICK p \in Products : p = Of(r)
  BY Carried DEF Cleanup, At
<1>. USE <1>0
<1>1. UNCHANGED <<product, late>> /\ request[r].pc = "cleanup" /\ Done(r) /\ Discards(r)
  BY DEF Cleanup, At
<1>2. State(p) = "gone"
  BY <1>1 DEF Kept, Roles
<1>3. RequestsOK' /\ request'[r].pc = "idle" /\ OthersStay(r)
  BY <1>1, Ends DEF Typed
<1>4. /\ StocksOK' /\ WellExcused
      /\ There(p)' => There(p) /\ excuse'[p] # {}
      /\ \A y \in Products \ {p} : There(y)' <=> There(y)
  BY <1>1, DiscardsWell
<1>5. ProductsOK' /\ State(p)' = State(p) /\ \A y \in Products \ {p} : State(y)' = State(y)
  BY <1>1, Steady
<1>6. Typed' /\ OnlyOf(p) /\ ExcusesStay
  BY <1>1, <1>3, <1>4, <1>5 DEF Typed, OnlyOf, WellExcused
<1>. QED
  BY <1>1, <1>2, <1>3, <1>4, <1>5, <1>6, WorkKeeps DEF Creating

LEMMA CrashKeeps ==
    ASSUME Typed, Kept, NEW r \in Requests, Crash(r)
    PROVE  Typed' /\ Kept'
<1>1. UNCHANGED <<product, stock, late>> /\ request[r].pc # "idle" /\ Done(r)
  BY DEF Crash, At
<1>2. CASE request[r].pc = "insert"
  <2>1. UNCHANGED excuse
    BY <1>2, Carried DEF Crash
  <2>. QED
    BY <1>1, <1>2, <2>1, EndKeeps DEF Creating
<1>3. CASE Of(r) \in Products /\ Excused(Of(r), "crash") /\ request[r].pc # "insert"
  <2>0. PICK p \in Products : p = Of(r)
    BY <1>3
  <2>. USE <2>0
  <2>1. RequestsOK' /\ request'[r].pc = "idle" /\ OthersStay(r)
    BY <1>1, Ends DEF Typed
  <2>2. WellExcused /\ "crash" \in excuse'[p]
    BY <1>3, Excuses DEF WellExcused, ExcusesStay
  <2>3. /\ ProductsOK' /\ State(p)' = State(p) /\ \A y \in Products \ {p} : State(y)' = State(y)
        /\ StocksOK' /\ (There(p)' <=> There(p)) /\ \A y \in Products \ {p} : There(y)' <=> There(y)
    BY <1>1, Steady, Untouched
  <2>4. Typed' /\ OnlyOf(p) /\ ExcusesStay
    BY <1>1, <2>1, <2>2, <2>3 DEF Typed, OnlyOf, WellExcused
  <2>5. State(p)' = "there" => There(p)'
    BY <2>3 DEF Kept, ListedHasStock, State, There
  <2>. QED
    BY <1>1, <1>3, <2>1, <2>2, <2>3, <2>4, <2>5, WorkKeeps DEF Creating
<1>. QED
  BY <1>1, <1>2, <1>3, Carried, CatalogueAssumption DEF Crash


-----------------------------------------------------------------------------
(* The steps of inventory, and all steps *)

LEMMA StocksGrow ==
    ASSUME Typed, Kept, Typed', UNCHANGED <<product, request, excuse>>, late' \subseteq late,
           \A y \in Products : There(y) => There(y)',
           \A y \in Products : There(y)' =>
               \/ There(y)
               \/ State(y) # "none" /\ excuse[y] # {} /\ \A q \in Requests : Provisions(q) => Of(q) # y
    PROVE  Kept'
<1>1. /\ \A x \in Requests : request[x].pc \notin {"idle", "insert"} => Of(x) \in Products
      /\ \A c \in late : c.product \in Products
  BY Worked
<1>2. \A x \in Requests : request'[x] = request[x] /\ Of(x)' = Of(x)
  BY DEF Of
<1>3. \A y \in Products : State(y)' = State(y) /\ excuse'[y] = excuse[y] /\ (Listed(y)' <=> Listed(y))
  BY DEF State, Listed
<1>4. Roles'
  BY DEF Kept, Roles, State, Of
<1>5. Unstarted'
  <2>1. \A y \in Products : State(y)' = "none" => ~There(y)'
    BY <1>3 DEF Kept, Unstarted
  <2>2. \A c \in late' : State(c.product)' # "none" /\ excuse'[c.product] # {}
    BY DEF Kept, Unstarted, State
  <2>3. \A x \in Requests : request'[x].pc = "provision" =>
            /\ ~There(Of(x))' /\ \A c \in late' : c.product # Of(x)'
            /\ ~Listed(Of(x))' => excuse'[Of(x)'] # {}
    BY <1>1, <1>2 DEF Kept, Unstarted, Provisions, There, Listed
  <2>4. \A x, q \in Requests :
            request'[x].pc = "delete" /\ request'[x].item /\ request'[q].pc = "provision" => Of(x)' # Of(q)'
    BY <1>2 DEF Kept, Unstarted
  <2>. QED
    BY <2>1, <2>2, <2>3, <2>4 DEF Unstarted
<1>6. Tidy'
  <2>1. \A y \in Products : Tended(y)' <=> Tended(y)
    BY <1>2 DEF Tended
  <2>2. \A y \in Products : There(y)' /\ ~Listed(y)' => Tended(y)' \/ excuse'[y] # {}
    BY <1>3, <2>1 DEF Kept, Tidy
  <2>3. \A x \in Requests : request'[x].pc = "undo" => ~There(Of(x))' \/ excuse'[Of(x)'] # {}
    BY <1>1, <1>2 DEF Kept, Tidy, There
  <2>. QED
    BY <2>2, <2>3 DEF Tidy
<1>7. Pursued'
  <2>1. \A y \in Products : Created(y)' <=> Created(y)
    BY <1>2 DEF Created
  <2>. QED
    BY <1>3, <2>1 DEF Kept, Pursued
<1>8. ListedHasStock'
  BY DEF Kept, ListedHasStock, There
<1>. QED
  BY <1>4, <1>5, <1>6, <1>7, <1>8 DEF Kept

LEMMA CarriedOutLateKeeps ==
    ASSUME Typed, Kept, NEW c \in late, CarriedOutLate(c)
    PROVE  Typed' /\ Kept'
<1>1. UNCHANGED <<product, request, excuse>> /\ late' \subseteq late /\ Stocked(c.product, c.sku)
  BY DEF CarriedOutLate
<1>2. c.product \in Products /\ c.sku \in Skus
  BY DEF Typed
<1>3. /\ StocksOK' /\ \A y \in Products : There(y) => There(y)'
      /\ \A y \in Products \ {c.product} : There(y)' <=> There(y)
  BY <1>1, <1>2, StockedThere
<1>4. Typed'
  BY <1>1, <1>3 DEF Typed, ProductsOK, RequestsOK
<1>5. /\ State(c.product) # "none" /\ excuse[c.product] # {}
      /\ \A q \in Requests : Provisions(q) => Of(q) # c.product
  BY DEF Kept, Unstarted, Provisions
<1>. QED
  BY <1>1, <1>3, <1>4, <1>5, StocksGrow

LEMMA StockMovesKeeps ==
    ASSUME Typed, Kept, NEW p \in Products, StockMoves(p)
    PROVE  Typed' /\ Kept'
<1>1. UNCHANGED <<product, late, request, excuse>> /\ stock[p].there
  BY DEF StockMoves
<1>2. PICK q \in 0 .. MaxUnits, v \in 0 .. MaxUnits :
          stock' = [stock EXCEPT ![p].quantity = q, ![p].reserved = v]
  BY DEF StockMoves
<1>3. stock \in [Products -> StockRow] /\ \A y \in Products : GoodStock(stock[y])
  BY DEF Typed, StocksOK
<1>4. /\ stock' \in [Products -> StockRow] /\ \A y \in Products \ {p} : stock'[y] = stock[y]
      /\ stock'[p].there = stock[p].there /\ stock'[p].sku = stock[p].sku
  BY <1>2, <1>3 DEF StockRow
<1>5. GoodStock(stock[p])'
  BY <1>3, <1>4 DEF GoodStock
<1>6. Typed' /\ \A y \in Products : There(y)' <=> There(y)
  BY <1>1, <1>3, <1>4, <1>5 DEF Typed, ProductsOK, StocksOK, RequestsOK, There
<1>. QED
  BY <1>1, <1>6, StocksGrow

LEMMA StutterKeeps ==
    ASSUME Typed, Kept, UNCHANGED vars
    PROVE  Typed' /\ Kept'
<1>1. Typed' /\ \A y \in Products : There(y)' <=> There(y)
  BY DEF vars, Typed, ProductsOK, StocksOK, RequestsOK, There
<1>. QED
  BY <1>1, StocksGrow DEF vars

LEMMA InitSound == Init => Sound
<1>. SUFFICES ASSUME Init PROVE Sound
  OBVIOUS
<1>1. \A p \in Products : State(p) = "none" /\ ~There(p)
  BY DEF Init, NoRow, NoStock, State, There
<1>2. \A r \in Requests : request[r] = Idle /\ request[r].pc = "idle"
  BY DEF Init, Idle, AtWork
<1>3. ProductsOK /\ StocksOK
  BY CatalogueAssumption DEF Init, ProductsOK, StocksOK, GoodProduct, GoodStock, ProductRow, StockRow, NoRow, NoStock
<1>4. RequestsOK
  BY DEF Init, RequestsOK, Carries, Req, Idle, AtWork
<1>5. Typed
  BY <1>3, <1>4 DEF Init, Typed
<1>6. Roles /\ Tidy
  BY <1>1, <1>2 DEF Roles, Tidy, Creating
<1>7. Unstarted
  BY <1>1, <1>2 DEF Init, Unstarted
<1>8. Pursued /\ ListedHasStock
  BY <1>1 DEF Pursued, ListedHasStock, State
<1>. QED
  BY <1>5, <1>6, <1>7, <1>8 DEF Sound, Kept

LEMMA NextSound == Sound /\ [Next]_vars => Sound'
<1>. SUFFICES ASSUME Typed, Kept, [Next]_vars PROVE Typed' /\ Kept'
  BY DEF Sound
<1>1. CASE \E r \in Requests, s \in Skus : Create(r, s)
  <2>1. PICK r \in Requests, s \in Skus : Create(r, s)
    BY <1>1
  <2>2. PICK p \in Products : TRUE
    BY <2>1 DEF Create
  <2>. QED
    BY <2>1, <2>2, ArrivalKeeps
<1>2. CASE \E r \in Requests, s \in Skus, p \in Products : Update(r, p, s)
  BY <1>2, ArrivalKeeps
<1>3. CASE \E r \in Requests, p \in Products : Remove(r, p) \/ ReadProduct(r, p)
  <2>1. PICK r \in Requests, p \in Products : Remove(r, p) \/ ReadProduct(r, p)
    BY <1>3
  <2>2. Skus # {}
    BY <2>1 DEF Remove, ReadProduct, Listed, Typed, ProductsOK, GoodProduct
  <2>. QED
    BY <2>1, <2>2, ArrivalKeeps
<1>4. CASE \E r \in Requests : Step(r)
  BY <1>4, InsertKeeps, ProvisionKeeps, ProvisionFailsKeeps, AskKeeps, DiscardKeeps, UndoKeeps, ReadStockKeeps,
     PatchKeeps, SaveKeeps, UnpatchKeeps, CheckKeeps, DeleteProductKeeps, CleanupKeeps, LookUpKeeps, AnswerKeeps
     DEF Step
<1>5. CASE \E r \in Requests : Crash(r)
  BY <1>5, CrashKeeps
<1>6. CASE \E c \in late : CarriedOutLate(c)
  BY <1>6, CarriedOutLateKeeps
<1>7. CASE \E p \in Products : StockMoves(p)
  BY <1>7, StockMovesKeeps
<1>8. CASE UNCHANGED vars
  BY <1>8, StutterKeeps
<1>. QED
  BY <1>1, <1>2, <1>3, <1>4, <1>5, <1>6, <1>7, <1>8 DEF Next


LEMMA AlwaysSound == Spec => []Sound
  BY InitSound, NextSound, PTL DEF Spec

-----------------------------------------------------------------------------
(* Theorems *)

\* Every variable has its type, and a record is there just when it has a SKU.
THEOREM TypeCorrect == Spec => []TypeOK
<1>1. Sound => TypeOK
  BY DEF Sound, Typed, TypeOK, ProductsOK, StocksOK, RequestsOK, GoodStock, ProductRow, StockRow, Req
<1>. QED
  BY <1>1, AlwaysSound, PTL

\* A product whose creation was reported keeps its stock record for as long as it is
\* listed: remove takes the product away before the record, and a compensation belongs
\* to the one creator, who has not reported.
THEOREM ListedKeepsStock == Spec => []ListedHasStock
<1>1. Sound => ListedHasStock
  BY DEF Sound, Kept
<1>. QED
  BY <1>1, AlwaysSound, PTL

\* A record that outlived its product has an excuse once nobody works on it: discardStock
\* asks before it infers, and what it could not do it logs.
THEOREM OrphansHaveReasons == Spec => []OrphansExplained
<1>1. Sound => OrphansExplained
  BY DEF Sound, Kept, Tidy, Tended, OrphansExplained, Settled, There
<1>. QED
  BY <1>1, AlwaysSound, PTL

\* A creation that failed leaves no product behind, but for what was logged or died.
THEOREM CleanRefusal == Spec => []RefusalIsClean
<1>1. Sound => RefusalIsClean
  BY DEF Sound, Kept, Pursued, Created, RefusalIsClean, Settled, State
<1>. QED
  BY <1>1, AlwaysSound, PTL

\* A step of one request moves no other.
LEMMA OneMoves ==
    ASSUME Typed, NEW q \in Requests, NEW r \in Requests \ {q},
           \/ \E s \in Skus : Create(q, s) \/ \E p \in Products : Update(q, p, s)
           \/ \E p \in Products : Remove(q, p) \/ ReadProduct(q, p)
           \/ Step(q) \/ Crash(q)
    PROVE  request'[r] = request[r]
<1>1. request \in [Requests -> Req]
  BY DEF Typed, RequestsOK
<1>2. \A pc : To(q, pc) => request'[r] = request[r]
  BY <1>1 DEF To
<1>3. Done(q) => request'[r] = request[r]
  BY <1>1 DEF Done
<1>4. ASSUME \/ \E s \in Skus : Create(q, s) \/ \E p \in Products : Update(q, p, s)
             \/ \E p \in Products : Remove(q, p) \/ ReadProduct(q, p)
      PROVE  request'[r] = request[r]
  BY <1>1, <1>4 DEF Create, Update, Remove, ReadProduct
<1>5. ASSUME Insert(q) \/ ReadStock(q) \/ Check(q) PROVE request'[r] = request[r]
  BY <1>1, <1>3, <1>5 DEF Insert, ReadStock, Check
<1>6. ASSUME Provision(q) \/ ProvisionFails(q) \/ Ask(q) \/ Discard(q) \/ Undo(q) PROVE request'[r] = request[r]
  BY <1>2, <1>3, <1>6 DEF Provision, ProvisionFails, GiveUp, Ask, Discard, Undo
<1>7. ASSUME Patch(q) \/ Save(q) \/ Unpatch(q) \/ DeleteProduct(q) \/ Cleanup(q) PROVE request'[r] = request[r]
  BY <1>2, <1>3, <1>7 DEF Patch, Save, Unpatch, DeleteProduct, Cleanup
<1>8. ASSUME LookUpStock(q) \/ Answer(q) \/ Crash(q) PROVE request'[r] = request[r]
  BY <1>2, <1>3, <1>8 DEF LookUpStock, Answer, Crash
<1>. QED
  BY <1>4, <1>5, <1>6, <1>7, <1>8 DEF Step

\* What a read is answered says of the stock what was so.
LEMMA LookUpHonest ==
    ASSUME Typed, ListedHasStock, NEW r \in Requests, At(r, "lookUp"), LookUpStock(r)
    PROVE  /\ request'[r].pc = "OUT_OF_STOCK" =>
                  stock[Of(r)].there /\ stock[Of(r)].quantity = stock[Of(r)].reserved
           /\ request'[r].pc = "UNPROVISIONED" => product[Of(r)].state # "there"
<1>1. request \in [Requests -> Req] /\ Of(r) \in Products
  BY Carried DEF Typed, RequestsOK, At
<1>2. PICK low \in BOOLEAN :
          \/ To(r, ToStockStatus(Of(r), stock[Of(r)].there, TRUE, low))
          \/ To(r, ToStockStatus(Of(r), FALSE, FALSE, low))
  BY DEF LookUpStock, At
<1>3. \A pc : To(r, pc) => request'[r].pc = pc
  BY <1>1 DEF To, Req
<1>4. CASE To(r, ToStockStatus(Of(r), FALSE, FALSE, low))
  BY <1>3, <1>4 DEF ToStockStatus
<1>5. CASE To(r, ToStockStatus(Of(r), stock[Of(r)].there, TRUE, low))
  <2>1. request'[r].pc = ToStockStatus(Of(r), stock[Of(r)].there, TRUE, low)
    BY <1>3, <1>5
  <2>2. request'[r].pc = "OUT_OF_STOCK" => stock[Of(r)].there /\ stock[Of(r)].quantity = stock[Of(r)].reserved
    BY <2>1 DEF ToStockStatus
  <2>3. request'[r].pc = "UNPROVISIONED" => ~stock[Of(r)].there
    BY <2>1 DEF ToStockStatus
  <2>. QED
    BY <1>1, <2>2, <2>3 DEF ListedHasStock
<1>. QED
  BY <1>2, <1>4, <1>5

\* A reader is never told of an outage that there is nothing to sell, nor of a listed
\* product whose creation was reported that it has no record.
THEOREM HonestReads == Spec => ReadsAreHonest
<1>. DEFINE Honest(r) ==
         At(r, "lookUp") =>
             /\ request'[r].pc = "OUT_OF_STOCK" =>
                    stock[Of(r)].there /\ stock[Of(r)].quantity = stock[Of(r)].reserved
             /\ request'[r].pc = "UNPROVISIONED" => product[Of(r)].state # "there"
<1>1. ASSUME Typed, ListedHasStock, Next, NEW r \in Requests, At(r, "lookUp") PROVE Honest(r)
  <2>1. CASE request'[r] = request[r]
    BY <1>1, <2>1 DEF At
  <2>2. CASE \E q \in Requests :
                 \/ \E s \in Skus : Create(q, s) \/ \E p \in Products : Update(q, p, s)
                 \/ \E p \in Products : Remove(q, p) \/ ReadProduct(q, p)
                 \/ Step(q) \/ Crash(q)
    <3>1. PICK q \in Requests :
                 \/ \E s \in Skus : Create(q, s) \/ \E p \in Products : Update(q, p, s)
                 \/ \E p \in Products : Remove(q, p) \/ ReadProduct(q, p)
                 \/ Step(q) \/ Crash(q)
      BY <2>2
    <3>2. CASE q # r
      BY <1>1, <2>1, <3>1, <3>2, OneMoves
    <3>3. CASE q = r
      <4>1. LookUpStock(r) \/ Done(r)
        BY <1>1, <3>1, <3>3 DEF At, Create, Update, Remove, ReadProduct, Step, Crash, Insert, Provision,
           ProvisionFails, Ask, Discard, Undo, ReadStock, Patch, Save, Unpatch, Check, DeleteProduct, Cleanup,
           Answer, StockStatuses
      <4>2. Done(r) => request'[r].pc = "idle"
        BY <1>1, Ends DEF Typed
      <4>. QED
        BY <1>1, <4>1, <4>2, LookUpHonest
    <3>. QED
      BY <3>2, <3>3
  <2>. QED
    BY <1>1, <2>1, <2>2 DEF Next, CarriedOutLate, StockMoves
<1>2. Sound /\ [Next]_vars => [\A r \in Requests : Honest(r)]_vars
  BY <1>1 DEF Sound, Kept
<1>3. (\A r \in Requests : Honest(r)) <=>
      \A r \in Requests : At(r, "lookUp") =>
           /\ request'[r].pc = "OUT_OF_STOCK" => stock[Of(r)].there /\ stock[Of(r)].quantity = stock[Of(r)].reserved
           /\ request'[r].pc = "UNPROVISIONED" => product[Of(r)].state # "there"
  OBVIOUS
<1>. HIDE DEF Honest
<1>. QED
  BY <1>2, <1>3, AlwaysSound, PTL DEF Spec, ReadsAreHonest

===============================================================================
