--------------------------------- MODULE Cart ---------------------------------
(***************************************************************************)
(* The cart service: carts in Redis, the units they hold in the inventory  *)
(* service, and the handlers that move both.                               *)
(*                                                                         *)
(* A process is one handler invocation of any replica, stepping once per   *)
(* await that reads or writes shared state: a Redis command or script, or  *)
(* an inventory call. Inventory keeps one reserved counter per product; the *)
(* ghost hold splits it by reference, as its ledger does. Time is left out: *)
(* a TTL may pass at any moment the code does not rule out.                *)
(***************************************************************************)
EXTENDS Integers, Sequences, FiniteSets

CONSTANTS
    Carts,          \* cart session ids
    Orders,         \* order ids a checkout can name
    Products,
    Procs,          \* handler invocations
    Sweeper,        \* the process that runs the sweep
    Replicas,       \* bound: subscribers that an expiry event reaches
    Units,          \* units of each product on hand
    MaxLine,        \* bound: units a request may name per line
    MaxLines,       \* MAX_BULK_LINES: lines a cart may have
    MaxQueue,       \* bound: releases waiting at the broker
    Transports,     \* the values of INVENTORY_DISPATCH_TRANSPORT to look at
    Ops,            \* the requests that clients make
    Faults,         \* what may fail
    Nobody,         \* a lock nobody holds
    Gone            \* the token of a holder that died with the lock

ASSUME CartAssumption ==
    /\ Units \in Nat /\ MaxLine \in Nat /\ MaxLines \in Nat /\ MaxQueue \in Nat
    /\ Replicas \in Nat
    /\ Sweeper \in Procs
    /\ Transports \subseteq {"http", "amqp"}
    /\ Ops \subseteq {"set", "view", "checkout", "abandon"}
    /\ Faults \subseteq {"unreachable", "lostReply", "redis", "crash", "lapse", "slow", "grace"}
    /\ Nobody \notin Procs /\ Gone \notin Procs /\ Nobody # Gone
    /\ Carts \cap Orders = {}

VARIABLES
    issued,         \* session ids handed out: a uuid is never drawn twice
    session,        \* carts whose session sentinel is alive
    items,          \* cart -> units per product in its hash
    due,            \* carts in the sweeper's index, scored with the end of their session
    early,          \* those scored with a retry instead
    notices,        \* cart -> replicas that its expiry event may still reach
    batch,          \* carts the running sweep has read from the index and not reached
    writeLock,      \* cart -> holder of cart:<id>:lock
    releaseLock,    \* cart -> holder of the release lock
    transport,      \* how releases travel, fixed when the service is deployed
    reserved,       \* inventory: product -> units reserved
    queue,          \* broker: releases published and not yet consumed
    deadLetters,    \* references of the releases that inventory refused
    proc,           \* process -> where its handler is
    hold,           \* ghost: reference -> units reserved less units released under it
    logged          \* ghost: carts logged as out of step with inventory

index == <<due, early>>
redis == <<issued, session, items, index, notices, batch>>
locks == <<writeLock, releaseLock>>
stock == <<transport, reserved, queue, deadLetters, hold>>
vars == <<redis, locks, stock, proc, logged>>

Refs == Carts \cup Orders

(* Lines: units per product, zero for a product that is not listed. *)
Zero == [p \in Products |-> 0]
Plus(a, b) == [p \in Products |-> a[p] + b[p]]
Minus(a, b) == [p \in Products |-> a[p] - b[p]]
Surplus(a, b) == [p \in Products |-> IF a[p] > b[p] THEN a[p] - b[p] ELSE 0]
Listed(a) == {p \in Products : a[p] > 0}

Idle == [op |-> "none", pc |-> "idle", cart |-> Nobody, ref |-> Nobody,
         lines |-> Zero, reserve |-> Zero, release |-> Zero]

Init ==
    /\ issued = {} /\ session = {} /\ due = {} /\ early = {} /\ batch = {}
    /\ notices = [c \in Carts |-> 0]
    /\ items = [c \in Carts |-> Zero]
    /\ writeLock = [c \in Carts |-> Nobody]
    /\ releaseLock = [c \in Carts |-> Nobody]
    /\ transport \in Transports
    /\ reserved = Zero
    /\ queue = <<>>
    /\ deadLetters = {}
    /\ proc = [p \in Procs |-> Idle]
    /\ hold = [r \in Refs |-> Zero]
    /\ logged = {}

\* What a release is run for.
Causes == {"expired", "swept", "abandoned"}

At(p, pc) == proc[p].pc = pc
Go(p, pc) == proc' = [proc EXCEPT ![p].pc = pc]

\* The work is done or has thrown: what is left is the finally blocks.
End(p) == proc' = [proc EXCEPT ![p] = [Idle EXCEPT !.op = proc[p].op, !.cart = proc[p].cart,
                                                   !.pc = "unlock"]]

-----------------------------------------------------------------------------
(* The inventory calls. A bulk call moves every line or none. *)

CanReserve(lines) == \A x \in Products : lines[x] <= Units - reserved[x]

CanRelease(lines) == \A x \in Products : lines[x] <= reserved[x]

Reserve(ref, lines) ==
    /\ CanReserve(lines)
    /\ reserved' = Plus(reserved, lines)
    /\ hold' = [hold EXCEPT ![ref] = Plus(@, lines)]
    /\ UNCHANGED <<transport, queue, deadLetters>>

Release(ref, lines) ==
    /\ CanRelease(lines)
    /\ reserved' = Minus(reserved, lines)
    /\ hold' = [hold EXCEPT ![ref] = Minus(@, lines)]
    /\ UNCHANGED <<transport, queue, deadLetters>>

\* One HTTP call and how its caller sees it end: "ok", "refused" (a 409), or
\* "error" (unreachable, timed out, 5xx), after which it may or may not have
\* been applied.
HttpReserve(ref, lines, outcome) ==
    \/ outcome = "ok" /\ Reserve(ref, lines)
    \/ outcome = "refused" /\ ~CanReserve(lines) /\ UNCHANGED stock
    \/ outcome = "error" /\ "unreachable" \in Faults /\ UNCHANGED stock
    \/ outcome = "error" /\ "lostReply" \in Faults /\ Reserve(ref, lines)

HttpRelease(ref, lines, outcome) ==
    \/ outcome = "ok" /\ Release(ref, lines)
    \/ outcome = "refused" /\ ~CanRelease(lines) /\ UNCHANGED stock
    \/ outcome = "error" /\ "unreachable" \in Faults /\ UNCHANGED stock
    \/ outcome = "error" /\ "lostReply" \in Faults /\ Release(ref, lines)

\* A release published on a confirm channel: confirmed, not taken by the broker,
\* or taken without the confirm coming back in time.
Enqueue(ref, lines) ==
    /\ Len(queue) < MaxQueue
    /\ queue' = Append(queue, [ref |-> ref, lines |-> lines])
    /\ UNCHANGED <<transport, reserved, deadLetters, hold>>

AmqpRelease(ref, lines, outcome) ==
    \/ outcome = "ok" /\ Enqueue(ref, lines)
    \/ outcome = "error" /\ "unreachable" \in Faults /\ UNCHANGED stock
    \/ outcome = "error" /\ "lostReply" \in Faults /\ Enqueue(ref, lines)

\* INVENTORY_DISPATCH: whichever transport is configured.
DispatchRelease(ref, lines, outcome) ==
    \/ transport = "http" /\ HttpRelease(ref, lines, outcome)
    \/ transport = "amqp" /\ AmqpRelease(ref, lines, outcome)

Outcomes == {"ok", "refused", "error"}

\* The inventory consumer takes a message, in any order: applied, or refused and
\* dead-lettered. Redelivery is Inventory's business (its processed ids).
Consume(k) ==
    LET m == queue[k] IN
    /\ queue' = [j \in 1 .. Len(queue) - 1 |-> IF j < k THEN queue[j] ELSE queue[j + 1]]
    /\ \/ /\ CanRelease(m.lines)
          /\ reserved' = Minus(reserved, m.lines)
          /\ hold' = [hold EXCEPT ![m.ref] = Minus(@, m.lines)]
          /\ UNCHANGED deadLetters
       \/ /\ ~CanRelease(m.lines)
          /\ deadLetters' = deadLetters \cup {m.ref}
          /\ UNCHANGED <<reserved, hold>>
    /\ UNCHANGED <<redis, locks, transport, proc, logged>>

-----------------------------------------------------------------------------
(* Sessions *)

\* A cart's entry in the index: set with its session's TTL, or taken out.
Score(c) == due' = due \cup {c} /\ early' = early \ {c}
Unscore(c) == due' = due \ {c} /\ early' = early \ {c}

\* CART_TOUCH: a live session slides out, and its cart is scored again.
Touched(c) ==
    /\ c \in session
    /\ IF Listed(items[c]) # {} THEN Score(c) ELSE UNCHANGED index

\* GET /cart.
View(c) ==
    /\ "view" \in Ops
    /\ Touched(c)
    /\ UNCHANGED <<issued, session, items, notices, batch, locks, stock, proc, logged>>

Start(p, job) ==
    /\ At(p, "idle")
    /\ proc' = [proc EXCEPT ![p] = job]
    /\ UNCHANGED <<locks, stock, logged>>

\* POST /cart: the claimed session if it is still alive, or a new one.
SetItems(p, c, requested) ==
    /\ "set" \in Ops
    /\ p # Sweeper
    /\ \/ Touched(c) /\ UNCHANGED <<issued, session, items, notices, batch>>
       \/ /\ c \notin issued
          /\ issued' = issued \cup {c}
          /\ session' = session \cup {c}
          /\ UNCHANGED <<items, index, notices, batch>>
    /\ Start(p, [Idle EXCEPT !.op = "set", !.pc = "lock", !.cart = c, !.ref = c,
                             !.lines = requested])

\* POST /cart/checkout, once per order.
Checkout(p, c, o) ==
    /\ "checkout" \in Ops
    /\ p # Sweeper
    /\ \A q \in Procs : proc[q].ref # o
    /\ hold[o] = Zero
    /\ Touched(c)
    /\ UNCHANGED <<issued, session, items, notices, batch>>
    /\ Start(p, [Idle EXCEPT !.op = "checkout", !.pc = "lock", !.cart = c, !.ref = o])

ReleaseOf(c, cause) ==
    [Idle EXCEPT !.op = cause, !.pc = "releaseLock", !.cart = c, !.ref = c]

\* DELETE /cart: no liveness check.
Abandon(p, c) ==
    /\ "abandon" \in Ops
    /\ p # Sweeper
    /\ c \in issued
    /\ Start(p, ReleaseOf(c, "abandoned"))
    /\ UNCHANGED redis

\* The session's expiry event reaches a replica ...
OnExpiry(p, c) ==
    /\ p # Sweeper
    /\ notices[c] > 0
    /\ notices' = [notices EXCEPT ![c] = @ - 1]
    /\ Start(p, ReleaseOf(c, "expired"))
    /\ UNCHANGED <<issued, session, items, index, batch>>

\* ... or is lost on it.
DropNotice(c) ==
    /\ notices[c] > 0
    /\ notices' = [notices EXCEPT ![c] = @ - 1]
    /\ UNCHANGED <<issued, session, items, index, batch, locks, stock, proc, logged>>

\* A sweep reads entries that have fallen due, unless the last sweep still runs: a
\* session's once it has ended, a retry's at any time.
DueBefore(carts) ==
    /\ batch = {} /\ At(Sweeper, "idle")
    /\ carts # {} /\ carts \subseteq (due \ session) \cup early
    /\ batch' = carts
    /\ UNCHANGED <<issued, session, items, index, notices, locks, stock, proc, logged>>

\* The sweep reaches one cart of its batch: the index is a hint, so a live cart is
\* scored again and a dead one released.
Sweep(c) ==
    /\ c \in batch
    /\ At(Sweeper, "idle")
    /\ batch' = batch \ {c}
    /\ \/ /\ c \in session
          /\ Score(c)
          /\ UNCHANGED <<proc, locks, stock, logged>>
       \/ /\ c \notin session
          /\ Start(Sweeper, ReleaseOf(c, "swept"))
          /\ UNCHANGED index
    /\ UNCHANGED <<issued, session, items, notices>>

\* A sweep that dies between two carts, or fails on a Redis command, leaves the rest.
SweepFails ==
    /\ Faults \cap {"redis", "crash"} # {}
    /\ batch # {}
    /\ batch' = {}
    /\ UNCHANGED <<issued, session, items, index, notices, locks, stock, proc, logged>>

\* The session's TTL passes. A handler that has touched it finishes first, unless
\* it is slower than CART_TTL_SECONDS.
Expire(c) ==
    /\ c \in session
    /\ "slow" \in Faults \/ \A q \in Procs : proc[q].cart = c => proc[q].op \notin {"set", "checkout"}
    /\ session' = session \ {c}
    /\ notices' = [notices EXCEPT ![c] = Replicas]
    /\ UNCHANGED <<issued, items, index, batch, locks, stock, proc, logged>>

\* The hash outlives its session by CART_TTL_GRACE_SECONDS and no longer.
ItemsLapse(c) ==
    /\ "grace" \in Faults
    /\ c \notin session
    /\ Listed(items[c]) # {}
    /\ items' = [items EXCEPT ![c] = Zero]
    /\ UNCHANGED <<issued, session, index, notices, batch, locks, stock, proc, logged>>

-----------------------------------------------------------------------------
(* Locks: SET NX PX to take one, a compare-and-delete script to give it back, *)
(* so a holder whose lock lapsed never deletes the lock of a later one.       *)

\* acquire: the retries are the waiting, and a busy lock the end of them.
Free(lock, p) == lock[proc[p].cart] = Nobody
Acquired(lock, p) == [lock EXCEPT ![proc[p].cart] = p]

\* setLines and checkout take the write lock; without it they answer 503.
LockCart(p) ==
    /\ At(p, "lock")
    /\ \/ /\ Free(writeLock, p)
          /\ writeLock' = Acquired(writeLock, p)
          /\ Go(p, IF proc[p].op = "set" THEN "plan" ELSE "read")
       \/ /\ ~Free(writeLock, p)
          /\ proc' = [proc EXCEPT ![p] = Idle]
          /\ UNCHANGED writeLock
    /\ UNCHANGED <<redis, releaseLock, stock, logged>>

\* releaseSession takes the release lock with a single attempt ...
LockRelease(p) ==
    /\ At(p, "releaseLock")
    /\ \/ /\ Free(releaseLock, p)
          /\ releaseLock' = Acquired(releaseLock, p)
          /\ Go(p, "writeLock")
       \/ /\ ~Free(releaseLock, p)
          /\ proc' = [proc EXCEPT ![p] = Idle]
          /\ UNCHANGED releaseLock
    /\ UNCHANGED <<redis, writeLock, stock, logged>>

\* releaseSession with its own lock only.
LockForReleaseOwnOnly(p) ==
    /\ At(p, "writeLock")
    /\ Go(p, "take")
    /\ UNCHANGED <<redis, locks, stock, logged>>

\* ... and then the write lock, and gives up if a writer keeps it.
LockForRelease(p) ==
    /\ At(p, "writeLock")
    /\ \/ /\ Free(writeLock, p)
          /\ writeLock' = Acquired(writeLock, p)
          /\ Go(p, "take")
       \/ /\ ~Free(writeLock, p)
          /\ Go(p, "unlockRelease")
          /\ UNCHANGED writeLock
    /\ UNCHANGED <<redis, releaseLock, stock, logged>>

GivenBack(lock, p) ==
    [lock EXCEPT ![proc[p].cart] = IF @ = p THEN Nobody ELSE @]

\* A failed DEL is only logged; the key stays until its TTL passes.
LeftBehind(lock, p) ==
    [lock EXCEPT ![proc[p].cart] = IF @ = p THEN Gone ELSE @]

Unlock(p) ==
    /\ At(p, "unlock")
    /\ \/ writeLock' = GivenBack(writeLock, p)
       \/ "redis" \in Faults /\ writeLock' = LeftBehind(writeLock, p)
    /\ IF proc[p].op \in Causes THEN Go(p, "unlockRelease")
                             ELSE proc' = [proc EXCEPT ![p] = Idle]
    /\ UNCHANGED <<redis, releaseLock, stock, logged>>

UnlockRelease(p) ==
    /\ At(p, "unlockRelease")
    /\ \/ releaseLock' = GivenBack(releaseLock, p)
       \/ "redis" \in Faults /\ releaseLock' = LeftBehind(releaseLock, p)
    /\ proc' = [proc EXCEPT ![p] = Idle]
    /\ UNCHANGED <<redis, writeLock, stock, logged>>

\* A SET NX that was applied but not answered: the lock is taken for nobody.
LoseLock(p) ==
    LET c == proc[p].cart IN
    /\ "redis" \in Faults
    /\ \/ /\ At(p, "lock") /\ Free(writeLock, p)
          /\ writeLock' = [writeLock EXCEPT ![c] = Gone]
          /\ proc' = [proc EXCEPT ![p] = Idle]
          /\ UNCHANGED releaseLock
       \/ /\ At(p, "releaseLock") /\ Free(releaseLock, p)
          /\ releaseLock' = [releaseLock EXCEPT ![c] = Gone]
          /\ proc' = [proc EXCEPT ![p] = Idle]
          /\ UNCHANGED writeLock
       \/ /\ At(p, "writeLock") /\ Free(writeLock, p)
          /\ writeLock' = [writeLock EXCEPT ![c] = Gone]
          /\ Go(p, "unlockRelease")
          /\ UNCHANGED releaseLock
    /\ UNCHANGED <<redis, stock, logged>>

\* Any other Redis command that fails under the lock: the handler throws.
RedisFails(p) ==
    /\ "redis" \in Faults
    /\ proc[p].pc \in {"plan", "read", "take", "forget", "retire", "reschedule"}
    /\ End(p)
    /\ UNCHANGED <<redis, locks, stock, logged>>

\* Locks set without a TTL.
LapsesNever(holder) == FALSE

\* A lock's TTL passes: after its holder died, or while a slow holder still works.
Lapses(holder) == holder = Gone \/ (holder \in Procs /\ "lapse" \in Faults)

WriteLockLapse(c) ==
    /\ Lapses(writeLock[c])
    /\ writeLock' = [writeLock EXCEPT ![c] = Nobody]
    /\ UNCHANGED <<redis, releaseLock, stock, proc, logged>>

ReleaseLockLapse(c) ==
    /\ Lapses(releaseLock[c])
    /\ releaseLock' = [releaseLock EXCEPT ![c] = Nobody]
    /\ UNCHANGED <<redis, writeLock, stock, proc, logged>>

\* The replica dies; its locks stay until their TTL passes.
Crash(p) ==
    /\ "crash" \in Faults
    /\ ~At(p, "idle")
    /\ writeLock' = LeftBehind(writeLock, p)
    /\ releaseLock' = LeftBehind(releaseLock, p)
    /\ proc' = [proc EXCEPT ![p] = Idle]
    /\ batch' = IF p = Sweeper THEN {} ELSE batch
    /\ UNCHANGED <<issued, session, items, index, notices, stock, logged>>

-----------------------------------------------------------------------------
(* setLines: plan, reserve, release, commit, and the way back. *)

\* Where applyChanges goes next with these changes still to make.
AfterReserve(release) == IF Listed(release) # {} THEN "release" ELSE "commit"
AfterPlan(reserve, release) == IF Listed(reserve) # {} THEN "reserve" ELSE AfterReserve(release)

\* The requested quantities are absolute; the calls to inventory are deltas.
Settled(held, requested) ==
    [x \in Products |-> IF x \in DOMAIN requested THEN requested[x] ELSE held[x]]

Plan(p) ==
    LET c == proc[p].cart
        settled == Settled(items[c], proc[p].lines)
        reserve == Surplus(settled, items[c])
        release == Surplus(items[c], settled)
    IN  /\ At(p, "plan")
        /\ \/ /\ Cardinality(Listed(settled)) > MaxLines
              /\ End(p)
              /\ UNCHANGED index
           \/ /\ Cardinality(Listed(settled)) <= MaxLines
              /\ settled = items[c]
              /\ End(p)
              /\ Touched(c) \/ (c \notin session /\ UNCHANGED index)
           \/ /\ Cardinality(Listed(settled)) <= MaxLines
              /\ settled # items[c]
              /\ proc' = [proc EXCEPT ![p].pc = AfterPlan(reserve, release),
                                      ![p].lines = settled,
                                      ![p].reserve = reserve, ![p].release = release]
              /\ UNCHANGED index
        /\ UNCHANGED <<issued, session, items, notices, batch, locks, stock, logged>>

\* reserveMany; a failure means nothing of this update has landed.
ReserveLines(p) ==
    /\ At(p, "reserve")
    /\ \E outcome \in Outcomes :
           /\ HttpReserve(proc[p].ref, proc[p].reserve, outcome)
           /\ IF outcome = "ok" THEN Go(p, AfterReserve(proc[p].release)) ELSE End(p)
    /\ UNCHANGED <<redis, locks, logged>>

\* releaseMany through the dispatch; a failure unwinds the reservation only.
ReleaseLines(p) ==
    /\ At(p, "release")
    /\ \E outcome \in Outcomes :
           /\ DispatchRelease(proc[p].ref, proc[p].release, outcome)
           /\ \/ outcome = "ok" /\ Go(p, "commit")
              \/ outcome # "ok" /\ Listed(proc[p].reserve) = {} /\ End(p)
              \/ /\ outcome # "ok" /\ Listed(proc[p].reserve) # {}
                 /\ proc' = [proc EXCEPT ![p].release = Zero, ![p].pc = "undoReserve"]
    /\ UNCHANGED <<redis, locks, logged>>

\* A commit that forgets to score the cart for the sweeper.
CommittedUnscored(p) ==
    LET c == proc[p].cart
        changed == Listed(proc[p].reserve) \cup Listed(proc[p].release)
        written == [x \in Products |-> IF x \in changed THEN proc[p].lines[x] ELSE items[c][x]]
    IN  /\ items' = [items EXCEPT ![c] = written]
        /\ session' = IF Listed(written) # {} THEN session \cup {c} ELSE session \ {c}
        /\ UNCHANGED <<issued, notices, batch, index>>

\* CART_COMMIT: the changed fields, both TTLs and the due score in one script; an
\* empty cart takes its session and its due entry with it.
Committed(p) ==
    LET c == proc[p].cart
        changed == Listed(proc[p].reserve) \cup Listed(proc[p].release)
        written == [x \in Products |-> IF x \in changed THEN proc[p].lines[x] ELSE items[c][x]]
    IN  /\ items' = [items EXCEPT ![c] = written]
        /\ IF Listed(written) # {}
           THEN session' = session \cup {c} /\ Score(c)
           ELSE session' = session \ {c} /\ Unscore(c)
        /\ UNCHANGED <<issued, notices, batch>>

FirstUndo(p) == IF Listed(proc[p].reserve) # {} THEN "undoReserve" ELSE "undoRelease"

Commit(p) ==
    /\ At(p, "commit")
    /\ \/ Committed(p) /\ End(p)
       \/ "redis" \in Faults /\ UNCHANGED redis /\ Go(p, FirstUndo(p))
       \/ "redis" \in Faults /\ Committed(p) /\ Go(p, FirstUndo(p))
    /\ UNCHANGED <<locks, stock, logged>>

\* rollback, first half: what was reserved goes back; a failure is only logged.
UndoReserve(p) ==
    /\ At(p, "undoReserve")
    /\ \E outcome \in Outcomes :
           /\ DispatchRelease(proc[p].ref, proc[p].reserve, outcome)
           /\ IF outcome = "ok" /\ Listed(proc[p].release) # {} THEN Go(p, "undoRelease") ELSE End(p)
           /\ logged' = IF outcome = "ok" THEN logged ELSE logged \cup {proc[p].ref}
    /\ UNCHANGED <<redis, locks>>

\* rollback, second half: what was released is reserved again, if it still can be.
UndoRelease(p) ==
    /\ At(p, "undoRelease")
    /\ \E outcome \in Outcomes :
           /\ HttpReserve(proc[p].ref, proc[p].release, outcome)
           /\ logged' = IF outcome = "ok" THEN logged ELSE logged \cup {proc[p].ref}
    /\ End(p)
    /\ UNCHANGED <<redis, locks>>

-----------------------------------------------------------------------------
(* checkout: read the lines, move the hold to the order, discard the cart. *)

\* An empty cart is a 409.
ReadLines(p) ==
    LET lines == items[proc[p].cart] IN
    /\ At(p, "read")
    /\ \/ /\ Listed(lines) # {}
          /\ proc' = [proc EXCEPT ![p].lines = lines, ![p].pc = "transferOut"]
       \/ Listed(lines) = {} /\ End(p)
    /\ UNCHANGED <<redis, locks, stock, logged>>

TransferOut(p) ==
    /\ At(p, "transferOut")
    /\ \E outcome \in Outcomes :
           /\ HttpRelease(proc[p].cart, proc[p].lines, outcome)
           /\ IF outcome = "ok" THEN Go(p, "transferIn") ELSE End(p)
    /\ UNCHANGED <<redis, locks, logged>>

TransferIn(p) ==
    /\ At(p, "transferIn")
    /\ \E outcome \in Outcomes :
           /\ HttpReserve(proc[p].ref, proc[p].lines, outcome)
           /\ Go(p, IF outcome = "ok" THEN "discard" ELSE "restore")
    /\ UNCHANGED <<redis, locks, logged>>

\* A failed transfer that does not put the hold back.
RestoreNothing(p) ==
    /\ At(p, "restore")
    /\ End(p)
    /\ UNCHANGED <<redis, locks, stock, logged>>

\* The hold goes back to the cart; a failure is only logged.
Restore(p) ==
    /\ At(p, "restore")
    /\ \E outcome \in Outcomes :
           /\ HttpReserve(proc[p].cart, proc[p].lines, outcome)
           /\ logged' = IF outcome = "ok" THEN logged ELSE logged \cup {proc[p].cart}
    /\ End(p)
    /\ UNCHANGED <<redis, locks>>

\* CART_DISCARD: hash, session and due entry in one script.
Discarded(c) ==
    /\ items' = [items EXCEPT ![c] = Zero]
    /\ session' = session \ {c}
    /\ Unscore(c)
    /\ UNCHANGED <<issued, notices, batch>>

Discard(p) ==
    /\ At(p, "discard")
    /\ \/ Discarded(proc[p].cart)
       \/ "redis" \in Faults /\ UNCHANGED redis
    /\ End(p)
    /\ UNCHANGED <<locks, stock, logged>>

-----------------------------------------------------------------------------
(* releaseSession: take the lines, hand them back, retire the cart. *)

\* CART_TAKE: the lines stay until inventory has them back.
Take(p) ==
    LET lines == items[proc[p].cart] IN
    /\ At(p, "take")
    /\ proc' = [proc EXCEPT ![p].lines = lines,
                            ![p].pc = IF Listed(lines) # {} THEN "giveBack" ELSE "forget"]
    /\ UNCHANGED <<redis, locks, stock, logged>>

\* Nothing to hand back: off the index.
Forget(p) ==
    /\ At(p, "forget")
    /\ Unscore(proc[p].cart)
    /\ End(p)
    /\ UNCHANGED <<issued, session, items, notices, batch, locks, stock, logged>>

\* A refusal means the units are not held; any other failure is retried later.
GiveBack(p) ==
    /\ At(p, "giveBack")
    /\ \E outcome \in Outcomes :
           /\ DispatchRelease(proc[p].ref, proc[p].lines, outcome)
           /\ Go(p, IF outcome = "error" THEN "reschedule" ELSE "retire")
    /\ UNCHANGED <<redis, locks, logged>>

\* CART_FINISH: the hash and the due entry; the session is left as it is.
Retired(c) ==
    /\ items' = [items EXCEPT ![c] = Zero]
    /\ Unscore(c)
    /\ UNCHANGED <<issued, session, notices, batch>>

Retire(p) ==
    /\ At(p, "retire")
    /\ Retired(proc[p].cart)
    /\ End(p)
    /\ UNCHANGED <<locks, stock, logged>>

Reschedule(p) ==
    /\ At(p, "reschedule")
    /\ due' = due \cup {proc[p].cart}
    /\ early' = early \cup {proc[p].cart}
    /\ End(p)
    /\ UNCHANGED <<issued, session, items, notices, batch, locks, stock, logged>>

-----------------------------------------------------------------------------
RequestedLines == UNION {[S -> 0 .. MaxLine] : S \in (SUBSET Products) \ {{}}}

\* One step of the handler that p runs.
Step(p) ==
    \/ LockCart(p) \/ LockRelease(p) \/ LockForRelease(p) \/ Unlock(p) \/ UnlockRelease(p)
    \/ Plan(p) \/ ReserveLines(p) \/ ReleaseLines(p) \/ Commit(p)
    \/ UndoReserve(p) \/ UndoRelease(p)
    \/ ReadLines(p) \/ TransferOut(p) \/ TransferIn(p) \/ Restore(p) \/ Discard(p)
    \/ Take(p) \/ Forget(p) \/ GiveBack(p) \/ Retire(p) \/ Reschedule(p)

Next ==
    \/ \E p \in Procs : Step(p) \/ Crash(p) \/ LoseLock(p) \/ RedisFails(p)
    \/ \E p \in Procs, c \in Carts :
           \/ \E requested \in RequestedLines : SetItems(p, c, requested)
           \/ \E o \in Orders : Checkout(p, c, o)
           \/ Abandon(p, c)
           \/ OnExpiry(p, c)
    \/ \E c \in Carts : \/ View(c) \/ DropNotice(c) \/ Sweep(c) \/ Expire(c) \/ ItemsLapse(c)
                        \/ WriteLockLapse(c) \/ ReleaseLockLapse(c)
    \/ \E carts \in SUBSET Carts : DueBefore(carts)
    \/ SweepFails
    \/ \E k \in 1 .. Len(queue) : Consume(k)

Spec == Init /\ [][Next]_vars

\* A step of a release of c that gets it to pc.
Reaches(c, pc) == \E p \in Procs : proc[p].cart = c /\ Step(p) /\ proc'[p].pc = pc

\* Handlers run on, a dead holder's lock lapses, the consumer consumes, and the
\* sweep timer keeps firing and reads every due cart sooner or later. Inventory
\* does not fail, and replicas do not die, every single time a release of a cart gets
\* to the same point. No client need act and no expiry event need be delivered.
Fairness ==
    /\ \A p \in Procs : WF_vars(Step(p))
    /\ \A c \in Carts : /\ WF_vars(WriteLockLapse(c))
                        /\ WF_vars(ReleaseLockLapse(c))
                        /\ SF_vars(Sweep(c))
                        /\ SF_vars(\E carts \in SUBSET Carts : c \in carts /\ DueBefore(carts))
                        /\ \A pc \in {"writeLock", "take", "giveBack", "retire"} : SF_vars(Reaches(c, pc))
                        /\ SF_vars(\E p \in Procs : proc[p].cart = c /\ Retire(p))
    /\ WF_vars(\E k \in 1 .. Len(queue) : Consume(k))

FairSpec == Spec /\ Fairness

-----------------------------------------------------------------------------
(* Properties *)

PCs == {"idle", "lock", "releaseLock", "writeLock", "unlock", "unlockRelease", "plan", "reserve",
        "release", "commit", "undoReserve", "undoRelease", "read", "transferOut", "transferIn",
        "restore", "discard", "take", "forget", "giveBack", "retire", "reschedule"}
Counts == [Products -> Nat]

\* A handler's lines are what its request names until the plan has made them those of
\* the whole cart.
Job == [op : {"none", "set", "checkout"} \cup Causes, pc : PCs, cart : Carts \cup {Nobody},
        ref : Refs \cup {Nobody}, lines : Counts \cup RequestedLines, reserve : Counts,
        release : Counts]

\* Where each kind of handler can be, and what it works on there.
JobOK(j) ==
    /\ j \in Job
    /\ j.pc # "idle" => j.cart \in Carts
    /\ j.pc \notin {"idle", "unlock", "unlockRelease"} =>
           j.ref \in Refs /\ (IF j.op = "checkout" THEN j.ref \in Orders ELSE j.ref = j.cart)
    /\ j.pc \notin {"lock", "plan"} => j.lines \in Counts
    /\ j.op = "checkout" => j.lines \in Counts
    /\ j.pc \in {"plan", "reserve", "release", "commit", "undoReserve", "undoRelease"} => j.op = "set"
    /\ j.pc \in {"read", "transferOut", "transferIn", "restore", "discard"} => j.op = "checkout"
    /\ j.pc = "lock" => j.op \in {"set", "checkout"}
    /\ j.pc \in {"releaseLock", "writeLock", "take", "forget", "giveBack", "retire", "reschedule",
                 "unlockRelease"} => j.op \in Causes

RedisOK ==
    /\ issued \subseteq Carts /\ session \subseteq issued
    /\ due \subseteq issued /\ early \subseteq due /\ batch \subseteq issued
    /\ notices \in [Carts -> 0 .. Replicas] /\ \A c \in Carts \ issued : notices[c] = 0
    /\ items \in [Carts -> Counts]

\* Inventory never has more reserved than it stocks, nor less than nothing.
StockOK ==
    /\ transport \in Transports
    /\ reserved \in [Products -> 0 .. Units]
    /\ queue \in Seq([ref : Refs, lines : Counts])
    /\ deadLetters \subseteq Refs
    /\ hold \in [Refs -> [Products -> Int]]

\* Every variable has its type; every handler works on a cart that was handed out.
TypeOK ==
    /\ RedisOK /\ StockOK
    /\ writeLock \in [Carts -> Procs \cup {Nobody, Gone}]
    /\ releaseLock \in [Carts -> Procs \cup {Nobody, Gone}]
    /\ proc \in [Procs -> Job]
    /\ \A p \in Procs : JobOK(proc[p]) /\ (proc[p].pc # "idle" => proc[p].cart \in issued)
    /\ logged \subseteq Carts

\* Units of x that releases waiting at the broker will still take off ref's hold.
Waiting(q, ref, x) == UNION {{k} \X (1 .. q[k].lines[x]) : k \in {j \in 1 .. Len(q) : q[j].ref = ref}}
Pending(ref, x) == Cardinality(Waiting(queue, ref, x))

\* Whenever nobody is changing a cart, the units it lists are exactly the units
\* inventory holds for it, counting the releases still on their way (setLines,
\* checkout and releaseSession under one write lock, and their ways back) - until
\* the service logs a cart it could not put right.
CartMatchesHold ==
    logged = {} => \A c \in Carts : writeLock[c] = Nobody =>
        \A x \in Products : items[c][x] + Pending(c, x) = hold[c][x]

\* No reference gives back units it does not hold, which inventory could not tell
\* from another cart's, its counter having no owners (releaseSession and
\* transferHold never both release one hold); nor does inventory refuse a release that
\* the broker confirmed, of which nobody would be told - until a cart is logged.
NoForeignRelease ==
    logged = {} => deadLetters = {} /\ \A r \in Refs, x \in Products : hold[r][x] >= 0

\* Every cart that lists units is in the sweeper's index, so that a lost expiry
\* event, a failed release or a dead replica never leaves a hold that nothing will
\* come back for (the scripts keep hash and index in step).
SweeperFindsEveryCart == \A c \in Carts : Listed(items[c]) # {} => c \in due

\* Two handlers never work on one cart at once (withLock), though holders die and
\* lock commands fail.
Working(p) == proc[p].pc \notin {"idle", "lock", "releaseLock", "writeLock", "unlock", "unlockRelease"}
OneWriterPerCart ==
    \A p, q \in Procs : (Working(p) /\ Working(q) /\ proc[p].cart = proc[q].cart) => p = q

\* A cart whose session is over is not forgotten while it lists units, though the
\* replicas that release it die half way or lose Redis: its lines are handed back in
\* the end (sweep, releaseHeld, with no client acting and no expiry event delivered).
DeadCartsDrain ==
    \A c \in Carts : (c \in issued /\ c \notin session) ~> (items[c] = Zero \/ c \in session)

-----------------------------------------------------------------------------
(* What comments in the code say that does not hold of it *)

\* A release of units its cart does not hold changes nothing, inventory reporting a
\* conflict: said of a retried release and of a failed transfer
\* (inventory.http.adapter.ts), of a lost lock (redis.lock.ts), and of a checkout,
\* after which nobody is to release (cart.service.ts).
ReleaseOfUnheldConflicts ==
    [][\A p \in Procs : (At(p, "giveBack") /\ proc'[p].pc # "giveBack" /\ reserved' # reserved)
            => \A x \in Products : proc[p].lines[x] <= hold[proc[p].cart][x]]_vars

\* An expiry or a sweep never hands back the lines of a cart whose session is alive
\* (sweep's liveness check). The check is made before the release waits for its two
\* locks, and a request that read the cart before can start the session anew meanwhile.
NotReleasedUnderShopper ==
    [][\A p \in Procs : (At(p, "take") /\ proc'[p].pc = "giveBack" /\ proc[p].op # "abandoned")
                            => proc[p].cart \notin session]_vars

=============================================================================
