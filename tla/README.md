# Verification of practical-microservice

TLA+ models of the parts of this repository where orderings, failures and shared
state decide whether it is correct, the TLC runs that check them on small
instances, and TLAPS proofs of the results that matter most for instances of any
size. Paths below are relative to the repository root (`src/` here).

## 1. The system

Six services and a gateway, each with its own store.

| Component | State it keeps | Operations that change it | Talks to |
|---|---|---|---|
| inventory: rules, service, repository | Postgres: `inventory_items` (quantity, reserved, productId, sku), stock movement history, audit log, processed messages | create, PATCH, delete, reserve, release, fulfil, sell, receive, return, adjust, bulk reserve, bulk release (over HTTP or from a stock event with a message id) | called by cart, product |
| inventory: broker consumer | a channel on the stock-events queue | take a message, release its lines, ack, requeue or dead-letter | RabbitMQ |
| cart: service, planner, repository, Lua scripts | Redis: session sentinel, items hash, due index, write lock and release lock per cart | set lines, checkout, abandon, view (slides the TTL), release | inventory (HTTP, or AMQP for releases) |
| cart: expiry watcher | the sweep timer and the batch it works through | react to an expiry event, sweep the due index | cart service, Redis |
| cart: Redis lock | the lock keys | acquire (SET NX PX with retries), give back (compare and delete), lapse | Redis |
| cart: inventory adapters, RabbitMQ client | the broker connection | reserve, release, transferHold; publish with confirm | inventory, RabbitMQ |
| email: outbox and dispatcher | Postgres: messages with status, attempts, lock; idempotency keys | enqueue, claim a batch, mark sent, retry with backoff, mark dead, requeue, purge | mail providers |
| auth: accounts, codes, sessions, reaper | Postgres: accounts, hashed codes, refresh-token families, profile hand-offs | register, verify, login, refresh with rotation and reuse detection, logout, reset, reap | user, email |
| product: catalogue | Postgres: products | create (with its stock row), update, remove | inventory |
| user: profiles | Postgres: users | create, update, delete | called by auth |
| api-gateway | rate-limit counters | match a route policy, limit, authenticate, proxy, probe for readiness | every service |
| every process | its server, worker, pool | boot, answer probes, shut down | its dependencies |

What is hard in it:

* **one counter without owners**: inventory keeps `reserved` per product; the cart
  or order a unit is held for appears on ledger rows only. Every guarantee that a
  cart's release takes that cart's own units has to be kept by the cart service;
* **an update is several awaits**: `setLines` is a read, two network calls and a
  write, and each can fail, or be applied without its answer arriving;
* **three triggers, many replicas, two locks**: expiry event, sweep and abandon all
  release carts; every replica sees every expiry event; locks lapse;
* **concurrent database transactions** that plan from what they have read;
* **redelivery** of stock events and **out-of-order** consumption;
* **an outbox with several workers**: a claim is three statements, its lock goes
  stale under a worker still at work, and outcomes are recorded by row id alone;
* **Read Committed transactions and tokens**: refreshes, log-outs, resets and guesses
  race on rows that each of them read a moment ago, and a revocation of many rows
  does not see the one committed meanwhile;
* **products over two services**: no transaction spans them, a call can be carried
  out after its caller gave up, and each compensation can fail too;
* **channels that close under their deliveries**, on the cart's side (a publish
  waiting for its confirm) and on inventory's (a handler whose channel is gone);
* **a gateway in front of services that die**: what an answer tells its client about
  whether the request was carried out;
* **shutdown**: requests, workers and pools go down in an order, under a deadline.

What makes each component correct:

* inventory: never more promised than on hand; no lost update; a ledger that
  explains the on-hand count; one row per product; a stock event applied once;
  transactions equivalent to atomic steps;
* cart: the units a cart lists are the units inventory holds for it; nobody gives
  back what they do not hold; one writer per cart; the sweeper knows every cart
  that holds something; and a dead cart is released in the end;
* email: what the provider has accepted goes there again only where the service cannot
  know better; a row says SENT only of what the provider
  took; two workers do not hold one message; a key stands for one message; every
  message is sent or dead-lettered in the end;
* auth: a family has one live refresh token and an ended session stays ended; a code
  works once and within its ceiling; a verified account gets its profile in the end,
  unless the user service refuses its address;
* product: a listed product has its stock record, a refused creation leaves nothing,
  what is left over is accounted for, and readers are not told an outage is a sell-out;
* stock events: what the broker confirmed is never lost and is handled in the end,
  and every publish settles;
* gateway: a refusal means that no service saw the request; edge and auth service
  agree on who must be known; one budget for credentials; every request is answered;
* life cycle: the pool is closed, and a clean exit made, over nobody whom the shutdown
  could have waited for, and a shutdown ends.

`PROJECT.json` lists every component, and the hazards with the line where each
one bites and the properties that cover it.

## 2. Modules

| Module | Models |
|---|---|
| `StockRules` | `inventory.rules.ts` and the per-kind part of the service as pure operators |
| `StockLedger` | the abstract specification of the inventory service: a store where each request acts on the current rows in one step |
| `Inventory` | the service over Postgres: requests of several workers, snapshots, commits, roll-backs |
| `Cart` | the cart service: handlers of all replicas, Redis, the locks, the sweeper, inventory's counter, the broker |
| `EmailOutbox` | `POST /emails`, the dispatch cycles of several workers, the operator's retry, the purge |
| `Auth` | accounts, codes, refresh tokens, the reaper, and the hand-off of profiles to the user service |
| `Catalogue` | the product service and the inventory records it makes, renames and deletes |
| `StockEvents` | the cart's RabbitMQ client, the broker, inventory's consumer |
| `Gateway` | the middleware chain, the policy tables, the limiters, the proxy, services that fail |
| `Lifecycle` | boot, work and shutdown of each of the seven processes |
| `...Proofs` | one per module from `Inventory` to `Lifecycle`: the theorems about it |
| `MC...` | one per module: symmetry sets, views, constraints and the inputs of an instance |

How they are put together: `Inventory` implements `StockLedger` (a refinement mapping
from tables to a store, run `inventory_bulk`); `Cart` keeps of inventory one counter per
product, with the guards that a reserve and a release have in `StockLedger`, so what the
cart assumes of inventory is what inventory is shown to do. `Cart` abstracts a release
over the broker to a confirmed message that is consumed some time; that this is what
client, broker and consumer do is `ConfirmedNotLost` and `ConfirmedIsHandled` of
`StockEvents`. `Auth` holds the user service's side of the hand-off.

### Inventory

`rows`, `ledger`, `audit` and `processed` are the four tables; `job[w]` is the
request worker `w` is running with the rows it has read. `Begin*` is the start of
a request (for create and remove: the checks made outside any transaction),
`Commit*`/`Delete` the write, `Rollback` every other end. Postgres is external: a
Serializable transaction sees one snapshot, and a commit `dooms` every open
snapshot that holds a row it writes, after which that transaction can only roll
back. Every
transaction here that reads a row and commits also writes it, so these are exactly
the write conflicts Postgres refuses (`P2034`). Create and delete run at the default
level, with the unique index (`ProductFree`) and no snapshot, as in the code. Columns that no
rule looks at (SKU, warehouse, reorder level, reasons) are left out; the unique
SKU behaves as the unique productId does. `MaxInt` stands for the width of the
`Int` columns, at which a write fails. Ghosts: `applied` counts how often a
message changed stock, `promised` sums accepted reservations minus releases and
fulfilments.

### Cart

A process is one handler invocation; `proc[p].pc` names the await it has reached
and each action is the code from one await to the next, including the script it
runs (`Committed`, `Touched`, `Take`, `Retired`, `Discarded`, `GivenBack` are
`CART_COMMIT`, `CART_TOUCH`, `CART_TAKE`, `CART_FINISH`, `CART_DISCARD`,
`LOCK_RELEASE`). `session`, `items`, `due`/`early`, `writeLock`, `releaseLock` are
the Redis keys; `due` is membership of the index and `early` marks the entries that
`releaseHeld` scored with a retry time instead of the session's end. `notices[c]`
counts the replicas an expiry event may still reach (`Replicas` of them; each
delivery may be lost). `batch` is what the running sweep has read and not reached.
`reserved` is inventory's counter, `queue` the broker. The ghost `hold` splits the
counter by reference; the ghost `logged` collects the carts the service has logged
as needing repair by hand (a rollback or a restore that failed).

Time is abstracted to what TTLs rule out. A session ends when no request that has
slid it is in flight, unless `"slow"` is among the faults. An entry scored with the
TTL falls due once the session has ended; one scored with a retry at any time. A
lock lapses only after its holder is gone, unless `"lapse"` is a fault: the comment
on `CART_LOCK_TTL_MS` asks for a TTL above the worst case of an update. The items
hash lapses only with `"grace"`. The other faults: `"unreachable"` (a call fails and
is not applied), `"lostReply"` (applied, then reported as failed), `"redis"` (a
command fails; for SET NX, the commit and unlocking, also after being applied),
`"crash"` (the process dies between any two steps and its locks stay behind).

The planner (`planChanges`) is `Settled` with `Surplus` in both directions: absolute
quantities become deltas. Requests that are refused before they touch anything
(duplicate lines, malformed bodies) are left out. `transport` is which of the two
inventory adapters the deployment configures, fixed at the start.

### EmailOutbox

A row is a message id's row in `email_messages`; `cycle[c]` is a dispatch cycle of
worker `c` with what it has in hand, and its id stands for `lockedBy` together with
`lockedAt`, which `claimDue` compares both (a later cycle of the same worker does not
take over what an earlier one left: `Former`). The claim is `Select`, `Update`, `Fetch`;
`Send`, `Record` and `RecordFails` are `deliver`; `Purge` ends a tick. Backoff and
staleness are events that may come at any moment, the second also under a holder at
work. `Late` marks (as a ghost) the hands whose claim went stale or was requeued.
Rows are independent of one another, so one row and batches of one are checked, and
the order of the claim (`nextAttemptAt`) is left out. The provider is external: it
accepts a message or not, and what it then does with a second copy of one is left open
(Resend knows a copy by its `Idempotency-Key` for 24 hours, `resend.provider.ts:80`, the
console provider never). So `CopiesOnlyInDoubt` says when the service hands a message over
again that was accepted: only with an answer lost, a claim that went stale, or a row put
back by the operator (the ghost `unsure`). Left out are two cycles of one worker that claim
in the same millisecond.

### Auth

A request runs from one await to the next. Transactions run at Read Committed, so a
statement that revokes many rows is two steps (what it saw, what it changes).
`code`, `token`, `profile` are rows in the order they come into being. The look-ups
that only word an answer are merged with the step they precede. The age of a code is
fresh, cooled (past the resend cooldown) or expired, which assumes a cooldown shorter
than the TTL. Left out: login history, the mail's id, access tokens. Of the user service,
`profile` has whose profile a row is and which address it holds: it is made by the
hand-off or for a login of another provider (`PostProfile`), moved to another address
(`PatchProfile`) and removed. A creation is answered 409 for an account that has a profile
and for an address that one holds (`Conflicts`), and 422 for an address that auth takes
and the user service does not (`TooLong`: more than 150 characters). Codes are asked for
while the bound on them leaves one (`MayAsk`).

### Catalogue

`product` and `stock` are the rows on either side, `late` the provisioning calls that
inventory carries out after the product service gave up. `excuse` is a ghost: why the
two sides of a product may be out of step (a compensation that failed and was logged,
a late call, a crash, a removal that raced the creation, an insert or a removal of the
product that was committed and then answered an error, of which the service hears
nothing). Calls by others to
`DELETE /inventory/:id` are left out, and of the kinds of calls only provisioning can
be late. A page is read as each of its products is.

### StockEvents

`client` and `consumer` are the two connection state machines with their timers and
their open attempts; a delivery belongs to the channel it came on. Faults: a
connection or channel that closes, a connect that fails, a nack, a broker that loses
its disk, a database or a stock rule that refuses, a process that dies or is told to
stop; `MaxTroubles` bounds how many there are. Waiters resume in the step in which
`open` completes; half-open sockets, a dead connection adopted in the same tick and an
operator who deletes the queue are left out.

### Gateway

A path is a sequence of segments below its service's prefix; the policy tables are
written out and `RunChain` is what `route-policy.ts` compiles of them. A policy compares
the words of a path with their case, a service's router without (`verbatim` says whether
a request spells them as the table does), and a service's GET routes answer HEAD too
(`Route`); `cors()` answers every OPTIONS. The limiters' counters are one client's. A
service accepts, executes, stalls, answers garbage or dies, and the auth service declines
what its own `authenticate` does (`Declines`). `express-rate-limit` and the proxy library
are external. That the library raises its error event for a response that breaks off in
mid-body is what the comment in `service-proxy.ts` counts on, and no test shows it;
`EveryRequestAnswered` rests on it. Compression, documents, and clients that trickle a
body or hang up are left out. A `504` may also be a connect that timed out.

### Lifecycle

`svc` says which process it is; what the services start and stop, and in which order,
is data (`BootOf`, `ShutdownOf`), as they share one shape. `boot` is what is left of
`start()` in the batches between its awaits. A worker may be configured off (`"absent"`).
A request runs in two halves with a wait between them, and its client may hang up
(`hungUp`), after which `server.close` waits for its connection no longer and its handler
runs on. Inventory's `stop()` waits for deliveries no longer than its drain timeout
(`"overrun"`), and a reconnect that it overlooks may open the channel again
(`"reopened"`). `stranded` collects, as a ghost, who turned to the pool after it was
closed. The cart's closing order is its framework's, not the repository's, so
`PoolOutlivesWork` and `CleanExitCutsNothing` do not speak of it.

## 3. Runs

| Run | Checks | Instance | Distinct states |
|---|---|---|---|
| `inventory_levels` | TypeOK, StockInvariant, ReservedIsPromised, LedgerReconciles | 2 workers, 2 item ids, 1 product, every single-row request, counts up to 2, 3 ledger rows | 678,917 |
| `inventory_bulk` | AppliedOnce, OneRowPerProduct, ImplementsStockLedger | 2 workers, 2 items, 2 products, 1 redelivered message, bulk requests, reserve, create, remove, PATCH that re-points rows | 107,118 |
| `cart_holds` | CartMatchesHold, NoForeignRelease | 2 carts and 1 order over 1 unit, 2 handlers and the sweep, 2 replicas, inventory unreachable at any call, releases over HTTP or through the broker | 1,246,275 |
| `cart_faults` | SweeperFindsEveryCart, OneWriterPerCart | 1 cart, 2 products, line limit 1, every fault except lapsing locks | 1,248,411 |
| `cart_lapse` | DeadCartsDrain | 1 cart, one request at a time beside the sweep, locks lapsing under holders, crashes, lost replies, Redis failing | 36,867 |
| `email_outbox` | TypeOK, CopiesOnlyInDoubt, SentWasAccepted, OneHolder, AnswerIsForPayload, Settles | 1 row, 2 requests with one key, 2 workers, 2 attempts, 1 revival, every fault | 104,488 |
| `auth_accounts` | CodeUsedOnce, GuessesBounded, HandoffCompletes | a new account, one with an address too long and a known one, a profile of somebody else, 2 requests, every fault | 98,749 |
| `auth_sessions` | OneLivePerFamily, FailuresLock, EndedForGood | 1 account, 2 requests, 3 tokens, 2 failed logins | 1,046,145 |
| `product_catalogue` | ListedHasStock, OrphansExplained, RefusalIsClean, ReadsAreHonest | 2 products, 2 SKUs, 2 requests, every fault | about 690,500 |
| `stock_events` | ConfirmedNotLost, PublishNeverHangs, ConfirmedIsHandled | 2 messages, one of them unfit, prefetch 2, 2 faults of any kind | 110,940 |
| `gateway` | RefusedIsUntouched, EdgeMirrorsAuth, CredentialBudget, EveryRequestAnswered | 2 requests of one client over all routes that matter, some in another case, some HEAD, 1 service that fails once, 2 requests and 1 credential request per window | 429,528 |
| `lifecycle` | PoolOutlivesWork, CleanExitCutsNothing, ShutdownEnds | each of 7 services, 2 requests whose clients may hang up, its worker | 16,689 |

All pass. Why the bounds are enough for what is asked: every race in this code is
between two parties over one row, cart, account, product or message, with at most a
third that takes what they let go of. Two handlers, a sweep and a second cart on
scarce stock give all of these for carts; two workers and two requests on one row for
the outbox; two requests on one account or one pair of products. Two faults of any
kind in `stock_events` are a loss while recovering from a loss on the other side.
`MaxLine`, `MaxUnits`, `MaxMoves`, `MaxQueue`, `Replicas`, `MaxTokens`, `MaxCodes`,
`MaxProfiles`, `MaxRevivals`, `MaxTroubles`, `MaxCrashes` bound what would otherwise
grow for ever. Ids are drawn from finite sets without replacement, as uuids are, and
services idle when nobody asks anything of them, so runs stop: this is why deadlock is
not checked. `cart_faults` needs the second product so that one update reserves and
releases at once and the line limit is hit. Symmetry is used where a run states no
liveness property. The views leave out what no guard and no property of the run
reads: the ledger's rows beyond their number (`LedgerAside`), which password a session
was opened with (`PasswordsAside`), and for which of several reasons a product's rows
may disagree (`ReasonsAside`, which keeps what the properties ask). A view that is not
itself symmetric makes TLC count a few states of `product_catalogue` more or less from
one run to the next.

`NothingLogged` (in `cart_holds`) stops the exploration behind a state in which the
service has logged a cart as beyond its own repair. The properties of that run are
claims up to that log line, which is where the code itself gives up. `cart_faults` and
`cart_lapse` explore those states too.

Every module states a type invariant, `TypeOK`. The runs of `Inventory` and
`EmailOutbox` check theirs; the others hold in the same instances, if added to the
configuration, and all but that of `StockEvents` are theorems.

Each property has a mutant in `PROJECT.json`: a definition of the model changed the way
a bug would change the code (a lock not taken, a transaction at Read Committed, a claim
whose update does not repeat its predicate, a pool closed before its worker settles,
...), under which TLC finds that property violated.

## 4. Fairness

*Cart* (`DeadCartsDrain`): a handler that can step does (the event loop); a lock left
behind lapses (its TTL); the consumer consumes; the sweep timer keeps firing
(`setInterval`), so that a cart that is again and again due is read and reached some
time (`SF` on `DueBefore` and `Sweep`); and a cart's release does not fail at the same
point for ever, whichever process it is that gets there (`SF` on `Reaches(c, pc)` and
`Retire`: the lock is not busy, inventory not unreachable and Redis not failing every
time). No client need act and no expiry event arrive. A sweep may read any non-empty
set of due carts, oldest-first order being what justifies that each is read sooner or
later. A process that dies between reserving and writing the cart leaves a hold that
no key mentions (the comment on `rollback` describes the same hole for a failed
rollback), so the claim is about the lines a cart lists.

*EmailOutbox* (`Settles`): the poll timer keeps firing and clocks advance (`WF`), and
workers and database do not fail every time at one point of the way (`SF` on winning,
fetching, sending and recording a row). Of the provider nothing is assumed but that a
call ends, which its timeout sees to.

*Auth* (`HandoffCompletes`): the owner of the account signs in again and again, which
is when the code closes the gap (`SF` on a login that succeeds), and its statements
and the user service do not fail every time. Lock-outs end.

*StockEvents* (`PublishNeverHangs`, `ConfirmedIsHandled`): timers fire, connection
attempts and handlers come to an end, the broker delivers to a consumer that has room.
Nothing is assumed of the broker accepting or confirming a publish; the client's
timeout is what settles it.

*Gateway* (`EveryRequestAnswered`): the gateway's own steps, its timeouts among them,
are taken; only services outside `Frail` are assumed to answer.

*Lifecycle* (`ShutdownEnds`): the deadline timer fires. Nothing else is: a handler or
a cycle may hang for ever.

## 5. Where code and comments disagree

Each of these is a definition at the end of its module, under "What comments in the
code say that does not hold of it" (`RemovesOnlyUnreserved` in `Inventory`), or a
variation of a run; to see the counterexample, add the definition to the
configuration named.

* `RemovesOnlyUnreserved` (Inventory, `inventory_levels`): `remove` checks `reserved`
  and deletes by id in a later statement (`inventory.service.ts:134`), so a reservation
  that commits in between is deleted with the row. The root README promises a 409
  while units are reserved.
* `ReleaseOfUnheldConflicts` (Cart, `cart_holds` with `"lostReply"` or with `"crash"`):
  comments in `inventory.http.adapter.ts:85-91` and `redis.lock.ts` count on inventory
  to answer a conflict when a release is repeated. With another cart's units on the
  counter it accepts, and frees those. It comes about when a release's reply is lost,
  and when the process dies between moving a hold to the order and discarding the cart
  (`cart.service.ts:168-195`), whose expiry then gives back units that the order holds.
* `CartMatchesHold` (Cart, `cart_holds` with `"lostReply"`): a reservation that is
  applied but times out is not in `reserved` (`cart.service.ts:308`), so `rollback` does
  nothing and nothing is logged; the comment on `rollback` calls its own failure the
  one hole of the design.
* `DeadCartsDrain` (Cart, `cart_lapse` with a second handler): `releaseSession` finds
  no lines and then takes the cart off the index in a second command
  (`cart.service.ts:258`). If its lock lapses in between and another handler commits
  lines, they are off the index and no sweep finds them. `cart_lapse` has one request at
  a time.
* `NotReleasedUnderShopper` (Cart, `cart_lapse` with a second handler): the sweep checks that
  a cart's session is over before it releases the cart, but of two overlapping requests
  one can end a session whose entry is due while the other starts it anew after that
  check, and the sweep then releases the live cart's lines.
* `AttemptsBounded` (EmailOutbox, `email_outbox`): counting the attempt at claim time
  "is what stops a message that reliably crashes its handler from being retried for
  ever" (`email.repository.ts:276`), but the count is compared only by `recordFailure`,
  which a crashed handler never reaches, and `claimDue` does not look at it. The schema
  (`schema.prisma:76`) still calls the column "completed attempts".
* `OnlyCurrentPassword` (Auth, `auth_sessions`): a reset or a change "cuts every
  existing session in one transaction" (`auth.service.ts:592`), but a login that had
  compared the old password opens its session afterwards.
* `OneLiveCode` (Auth, `auth_accounts` with `MaxCodes = 2`): "at most one live code per
  account per type" (`auth.repository.ts:386`); two transactions that overlap at Read
  Committed revoke neither's new code, which doubles the ceiling of attempts.
* `ConflictMeansProfile` (Auth, `auth_accounts`): "a 409 from the user service is treated
  as success ... the profile exists" (`auth.service.ts:824`), but the user service answers
  409 for an address that somebody else's profile holds too (`user.service.ts:43-47`).
  The look-up by account then finds nothing, and the hand-off fails at every login for as
  long as the address is held. An address of 151 to 320 characters, which auth takes and
  the user service does not (`auth.schema.ts:58`, `user.schema.ts:30`), never gets a
  profile. `HandoffCompletes` excepts both.
* `SkusAgree` (Catalogue, `product_catalogue`): "a SKU change has to reach the inventory
  record too" (`product.service.ts:183`), but `readStock` answers null for an outage as
  for a product without a record, and the change then passes inventory by. For the same
  reason the answer of such an update says UNPROVISIONED in an outage, which the comment
  on `STOCK_STATUSES` rules out.
* `RejectedGotNowhere` (StockEvents, `stock_events`): "a rejection means the message did
  not get anywhere" (`rabbitmq.client.ts:129`, `messaging.types.ts:54`); a publish that
  times out waiting for its confirm may well be in the queue. The cart's retry then
  carries another message id.
* `StoppedIsTerminal` (StockEvents, `stock_events`): "stopped: Terminal"
  (`rabbitmq.consumer.ts:36`), but an `open` that is past its last check when `stop()`
  runs sets the state back to connected; the process exits soon after.

* `EdgeMirrorsEverySpelling` and `BudgetOfEverySpelling` (Gateway, `gateway`): the edge's
  table "mirrors that split" of the auth service's router, and "one shared bucket for every
  credential endpoint" (`route-policies.ts:27,42`). Both hold of paths spelled as the table
  spells them. A policy's expression tells upper from lower case (`route-policy.ts:75`),
  Express's router does not, so a path in another case is served and covered by no
  policy: the auth service still verifies the token itself, and the credential limiter
  does not count the request.
* `ReadsNeedCaller` (Gateway, `gateway`): "even reads need a caller"
  (`route-policies.ts:123`), but the policy lists GET alone, and a GET route answers HEAD.
* `PoolClosedUnderNobody` (Lifecycle, `lifecycle`): inventory's shutdown "lets the handlers
  already running settle, then closes the database pool" (`inventory/src/server.ts:52-57`),
  but `RabbitMqConsumer.stop()` gives up after 5 seconds (`rabbitmq.consumer.ts:41,130,
  309-323`), half of the shutdown's deadline, and the pool is closed under a handler
  still at work and the process exits with 0. In every service the same happens to a
  request whose client has hung up: `server.close` waits for connections, not for
  handlers. `PoolOutlivesWork` and `CleanExitCutsNothing` except just these two.

Smaller remarks: a recipient can get two copies of a message whose answer was lost, when
the retry comes after Resend's 24 hours or goes to the console provider; `transferHold`
leaves the units unowned between its two calls, as its own comment says and that of
`checkout` denies; a commit that fails after a release has to reserve again, which can
fail for lack of stock, contrary to the comment on `setLines`; and an ADJUSTMENT row
does not carry the direction that `schema.prisma` says its type carries.

## 6. Proofs

Each module from `Inventory` to `Lifecycle` has a `...Proofs` module. A theorem there
holds for any values of the constants that satisfy the module's named assumption
(`InventoryAssumption`, `CartAssumption`, ...), which TLC evaluates on every run: bounds
are naturals, sets of requests are finite where they are counted, and a placeholder
(`NoRow`, `Nobody`, `None`, ...) is not one of the values it stands beside. All of them
speak of `Spec`, none of fairness. Each rests on an inductive invariant that was checked
with TLC in the run's instance before it was proved, one lemma per action and, under it,
one step per part that the action touches.

### Inventory

`TypeCorrect` (TypeOK), `NoOversell` (StockInvariant), `NoLostUpdate`
(ReservedIsPromised), `ProductsDistinct` (OneRowPerProduct), `EventAppliedOnce`
(AppliedOnce), `HistoryAccounts` (LedgerReconciles), `Serializable`
(ImplementsStockLedger).

They rest on `Base`, proved once (`BaseInvariant`): `TypeOK`, the shape of requests in
flight (`JobShape`: which items a request addresses, that units are in range), and
`SnapshotCurrent`, the heart of the argument: a transaction that is not doomed has a
snapshot equal to the current rows. So a plan made from the snapshot is a plan made
from the current row, and what `Admits` has checked of it holds of the row that is
written (`AdmittedLevels`).
`NoLostUpdate` strengthens its property by `Promises`: ids without a row, and those
never used, have nothing promised, which is what a create starts from; its core is
`PlannedRow`, that the reserved count a rule leaves differs from the one it found by
exactly the kind's promise. `ProductsDistinct` rests on `RowWritten`: writing a row
whose product the index has found free keeps products distinct. `HistoryAccounts` says
of the ledger from the row's creation on that each entry starts where the one before it
ended (`Accounts`), which appending one entry per write preserves
(`MovementAccounts`). `Serializable` is the refinement: with the snapshot current, the
commit of every transaction is that request's one step of `StockLedger` on the rows as
they stand (a lemma per kind of commit), and every other action leaves the store alone.

### Cart

For any carts, products, handlers and replicas:

* `TypeCorrect`: `TypeOK` with `JobsOK`, under any faults: a handler is only where its
  kind can be, on a cart that was issued, and carries counts;
* `NeverTwoWriters` (OneWriterPerCart) and `NoCartForgotten` (SweeperFindsEveryCart),
  if `"lapse"` is not among the faults. With it both are false: that is what a lock with
  a TTL gives away (section 5). Their inductive form is `Guarded`: `LockHeld` (who is
  past its locks holds the cart's write lock under its own token), `ForgetsEmpty` (who is
  about to take a cart off the index knows it empty, which stays true as it holds the
  lock), and that what is listed is indexed;
* `HoldsMatchCarts` (CartMatchesHold) and `NothingForeign` (NoForeignRelease), if
  `Faults` is within `{"unreachable", "slow"}`: for any carts, orders, products, stock
  and handlers, over either transport, while no cart has been logged. The condition is
  what the design rests on: each of `"lostReply"`, `"crash"`, `"redis"`, `"grace"` and
  `"lapse"` leaves a cart that does not match its hold and that nobody has logged.

The invariant of the last two is `Matched`, with `Guarded` beside it. The cart's two
stores are never written in one step, so what is true of them always has to say what the
handler between the two has in hand:

* `Balances`: `Net`, the units that inventory holds for a cart less those that wait at
  the broker, is what the cart lists plus what the handler that holds its lock `Owes` -
  plus what it has reserved and not committed, less what it has released and not
  dropped - and nothing for a cart that nobody attends. `Owes` is a function of the
  handler's place and lines;
* `Current`: what a handler has read or planned still fits what its cart lists (`Fits`).
  Nobody else writes it, which is `LockHeld`;
* `Clean`: no message was refused, and what is reserved of a product is made up of what
  each reference holds of it (`Shared`: a set of units, each owned by one reference).
  Inventory's counter has no owners, so that a release of units a cart holds is within
  the counter needs this sum. `Pending` and the sum are cardinalities rather than folds,
  for which `FiniteSetTheorems` has the facts.

Each handler step is one lemma (`ReservePasses`, `CommitPasses`, `RestorePasses`, ...):
the step passes its cart on to its next place, having gained what the call moved
(`Hands`, `Moves`). `Handed` turns any of them into `Balances` and `Current` for every
cart, the handler's and the others; `Attended` does it for a handler that begins or ends;
`ConsumeMatches` for a message that arrives late.

### EmailOutbox

For any number of messages, workers, requests and keys, any batch and concurrency and
any faults:

* `TypeCorrect`, with `Asking` (what a request under way has brought along);
* `OneHolderAlways` (OneHolder). Its inductive form is `ClaimsHold`: a claim in
  somebody's hands that is not late is the row's own, SENDING under that cycle's lock
  and not stale. So a row that is held is not due, no `Update` wins it, and two holders
  would have to be the row's one lock;
* `SentWasAcceptedAlways`: from `SentIsTaken`, which speaks of the results in cycles'
  hands too, as these become the status of a row;
* `CopiesOnlyInDoubtAlways` (CopiesOnlyInDoubt), from `Certain`: a message that was
  accepted and is in no doubt has had its acceptance come back to the one cycle that holds
  the row, which then carries "sent", or is recorded as SENT already; and from
  `DoubtsKnown`: a hand that has become late is one of a message in doubt. No retry finds
  it due, as its row is held under that cycle's claim (`ClaimsHold`) until it is recorded;
* `AnswersAreForPayload` (AnswerIsForPayload) and `OneMessagePerKeyAlways`: from
  `Standing`: a key in use stands for a row that is there, and an answer for what its
  key stands for, so an insert, which takes an unused id under an unused key, disturbs
  no answer. The second needs two rows to be of interest and is not in a run, where
  there is one.

### Auth

For any accounts, requests, codes and tokens, any ceilings and any faults:

* `TypeCorrect`, from `Typed`: every index a request is about to use is set, and what it
  refers to was issued;
* `OneLiveToken` (OneLivePerFamily), from `Families`: a token that was issued belongs to
  an issued family, and two live tokens of a family are the same. A rotation revokes the
  token that it read in the transaction that inserts its successor, and the row's lock
  makes the second of two rotations see the first;
* `NeverRevived` (EndedForGood), an action property: `TokenEffect` describes in one
  formula what any step can do to tokens, and none of it brings a family back;
* `UsedOnce` (CodeUsedOnce): a code that is PENDING has no use behind it, and only such
  a code is consumed;
* `FewGuesses` (GuessesBounded), from `GuessesCounted`: the guesses counted and the
  requests that have passed the check and will count one are together fewer than the
  ceiling and the requests there are. The property speaks of the guesses only; that sum
  is what a step preserves, as a request enters the set while it adds nothing to the
  count, and leaves it when it does;
* `FailuresDoLock` (FailuresLock), from `FailuresCounted`, the same with the requests
  that will count a failure without locking.

### Catalogue

For any products, SKUs and requests and any faults: `TypeCorrect`, `ListedKeepsStock`
(ListedHasStock), `OrphansHaveReasons` (OrphansExplained), `CleanRefusal`
(RefusalIsClean), `HonestReads` (ReadsAreHonest, an action property). The invariant
`Sound` adds to the types who is responsible for what: a product has one creator until
it is there and who cleans up works on a product that is gone (`Roles`); before a
product is provisioned no record of it exists and no call that makes one is under way
(`Unstarted`); a record whose product is not listed is being tended or excused
(`Tidy`), and so is a product whose creation was not reported (`Pursued`). An excuse is
something the code logs or the late arrival of a call it gave up on, never a plain step.

### StockEvents

`ConfirmedStaysSomewhere` (ConfirmedNotLost), for any messages, prefetch and faults,
from `Safe`: a publish is confirmed only if the broker took the message (`Told`), a
consumer's channel and its timer exclude each other (`Linked`), a delivery that is about
to be acknowledged was handled (`Worked`), and a message that the broker took is in the
queue, with a channel, dead-lettered or handled (`Held`). Deliveries of a channel that
closes go back to the queue as they are what `Unsettled` names.

### Gateway

For any requests, whatever their clients send, any limits and any services that crash or
stall: `TypeCorrect`, `RefusedUntouched` (RefusedIsUntouched), `EdgeAgrees`
(EdgeMirrorsAuth), `OneAllowance` (CredentialBudget). `Sound` says of each request what
its place in the chain implies (`InOrder`, `Sorted`: what was forwarded has passed
authentication where a policy recognises its route as one that asks for it, and has been
counted where it must be; `Served`: what a service did, it did not decline), and that
the requests counted in a window are those the limiter's counter knows (`Accounts`). The
chain of policies is a recursive function over a table; for the auth service's two
policies it is unrolled (`AuthChain`), for the rest the proof uses only that handlers
run in order.

### Lifecycle

`TypeCorrect`, `PoolGoesLast` (PoolOutlivesWork), `NothingIsCut`
(CleanExitCutsNothing), for any requests and services. `Orderly` says what the rest of a
start or of a shutdown tells about what has happened: when the list left to close no
longer has the server on it, the server is closed and whoever still runs a request has
lost its client; without the worker on it, the worker is off and its cycle over, unless
inventory's `stop()` left deliveries behind; the pool is closed only when nothing else is
left.

### Only model-checked

* Liveness, which needs fairness and ENABLED: `Settles`, `DeadCartsDrain`,
  `HandoffCompletes`, `PublishNeverHangs`, `ConfirmedIsHandled`,
  `EveryRequestAnswered`, `ShutdownEnds`.
* `TypeOK` of `StockEvents`: a channel's number is chosen (`NewChannel`) among those of a
  bounded range that no delivery carries, and that there is one is a counting argument
  about the bounds of the run, not about the code.
* What a definition by recursion computes for every input: induction over data is out of
  the provers' reach. No module declares a RECURSIVE operator.

## 7. Running

    tlc -workers 2 -config cart_holds.cfg MCCart
    tlapm EmailOutboxProofs.tla

A run is `<name>.cfg` with the `MC` module that `PROJECT.json` names. Each needs about
three minutes or less with two workers.

## 8. Plan

Done: every component but the ones below, and every safety property of a run is a
theorem but `TypeOK` of `StockEvents`. Next: a form of its channel numbers that has no
bound to count, and with it that theorem.

### Not modelled

* The user service's lists and the fields of a profile other than its account and its
  address, which no rule reads.
* The reads of every service other than those whose answer is a claim about state
  (product reads, the gateway's readiness probe).
* Parsing of requests and of the environment, logging, wording of errors, API
  documents, mail templates, password hashing, signing of tokens: formatting,
  cryptography or I/O without state of their own.
* The health routes of the services, which only read what the models have: the gateway's
  readiness probe is modelled as it gathers several answers.
* Clients of the gateway that trickle a body or hang up.
* The cart's shutdown order, which Nest decides.
