------------------------------ MODULE Lifecycle ------------------------------
(***************************************************************************)
(* The life of one service process, from its boot to its exit: the HTTP    *)
(* server with the requests in it, the background worker with the cycle it *)
(* is in, the pool of connections that both use, and the shutdown that     *)
(* takes them down one after another under a deadline.                     *)
(*                                                                         *)
(* Which service it is, is chosen at the start: they differ in what they   *)
(* start, in what they stop and in the order of it.                        *)
(***************************************************************************)
EXTENDS Naturals, Sequences, FiniteSets

CONSTANTS
    Requests,   \* requests that may reach the process
    Services    \* the services looked at

Known == {"auth", "email", "inventory", "product", "user", "gateway", "cart"}

ASSUME LifecycleAssumption == Services \subseteq Known /\ "worker" \notin Requests

VARIABLES
    svc,        \* which service this is
    boot,       \* what its start has still to do, in the parts between two awaits
    handlers,   \* whether its signal handlers are registered
    server,     \* the HTTP server: "off", "listening", "closing" or "closed"
    worker,     \* the background worker: "off", "absent", "running", "stopping" or "stopped"; a
                \* consumer that stop() did not come to the end of is "reopened" or "overrun"
    cycle,      \* whether the worker is in the middle of something: a sweep, a batch, deliveries
    pool,       \* whether the connections are open
    closing,    \* what the shutdown has still to do
    stopping,   \* whether there is a shutdown, and how it will end: "no", "clean" or "failed"
    deadline,   \* the timer that forces the exit is armed
    exit,       \* how the process ended: "no", "clean", "failed" or "killed"
    request,    \* request -> how far its handler is: "none", "work", "half" or "answered"
    hungUp,     \* the requests whose client closed the connection before it had an answer
    stranded    \* ghost: work that turned to the pool after it was closed

startup == <<svc, boot, handlers>>
http == <<server, request, hungUp>>
work == <<worker, cycle>>
shutdown == <<closing, stopping, deadline, exit>>
vars == <<startup, http, work, pool, shutdown, stranded>>

-----------------------------------------------------------------------------
(* What each service starts, stops and depends on *)

\* A shutdown that closes the pool before the dispatcher has settled, and one that
\* does not wait for the server.
emailPoolFirst == <<"server", "pool", "worker">>
authShutdown == <<"server", "worker", "pool">>
emailShutdown == <<"server", "worker", "pool">>
inventoryShutdown == <<"server", "worker", "pool">>
productShutdown == <<"server", "pool">>
userShutdown == <<"server", "pool">>
gatewayAtOnce == <<>>
gatewayShutdown == <<"server">>
cartShutdown == <<"worker", "server", "pool">>

ShutdownOf ==
    [auth |-> authShutdown, email |-> emailShutdown, inventory |-> inventoryShutdown,
     product |-> productShutdown, user |-> userShutdown, gateway |-> gatewayShutdown, cart |-> cartShutdown]

authBoot == <<{"listen", "handlers", "worker"}>>
emailBoot == <<{"listen", "worker", "handlers"}>>
inventoryBoot == <<{"worker"}, {"listen", "handlers"}>>
productBoot == <<{"listen", "handlers"}>>
userBoot == <<{"listen", "handlers"}>>
gatewayBoot == <<{"listen", "handlers"}>>
cartBoot == <<{"handlers"}, {"worker"}, {"listen"}>>

BootOf ==
    [auth |-> authBoot, email |-> emailBoot, inventory |-> inventoryBoot, product |-> productBoot,
     user |-> userBoot, gateway |-> gatewayBoot, cart |-> cartBoot]

Init ==
    /\ svc \in Services
    /\ boot = BootOf[svc]
    /\ handlers = FALSE
    /\ server = "off" /\ worker = "off" /\ cycle = FALSE /\ pool = TRUE
    /\ closing = <<>> /\ stopping = "no" /\ deadline = FALSE /\ exit = "no"
    /\ request = [r \in Requests |-> "none"] /\ hungUp = {}
    /\ stranded = {}

Lives == exit = "no"
EndsAs(how) == exit' = how /\ UNCHANGED <<closing, stopping, deadline>>

-----------------------------------------------------------------------------
(* Boot *)

\* A shutdown without a deadline.
BeginUnbounded(how) ==
    /\ closing' = ShutdownOf[svc] /\ stopping' = how
    /\ UNCHANGED <<deadline, exit>>
Begin(how) ==
    /\ closing' = ShutdownOf[svc] /\ stopping' = how
    /\ deadline' = TRUE
    /\ UNCHANGED exit

\* A worker may be configured away.
Boot ==
    /\ Lives /\ boot # <<>>
    /\ boot' = Tail(boot) /\ UNCHANGED svc
    /\ handlers' = (handlers \/ "handlers" \in Head(boot))
    /\ IF "worker" \in Head(boot) THEN worker' \in {"absent", "running"} ELSE UNCHANGED worker
    /\ server' = IF "listen" \in Head(boot) THEN "listening" ELSE server
    /\ UNCHANGED <<request, hungUp, cycle, pool, shutdown, stranded>>

\* A port that is taken, or a worker that wants a broker or a Redis that is not
\* there, ends the boot. What fails inside the cart's app.listen, its watcher
\* included, goes through its shutdown, beside one that a signal has begun; two
\* that are under way both exit, each with its own code.
BootFails ==
    /\ Lives /\ boot # <<>>
    /\ boot' = <<>>
    /\ \/ /\ svc = "cart" /\ ~handlers /\ EndsAs("failed")
       \/ /\ svc = "cart" /\ handlers
          /\ IF stopping = "no" THEN Begin("failed")
             ELSE stopping' \in {stopping, "failed"} /\ UNCHANGED <<closing, deadline, exit>>
       \/ svc # "cart" /\ EndsAs("failed")
    /\ UNCHANGED <<svc, handlers, http, work, pool, stranded>>

-----------------------------------------------------------------------------
(* Requests and the worker *)

Running(r) == request[r] \in {"work", "half"}

Accept(r) ==
    /\ Lives /\ server = "listening" /\ request[r] = "none"
    /\ request' = [request EXCEPT ![r] = "work"]
    /\ UNCHANGED <<startup, server, hungUp, work, pool, shutdown, stranded>>

\* The gateway has none.
UsesPool == svc # "gateway"

\* A request runs statement after statement, and waits between them.
Handle(r) ==
    /\ Lives /\ Running(r)
    /\ request' = [request EXCEPT ![r] = IF @ = "work" THEN "half" ELSE "answered"]
    /\ stranded' = IF UsesPool /\ ~pool THEN stranded \cup {r} ELSE stranded
    /\ UNCHANGED <<startup, server, hungUp, work, pool, shutdown>>

\* A client gives up on its answer, as every caller inside the system does after its
\* timeout. The connection ends; nobody tells the handler.
HangUp(r) ==
    /\ Lives /\ Running(r) /\ r \notin hungUp
    /\ hungUp' = hungUp \cup {r}
    /\ UNCHANGED <<startup, server, request, work, pool, shutdown, stranded>>

\* The timer of the worker, or a delivery of the consumer: one that the broker sent
\* before it heard of the cancel, or that comes over a channel that is open again.
Wake ==
    /\ Lives /\ ~cycle
    /\ worker = "running" \/ (svc = "inventory" /\ worker \in {"stopping", "reopened"})
    /\ cycle' = TRUE
    /\ UNCHANGED <<startup, http, worker, pool, shutdown, stranded>>

CycleEnds ==
    /\ Lives /\ cycle
    /\ cycle' = FALSE
    /\ stranded' = IF pool THEN stranded ELSE stranded \cup {"worker"}
    /\ UNCHANGED <<startup, http, worker, pool, shutdown>>

-----------------------------------------------------------------------------
(* Shutdown *)

\* SIGTERM or SIGINT. The first starts the shutdown; a process that has no
\* handlers yet dies of it.
Signal ==
    /\ Lives
    /\ \/ handlers /\ stopping = "no" /\ Begin("clean")
       \/ ~handlers /\ EndsAs("killed")
    /\ UNCHANGED <<startup, http, work, pool, stranded>>

\* An error that nobody caught ends the cart, and starts a shutdown elsewhere.
Uncaught ==
    /\ Lives
    /\ \/ handlers /\ svc # "cart" /\ stopping = "no" /\ Begin("clean")
       \/ (~handlers \/ svc = "cart") /\ EndsAs("killed")
    /\ UNCHANGED <<startup, http, work, pool, stranded>>

Due(part) == Lives /\ stopping # "no" /\ closing # <<>> /\ Head(closing) = part
Done == closing' = Tail(closing) /\ UNCHANGED <<stopping, deadline, exit>>

\* server.close: no new connection.
CloseServer ==
    /\ Due("server") /\ server = "listening"
    /\ server' = "closing"
    /\ UNCHANGED <<startup, request, hungUp, work, pool, shutdown, stranded>>

\* It calls back when the last connection has ended: a request is answered by then, or
\* its client has hung up, and its handler may run on. In the cart the framework's
\* own signal hook closes the application too, and whoever finds the server
\* closed already does not wait for it.
ServerClosed ==
    /\ Due("server") /\ server # "listening"
    /\ svc = "cart" \/ \A r \in Requests : Running(r) => r \in hungUp
    /\ server' = "closed" /\ Done
    /\ UNCHANGED <<startup, request, hungUp, work, pool, stranded>>

\* stop(): no further cycle ...
StopWorker ==
    /\ Due("worker") /\ worker = "running"
    /\ worker' = "stopping"
    /\ UNCHANGED <<startup, http, cycle, pool, shutdown, stranded>>

\* ... and what is under way is awaited: a cycle to its end, deliveries for as long as
\* STOP_DRAIN_TIMEOUT_MS. The cart's watcher waits for nothing.
WorkerStopped ==
    /\ Due("worker") /\ worker # "running"
    /\ \/ ~cycle /\ worker' = IF worker = "stopping" THEN "stopped" ELSE worker
       \/ ~cycle /\ worker = "reopened" /\ worker' = "stopped"
       \/ cycle /\ svc = "inventory" /\ worker' = "overrun"
       \/ cycle /\ svc = "inventory" /\ worker = "reopened" /\ UNCHANGED worker
       \/ cycle /\ svc = "cart" /\ worker' = "stopped"
    /\ Done
    /\ UNCHANGED <<startup, http, cycle, pool, stranded>>

\* A reconnect that was past its last look at the state when stop() began makes the
\* consumer connected again while stop() waits for deliveries. That connection is the one
\* stop() closes, unless it is lost meanwhile and replaced by another.
Reopens ==
    /\ Lives /\ svc = "inventory" /\ worker = "stopping" /\ cycle
    /\ worker' = "reopened"
    /\ UNCHANGED <<startup, http, cycle, pool, shutdown, stranded>>

\* prisma.$disconnect, or the cart's connections; one that is lost may refuse.
ClosePool ==
    /\ Due("pool")
    /\ \/ pool' = FALSE /\ Done
       \/ svc # "cart" /\ UNCHANGED pool /\ EndsAs("failed")
    /\ UNCHANGED <<startup, http, work, stranded>>

Exit ==
    /\ Lives /\ stopping # "no" /\ closing = <<>>
    /\ EndsAs(stopping)
    /\ UNCHANGED <<startup, http, work, pool, stranded>>

\* Any part of it may hang; the timer does not.
ForceExit ==
    /\ Lives /\ deadline
    /\ EndsAs(IF svc = "cart" THEN stopping ELSE "failed")
    /\ UNCHANGED <<startup, http, work, pool, stranded>>

Next ==
    \/ Boot \/ BootFails
    \/ \E r \in Requests : Accept(r) \/ Handle(r) \/ HangUp(r)
    \/ Wake \/ CycleEnds \/ Reopens
    \/ Signal \/ Uncaught
    \/ CloseServer \/ ServerClosed \/ StopWorker \/ WorkerStopped \/ ClosePool \/ Exit \/ ForceExit

Spec == Init /\ [][Next]_vars

\* A timer that is armed fires. Nothing else is owed: a request, a cycle or a
\* connection may hang for ever.
FairSpec == Spec /\ WF_vars(ForceExit)

-----------------------------------------------------------------------------
(* Properties *)

\* Every field has its type, and a shutdown is what closes the server and the pool.
TypeOK ==
    /\ svc \in Services
    /\ server \in {"off", "listening", "closing", "closed"}
    /\ worker \in {"off", "absent", "running", "stopping", "stopped", "reopened", "overrun"}
    /\ handlers \in BOOLEAN /\ cycle \in BOOLEAN /\ pool \in BOOLEAN /\ deadline \in BOOLEAN
    /\ stopping \in {"no", "clean", "failed"} /\ exit \in {"no", "clean", "failed", "killed"}
    /\ request \in [Requests -> {"none", "work", "half", "answered"}] /\ hungUp \subseteq Requests
    /\ stopping = "no" => ~deadline /\ pool /\ server \in {"off", "listening"}

\* The deliveries that inventory's consumer may still be at work on after stop().
LeftBehind == svc = "inventory" /\ worker \in {"overrun", "reopened"}

\* A handler that is mid-flight still needs the database. The shutdown closes the pool
\* under nobody it could have waited for: a request that turns to a closed pool is one
\* whose client had hung up, and a cycle of a worker that does is a delivery that
\* inventory's stop() gave up on. Outside the cart, whose watcher nobody waits for.
PoolOutlivesWork ==
    svc # "cart" => /\ stranded \cap Requests \subseteq hungUp
                    /\ "worker" \in stranded => LeftBehind

\* An exit that reports success has answered every client that still waited, and has let
\* the cycle under way settle, but for a delivery that inventory's stop() gave up on.
CleanExitCutsNothing ==
    exit = "clean" /\ svc # "cart" =>
        /\ \A r \in Requests : Running(r) => r \in hungUp
        /\ cycle => LeftBehind

\* A stuck connection cannot block a rolling deploy: a shutdown that began ends.
ShutdownEnds == stopping # "no" ~> exit # "no"

-----------------------------------------------------------------------------
(* What comments in the code say that does not hold of it *)

\* "Drains in-flight requests, stops taking deliveries and lets the handlers already
\* running settle, then closes the database pool - in that order, because a handler
\* mid-flight still needs the database."
PoolClosedUnderNobody == svc # "cart" => stranded = {}
=============================================================================
