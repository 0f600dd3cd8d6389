---------------------------- MODULE LifecycleProofs ----------------------------
(***************************************************************************)
(* Proofs about Lifecycle, for any number of requests and any services.    *)
(* What the shutdown has left to close tells what is closed already.       *)
(***************************************************************************)
EXTENDS Lifecycle, TLAPS

Kept == svc # "cart"
WithWorker == {"auth", "email", "inventory"}

\* What may be left of a start ...
Together == <<{"listen", "handlers", "worker"}>>
WorkerFirst == <<{"worker"}, {"listen", "handlers"}>>
Serving == <<{"listen", "handlers"}>>
Nothing == <<>>

\* ... and of a shutdown.
ServerWorkerPool == <<"server", "worker", "pool">>
WorkerPool == <<"worker", "pool">>
ServerPool == <<"server", "pool">>
ServerOnly == <<"server">>
PoolOnly == <<"pool">>
Left ==
    IF svc \in WithWorker THEN {ServerWorkerPool, WorkerPool, PoolOnly, Nothing}
    ELSE IF svc = "gateway" THEN {ServerOnly, Nothing} ELSE {ServerPool, PoolOnly, Nothing}

\* A signal is handled once the start is over.
Booting ==
    /\ boot \in {Together, WorkerFirst, Serving, Nothing}
    /\ svc \notin WithWorker => boot \in {Serving, Nothing} /\ worker = "off" /\ ~cycle
    /\ handlers => boot = Nothing
    /\ stopping # "no" => handlers

\* The server went first, then the worker, and the pool last.
Quiet == \A r \in Requests : Running(r) => r \in hungUp
Idle == worker \notin {"running", "stopping"} /\ (cycle => LeftBehind)
Excused ==
    /\ stranded # {} => ~pool
    /\ stranded \cap Requests \subseteq hungUp
    /\ "worker" \in stranded => LeftBehind
Ordered ==
    /\ stopping # "no" => closing \in Left
    /\ stopping # "no" /\ closing \in {WorkerPool, PoolOnly, Nothing} => server = "closed" /\ Quiet
    /\ stopping # "no" /\ closing \in {PoolOnly, Nothing} => Idle
    /\ ~pool => stopping # "no" /\ closing = Nothing
    /\ exit = "clean" => stopping # "no" /\ closing = Nothing
    /\ Excused

Orderly == TypeOK /\ (Kept => Booting /\ Ordered)

-----------------------------------------------------------------------------
(* The tables of the services *)

LEMMA Orders ==
    ASSUME svc \in Known, Kept
    PROVE  /\ svc \in WithWorker => ShutdownOf[svc] = ServerWorkerPool
           /\ svc \notin WithWorker /\ svc # "gateway" => ShutdownOf[svc] = ServerPool
           /\ svc = "gateway" => ShutdownOf[svc] = ServerOnly
  <1>1. CASE svc \in WithWorker
    BY <1>1 DEF WithWorker, ShutdownOf, authShutdown, emailShutdown, inventoryShutdown,
           ServerWorkerPool
  <1>2. CASE svc \in {"product", "user"}
    BY <1>2 DEF WithWorker, ShutdownOf, productShutdown, userShutdown, ServerPool
  <1>3. CASE svc = "gateway"
    BY <1>3 DEF WithWorker, ShutdownOf, gatewayShutdown, ServerOnly
  <1> QED BY <1>1, <1>2, <1>3 DEF Known, Kept, WithWorker

LEMMA Starts ==
    ASSUME svc \in Known, Kept
    PROVE  /\ BootOf[svc] \in {Together, WorkerFirst,
                               Serving}
           /\ svc \notin WithWorker => BootOf[svc] = Serving
  <1>1. CASE svc = "auth"
    BY <1>1 DEF WithWorker, BootOf, authBoot, Together
  <1>2. CASE svc = "email"
    BY <1>2 DEF WithWorker, BootOf, emailBoot, Together
  <1>3. CASE svc = "inventory"
    BY <1>3 DEF WithWorker, BootOf, inventoryBoot, WorkerFirst
  <1>4. CASE svc \in {"product", "user", "gateway"}
    BY <1>4 DEF BootOf, productBoot, userBoot, gatewayBoot, Serving
  <1> QED BY <1>1, <1>2, <1>3, <1>4 DEF Known, Kept

LEMMA Rests ==
    /\ Nothing \notin {ServerWorkerPool, WorkerPool, ServerPool, ServerOnly, PoolOnly}
    /\ PoolOnly \notin {ServerWorkerPool, WorkerPool, ServerPool, ServerOnly}
    /\ WorkerPool \notin {ServerWorkerPool, ServerPool, ServerOnly}
    /\ Head(ServerWorkerPool) = "server" /\ Tail(ServerWorkerPool) = WorkerPool
    /\ Head(ServerPool) = "server" /\ Tail(ServerPool) = PoolOnly
    /\ Head(ServerOnly) = "server" /\ Tail(ServerOnly) = Nothing
    /\ Head(WorkerPool) = "worker" /\ Tail(WorkerPool) = PoolOnly
    /\ Head(PoolOnly) = "pool" /\ Tail(PoolOnly) = Nothing
    /\ Nothing \notin {Together, WorkerFirst, Serving}
    /\ Head(Together) = {"listen", "handlers", "worker"} /\ Tail(Together) = Nothing
    /\ Head(WorkerFirst) = {"worker"} /\ Tail(WorkerFirst) = Serving
    /\ Head(Serving) = {"listen", "handlers"} /\ Tail(Serving) = Nothing
  BY DEF Nothing, ServerWorkerPool, WorkerPool, ServerPool, ServerOnly, PoolOnly, Together, WorkerFirst, Serving

-----------------------------------------------------------------------------
(* The types *)

LEMMA TypeInit == Init => TypeOK
  BY DEF Init, TypeOK

\* A start or a signal changes the parts of the shutdown and nothing else that has a type.
LEMMA BeginTypes ==
    ASSUME TypeOK, UNCHANGED <<svc, handlers, http, work, pool>>,
           \/ \E how \in {"clean", "failed"} : Begin(how)
           \/ \E how \in {"clean", "failed", "killed"} : EndsAs(how)
           \/ stopping # "no" /\ stopping' \in {stopping, "failed"} /\ UNCHANGED <<closing, deadline, exit>>
           \/ UNCHANGED shutdown
    PROVE  TypeOK'
  <1>1. /\ svc' \in Services /\ server' = server /\ server \in {"off", "listening", "closing", "closed"}
        /\ worker' \in {"off", "absent", "running", "stopping", "stopped", "reopened", "overrun"}
        /\ handlers' \in BOOLEAN /\ cycle' \in BOOLEAN /\ pool' \in BOOLEAN /\ pool' = pool
        /\ request' \in [Requests -> {"none", "work", "half", "answered"}] /\ hungUp' \subseteq Requests
    BY DEF TypeOK, http, work
  <1>2. /\ stopping' \in {"no", "clean", "failed"} /\ exit' \in {"no", "clean", "failed", "killed"}
        /\ deadline' \in BOOLEAN
        /\ stopping' = "no" => stopping = "no" /\ deadline' = deadline
    BY DEF TypeOK, shutdown, Begin, EndsAs
  <1>3. stopping' = "no" => ~deadline' /\ pool /\ server \in {"off", "listening"}
    BY <1>2 DEF TypeOK
  <1> QED BY <1>1, <1>2, <1>3 DEF TypeOK

LEMMA TypeStep ==
    ASSUME TypeOK, [Next]_vars
    PROVE  TypeOK'
  <1>1. CASE Boot
    BY <1>1 DEF Boot, TypeOK, http, work, shutdown
  <1>2. CASE BootFails \/ Signal \/ Uncaught \/ Exit \/ ForceExit
    <2>1. UNCHANGED <<svc, handlers, http, work, pool>>
      BY <1>2 DEF BootFails, Signal, Uncaught, Exit, ForceExit, startup
    <2>2. \/ \E how \in {"clean", "failed"} : Begin(how)
          \/ \E how \in {"clean", "failed", "killed"} : EndsAs(how)
          \/ stopping # "no" /\ stopping' \in {stopping, "failed"} /\ UNCHANGED <<closing, deadline, exit>>
      BY <1>2 DEF BootFails, Signal, Uncaught, Exit, ForceExit, TypeOK
    <2> QED BY <2>1, <2>2, BeginTypes
  <1>3. ASSUME NEW r \in Requests, Accept(r)
        PROVE  TypeOK'
    BY <1>3 DEF Accept, TypeOK, startup, work, shutdown
  <1>4. ASSUME NEW r \in Requests, Handle(r) \/ HangUp(r)
        PROVE  TypeOK'
    BY <1>4 DEF Handle, HangUp, TypeOK, startup, work, shutdown
  <1>5. CASE Wake \/ CycleEnds
    <2>1. UNCHANGED <<svc, handlers, http, worker, pool, shutdown>> /\ cycle' \in BOOLEAN
      BY <1>5 DEF Wake, CycleEnds, startup
    <2> QED BY <2>1 DEF TypeOK, http, shutdown
  <1>7. CASE CloseServer \/ ServerClosed \/ StopWorker \/ WorkerStopped \/ Reopens
    BY <1>7 DEF CloseServer, ServerClosed, StopWorker, WorkerStopped, Reopens, Due, Done, TypeOK, startup, http, work,
           shutdown
  <1>8. CASE ClosePool
    BY <1>8 DEF ClosePool, Due, Done, EndsAs, TypeOK, startup, http, work, shutdown
  <1>9. CASE UNCHANGED vars
    <2>1. UNCHANGED <<svc, handlers, http, work, pool, shutdown>>
      BY <1>9 DEF vars, startup
    <2> QED BY <2>1, BeginTypes
  <1> QED BY <1>1, <1>2, <1>3, <1>4, <1>5, <1>7, <1>8, <1>9 DEF Next

\* Every field has its type, and only a shutdown closes the server and the pool.
THEOREM TypeCorrect == Spec => []TypeOK
  BY TypeInit, TypeStep, PTL DEF Spec


-----------------------------------------------------------------------------
(* The order of a shutdown *)

\* The parts that the order speaks of.
LEMMA SameOrder ==
    ASSUME Kept, Ordered, UNCHANGED <<svc, http, work, pool, shutdown, stranded>>
    PROVE  Ordered'
  BY DEF Ordered, Left, Quiet, Running, Idle, Excused, LeftBehind, http, work, shutdown

LEMMA SameStart ==
    ASSUME Booting, UNCHANGED <<startup, work, stopping>>
    PROVE  Booting'
  BY DEF Booting, startup, work

LEMMA BootStep ==
    ASSUME TypeOK, Kept, Booting, Ordered, Boot
    PROVE  Booting' /\ Ordered'
  <1>1. boot # Nothing /\ ~handlers /\ stopping = "no" /\ svc' = svc
    BY DEF Boot, Booting, Nothing
  <1>2. /\ boot' = Tail(boot) /\ handlers' = (handlers \/ "handlers" \in Head(boot))
        /\ "worker" \notin Head(boot) => worker' = worker
    BY DEF Boot
  <1>3. Booting'
    <2>1. UNCHANGED <<cycle, stopping>>
      BY DEF Boot, shutdown
    <2>2. CASE boot = Together
      BY <1>1, <1>2, <2>1, <2>2, Rests DEF Booting
    <2>3. CASE boot = WorkerFirst
      BY <1>1, <1>2, <2>1, <2>3, Rests DEF Booting
    <2>4. CASE boot = Serving
      <3>1. "worker" \notin Head(boot) /\ boot' = Nothing
        BY <1>2, <2>4, Rests
      <3> QED BY <1>1, <1>2, <2>1, <3>1 DEF Booting
    <2> QED BY <1>1, <2>2, <2>3, <2>4 DEF Booting
  <1>4. Ordered'
    <2>1. UNCHANGED <<closing, stopping, exit, pool, stranded, hungUp>>
      BY DEF Boot, shutdown
    <2>2. pool /\ stranded = {}
      BY <1>1 DEF Ordered, Excused
    <2> QED BY <1>1, <2>1, <2>2 DEF Ordered, Excused
  <1> QED BY <1>3, <1>4

LEMMA BeginStep ==
    ASSUME TypeOK, Kept, Booting, Ordered, Signal \/ Uncaught
    PROVE  Booting' /\ Ordered'
  <1>1. /\ UNCHANGED <<startup, http, work, pool, stranded>>
        /\ \/ handlers /\ stopping = "no" /\ Begin("clean")
           \/ EndsAs("killed")
    BY DEF Signal, Uncaught
  <1>2. CASE EndsAs("killed")
    BY <1>1, <1>2 DEF EndsAs, Booting, Ordered, Left, Quiet, Idle, Excused, LeftBehind, Running, startup, http, work
  <1>3. CASE handlers /\ stopping = "no" /\ Begin("clean")
    <2>1. Booting'
      BY <1>1, <1>3 DEF Begin, Booting, startup, work
    <2>2. svc' = svc /\ closing' = ShutdownOf[svc] /\ stopping' = "clean" /\ exit' = exit /\ pool' = pool
      BY <1>1, <1>3 DEF Begin, startup
    <2>3. pool /\ exit # "clean" /\ stranded' = {}
      BY <1>1, <1>3 DEF Ordered, Excused, TypeOK
    <2>4. /\ closing' \in Left'
          /\ closing' \notin {WorkerPool, PoolOnly, Nothing}
      <3>1. svc \in Known /\ svc' = svc
        BY <2>2, LifecycleAssumption DEF TypeOK
      <3> QED BY <2>2, <3>1, Orders, Rests DEF Left, WithWorker
    <2>5. Ordered'
      BY <2>2, <2>3, <2>4 DEF Ordered, Excused
    <2> QED BY <2>1, <2>5
  <1> QED BY <1>1, <1>2, <1>3

LEMMA RequestStep ==
    ASSUME TypeOK, Kept, Booting, Ordered, NEW r \in Requests, Accept(r) \/ Handle(r) \/ HangUp(r)
    PROVE  Booting' /\ Ordered'
  <1>1. UNCHANGED <<startup, server, work, pool, shutdown>> /\ hungUp \subseteq hungUp'
    BY DEF Accept, Handle, HangUp
  <1>2. Booting'
    BY <1>1, SameStart DEF shutdown
  <1>3. UNCHANGED <<svc, server, worker, cycle, pool, closing, stopping, exit>>
    BY <1>1 DEF startup, work, shutdown
  <1>4. server = "closed" /\ Quiet => Quiet'
    BY <1>1 DEF Accept, Handle, HangUp, Quiet, Running, TypeOK
  <1>5. Excused'
    <2>1. stranded' = stranded \/ (stranded' = stranded \cup {r} /\ ~pool /\ Running(r))
      BY DEF Accept, Handle, HangUp
    <2>2. CASE stranded' = stranded
      BY <1>1, <1>3, <2>2 DEF Ordered, Excused, LeftBehind
    <2>3. CASE stranded' = stranded \cup {r} /\ ~pool /\ Running(r)
      <3>1. r \in hungUp /\ r # "worker"
        BY <2>3, LifecycleAssumption DEF Ordered, Quiet
      <3> QED BY <1>1, <1>3, <2>3, <3>1 DEF Ordered, Excused, LeftBehind
    <2> QED BY <2>1, <2>2, <2>3
  <1> QED BY <1>2, <1>3, <1>4, <1>5 DEF Ordered, Left, Idle, LeftBehind

LEMMA WorkStep ==
    ASSUME TypeOK, Kept, Booting, Ordered, Wake \/ CycleEnds
    PROVE  Booting' /\ Ordered'
  <1>1. UNCHANGED <<startup, http, worker, pool, shutdown>>
    BY DEF Wake, CycleEnds
  <1>2. UNCHANGED <<svc, boot, handlers, server, request, hungUp, closing, stopping, exit>>
    BY <1>1 DEF startup, http, shutdown
  <1>3. Booting'
    <2>1. cycle' => cycle \/ worker # "off"
      BY DEF Wake, CycleEnds
    <2> QED BY <1>1, <1>2, <2>1 DEF Booting
  <1>4. Quiet => Quiet'
    BY <1>2 DEF Quiet, Running
  <1>5. Idle => Idle'
    <2>1. cycle' => cycle \/ worker \in {"running", "stopping"} \/ LeftBehind
      BY DEF Wake, CycleEnds, LeftBehind
    <2> QED BY <1>1, <1>2, <2>1 DEF Idle, LeftBehind
  <1>6. Excused'
    <2>1. stranded' = stranded \/ (stranded' = stranded \cup {"worker"} /\ ~pool /\ cycle)
      BY DEF Wake, CycleEnds
    <2>2. ~pool /\ cycle => LeftBehind
      BY DEF Ordered, Idle
    <2> QED BY <1>1, <1>2, <2>1, <2>2, LifecycleAssumption DEF Ordered, Excused, LeftBehind
  <1> QED BY <1>1, <1>2, <1>3, <1>4, <1>5, <1>6 DEF Ordered, Left

\* The shutdown takes one part after the other.
LEMMA CloseStep ==
    ASSUME TypeOK, Kept, Booting, Ordered,
           CloseServer \/ ServerClosed \/ StopWorker \/ WorkerStopped \/ Reopens \/ ClosePool
    PROVE  Booting' /\ Ordered'
  <1>1. UNCHANGED <<startup, request, hungUp, cycle, stopping, stranded>> /\ exit = "no"
    BY DEF CloseServer, ServerClosed, StopWorker, WorkerStopped, Reopens, ClosePool, Due, Done, EndsAs, Lives,
           http, work, shutdown
  <1>2. UNCHANGED <<svc, boot, handlers>> /\ (Quiet => Quiet')
    BY <1>1 DEF startup, Quiet, Running
  <1>3. svc \notin WithWorker => worker = "off" /\ ~cycle
    BY DEF Booting
  <1>4. Booting'
    <2>1. worker' = worker \/ worker # "off" \/ cycle
      BY DEF CloseServer, ServerClosed, StopWorker, WorkerStopped, Reopens, ClosePool, work
    <2> QED BY <1>1, <1>2, <2>1 DEF Booting
  <1> SUFFICES Ordered'
    BY <1>4
  <1>5. CASE CloseServer
    <2>1. /\ Head(closing) = "server" /\ UNCHANGED <<worker, pool, closing, exit>>
          /\ stopping # "no" /\ closing # Nothing
      BY <1>5 DEF CloseServer, Due, work, shutdown, Nothing
    <2>2. closing \notin {WorkerPool, PoolOnly, Nothing}
      BY <2>1, Rests
    <2> QED BY <1>1, <1>2, <2>1, <2>2 DEF Ordered, Left, Excused, LeftBehind
  <1>6. CASE ServerClosed
    <2>1. /\ Head(closing) = "server" /\ closing' = Tail(closing) /\ UNCHANGED <<worker, pool, exit>>
          /\ server' = "closed" /\ Quiet /\ stopping # "no" /\ closing # Nothing /\ closing \in Left
      BY <1>6 DEF ServerClosed, Due, Done, work, Kept, Quiet, Nothing, Ordered
    <2>2. /\ closing \in {ServerWorkerPool, ServerPool, ServerOnly}
          /\ closing' \in Left
          /\ closing' \in {PoolOnly, Nothing} => svc \notin WithWorker
      BY <2>1, Rests DEF Left, WithWorker
    <2>3. pool /\ stranded = {}
      BY <2>1 DEF Ordered, Excused
    <2>4. svc \notin WithWorker => Idle'
      BY <1>1, <1>3, <2>1 DEF Idle
    <2> QED BY <1>1, <1>2, <2>1, <2>2, <2>3, <2>4 DEF Ordered, Left, Excused
  <1>7. CASE StopWorker
    <2>1. /\ Head(closing) = "worker" /\ UNCHANGED <<server, pool, closing, exit>>
          /\ stopping # "no" /\ closing # Nothing
      BY <1>7 DEF StopWorker, Due, http, shutdown, Nothing
    <2>2. closing \notin {PoolOnly, Nothing}
      BY <2>1, Rests
    <2>3. stranded = {}
      BY <2>2 DEF Ordered, Excused
    <2> QED BY <1>1, <1>2, <2>1, <2>2, <2>3 DEF Ordered, Left, Excused
  <1>8. CASE WorkerStopped
    <2>1. /\ Head(closing) = "worker" /\ closing' = Tail(closing) /\ UNCHANGED <<server, pool, exit>>
          /\ stopping # "no" /\ closing # Nothing /\ closing \in Left
      BY <1>8 DEF WorkerStopped, Due, Done, http, Nothing, Ordered
    <2>2. closing = WorkerPool /\ closing' = PoolOnly /\ closing' \in Left
      BY <2>1, Rests DEF Left
    <2>3. pool /\ stranded = {}
      BY <2>2, Rests DEF Ordered, Excused
    <2>4. Idle'
      BY <1>1, <1>2, <1>8 DEF WorkerStopped, Idle, LeftBehind, Kept
    <2> QED BY <1>1, <1>2, <2>1, <2>2, <2>3, <2>4 DEF Ordered, Left, Excused
  <1>9. CASE Reopens
    <2>1. worker = "stopping" /\ UNCHANGED <<server, pool, closing, exit>>
      BY <1>9 DEF Reopens, http, shutdown
    <2>2. ~(stopping # "no" /\ closing \in {PoolOnly, Nothing}) /\ stranded = {}
      BY <2>1 DEF Ordered, Idle, Excused
    <2> QED BY <1>1, <1>2, <2>1, <2>2 DEF Ordered, Left, Excused
  <1>10. CASE ClosePool
    <2>1. /\ Head(closing) = "pool" /\ UNCHANGED <<server, worker>>
          /\ stopping # "no" /\ closing # Nothing /\ closing \in Left
          /\ \/ closing' = Tail(closing) /\ exit' = exit
             \/ UNCHANGED <<pool, closing>> /\ exit' = "failed"
      BY <1>10 DEF ClosePool, Due, Done, EndsAs, http, work, Nothing, Ordered
    <2>2. closing = PoolOnly /\ Tail(closing) = Nothing /\ Nothing \in Left
      BY <2>1, Rests DEF Left
    <2>3. stranded = {} /\ (Idle => Idle')
      BY <1>1, <1>2, <2>1, <2>2, Rests DEF Ordered, Excused, Idle, LeftBehind
    <2>4. server = "closed" /\ Quiet' /\ Idle' /\ Excused'
      BY <1>1, <1>2, <2>1, <2>2, <2>3 DEF Ordered, Excused
    <2>5. closing' \in Left' /\ (~pool' => closing' = Nothing) /\ exit' # "clean"
      <3>1. Left' = Left
        BY <1>2 DEF Left
      <3>2. pool /\ exit # "clean"
        BY <1>1, <2>1 DEF Ordered
      <3> QED BY <1>1, <2>1, <2>2, <3>1, <3>2
    <2> QED BY <1>1, <2>1, <2>4, <2>5 DEF Ordered
  <1> QED BY <1>5, <1>6, <1>7, <1>8, <1>9, <1>10

LEMMA EndStep ==
    ASSUME TypeOK, Kept, Booting, Ordered, Exit \/ ForceExit
    PROVE  Booting' /\ Ordered'
  <1>1. UNCHANGED <<startup, http, work, pool, closing, stopping, stranded>>
    BY DEF Exit, ForceExit, EndsAs
  <1>2. exit' = "clean" => stopping # "no" /\ closing = Nothing
    BY DEF Exit, ForceExit, EndsAs, Lives, Kept, Ordered, Nothing
  <1>3. Booting'
    BY <1>1, SameStart
  <1>4. Ordered'
    BY <1>1, <1>2 DEF Ordered, Left, Quiet, Idle, Excused, LeftBehind, Running, startup, http, work
  <1> QED BY <1>3, <1>4


LEMMA OrderlyInit == Init => Orderly
  <1> SUFFICES ASSUME Init, Kept
               PROVE  Booting /\ Ordered
    BY TypeInit DEF Orderly
  <1>1. svc \in Known
    BY LifecycleAssumption DEF Init
  <1>2. boot = BootOf[svc]
    BY DEF Init
  <1>3. /\ boot \in {Together, WorkerFirst, Serving, Nothing}
        /\ svc \notin WithWorker => boot \in {Serving, Nothing}
    BY <1>1, <1>2, Starts
  <1> QED BY <1>3 DEF Init, Booting, Ordered, Excused

LEMMA OrderlyStep ==
    ASSUME Orderly, [Next]_vars
    PROVE  Orderly'
  <1>0. TypeOK /\ TypeOK'
    BY TypeStep DEF Orderly
  <1>1. svc' = svc
    BY DEF Next, vars, startup, Boot, BootFails, Accept, Handle, HangUp, Wake, CycleEnds, Reopens, Signal, Uncaught,
           CloseServer, ServerClosed, StopWorker, WorkerStopped, ClosePool, Exit, ForceExit
  <1> SUFFICES ASSUME Kept
               PROVE  Booting' /\ Ordered'
    BY <1>0, <1>1 DEF Orderly, Kept
  <1>2. Booting /\ Ordered
    BY DEF Orderly
  <1>3. CASE BootFails
    <2>1. /\ UNCHANGED <<svc, handlers, http, work, pool, stranded, closing, stopping>>
          /\ boot' = Nothing /\ exit' = "failed"
      BY <1>3 DEF BootFails, EndsAs, Kept, Nothing
    <2>2. Booting'
      BY <1>2, <2>1 DEF Booting, work
    <2>3. Ordered'
      BY <1>2, <2>1 DEF Ordered, Left, Quiet, Idle, Excused, LeftBehind, Running, http, work
    <2> QED BY <2>2, <2>3
  <1>4. CASE UNCHANGED vars
    <2>1. UNCHANGED <<startup, http, work, pool, shutdown, stranded>>
      BY <1>4 DEF vars
    <2> QED BY <1>2, <2>1, SameOrder, SameStart DEF startup, shutdown
  <1> QED BY <1>0, <1>2, <1>3, <1>4, BootStep, BeginStep, RequestStep, WorkStep, CloseStep, EndStep DEF Next

LEMMA AlwaysOrderly == Spec => []Orderly
  BY OrderlyInit, OrderlyStep, PTL DEF Spec

\* A handler that is mid-flight still needs the database. The shutdown closes the pool
\* under nobody it could have waited for: a request that turns to a closed pool is one
\* whose client had hung up, and a cycle of a worker that does is a delivery that
\* inventory's stop() gave up on.
THEOREM PoolGoesLast == Spec => []PoolOutlivesWork
  <1>1. Orderly => PoolOutlivesWork
    BY DEF Orderly, Kept, Ordered, Excused, PoolOutlivesWork
  <1> QED BY <1>1, AlwaysOrderly, PTL

\* An exit that reports success has answered every client that still waited, and has let
\* the cycle under way settle, but for a delivery that inventory's stop() gave up on.
THEOREM NothingIsCut == Spec => []CleanExitCutsNothing
  <1>1. Orderly => CleanExitCutsNothing
    BY DEF Orderly, Kept, Ordered, Quiet, Idle, CleanExitCutsNothing
  <1> QED BY <1>1, AlwaysOrderly, PTL

===============================================================================
