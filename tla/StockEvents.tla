------------------------------ MODULE StockEvents ------------------------------
(***************************************************************************)
(* Stock events between the services: the cart's RabbitMQ client, which    *)
(* publishes on a confirm channel, the broker, and the inventory service's *)
(* consumer with the handler that turns an event into a stock change.      *)
(*                                                                         *)
(* Either side keeps one connection, loses it and opens another. A         *)
(* delivery belongs to the channel it arrived on: when that closes, the    *)
(* broker takes back what was not settled, while its handler runs on.      *)
(***************************************************************************)
EXTENDS Naturals, FiniteSets

CONSTANTS
    Messages,       \* message ids, a fresh one for every publish
    Unfit,          \* the messages that are malformed or of an unsupported type
    Prefetch,       \* deliveries that the broker hands out unsettled
    MaxTroubles,    \* bound: how often something fails
    Faults          \* what may fail

ASSUME EventsAssumption ==
    /\ Unfit \subseteq Messages
    /\ Prefetch \in Nat \ {0} /\ MaxTroubles \in Nat
    /\ Faults \subseteq {"connection", "channel", "connect", "nack", "wipe", "database", "refusal",
                         "crash", "shutdown"}

VARIABLES
    client,     \* the cart's RabbitMqClient
    call,       \* message -> where its publish is
    wire,       \* message -> "no", "sent" on the client's channel, or "taken" by the broker
    declared,   \* the exchange, the queue and the binding are there
    queue,      \* messages that are ready for delivery
    dead,       \* messages in inventory.stock.dead
    consumer,   \* inventory's RabbitMqConsumer
    tasks,      \* its handlers: message, channel of the delivery, and where they are
    processed,  \* message ids in processed_messages
    lost,       \* ghost: messages that went with the broker's disk
    troubles    \* how many faults there were

broker == <<wire, declared, queue, dead, lost>>
vars == <<client, call, broker, consumer, tasks, processed, troubles>>

\* A client of a process that is starting, and a consumer.
FreshClient == [state |-> "disconnected", conn |-> "none", opening |-> TRUE, timer |-> FALSE, booted |-> FALSE]
FreshConsumer == [state |-> "idle", conn |-> "none", chan |-> 0, tag |-> FALSE, opening |-> "connecting",
                  timer |-> FALSE, stopping |-> FALSE, cancelled |-> FALSE]

Init ==
    /\ client = FreshClient
    /\ call = [m \in Messages |-> "idle"]
    /\ wire = [m \in Messages |-> "no"]
    /\ declared = FALSE
    /\ queue = {} /\ dead = {} /\ lost = {}
    /\ consumer = FreshConsumer
    /\ tasks = {}
    /\ processed = {}
    /\ troubles = 0

Trouble(kind) == kind \in Faults /\ troubles < MaxTroubles /\ troubles' = troubles + 1

-----------------------------------------------------------------------------
(* RabbitMqClient: publish *)

Publish(m) ==
    /\ client.booted /\ call[m] = "idle"
    /\ \/ /\ client.conn = "open"
          /\ call' = [call EXCEPT ![m] = "sent"] /\ wire' = [wire EXCEPT ![m] = "sent"]
       \/ /\ client.conn # "open" /\ client.state # "closed"
          /\ call' = [call EXCEPT ![m] = "waiting"] /\ UNCHANGED wire
       \/ /\ client.state = "closed"
          /\ call' = [call EXCEPT ![m] = "rejected"] /\ UNCHANGED wire
    /\ UNCHANGED <<client, declared, queue, dead, lost, consumer, tasks, processed, troubles>>

\* A timer for the connection and none for the confirm.
PublishTimesOutWaiting(m) ==
    /\ call[m] = "waiting"
    /\ call' = [call EXCEPT ![m] = "rejected"]
    /\ UNCHANGED <<client, broker, consumer, tasks, processed, troubles>>
\* The timer of channelBy, or of the confirm: the message itself is not called back.
PublishTimesOut(m) ==
    /\ call[m] \in {"waiting", "sent"}
    /\ call' = [call EXCEPT ![m] = "rejected"]
    /\ UNCHANGED <<client, broker, consumer, tasks, processed, troubles>>

\* basic.ack, which nobody waits for any more if the timer was first.
Confirmed(m) ==
    /\ call[m] = "sent" /\ wire[m] = "taken"
    /\ call' = [call EXCEPT ![m] = "resolved"]
    /\ UNCHANGED <<client, broker, consumer, tasks, processed, troubles>>

Nacked(m) ==
    /\ Trouble("nack")
    /\ wire[m] = "sent"
    /\ wire' = [wire EXCEPT ![m] = "no"]
    /\ call' = [call EXCEPT ![m] = IF @ = "sent" THEN "rejected" ELSE @]
    /\ UNCHANGED <<client, declared, queue, dead, lost, consumer, tasks, processed>>

\* The broker routes a persistent message to its durable queue.
Taken(m) ==
    /\ wire[m] = "sent" /\ declared
    /\ wire' = [wire EXCEPT ![m] = "taken"]
    /\ queue' = queue \cup {m}
    /\ UNCHANGED <<client, call, declared, dead, lost, consumer, tasks, processed, troubles>>

-----------------------------------------------------------------------------
(* RabbitMqClient: the connection *)

\* A channel that closes errors the confirms that are outstanding on it.
Errored == [m \in Messages |-> IF call[m] = "sent" THEN "rejected" ELSE call[m]]
Unsent == [m \in Messages |-> IF wire[m] = "sent" THEN "no" ELSE wire[m]]
Waiting == {m \in Messages : call[m] = "waiting"}

\* open: topology first, and the waiters go on once there is a channel.
ClientOpens ==
    /\ client.opening
    /\ declared' = TRUE
    /\ \/ /\ client.state = "closed"
          /\ client' = [client EXCEPT !.opening = FALSE]
          /\ UNCHANGED <<call, wire>>
       \/ /\ client.state # "closed"
          /\ client' = [client EXCEPT !.opening = FALSE, !.state = "connected", !.conn = "open", !.booted = TRUE]
          /\ call' = [m \in Messages |-> IF m \in Waiting THEN "sent" ELSE call[m]]
          /\ wire' = [m \in Messages |-> IF m \in Waiting THEN "sent" ELSE wire[m]]
    /\ UNCHANGED <<queue, dead, lost, consumer, tasks, processed, troubles>>

\* At boot the process exits and is started again; later the next attempt is scheduled.
ClientOpenFails ==
    /\ Trouble("connect")
    /\ client.opening
    /\ client' = IF ~client.booted THEN client
                 ELSE [client EXCEPT !.opening = FALSE, !.timer = (client.state = "disconnected")]
    /\ UNCHANGED <<call, broker, consumer, tasks, processed>>

\* onChannelClosed: the connection is dropped, and its close event does the rest.
ClientChannelCloses ==
    /\ Trouble("channel")
    /\ client.conn = "open"
    /\ client' = [client EXCEPT !.conn = "closing", !.state = "disconnected"]
    /\ call' = Errored /\ wire' = Unsent
    /\ UNCHANGED <<declared, queue, dead, lost, consumer, tasks, processed>>

\* onConnectionClosed and scheduleReconnect.
ClientConnectionCloses ==
    /\ \/ client.conn = "closing" /\ UNCHANGED troubles
       \/ client.conn = "open" /\ Trouble("connection")
    /\ client' = [client EXCEPT !.conn = "none", !.state = "disconnected", !.timer = TRUE]
    /\ call' = Errored /\ wire' = Unsent
    /\ UNCHANGED <<declared, queue, dead, lost, consumer, tasks, processed>>

ClientReconnects ==
    /\ client.timer
    /\ client' = [client EXCEPT !.timer = FALSE, !.opening = (client.state = "disconnected")]
    /\ UNCHANGED <<call, broker, consumer, tasks, processed, troubles>>

\* onApplicationShutdown: waiters and outstanding confirms are rejected.
ClientShutsDown ==
    /\ Trouble("shutdown")
    /\ client.booted /\ client.state # "closed"
    /\ client' = [client EXCEPT !.state = "closed", !.timer = FALSE, !.conn = "none"]
    /\ call' = [m \in Messages |-> IF call[m] \in {"waiting", "sent"} THEN "rejected" ELSE call[m]]
    /\ wire' = Unsent
    /\ UNCHANGED <<declared, queue, dead, lost, consumer, tasks, processed>>

ClientRestarts ==
    /\ client.state = "closed"
    /\ client' = FreshClient
    /\ UNCHANGED <<call, broker, consumer, tasks, processed, troubles>>

-----------------------------------------------------------------------------
(* RabbitMqConsumer: the connection *)

Current(t) == consumer.chan # 0 /\ t.chan = consumer.chan
Unsettled == {t.msg : t \in {u \in tasks : Current(u)}}
\* The channel is gone: the broker has its unsettled deliveries back.
TakenBack == queue' = queue \cup Unsettled

\* A channel of its own for every connection, so that deliveries can be told apart.
NewChannel == CHOOSE c \in 1 .. MaxTroubles + 1 :
                  /\ \A t \in tasks : t.chan # c
                  /\ \A d \in 1 .. c - 1 : \E t \in tasks : t.chan = d

\* open up to the declarations, after which the channel is adopted, unless stop came first.
ConsumerDeclares ==
    /\ consumer.opening = "connecting"
    /\ declared' = TRUE
    /\ consumer' = IF consumer.state = "stopped" THEN [consumer EXCEPT !.opening = "no"]
                   ELSE [consumer EXCEPT !.opening = "consuming", !.conn = "open", !.chan = NewChannel,
                                                  !.cancelled = FALSE]
    /\ UNCHANGED <<client, call, wire, queue, dead, lost, tasks, processed, troubles>>

\* consume-ok: open goes on, whatever happened to the state meanwhile.
ConsumerSubscribes ==
    /\ consumer.opening = "consuming"
    /\ consumer' = [consumer EXCEPT !.opening = "no", !.tag = TRUE, !.state = "connected"]
    /\ UNCHANGED <<client, call, broker, tasks, processed, troubles>>

\* At boot a failure ends the process, handlers and all, and it is started again.
Surviving == IF consumer.state = "idle" THEN {} ELSE tasks
Rescheduled(c) == IF c.state = "idle" THEN FreshConsumer
                  ELSE [c EXCEPT !.opening = "no", !.timer = @ \/ c.state = "disconnected"]

\* A consumer that does not try again.
ConsumerOpenFailsForGood ==
    /\ Trouble("connect")
    /\ consumer.opening = "connecting"
    /\ consumer' = IF consumer.state = "idle" THEN consumer ELSE [consumer EXCEPT !.opening = "no"]
    /\ UNCHANGED <<client, call, broker, tasks, processed>>
ConsumerOpenFails ==
    /\ Trouble("connect")
    /\ consumer.opening = "connecting"
    /\ consumer' = Rescheduled(consumer)
    /\ UNCHANGED <<client, call, broker, tasks, processed>>

ConsumerChannelCloses ==
    /\ Trouble("channel")
    /\ consumer.chan # 0
    /\ TakenBack
    /\ consumer' = IF consumer.opening = "consuming"
                   THEN Rescheduled([consumer EXCEPT !.conn = "none", !.chan = 0])
                   ELSE [consumer EXCEPT !.conn = "closing", !.chan = 0, !.tag = FALSE,
                                         !.state = IF @ = "connected" THEN "disconnected" ELSE @]
    /\ tasks' = Surviving
    /\ UNCHANGED <<client, call, wire, declared, dead, lost, processed>>

\* onConnectionClosed; the broker cancelling the consumer comes to the same.
Disconnected(c) ==
    LET gone == [c EXCEPT !.conn = "none", !.chan = 0, !.tag = FALSE, !.opening = "no"] IN
    IF c.state = "stopped" THEN gone
    ELSE IF c.state = "idle" THEN FreshConsumer
    ELSE [gone EXCEPT !.state = "disconnected", !.timer = TRUE]

ConsumerConnectionCloses ==
    /\ \/ consumer.conn = "closing" /\ UNCHANGED troubles
       \/ consumer.conn = "open" /\ Trouble("connection")
    /\ TakenBack
    /\ consumer' = Disconnected(consumer)
    /\ tasks' = Surviving
    /\ UNCHANGED <<client, call, wire, declared, dead, lost, processed>>

ConsumerReconnects ==
    /\ consumer.timer
    /\ consumer' = [consumer EXCEPT !.timer = FALSE,
                                    !.opening = IF consumer.state = "disconnected" THEN "connecting" ELSE @]
    /\ UNCHANGED <<client, call, broker, tasks, processed, troubles>>

\* The broker is back with nothing of what it had.
Wiped ==
    /\ Trouble("wipe")
    /\ declared' = FALSE
    /\ lost' = lost \cup queue \cup Unsettled \cup dead
    /\ queue' = {} /\ dead' = {}
    /\ call' = Errored /\ wire' = Unsent
    /\ client' = IF client.conn = "none" THEN client
                 ELSE [client EXCEPT !.conn = "none", !.state = "disconnected", !.timer = TRUE]
    /\ consumer' = IF consumer.conn = "none" THEN consumer ELSE Disconnected(consumer)
    /\ tasks' = Surviving
    /\ UNCHANGED processed

-----------------------------------------------------------------------------
(* Deliveries, and StockEventConsumer.handle *)

Deliver(m) ==
    /\ m \in queue
    /\ consumer.chan # 0
    /\ ~consumer.cancelled
    /\ Cardinality(Unsettled) < Prefetch
    /\ queue' = queue \ {m}
    /\ tasks' = tasks \cup {[msg |-> m, chan |-> consumer.chan, at |-> "handle"]}
    /\ UNCHANGED <<client, call, wire, declared, dead, lost, consumer, processed, troubles>>

\* parse, and the types that handle supports.
Fits(m) == m \notin Unfit

Moved(t, at) == (tasks \ {t}) \cup {[t EXCEPT !.at = at]}

\* The release with its claim, in one transaction: nothing if the id is there already.
Released(m) == processed' = processed \cup {m}

Handle(t) ==
    /\ t.at = "handle"
    /\ \/ ~Fits(t.msg) /\ tasks' = Moved(t, "reject") /\ UNCHANGED <<processed, troubles>>
       \/ Fits(t.msg) /\ Released(t.msg) /\ tasks' = Moved(t, "ack") /\ UNCHANGED troubles
       \/ /\ Fits(t.msg) /\ t.msg \notin processed /\ Trouble("refusal")
          /\ tasks' = Moved(t, "reject") /\ UNCHANGED processed
       \/ /\ Fits(t.msg) /\ Trouble("database")
          /\ UNCHANGED processed \/ Released(t.msg)
          /\ tasks' = Moved(t, "requeue")
    /\ UNCHANGED <<client, call, broker, consumer>>

\* What the broker does with a delivery that is settled.
Settled(t, m) ==
    /\ queue' = IF t.at = "requeue" THEN queue \cup {m} ELSE queue
    /\ dead' = IF t.at = "reject" THEN dead \cup {m} ELSE dead

\* A settlement on whichever channel is open, where the tag is another delivery's.
SettleAnywhere(t) ==
    /\ t.at \in {"ack", "reject", "requeue"}
    /\ IF Unsettled = {} THEN tasks' = tasks \ {t} /\ UNCHANGED <<queue, dead>>
       ELSE \E u \in {v \in tasks : Current(v)} :
                Settled(t, u.msg) /\ tasks' = tasks \ {t, u}
    /\ UNCHANGED <<client, call, wire, declared, lost, consumer, processed, troubles>>
\* Only on the channel of the delivery: otherwise the outcome is dropped. A requeue
\* waits first, and asks again.
Settle(t) ==
    /\ t.at \in {"ack", "reject", "requeue"}
    /\ tasks' = tasks \ {t}
    /\ IF Current(t) THEN Settled(t, t.msg) ELSE UNCHANGED <<queue, dead>>
    /\ UNCHANGED <<client, call, wire, declared, lost, consumer, processed, troubles>>

-----------------------------------------------------------------------------
(* The inventory process stops, or dies *)

\* The connection of a consumer that stops. One that was opened after stop goes with the
\* process, a step later.
Shut(c) == [c EXCEPT !.conn = "none", !.chan = 0, !.tag = FALSE, !.opening = IF @ = "consuming" THEN "no" ELSE @]

\* stop: no more deliveries, if there is a consumer to cancel; at once, if there is
\* nothing to wait for.
Stop ==
    /\ Trouble("shutdown")
    /\ consumer.state # "idle" /\ ~consumer.stopping
    /\ LET stopped == [consumer EXCEPT !.state = "stopped", !.timer = FALSE, !.stopping = TRUE,
                                       !.cancelled = consumer.tag]
       IN  consumer' = IF tasks = {} /\ ~consumer.tag THEN Shut(stopped) ELSE stopped
    /\ UNCHANGED <<client, call, broker, tasks, processed>>

\* Once the handlers are done, or have taken too long, the connection is closed.
StopCloses ==
    /\ consumer.stopping /\ consumer.conn # "none"
    /\ TakenBack
    /\ consumer' = Shut(consumer)
    /\ UNCHANGED <<client, call, wire, declared, dead, lost, tasks, processed, troubles>>

\* The process ends, and is started again.
Ends ==
    /\ TakenBack
    /\ consumer' = FreshConsumer
    /\ tasks' = {}
    /\ UNCHANGED <<client, call, wire, declared, dead, lost, processed>>
Exit == consumer.stopping /\ Ends /\ UNCHANGED troubles
Crash == Trouble("crash") /\ Ends

-----------------------------------------------------------------------------
Timers == ClientReconnects \/ ConsumerReconnects \/ \E m \in Messages : PublishTimesOut(m)
Opens == ClientOpens \/ ConsumerDeclares \/ ConsumerSubscribes
Breaks ==
    \/ ClientOpenFails \/ ClientChannelCloses \/ ClientShutsDown \/ Wiped
    \/ ConsumerOpenFails \/ ConsumerChannelCloses \/ Stop \/ Crash
    \/ \E m \in Messages : Nacked(m)
Closes == ClientConnectionCloses \/ ConsumerConnectionCloses \/ ClientRestarts \/ StopCloses \/ Exit

Next ==
    \/ \E m \in Messages : Publish(m) \/ Taken(m) \/ Confirmed(m) \/ Deliver(m)
    \/ \E t \in tasks : Handle(t) \/ Settle(t)
    \/ Timers \/ Opens \/ Breaks \/ Closes

Spec == Init /\ [][Next]_vars

\* Timers fire, an attempt to connect ends, handlers run on, and a process that is
\* stopped ends. Nothing is assumed of confirms: they may go missing.
FairSpec ==
    /\ Spec
    /\ WF_vars(ClientReconnects) /\ WF_vars(ConsumerReconnects)
    /\ \A m \in Messages : WF_vars(PublishTimesOut(m))
    /\ WF_vars(ClientOpens) /\ WF_vars(ConsumerDeclares) /\ WF_vars(ConsumerSubscribes)
    /\ WF_vars(client.conn = "closing" /\ ClientConnectionCloses)
    /\ WF_vars(consumer.conn = "closing" /\ ConsumerConnectionCloses)
    /\ WF_vars(Exit)
    /\ WF_vars(\E m \in Messages : Deliver(m))
    /\ WF_vars(\E t \in tasks : Handle(t)) /\ WF_vars(\E t \in tasks : Settle(t))

-----------------------------------------------------------------------------
(* Properties *)

\* Every variable has its type, a channel is that of an open connection, and the broker
\* has a message in one place.
TypeOK ==
    /\ client \in [state : {"disconnected", "connected", "closed"}, conn : {"none", "open", "closing"},
                   opening : BOOLEAN, timer : BOOLEAN, booted : BOOLEAN]
    /\ call \in [Messages -> {"idle", "waiting", "sent", "resolved", "rejected"}]
    /\ wire \in [Messages -> {"no", "sent", "taken"}]
    /\ declared \in BOOLEAN
    /\ queue \subseteq Messages /\ dead \subseteq Messages /\ lost \subseteq Messages
    /\ consumer \in [state : {"idle", "connected", "disconnected", "stopped"},
                     conn : {"none", "open", "closing"}, chan : 0 .. MaxTroubles + 1, tag : BOOLEAN,
                     opening : {"no", "connecting", "consuming"}, timer : BOOLEAN, stopping : BOOLEAN,
                     cancelled : BOOLEAN]
    /\ tasks \subseteq [msg : Messages, chan : 1 .. MaxTroubles + 1, at : {"handle", "ack", "reject", "requeue"}]
    /\ processed \subseteq Messages
    /\ troubles \in 0 .. MaxTroubles
    /\ consumer.chan # 0 => consumer.conn = "open"
    /\ queue \cap Unsettled = {} /\ (queue \cup Unsettled) \cap dead = {}

\* A message whose publish resolved is in the queue, with a handler that has yet to
\* settle it, with the dead letters, or done, however connections come and go on either
\* side: the cart has deleted its own record by then.
ConfirmedNotLost ==
    \A m \in Messages : call[m] = "resolved" => m \in queue \cup Unsettled \cup dead \cup processed \cup lost

\* publish always settles, also when the confirm goes missing ("publish never hangs").
PublishNeverHangs ==
    \A m \in Messages : call[m] \in {"waiting", "sent"} ~> call[m] \in {"resolved", "rejected"}

\* What the broker confirmed is applied or dead-lettered in the end: the consumer comes
\* back from every loss, and the broker hands out again what was not settled.
ConfirmedIsHandled ==
    \A m \in Messages : call[m] = "resolved" ~> m \in processed \cup dead \cup lost

-----------------------------------------------------------------------------
(* What comments in the code say that does not hold of it *)

\* "A rejection means the message did not get anywhere and should be retried by whoever
\* owns the record behind it" (publish).
RejectedGotNowhere ==
    \A m \in Messages : call[m] = "rejected" => m \notin queue \cup Unsettled \cup processed \cup dead

\* "stopped: stop() was called. Terminal." (the states of RabbitMqConsumer).
StoppedIsTerminal == [][(consumer.state = "stopped" /\ consumer'.stopping) => consumer'.state = "stopped"]_vars
=============================================================================
