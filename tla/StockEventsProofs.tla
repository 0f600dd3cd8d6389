--------------------------- MODULE StockEventsProofs ---------------------------
(***************************************************************************)
(* Proofs about StockEvents, for any number of messages and faults and any *)
(* prefetch. A message that the broker took is never without a place, and  *)
(* a channel is never left behind with deliveries on it.                   *)
(***************************************************************************)
EXTENDS StockEvents, TLAPS

\* A publish is confirmed once the broker took the message, and one that has not been
\* sent is not on the wire.
Told ==
    /\ call \in [Messages -> {"idle", "waiting", "sent", "resolved", "rejected"}]
    /\ wire \in [Messages -> {"no", "sent", "taken"}]
    /\ \A m \in Messages : /\ call[m] \in {"idle", "waiting"} => wire[m] = "no"
                           /\ call[m] = "resolved" => wire[m] = "taken"

\* While a connection is being opened, or waits for its timer, there is no channel.
IsConsumer(c) ==
    c \in [state : {"idle", "connected", "disconnected", "stopped"}, conn : {"none", "open", "closing"},
           chan : {c.chan}, tag : BOOLEAN, opening : {"no", "connecting", "consuming"}, timer : BOOLEAN,
           stopping : BOOLEAN, cancelled : BOOLEAN]
Unlinked(c) ==
    /\ c.opening = "connecting" => c.chan = 0 /\ ~c.timer
    /\ c.timer => c.opening = "no" /\ c.chan = 0
Linked == IsConsumer(consumer) /\ Unlinked(consumer)

\* A delivery that is about to be acknowledged was applied.
IsTask(t) == t = [msg |-> t.msg, chan |-> t.chan, at |-> t.at]
Worked == \A t \in tasks : IsTask(t) /\ (t.at = "ack" => t.msg \in processed)

\* Where a message may be that the broker took.
Places == queue \cup Unsettled \cup dead \cup processed \cup lost
Held == \A m \in Messages : wire[m] = "taken" => m \in Places

Safe == Told /\ Linked /\ Worked /\ Held

-----------------------------------------------------------------------------
(* Publishing *)

LEMMA ToldStep ==
    ASSUME Told, [Next]_vars
    PROVE  Told'
  <1>1. ASSUME NEW m \in Messages, Publish(m) \/ PublishTimesOut(m) \/ Confirmed(m) \/ Nacked(m) \/ Taken(m)
        PROVE  Told'
    <2>1. CASE Publish(m)
      BY <2>1 DEF Publish, Told
    <2>2. CASE PublishTimesOut(m) \/ Confirmed(m)
      BY <2>2 DEF PublishTimesOut, Confirmed, Told, broker
    <2>3. CASE Nacked(m)
      BY <2>3 DEF Nacked, Told
    <2>4. CASE Taken(m)
      BY <2>4 DEF Taken, Told
    <2> QED BY <1>1, <2>1, <2>2, <2>3, <2>4
  <1>2. CASE ClientOpens
    <2>1. CASE UNCHANGED <<call, wire>>
      BY <2>1 DEF Told
    <2>2. CASE /\ call' = [m \in Messages |-> IF m \in Waiting THEN "sent" ELSE call[m]]
               /\ wire' = [m \in Messages |-> IF m \in Waiting THEN "sent" ELSE wire[m]]
      <3>1. \A m \in Messages : call[m] = "waiting" <=> m \in Waiting
        BY DEF Waiting
      <3> HIDE DEF Waiting
      <3> QED BY <2>2, <3>1 DEF Told
    <2> QED BY <1>2, <2>1, <2>2 DEF ClientOpens
  <1>3. CASE wire' = Unsent /\ call' = Errored
    BY <1>3 DEF Told, Unsent, Errored
  <1>4. CASE ClientShutsDown
    BY <1>4 DEF ClientShutsDown, Told, Unsent
  <1>5. CASE UNCHANGED <<call, wire>>
    BY <1>5 DEF Told
  <1>6. CASE ClientChannelCloses \/ ClientConnectionCloses \/ Wiped
    BY <1>3, <1>6 DEF ClientChannelCloses, ClientConnectionCloses, Wiped
  <1>7. CASE \/ ClientReconnects \/ ConsumerReconnects \/ ConsumerDeclares \/ ConsumerSubscribes
             \/ ClientOpenFails \/ ConsumerOpenFails \/ ConsumerChannelCloses \/ Stop \/ Crash
             \/ ConsumerConnectionCloses \/ ClientRestarts \/ StopCloses \/ Exit
             \/ (\E m \in Messages : Deliver(m)) \/ (\E t \in tasks : Handle(t) \/ Settle(t))
             \/ UNCHANGED vars
    BY <1>5, <1>7 DEF ClientReconnects, ConsumerReconnects, ConsumerDeclares, ConsumerSubscribes, ClientOpenFails,
           ConsumerOpenFails, ConsumerChannelCloses, Stop, Crash, ConsumerConnectionCloses, ClientRestarts,
           StopCloses, Exit, Ends, Deliver, Handle, Settle, broker, vars
  <1> QED BY <1>1, <1>2, <1>4, <1>6, <1>7 DEF Next, Timers, Opens, Breaks, Closes

-----------------------------------------------------------------------------
(* The consumer's connection *)

LEMMA FreshLinked == IsConsumer(FreshConsumer) /\ Unlinked(FreshConsumer)
  BY DEF FreshConsumer, IsConsumer, Unlinked

\* One lemma for each shape of change.
LEMMA RescheduledLinked ==
    ASSUME NEW c, IsConsumer(c), c.chan = 0
    PROVE  IsConsumer(Rescheduled(c)) /\ Unlinked(Rescheduled(c))
  <1> DEFINE b == c.timer \/ c.state = "disconnected"
             d == [c EXCEPT !.opening = "no", !.timer = b]
  <1>1. Rescheduled(c) = IF c.state = "idle" THEN FreshConsumer ELSE d
    BY DEF Rescheduled
  <1>2. b \in BOOLEAN
    BY DEF IsConsumer
  <1> HIDE DEF b
  <1>3. IsConsumer(d) /\ d.opening = "no" /\ d.chan = 0
    BY <1>2 DEF IsConsumer
  <1> HIDE DEF d
  <1> QED BY <1>1, <1>3, FreshLinked DEF Unlinked

LEMMA DisconnectedLinked ==
    ASSUME NEW c, IsConsumer(c)
    PROVE  IsConsumer(Disconnected(c)) /\ Unlinked(Disconnected(c))
  <1> DEFINE g == [c EXCEPT !.conn = "none", !.chan = 0, !.tag = FALSE, !.opening = "no"]
             d == [g EXCEPT !.state = "disconnected", !.timer = TRUE]
  <1>1. Disconnected(c) = IF c.state = "stopped" THEN g ELSE IF c.state = "idle" THEN FreshConsumer ELSE d
    BY DEF Disconnected
  <1>2. IsConsumer(g) /\ g.opening = "no" /\ g.chan = 0
    BY DEF IsConsumer
  <1> HIDE DEF g
  <1>3. IsConsumer(d) /\ d.opening = "no" /\ d.chan = 0
    BY <1>2 DEF IsConsumer
  <1> HIDE DEF d
  <1> QED BY <1>1, <1>2, <1>3, FreshLinked DEF Unlinked

LEMMA ShutLinked ==
    ASSUME NEW c, IsConsumer(c), Unlinked(c)
    PROVE  IsConsumer(Shut(c)) /\ Unlinked(Shut(c))
  <1> DEFINE o == IF c.opening = "consuming" THEN "no" ELSE c.opening
             d == [c EXCEPT !.conn = "none", !.chan = 0, !.tag = FALSE, !.opening = o]
  <1>1. Shut(c) = d
    BY DEF Shut
  <1>2. o = "connecting" => c.opening = "connecting"
    OBVIOUS
  <1>3. (c.opening = "no" => o = "no") /\ o \in {"no", "connecting", "consuming"}
    BY DEF IsConsumer
  <1> HIDE DEF o
  <1>4. IsConsumer(d) /\ d.opening = o /\ d.chan = 0 /\ d.timer = c.timer
    BY <1>3 DEF IsConsumer
  <1> HIDE DEF d
  <1> QED BY <1>1, <1>2, <1>3, <1>4 DEF Unlinked

LEMMA LinkedStep ==
    ASSUME Linked, [Next]_vars
    PROVE  Linked'
  <1>0. IsConsumer(consumer) /\ Unlinked(consumer)
    BY DEF Linked
  <1>1. ASSUME NEW d, consumer' = d, IsConsumer(d), Unlinked(d)
        PROVE  Linked'
    BY <1>1 DEF Linked
  <1>2. CASE ConsumerReconnects
    <2> DEFINE o == IF consumer.state = "disconnected" THEN "connecting" ELSE consumer.opening
               d == [consumer EXCEPT !.timer = FALSE, !.opening = o]
    <2>1. consumer' = d /\ consumer.chan = 0
      BY <1>0, <1>2 DEF ConsumerReconnects, Unlinked
    <2>3. o \in {"no", "connecting", "consuming"}
      BY <1>0 DEF IsConsumer
    <2> HIDE DEF o
    <2>2. IsConsumer(d) /\ ~d.timer /\ d.chan = consumer.chan
      BY <1>0, <2>3 DEF IsConsumer
    <2> HIDE DEF d
    <2> QED BY <1>1, <2>1, <2>2 DEF Unlinked
  <1>3. CASE ConsumerDeclares
    <2> DEFINE n == NewChannel
               d == [consumer EXCEPT !.opening = "no"]
               e == [consumer EXCEPT !.opening = "consuming", !.conn = "open", !.chan = n, !.cancelled = FALSE]
    <2>1. (consumer' = d \/ consumer' = e) /\ ~consumer.timer
      BY <1>0, <1>3 DEF ConsumerDeclares, Unlinked
    <2> HIDE DEF n
    <2>2. /\ IsConsumer(d) /\ d.opening = "no" /\ d.timer = consumer.timer
          /\ IsConsumer(e) /\ e.opening = "consuming" /\ e.timer = consumer.timer
      BY <1>0 DEF IsConsumer
    <2> HIDE DEF d, e
    <2> QED BY <1>1, <2>1, <2>2 DEF Unlinked
  <1>4. CASE ConsumerSubscribes
    <2> DEFINE d == [consumer EXCEPT !.opening = "no", !.tag = TRUE, !.state = "connected"]
    <2>1. consumer' = d /\ ~consumer.timer
      BY <1>0, <1>4 DEF ConsumerSubscribes, Unlinked, IsConsumer
    <2>2. IsConsumer(d) /\ d.opening = "no" /\ d.timer = consumer.timer
      BY <1>0 DEF IsConsumer
    <2> HIDE DEF d
    <2> QED BY <1>1, <2>1, <2>2 DEF Unlinked
  <1>5. CASE ConsumerOpenFails
    BY <1>0, <1>1, <1>5, RescheduledLinked DEF ConsumerOpenFails, Unlinked
  <1>6. CASE ConsumerChannelCloses
    <2> DEFINE s == IF consumer.state = "connected" THEN "disconnected" ELSE consumer.state
               c == [consumer EXCEPT !.conn = "none", !.chan = 0]
               d == [consumer EXCEPT !.conn = "closing", !.chan = 0, !.tag = FALSE, !.state = s]
    <2>1. consumer' = Rescheduled(c) \/ consumer' = d
      BY <1>6 DEF ConsumerChannelCloses
    <2>4. s \in {"idle", "connected", "disconnected", "stopped"}
      BY <1>0 DEF IsConsumer
    <2> HIDE DEF s
    <2>2. /\ IsConsumer(c) /\ c.chan = 0
          /\ IsConsumer(d) /\ d.chan = 0 /\ d.opening = consumer.opening /\ d.timer = consumer.timer
      BY <1>0, <2>4 DEF IsConsumer
    <2> HIDE DEF c, d
    <2>3. Unlinked(d)
      BY <1>0, <2>2 DEF Unlinked
    <2> QED BY <1>1, <2>1, <2>2, <2>3, RescheduledLinked
  <1>7. CASE ConsumerConnectionCloses \/ Wiped
    BY <1>0, <1>1, <1>7, DisconnectedLinked DEF ConsumerConnectionCloses, Wiped
  <1>8. CASE Stop
    <2> DEFINE g == consumer.tag
               c == [consumer EXCEPT !.state = "stopped", !.timer = FALSE, !.stopping = TRUE, !.cancelled = g]
    <2>1. consumer' = c \/ consumer' = Shut(c)
      BY <1>8 DEF Stop
    <2>4. g \in BOOLEAN
      BY <1>0 DEF IsConsumer
    <2> HIDE DEF g
    <2>2. IsConsumer(c) /\ ~c.timer /\ c.opening = consumer.opening /\ c.chan = consumer.chan
      BY <1>0, <2>4 DEF IsConsumer
    <2> HIDE DEF c
    <2>3. Unlinked(c)
      BY <1>0, <2>2 DEF Unlinked
    <2> QED BY <1>1, <2>1, <2>2, <2>3, ShutLinked
  <1>9. CASE StopCloses
    BY <1>0, <1>1, <1>9, ShutLinked DEF StopCloses
  <1>10. CASE Exit \/ Crash
    BY <1>1, <1>10, FreshLinked DEF Exit, Crash, Ends
  <1>11. CASE UNCHANGED consumer
    BY <1>0, <1>1, <1>11
  <1>12. CASE \/ ClientReconnects \/ ClientOpens \/ ClientOpenFails \/ ClientChannelCloses \/ ClientShutsDown
              \/ ClientConnectionCloses \/ ClientRestarts
              \/ (\E m \in Messages : Publish(m) \/ Taken(m) \/ Confirmed(m) \/ Deliver(m) \/ Nacked(m)
                                          \/ PublishTimesOut(m))
              \/ (\E t \in tasks : Handle(t) \/ Settle(t))
              \/ UNCHANGED vars
    BY <1>11, <1>12 DEF ClientReconnects, ClientOpens, ClientOpenFails, ClientChannelCloses, ClientShutsDown,
           ClientConnectionCloses, ClientRestarts, Publish, Taken, Confirmed, Deliver, Nacked, PublishTimesOut,
           Handle, Settle, vars
  <1> QED BY <1>2, <1>3, <1>4, <1>5, <1>6, <1>7, <1>8, <1>9, <1>10, <1>12 DEF Next, Timers, Opens, Breaks, Closes


-----------------------------------------------------------------------------
(* Deliveries *)

LEMMA Moving ==
    ASSUME NEW t, IsTask(t), NEW at
    PROVE  \E u : u = [t EXCEPT !.at = at] /\ IsTask(u) /\ u.msg = t.msg /\ u.chan = t.chan /\ u.at = at
  <1> DEFINE u == [t EXCEPT !.at = at]
  <1>1. u = [msg |-> t.msg, chan |-> t.chan, at |-> at]
    BY DEF IsTask
  <1>2. u.msg = t.msg /\ u.chan = t.chan /\ u.at = at
    BY <1>1
  <1>3. IsTask(u)
    <2> HIDE DEF u
    <2> QED BY <1>1, <1>2 DEF IsTask
  <1> QED BY <1>2, <1>3

\* A handler goes on, and applies what it will acknowledge.
LEMMA Handled ==
    ASSUME Worked, NEW t \in tasks, Handle(t)
    PROVE  \E u : /\ tasks' = (tasks \ {t}) \cup {u} /\ IsTask(u) /\ u.msg = t.msg /\ u.chan = t.chan
                  /\ u.at = "ack" => t.msg \in processed'
                  /\ processed \subseteq processed'
  <1>1. PICK at : /\ tasks' = (tasks \ {t}) \cup {[t EXCEPT !.at = at]}
                  /\ at = "ack" => t.msg \in processed'
    BY DEF Handle, Moved, Released
  <1>3. IsTask(t)
    BY DEF Worked
  <1>4. PICK u : u = [t EXCEPT !.at = at] /\ IsTask(u) /\ u.msg = t.msg /\ u.chan = t.chan /\ u.at = at
    BY <1>3, Moving
  <1>2. processed \subseteq processed'
    BY DEF Handle, Released
  <1> QED BY <1>1, <1>2, <1>4

LEMMA Delivered ==
    ASSUME NEW m, NEW c
    PROVE  LET u == [msg |-> m, chan |-> c, at |-> "handle"]
           IN  IsTask(u) /\ u.msg = m /\ u.chan = c /\ u.at = "handle"
  BY DEF IsTask

LEMMA WorkedStep ==
    ASSUME Worked, [Next]_vars
    PROVE  Worked'
  <1>1. ASSUME NEW t \in tasks, Handle(t)
        PROVE  Worked'
    BY <1>1, Handled DEF Worked
  <1>2. ASSUME NEW m \in Messages, Deliver(m)
        PROVE  Worked'
    <2> DEFINE u == [msg |-> m, chan |-> consumer.chan, at |-> "handle"]
    <2>1. tasks' = tasks \cup {u} /\ processed' = processed
      BY <1>2 DEF Deliver
    <2>2. IsTask(u) /\ u.at = "handle"
      BY Delivered
    <2> HIDE DEF u
    <2> QED BY <2>1, <2>2 DEF Worked
  <1>3. CASE tasks' \subseteq tasks /\ processed' = processed
    BY <1>3 DEF Worked
  <1>4. ASSUME NEW t \in tasks, Settle(t)
        PROVE  Worked'
    BY <1>3, <1>4 DEF Settle
  <1>5. CASE \/ ConsumerChannelCloses \/ ConsumerConnectionCloses \/ Wiped \/ Exit \/ Crash
    BY <1>3, <1>5 DEF ConsumerChannelCloses, ConsumerConnectionCloses, Wiped, Exit, Crash, Ends, Surviving
  <1>6. CASE \/ ClientReconnects \/ ClientOpens \/ ClientOpenFails \/ ClientChannelCloses \/ ClientShutsDown
             \/ ClientConnectionCloses \/ ClientRestarts \/ ConsumerReconnects \/ ConsumerDeclares
             \/ ConsumerSubscribes \/ ConsumerOpenFails \/ Stop \/ StopCloses
             \/ (\E m \in Messages : Publish(m) \/ Taken(m) \/ Confirmed(m) \/ Nacked(m) \/ PublishTimesOut(m))
             \/ UNCHANGED vars
    BY <1>3, <1>6 DEF ClientReconnects, ClientOpens, ClientOpenFails, ClientChannelCloses, ClientShutsDown,
           ClientConnectionCloses, ClientRestarts, ConsumerReconnects, ConsumerDeclares, ConsumerSubscribes,
           ConsumerOpenFails, Stop, StopCloses, Publish, Taken, Confirmed, Nacked, PublishTimesOut, vars
  <1> QED BY <1>1, <1>2, <1>4, <1>5, <1>6 DEF Next, Timers, Opens, Breaks, Closes

\* A message leaves a place only for another.
LEMMA PlacesKept ==
    ASSUME Linked, Worked, [Next]_vars
    PROVE  Places \subseteq Places'
  <1>0. IsConsumer(consumer) /\ Unlinked(consumer)
    BY DEF Linked
  <1>1. CASE /\ queue \subseteq queue' /\ tasks' = tasks /\ consumer'.chan = consumer.chan
             /\ UNCHANGED <<dead, processed, lost>>
    BY <1>1 DEF Places, Unsettled, Current
  <1>2. CASE TakenBack /\ UNCHANGED <<dead, processed, lost>>
    BY <1>2 DEF Places, TakenBack
  <1>3. CASE consumer.chan = 0 /\ UNCHANGED <<queue, dead, processed, lost>>
    BY <1>3 DEF Places, Unsettled, Current
  <1>4. ASSUME NEW t \in tasks, Handle(t)
        PROVE  Places \subseteq Places'
    <2>1. PICK u : /\ tasks' = (tasks \ {t}) \cup {u} /\ u.msg = t.msg /\ u.chan = t.chan
                   /\ processed \subseteq processed'
      BY <1>4, Handled
    <2>2. UNCHANGED <<queue, dead, lost, consumer>>
      BY <1>4 DEF Handle, broker
    <2>3. Unsettled \subseteq Unsettled'
      BY <2>1, <2>2 DEF Unsettled, Current
    <2> QED BY <2>1, <2>2, <2>3 DEF Places
  <1>5. ASSUME NEW t \in tasks, Settle(t)
        PROVE  Places \subseteq Places'
    <2>1. tasks' = tasks \ {t} /\ UNCHANGED <<lost, consumer, processed>> /\ queue \subseteq queue' /\ dead \subseteq dead'
      BY <1>5 DEF Settle, Settled
    <2>2. Current(t) => t.msg \in queue' \cup dead' \cup processed'
      BY <1>5 DEF Settle, Settled, Worked
    <2>3. Unsettled \subseteq Unsettled' \cup queue' \cup dead' \cup processed'
      BY <2>1, <2>2 DEF Unsettled, Current
    <2> QED BY <2>1, <2>3 DEF Places
  <1>6. ASSUME NEW m \in Messages, Deliver(m)
        PROVE  Places \subseteq Places'
    <2> DEFINE u == [msg |-> m, chan |-> consumer.chan, at |-> "handle"]
    <2>1. /\ tasks' = tasks \cup {u} /\ queue' = queue \ {m} /\ consumer.chan # 0
          /\ UNCHANGED <<dead, lost, consumer, processed>>
      BY <1>6 DEF Deliver
    <2>2. u.msg = m /\ u.chan = consumer.chan
      BY Delivered
    <2> HIDE DEF u
    <2>3. m \in Unsettled' /\ Unsettled \subseteq Unsettled'
      BY <2>1, <2>2 DEF Unsettled, Current
    <2> QED BY <2>1, <2>3 DEF Places
  <1>7. CASE Wiped
    BY <1>7 DEF Wiped, Places
  <1>8. CASE \/ ConsumerChannelCloses \/ ConsumerConnectionCloses \/ StopCloses \/ Exit \/ Crash
    BY <1>2, <1>8 DEF ConsumerChannelCloses, ConsumerConnectionCloses, StopCloses, Exit, Crash, Ends
  <1>9. CASE ConsumerDeclares \/ ConsumerOpenFails \/ ConsumerReconnects
    BY <1>0, <1>3, <1>9 DEF ConsumerDeclares, ConsumerOpenFails, ConsumerReconnects, Unlinked, broker
  <1>10. CASE ConsumerSubscribes
    <2> DEFINE d == [consumer EXCEPT !.opening = "no", !.tag = TRUE, !.state = "connected"]
    <2>1. consumer' = d /\ UNCHANGED <<queue, dead, lost, tasks, processed>>
      BY <1>10 DEF ConsumerSubscribes, broker
    <2>2. d.chan = consumer.chan
      BY <1>0 DEF IsConsumer
    <2> HIDE DEF d
    <2> QED BY <1>1, <2>1, <2>2
  <1>11. CASE Stop
    <2> DEFINE g == consumer.tag
               c == [consumer EXCEPT !.state = "stopped", !.timer = FALSE, !.stopping = TRUE, !.cancelled = g]
    <2>1. /\ consumer' = c \/ tasks = {}
          /\ UNCHANGED <<queue, dead, lost, tasks, processed>>
      BY <1>11 DEF Stop, broker
    <2>2. c.chan = consumer.chan
      BY <1>0 DEF IsConsumer
    <2> HIDE DEF c
    <2>3. CASE tasks = {}
      BY <2>1, <2>3 DEF Places, Unsettled
    <2> QED BY <1>1, <2>1, <2>2, <2>3
  <1>12. CASE \/ ClientReconnects \/ ClientOpens \/ ClientOpenFails \/ ClientChannelCloses \/ ClientShutsDown
              \/ ClientConnectionCloses \/ ClientRestarts
              \/ (\E m \in Messages : Publish(m) \/ Taken(m) \/ Confirmed(m) \/ Nacked(m) \/ PublishTimesOut(m))
              \/ UNCHANGED vars
    BY <1>1, <1>12 DEF ClientReconnects, ClientOpens, ClientOpenFails, ClientChannelCloses, ClientShutsDown,
           ClientConnectionCloses, ClientRestarts, Publish, Taken, Confirmed, Nacked, PublishTimesOut, broker, vars
  <1> QED BY <1>4, <1>5, <1>6, <1>7, <1>8, <1>9, <1>10, <1>11, <1>12 DEF Next, Timers, Opens, Breaks, Closes

\* Only the broker's taking a message puts it in its hands.
LEMMA OnlyTaken ==
    ASSUME Told, [Next]_vars, NEW m \in Messages, wire'[m] = "taken"
    PROVE  wire[m] = "taken" \/ m \in queue'
  <1>1. ASSUME NEW n \in Messages, Publish(n) \/ Nacked(n) \/ Taken(n)
        PROVE  wire[m] = "taken" \/ m \in queue'
    BY <1>1 DEF Publish, Nacked, Taken, Told
  <1>2. CASE ClientOpens
    BY <1>2 DEF ClientOpens
  <1>3. CASE wire' = Unsent
    BY <1>3 DEF Unsent
  <1>4. CASE ClientChannelCloses \/ ClientConnectionCloses \/ ClientShutsDown \/ Wiped
    BY <1>3, <1>4 DEF ClientChannelCloses, ClientConnectionCloses, ClientShutsDown, Wiped
  <1>5. CASE \/ ClientReconnects \/ ConsumerReconnects \/ ConsumerDeclares \/ ConsumerSubscribes
             \/ ClientOpenFails \/ ConsumerOpenFails \/ ConsumerChannelCloses \/ Stop \/ Crash
             \/ ConsumerConnectionCloses \/ ClientRestarts \/ StopCloses \/ Exit
             \/ (\E n \in Messages : Deliver(n) \/ PublishTimesOut(n) \/ Confirmed(n))
             \/ (\E t \in tasks : Handle(t) \/ Settle(t))
             \/ UNCHANGED vars
    BY <1>5 DEF ClientReconnects, ConsumerReconnects, ConsumerDeclares, ConsumerSubscribes, ClientOpenFails,
           ConsumerOpenFails, ConsumerChannelCloses, Stop, Crash, ConsumerConnectionCloses, ClientRestarts,
           StopCloses, Exit, Ends, Deliver, PublishTimesOut, Confirmed, Handle, Settle, broker, vars
  <1> QED BY <1>1, <1>2, <1>4, <1>5 DEF Next, Timers, Opens, Breaks, Closes

LEMMA SafeInit == Init => Safe
  BY FreshLinked DEF Init, Safe, Told, Linked, Worked, Held

LEMMA SafeStep ==
    ASSUME Safe, [Next]_vars
    PROVE  Safe'
  <1>1. Told /\ Linked /\ Worked /\ Held
    BY DEF Safe
  <1>2. Held'
    <2>1. Places \subseteq Places'
      BY <1>1, PlacesKept
    <2>2. queue' \subseteq Places'
      BY DEF Places
    <2> QED BY <1>1, <2>1, <2>2, OnlyTaken DEF Held
  <1> QED BY <1>1, <1>2, ToldStep, LinkedStep, WorkedStep DEF Safe

\* A message whose publish resolved is in the queue, with a handler that has yet to
\* settle it, with the dead letters, or done, however connections come and go on either
\* side: the cart has deleted its own record by then.
THEOREM ConfirmedStaysSomewhere == Spec => []ConfirmedNotLost
  <1>1. Safe => ConfirmedNotLost
    BY DEF Safe, Told, Held, Places, ConfirmedNotLost
  <1> QED BY <1>1, SafeInit, SafeStep, PTL DEF Spec

===============================================================================
