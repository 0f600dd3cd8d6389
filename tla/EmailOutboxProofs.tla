-------------------------- MODULE EmailOutboxProofs --------------------------
(***************************************************************************)
(* Proofs about EmailOutbox, for any number of messages, workers, requests *)
(* and keys, any batch and concurrency, and any set of faults.             *)
(***************************************************************************)
EXTENDS EmailOutbox, TLAPS

USE DEF operator, delivered

\* What a request that is under way has brought along.
Asking ==
    \A r \in Callers :
        /\ request[r].pc \in {"find", "create", "reread"} => request[r].payload \in Payloads
        /\ request[r].pc \in {"find", "reread"} => request[r].key \in Keys

Base == TypeOK /\ Asking

-----------------------------------------------------------------------------
(* Records *)

LEMMA FreshRow ==
    ASSUME NEW p \in Payloads \cup {NoKey}
    PROVE  LET fresh == [Absent EXCEPT !.status = "PENDING", !.payload = p]
               purged == [Absent EXCEPT !.status = "purged"]
           IN  /\ fresh \in Row /\ fresh.payload = p /\ fresh.status = "PENDING"
               /\ purged \in Row /\ purged.status = "purged"
  <1>1. Absent \in Row
    BY OutboxAssumption DEF Absent, Row
  <1> QED BY <1>1 DEF Row, Statuses

LEMMA RowsOfAClaim ==
    ASSUME TypeOK, NEW m \in Messages, NEW c \in Cycles
    PROVE  /\ Locked(m, c) \in Row
           /\ Locked(m, c).payload = row[m].payload
           /\ Locked(m, c).status = "SENDING"
           /\ Locked(m, c).lock = c
           /\ Locked(m, c).stale = FALSE
  <1> DEFINE n == IF row[m].attempts > MaxAttempts THEN row[m].attempts ELSE row[m].attempts + 1
  <1>1. row[m] \in Row
    BY DEF TypeOK
  <1>2. n \in 0 .. MaxAttempts + 1
    BY <1>1, OutboxAssumption DEF Row
  <1>3. Locked(m, c) = [row[m] EXCEPT !.status = "SENDING", !.lock = c, !.stale = FALSE,
                                      !.due = FALSE, !.attempts = n]
    BY <1>1 DEF Locked, Row
  <1> HIDE DEF n
  <1> QED BY <1>1, <1>2, <1>3 DEF Row, Statuses

LEMMA RowsDisowned ==
    ASSUME TypeOK, NEW c \in Cycles
    PROVE  /\ Disowned(c) \in [Messages -> Row]
           /\ \A m \in Messages :
                  /\ Disowned(c)[m].status = row[m].status
                  /\ Disowned(c)[m].payload = row[m].payload
                  /\ Disowned(c)[m].stale = row[m].stale
                  /\ row[m].lock # c => Disowned(c)[m].lock = row[m].lock
  <1>1. \A m \in Messages : row[m] \in Row
    BY DEF TypeOK
  <1> QED BY <1>1 DEF Disowned, Row

LEMMA HandHandled ==
    ASSUME NEW y \in Cycle, NEW m \in Messages, NEW h \in Hand
    PROVE  /\ Handled(y, m, h) \in Cycle /\ Handled(y, m, h).pc = y.pc
           /\ \A n \in Messages : Handled(y, m, h).hand[n] = IF n = m THEN h ELSE y.hand[n]
  <1> DEFINE hand == [y.hand EXCEPT ![m] = h]
  <1>1. /\ hand \in [Messages -> Hand]
        /\ \A n \in Messages : hand[n] = IF n = m THEN h ELSE y.hand[n]
    BY DEF Cycle
  <1>2. Handled(y, m, h) = [y EXCEPT !.hand = hand]
    BY DEF Handled
  <1> HIDE DEF hand
  <1>3. Handled(y, m, h) \in Cycle /\ Handled(y, m, h).hand = hand /\ Handled(y, m, h).pc = y.pc
    BY <1>1, <1>2 DEF Cycle
  <1> QED BY <1>1, <1>3

\* What going late leaves of the cycles' hands.
LEMMA HandsGoneLate ==
    ASSUME NEW cycles \in [Cycles -> Cycle], NEW m \in Messages
    PROVE  /\ Late(cycles, m) \in [Cycles -> Cycle]
           /\ \A c \in Cycles, n \in Messages :
                  /\ Late(cycles, m)[c].hand[n].state = cycles[c].hand[n].state
                  /\ n # m => Late(cycles, m)[c].hand[n] = cycles[c].hand[n]
                  /\ cycles[c].hand[m].state # "none" => Late(cycles, m)[c].hand[m].late
  <1> DEFINE gone(c) == [cycles[c].hand[m] EXCEPT !.late = TRUE]
  <1>1. \A c \in Cycles : cycles[c] \in Cycle /\ cycles[c].hand[m] \in Hand
    BY DEF Cycle
  <1>2. \A c \in Cycles : gone(c) \in Hand /\ gone(c).state = cycles[c].hand[m].state /\ gone(c).late
    BY <1>1 DEF Hand
  <1>3. \A c \in Cycles : Late(cycles, m)[c] = IF cycles[c].hand[m].state = "none" THEN cycles[c]
                                               ELSE Handled(cycles[c], m, gone(c))
    BY DEF Late
  <1> HIDE DEF gone
  <1>4. \A c \in Cycles : /\ Late(cycles, m)[c] \in Cycle /\ Late(cycles, m)[c].pc = cycles[c].pc
                          /\ \A n \in Messages :
                                 \/ cycles[c].hand[m].state = "none" /\ Late(cycles, m)[c] = cycles[c]
                                 \/ Late(cycles, m)[c].hand[n] = IF n = m THEN gone(c)
                                                                 ELSE cycles[c].hand[n]
    BY <1>1, <1>2, <1>3, HandHandled
  <1>5. Late(cycles, m) \in [Cycles -> Cycle]
    BY <1>4 DEF Late
  <1> QED BY <1>2, <1>4, <1>5

\* Going late moves no cycle, and leaves those alone that do not hold the message.
LEMMA LateElsewhere ==
    ASSUME NEW cycles \in [Cycles -> Cycle], NEW m \in Messages, NEW c \in Cycles
    PROVE  /\ Late(cycles, m)[c].pc = cycles[c].pc
           /\ cycles[c].hand[m].state = "none" => Late(cycles, m)[c] = cycles[c]
  <1> DEFINE gone == [cycles[c].hand[m] EXCEPT !.late = TRUE]
  <1>1. cycles[c] \in Cycle /\ gone \in Hand
    <2>1. cycles[c] \in Cycle /\ cycles[c].hand[m] \in Hand
      BY DEF Cycle
    <2> QED BY <2>1 DEF Hand
  <1>2. Late(cycles, m)[c] = IF cycles[c].hand[m].state = "none" THEN cycles[c]
                             ELSE Handled(cycles[c], m, gone)
    BY DEF Late
  <1> HIDE DEF gone
  <1> QED BY <1>1, <1>2, HandHandled

LEMMA HandsFinished ==
    ASSUME TypeOK, NEW c \in Cycles, NEW m \in Messages
    PROVE  /\ Finished(c, m) \in [Cycles -> Cycle]
           /\ \A d \in Cycles : Finished(c, m)[d].pc = cycle[d].pc
           /\ \A d \in Cycles, n \in Messages :
                  Finished(c, m)[d].hand[n] = IF d = c /\ n = m THEN NotHeld ELSE cycle[d].hand[n]
  <1>1. cycle \in [Cycles -> Cycle] /\ NotHeld \in Hand
    BY DEF TypeOK, NotHeld, Hand
  <1> DEFINE y == Handled(cycle[c], m, NotHeld)
  <1>2. /\ y \in Cycle /\ y.pc = cycle[c].pc
        /\ \A n \in Messages : y.hand[n] = IF n = m THEN NotHeld ELSE cycle[c].hand[n]
    BY <1>1, HandHandled
  <1>3. Finished(c, m) = [cycle EXCEPT ![c] = y]
    BY DEF Finished
  <1> HIDE DEF y
  <1> QED BY <1>1, <1>2, <1>3

\* A request that moves on keeps what it brought along.
LEMMA RequestMoves ==
    ASSUME Base, NEW r \in Callers, NEW q \in Request, request' = [request EXCEPT ![r] = q],
           q.pc \in {"find", "create", "reread"} => q.payload \in Payloads,
           q.pc \in {"find", "reread"} => q.key \in Keys
    PROVE  request' \in [Callers -> Request] /\ Asking'
  <1>1. \A v \in Callers : request'[v] = IF v = r THEN q ELSE request[v]
    BY DEF Base, TypeOK
  <1>2. request' \in [Callers -> Request]
    BY DEF Base, TypeOK
  <1>3. Asking'
    BY <1>1 DEF Base, Asking
  <1> QED BY <1>2, <1>3

LEMMA RequestDone ==
    ASSUME Base, NEW r \in Callers, Done(r)
    PROVE  request' \in [Callers -> Request] /\ Asking'
  <1> DEFINE q == [IdleRequest EXCEPT !.pc = "done"]
  <1>1. q \in Request /\ q.pc = "done"
    BY DEF IdleRequest, Request
  <1>2. request' = [request EXCEPT ![r] = q]
    BY DEF Done
  <1> HIDE DEF q
  <1> QED BY <1>1, <1>2, RequestMoves

\* An answer is a message under the key of its request.
LEMMA AnswerTyped ==
    ASSUME Base, NEW r \in Callers, NEW m \in Messages, Answered(r, m),
           request[r].pc \in {"find", "create", "reread"}
    PROVE  answers' \subseteq [key : Keys, payload : Payloads, message : Messages]
  <1>1. request[r].payload \in Payloads /\ request[r].key \in Keys \cup {NoKey}
    BY DEF Base, TypeOK, Asking, Request
  <1> QED BY <1>1 DEF Answered, Base, TypeOK

LEMMA ReplayTyped ==
    ASSUME Base, NEW r \in Callers, Replay(r), request[r].pc \in {"find", "reread"},
           keys[request[r].key] # NoMessage
    PROVE  /\ request' \in [Callers -> Request] /\ Asking'
           /\ answers' \subseteq [key : Keys, payload : Payloads, message : Messages]
  <1>1. keys[request[r].key] \in Messages
    BY DEF Base, TypeOK, Asking
  <1>2. answers' \subseteq [key : Keys, payload : Payloads, message : Messages]
    BY <1>1, AnswerTyped DEF Replay, Base, TypeOK
  <1> QED BY <1>2, RequestDone DEF Replay

-----------------------------------------------------------------------------
(* Types *)

LEMMA InitBase == Init => Base
  <1> SUFFICES ASSUME Init PROVE Base
    OBVIOUS
  <1>1. /\ Absent \in Row /\ IdleRequest \in Request /\ IdleRequest.pc = "idle"
    BY OutboxAssumption DEF Absent, Row, Statuses, IdleRequest, Request
  <1>2. IdleCycle \in Cycle
    BY DEF IdleCycle, NotHeld, Cycle, Hand
  <1> QED BY <1>1, <1>2, OutboxAssumption DEF Init, Base, TypeOK, Asking

LEMMA AskBase ==
    ASSUME Base, NEW r \in Callers, NEW a \in Asks[r], Ask(r, a[1], a[2])
    PROVE  Base'
  <1>1. a[1] \in Keys \cup {NoKey} /\ a[2] \in Payloads
    BY OutboxAssumption
  <1> DEFINE q == [pc |-> IF a[1] = NoKey THEN "create" ELSE "find", key |-> a[1], payload |-> a[2]]
  <1>2. /\ q \in Request
        /\ q.payload \in Payloads
        /\ q.pc \in {"find", "reread"} => q.key \in Keys
    BY <1>1 DEF Request
  <1>3. request' = [request EXCEPT ![r] = q]
    BY DEF Ask
  <1> HIDE DEF q
  <1>4. request' \in [Callers -> Request] /\ Asking'
    BY <1>2, <1>3, RequestMoves
  <1> QED BY <1>4 DEF Base, TypeOK, Ask, operator

LEMMA FindKeyBase ==
    ASSUME Base, NEW r \in Callers, FindKey(r)
    PROVE  Base'
  <1>1. CASE keys[request[r].key] # NoMessage /\ Replay(r)
    <2>1. /\ request' \in [Callers -> Request] /\ Asking'
          /\ answers' \subseteq [key : Keys, payload : Payloads, message : Messages]
      BY <1>1, ReplayTyped DEF FindKey
    <2> QED BY <2>1 DEF Base, TypeOK, FindKey, operator
  <1>2. CASE request' = [request EXCEPT ![r].pc = "create"] /\ UNCHANGED answers
    <2> DEFINE q == [request[r] EXCEPT !.pc = "create"]
    <2>1. q \in Request /\ q.payload \in Payloads /\ q.pc = "create"
      BY DEF FindKey, Base, TypeOK, Asking, Request
    <2>2. request' = [request EXCEPT ![r] = q]
      BY <1>2
    <2> HIDE DEF q
    <2>3. request' \in [Callers -> Request] /\ Asking'
      BY <2>1, <2>2, RequestMoves
    <2> QED BY <1>2, <2>3 DEF Base, TypeOK, FindKey, operator
  <1> QED BY <1>1, <1>2 DEF FindKey

LEMMA CreateBase ==
    ASSUME Base, NEW r \in Callers, Create(r)
    PROVE  Base'
  <1>1. CASE Insert(r)
    <2>1. PICK m \in Messages :
            /\ row' = [row EXCEPT ![m] = [Absent EXCEPT !.status = "PENDING",
                                                        !.payload = request[r].payload]]
            /\ keys' = IF request[r].key = NoKey THEN keys ELSE [keys EXCEPT ![request[r].key] = m]
            /\ Answered(r, m) /\ Done(r)
      BY <1>1 DEF Insert
    <2> DEFINE fresh == [Absent EXCEPT !.status = "PENDING", !.payload = request[r].payload]
    <2>2. fresh \in Row
      BY FreshRow DEF Base, TypeOK, Request
    <2>3. row' = [row EXCEPT ![m] = fresh]
      BY <2>1
    <2> HIDE DEF fresh
    <2>4. row' \in [Messages -> Row] /\ keys' \in [Keys -> Messages \cup {NoMessage}]
      BY <2>1, <2>2, <2>3 DEF Base, TypeOK
    <2>5. answers' \subseteq [key : Keys, payload : Payloads, message : Messages]
      BY <2>1, AnswerTyped DEF Create
    <2> QED BY <2>1, <2>4, <2>5, RequestDone DEF Base, TypeOK, Create, operator
  <1>2. CASE /\ request' = [request EXCEPT ![r].pc = "reread"]
             /\ request[r].key # NoKey
             /\ UNCHANGED <<row, keys, answers>>
    <2> DEFINE q == [request[r] EXCEPT !.pc = "reread"]
    <2>1. q \in Request /\ q.payload \in Payloads /\ q.key \in Keys
      BY <1>2 DEF Create, Base, TypeOK, Asking, Request
    <2>2. request' = [request EXCEPT ![r] = q]
      BY <1>2
    <2> HIDE DEF q
    <2>3. request' \in [Callers -> Request] /\ Asking'
      BY <2>1, <2>2, RequestMoves
    <2> QED BY <1>2, <2>3 DEF Base, TypeOK, Create, operator
  <1>3. CASE Done(r) /\ UNCHANGED <<row, keys, answers>>
    BY <1>3, RequestDone DEF Base, TypeOK, Create, operator
  <1> QED BY <1>1, <1>2, <1>3 DEF Create, CreateRow

LEMMA RereadBase ==
    ASSUME Base, NEW r \in Callers, Reread(r)
    PROVE  Base'
  <1>1. CASE keys[request[r].key] # NoMessage /\ Replay(r)
    <2>1. /\ request' \in [Callers -> Request] /\ Asking'
          /\ answers' \subseteq [key : Keys, payload : Payloads, message : Messages]
      BY <1>1, ReplayTyped DEF Reread
    <2> QED BY <2>1 DEF Base, TypeOK, Reread, operator
  <1>2. CASE Done(r) /\ UNCHANGED answers
    BY <1>2, RequestDone DEF Base, TypeOK, Reread, operator
  <1> QED BY <1>1, <1>2 DEF Reread

\* The actions of cycles, clock and operator leave requests and answers alone, but for
\* the purge, which takes answers away.
LEMMA RestBase ==
    ASSUME Base, UNCHANGED request, answers' \subseteq answers,
           row' \in [Messages -> Row], keys' \in [Keys -> Messages \cup {NoMessage}],
           cycle' \in [Cycles -> Cycle], reviving' \subseteq Messages,
           revivals' \in Nat, accepted' \subseteq Messages, unsure' \subseteq Messages
    PROVE  Base'
  BY DEF Base, TypeOK, Asking

LEMMA SelectBase == ASSUME Base, NEW c \in Cycles, Select(c) PROVE Base'
  <1>1. PICK S \in SUBSET Due : cycle' = [cycle EXCEPT ![c].pc = "update", ![c].candidates = S]
    BY DEF Select
  <1> DEFINE y == [cycle[c] EXCEPT !.pc = "update", !.candidates = S]
  <1>2. y \in Cycle
    BY DEF Base, TypeOK, Cycle, Due
  <1>3. cycle' = [cycle EXCEPT ![c] = y]
    BY <1>1
  <1> HIDE DEF y
  <1>4. cycle' \in [Cycles -> Cycle]
    BY <1>2, <1>3 DEF Base, TypeOK
  <1> QED BY <1>4, RestBase DEF Base, TypeOK, Select, accepting, operator

LEMMA UpdateBase == ASSUME Base, NEW c \in Cycles, Update(c) PROVE Base'
  <1>1. row' \in [Messages -> Row]
    BY RowsOfAClaim DEF Update, Base, TypeOK
  <1> DEFINE y == [cycle[c] EXCEPT !.pc = "fetch", !.candidates = {}]
  <1>2. y \in Cycle
    BY DEF Base, TypeOK, Cycle
  <1>3. cycle' = [cycle EXCEPT ![c] = y]
    BY DEF Update
  <1> HIDE DEF y
  <1>4. cycle' \in [Cycles -> Cycle]
    BY <1>2, <1>3 DEF Base, TypeOK
  <1> QED BY <1>1, <1>4, RestBase DEF Base, TypeOK, Update, accepting, operator

\* What a cycle that fetches takes into its hands.
LEMMA FetchHands ==
    ASSUME TypeOK, NEW c \in Cycles, Fetch(c)
    PROVE  /\ cycle' \in [Cycles -> Cycle]
           /\ \A d \in Cycles, m \in Messages : d # c => cycle'[d].hand[m] = cycle[d].hand[m]
           /\ \A m \in Messages :
                  \/ cycle'[c].hand[m].state = "none"
                  \/ /\ cycle'[c].hand[m].state = "todo"
                     /\ row[m].stale => cycle'[c].hand[m].late
                     /\ row[m].status = "SENDING" /\ row[m].lock = c
  <1> DEFINE claim(m) == [state |-> "todo", exhausted |-> row[m].attempts >= MaxAttempts,
                          late |-> row[m].stale]
             hand == [m \in Messages |-> IF row[m].status = "SENDING" /\ row[m].lock = c
                                         THEN claim(m) ELSE NotHeld]
             y == [pc |-> "deliver", candidates |-> {}, hand |-> hand]
  <1>1. \A m \in Messages : claim(m) \in Hand
    BY DEF TypeOK, Row, Hand
  <1>2. NotHeld \in Hand
    BY DEF NotHeld, Hand
  <1>3. cycle' = [cycle EXCEPT ![c] = y]
    BY DEF Fetch
  <1>4. hand \in [Messages -> Hand]
    <2> HIDE DEF claim
    <2> QED BY <1>1, <1>2
  <1>5. y \in Cycle /\ y.hand = hand
    <2> HIDE DEF hand
    <2> QED BY <1>4 DEF Cycle
  <1>6. \A m \in Messages : hand[m] = IF row[m].status = "SENDING" /\ row[m].lock = c
                                      THEN claim(m) ELSE NotHeld
    OBVIOUS
  <1>7. \A m \in Messages : claim(m).state = "todo" /\ (row[m].stale => claim(m).late)
    OBVIOUS
  <1>8. NotHeld.state = "none"
    BY DEF NotHeld
  <1> HIDE DEF y, hand, claim
  <1>9. cycle' \in [Cycles -> Cycle] /\ \A d \in Cycles : cycle'[d] = IF d = c THEN y ELSE cycle[d]
    BY <1>3, <1>5 DEF TypeOK
  <1>10. ASSUME NEW m \in Messages
         PROVE  \/ cycle'[c].hand[m].state = "none"
                \/ /\ cycle'[c].hand[m].state = "todo"
                   /\ row[m].stale => cycle'[c].hand[m].late
                   /\ row[m].status = "SENDING" /\ row[m].lock = c
    <2>1. cycle'[c].hand[m] = hand[m]
      BY <1>5, <1>9
    <2>2. hand[m] = IF row[m].status = "SENDING" /\ row[m].lock = c THEN claim(m) ELSE NotHeld
      BY <1>6
    <2> QED BY <1>7, <1>8, <2>1, <2>2
  <1> QED BY <1>9, <1>10

LEMMA FetchBase == ASSUME Base, NEW c \in Cycles, Fetch(c) PROVE Base'
  <1>1. cycle' \in [Cycles -> Cycle]
    BY FetchHands DEF Base
  <1> QED BY <1>1, RestBase DEF Base, TypeOK, Fetch, accepting, operator

LEMMA SendBase == ASSUME Base, NEW c \in Cycles, NEW m \in Messages, Send(c, m) PROVE Base'
  <1>1. PICK state \in {"sent", "failed", "refused"} :
            /\ Accepts(m) \/ UNCHANGED accepted
            /\ Doubt(m) \/ UNCHANGED unsure
            /\ cycle' = [cycle EXCEPT ![c] = Handled(cycle[c], m, [cycle[c].hand[m] EXCEPT !.state = state])]
    BY DEF Send
  <1> DEFINE h == [cycle[c].hand[m] EXCEPT !.state = state]
  <1>2. cycle[c] \in Cycle
    BY DEF Base, TypeOK
  <1>3. h \in Hand
    BY <1>2 DEF Cycle, Hand
  <1>4. cycle' = [cycle EXCEPT ![c] = Handled(cycle[c], m, h)]
    BY <1>1
  <1> HIDE DEF h
  <1>5. Handled(cycle[c], m, h) \in Cycle
    BY <1>2, <1>3, HandHandled
  <1>6. cycle' \in [Cycles -> Cycle]
    BY <1>4, <1>5 DEF Base, TypeOK
  <1>7. accepted' \subseteq Messages /\ unsure' \subseteq Messages
    BY <1>1 DEF Accepts, Doubt, Base, TypeOK
  <1> QED BY <1>6, <1>7, RestBase DEF Base, TypeOK, Send, accepting, operator

\* The row that Mark leaves: its status by the outcome, unlocked, and the same message.
LEMMA MarkedRow ==
    ASSUME TypeOK, NEW c \in Cycles, NEW m \in Messages, Mark(c, m)
    PROVE  /\ row' \in [Messages -> Row]
           /\ \A n \in Messages : row'[n].payload = row[n].payload
           /\ \A n \in Messages : n # m => row'[n] = row[n]
           /\ row'[m].status = IF Exists(m) THEN Outcome(cycle[c].hand[m]) ELSE row[m].status
  <1>1. Outcome(cycle[c].hand[m]) \in Statuses
    BY DEF Outcome, AfterFailure, Statuses
  <1> DEFINE status == Outcome(cycle[c].hand[m])
             marked == [row[m] EXCEPT !.status = status, !.lock = Unlocked, !.stale = FALSE, !.due = FALSE]
  <1>2. marked \in Row /\ marked.payload = row[m].payload /\ marked.status = status
    <2> HIDE DEF status
    <2> QED BY <1>1 DEF TypeOK, Row, status
  <1>3. row' = IF Exists(m) THEN [row EXCEPT ![m] = marked] ELSE row
    BY DEF Mark
  <1> HIDE DEF marked
  <1> QED BY <1>2, <1>3 DEF TypeOK

LEMMA RecordBase == ASSUME Base, NEW c \in Cycles, NEW m \in Messages, Record(c, m) PROVE Base'
  <1>1. row' \in [Messages -> Row]
    BY MarkedRow DEF Record, Base
  <1>2. Late(Finished(c, m), m) \in [Cycles -> Cycle]
    BY HandsFinished, HandsGoneLate DEF Base
  <1> QED BY <1>1, <1>2, RestBase DEF Base, TypeOK, Record, accepting, operator

LEMMA RecordFailsBase ==
    ASSUME Base, NEW c \in Cycles, NEW m \in Messages, RecordFails(c, m) PROVE Base'
  <1>1. Finished(c, m) \in [Cycles -> Cycle]
    BY HandsFinished DEF Base
  <1> QED BY <1>1, RestBase DEF Base, TypeOK, RecordFails, accepting, operator

LEMMA IdleCycleTyped == IdleCycle \in Cycle /\ \A m \in Messages : IdleCycle.hand[m] = NotHeld
  BY DEF IdleCycle, NotHeld, Cycle, Hand

LEMMA AbortBase == ASSUME Base, NEW c \in Cycles, Abort(c) PROVE Base'
  <1>1. row' \in [Messages -> Row]
    BY RowsDisowned DEF Abort, Base
  <1>2. cycle' \in [Cycles -> Cycle]
    BY IdleCycleTyped DEF Abort, Base, TypeOK
  <1> QED BY <1>1, <1>2, RestBase DEF Base, TypeOK, Abort, accepting, operator

LEMMA PurgeBase == ASSUME Base, NEW c \in Cycles, Purge(c) PROVE Base'
  <1>1. PICK S \in SUBSET Purgeable :
            /\ row' = [m \in Messages |-> IF m \in S THEN [Absent EXCEPT !.status = "purged"]
                                                     ELSE Disowned(c)[m]]
            /\ keys' = [k \in Keys |-> IF keys[k] \in S THEN NoMessage ELSE keys[k]]
            /\ answers' = {a \in answers : a.message \notin S}
    BY DEF Purge
  <1>2. [Absent EXCEPT !.status = "purged"] \in Row
    BY FreshRow
  <1>3. row' \in [Messages -> Row]
    BY <1>1, <1>2, RowsDisowned DEF Base
  <1>4. cycle' \in [Cycles -> Cycle]
    BY IdleCycleTyped DEF Purge, Base, TypeOK
  <1>5. keys' \in [Keys -> Messages \cup {NoMessage}]
    BY <1>1 DEF Base, TypeOK
  <1> QED BY <1>1, <1>3, <1>4, <1>5, RestBase DEF Base, TypeOK, Purge, operator

LEMMA BackoffPassesBase == ASSUME Base, NEW m \in Messages, BackoffPasses(m) PROVE Base'
  <1>1. row' \in [Messages -> Row]
    BY DEF BackoffPasses, Base, TypeOK, Row
  <1> QED BY <1>1, RestBase DEF Base, TypeOK, BackoffPasses, accepting, operator

LEMMA GoesStaleBase == ASSUME Base, NEW m \in Messages, GoesStale(m) PROVE Base'
  <1>1. row' \in [Messages -> Row]
    BY DEF GoesStale, Base, TypeOK, Row
  <1>2. cycle' \in [Cycles -> Cycle]
    BY HandsGoneLate DEF GoesStale, Base, TypeOK
  <1> QED BY <1>1, <1>2, RestBase DEF Base, TypeOK, GoesStale, Doubt, accepting, operator

LEMMA RetryBase == ASSUME Base, NEW m \in Messages, Retry(m) PROVE Base'
  BY RestBase DEF Base, TypeOK, Retry, accepting

LEMMA RequeueBase == ASSUME Base, NEW m \in Messages, Requeue(m) PROVE Base'
  <1>1. CASE Exists(m)
    <2> DEFINE fresh == [Absent EXCEPT !.status = "PENDING", !.payload = row[m].payload]
    <2>1. fresh \in Row
      BY FreshRow DEF Base, TypeOK, Row
    <2>2. /\ row' = [row EXCEPT ![m] = fresh] /\ revivals' = revivals + 1 /\ cycle' = Late(cycle, m)
         /\ unsure' = unsure \cup {m}
      BY <1>1 DEF Requeue, Doubt
    <2> HIDE DEF fresh
    <2>3. row' \in [Messages -> Row] /\ cycle' \in [Cycles -> Cycle]
      BY <2>1, <2>2, HandsGoneLate DEF Base, TypeOK
    <2> QED BY <2>2, <2>3, RestBase DEF Base, TypeOK, Requeue, accepting
  <1>2. CASE UNCHANGED <<row, revivals, cycle>>
    BY <1>2, RestBase DEF Base, TypeOK, Requeue, accepting
  <1> QED BY <1>1, <1>2 DEF Requeue

LEMMA NextBase == Base /\ [Next]_vars => Base'
  <1> SUFFICES ASSUME Base, [Next]_vars PROVE Base'
    OBVIOUS
  <1>1. CASE \E r \in Callers : \/ \E a \in Asks[r] : Ask(r, a[1], a[2])
                                \/ FindKey(r) \/ Create(r) \/ Reread(r)
    BY <1>1, AskBase, FindKeyBase, CreateBase, RereadBase
  <1>2. CASE \E c \in Cycles : \/ Step(c) \/ Abort(c)
                               \/ \E m \in Messages : RecordFails(c, m)
    BY <1>2, SelectBase, UpdateBase, FetchBase, SendBase, RecordBase, PurgeBase, AbortBase,
       RecordFailsBase DEF Step
  <1>3. CASE \E m \in Messages : BackoffPasses(m) \/ GoesStale(m) \/ Retry(m) \/ Requeue(m)
    BY <1>3, BackoffPassesBase, GoesStaleBase, RetryBase, RequeueBase
  <1>4. CASE UNCHANGED vars
    BY <1>4 DEF vars, operator, Base, TypeOK, Asking
  <1> QED BY <1>1, <1>2, <1>3, <1>4 DEF Next

LEMMA AlwaysBase == Spec => []Base
  BY InitBase, NextBase, PTL DEF Spec

\* Every variable has its type in every reachable state, however requests, workers and
\* the operator interleave (all of the email service's handlers).
THEOREM TypeCorrect == Spec => []TypeOK
  BY AlwaysBase, PTL DEF Base


-----------------------------------------------------------------------------
(* Claims *)

\* A claim in somebody's hands that is not late is the row's own: it is SENDING under
\* that cycle's lock and not due to anybody else.
ClaimsHold ==
    \A c \in Cycles, m \in Messages :
        (cycle[c].hand[m].state # "none" /\ ~cycle[c].hand[m].late) =>
            row[m].status = "SENDING" /\ row[m].lock = c /\ ~row[m].stale

\* What sending changes: the state of one message in one cycle's hands.
LEMMA SendHands ==
    ASSUME TypeOK, NEW c \in Cycles, NEW m \in Messages, Send(c, m)
    PROVE  /\ cycle[c].hand[m].state = "todo"
           /\ \A d \in Cycles, n \in Messages :
                  /\ cycle'[d].hand[n].late = cycle[d].hand[n].late
                  /\ \/ cycle'[d].hand[n] = cycle[d].hand[n]
                     \/ d = c /\ n = m /\ (cycle'[d].hand[n].state = "sent" => n \in accepted')
           /\ \A d \in Cycles : cycle'[d].pc = cycle[d].pc
           /\ accepted' \subseteq Messages
           /\ accepted \subseteq accepted' /\ accepted' \subseteq accepted \cup {m}
           /\ unsure \subseteq unsure'
           /\ m \in accepted \/ m \notin accepted' \/ m \in unsure' \/ cycle'[c].hand[m].state = "sent"
  <1>1. PICK state \in {"sent", "failed", "refused"} :
            /\ \/ state = "sent" /\ Accepts(m) /\ UNCHANGED unsure
               \/ state = "failed" /\ "lostReply" \in Faults /\ Accepts(m) /\ Doubt(m)
               \/ state \in {"failed", "refused"} /\ UNCHANGED delivered
            /\ cycle' = [cycle EXCEPT ![c] = Handled(cycle[c], m, [cycle[c].hand[m] EXCEPT !.state = state])]
    BY DEF Send
  <1> DEFINE h == [cycle[c].hand[m] EXCEPT !.state = state]
  <1>2. cycle[c] \in Cycle
    BY DEF TypeOK
  <1>3. h \in Hand /\ h.state = state /\ h.late = cycle[c].hand[m].late
    BY <1>2 DEF Cycle, Hand
  <1>4. cycle' = [cycle EXCEPT ![c] = Handled(cycle[c], m, h)]
    BY <1>1
  <1> HIDE DEF h
  <1>5. /\ \A d \in Cycles, n \in Messages :
               cycle'[d].hand[n] = IF d = c /\ n = m THEN h ELSE cycle[d].hand[n]
        /\ \A d \in Cycles : cycle'[d].pc = cycle[d].pc
    BY <1>2, <1>3, <1>4, HandHandled DEF TypeOK
  <1>6. /\ accepted' \subseteq Messages
        /\ accepted \subseteq accepted' /\ accepted' \subseteq accepted \cup {m}
        /\ unsure \subseteq unsure'
        /\ state = "sent" => m \in accepted'
        /\ state = "sent" \/ m \in unsure' \/ UNCHANGED accepted
    BY <1>1 DEF Accepts, Doubt, TypeOK
  <1>7. cycle[c].hand[m].state = "todo"
    BY DEF Send
  <1> QED BY <1>3, <1>5, <1>6, <1>7

\* What recording changes.
LEMMA RecordHands ==
    ASSUME TypeOK, NEW c \in Cycles, NEW m \in Messages, Record(c, m)
    PROVE  \A d \in Cycles, n \in Messages :
               /\ n # m => cycle'[d].hand[n] = cycle[d].hand[n]
               /\ cycle'[d].pc = cycle[d].pc
               /\ d = c => cycle'[d].hand[m] = NotHeld
               /\ d # c /\ cycle[d].hand[m].state = "none" => cycle'[d].hand[m] = cycle[d].hand[m]
               /\ cycle'[d].hand[m].state = "none" \/ cycle'[d].hand[m].late
               /\ cycle'[d].hand[n].state \in {"none", cycle[d].hand[n].state}
  <1>1. Finished(c, m) \in [Cycles -> Cycle]
    BY HandsFinished
  <1>2. cycle' = Late(Finished(c, m), m)
    BY DEF Record
  <1>3. \A d \in Cycles, n \in Messages :
            Finished(c, m)[d].hand[n] = IF d = c /\ n = m THEN NotHeld ELSE cycle[d].hand[n]
    BY HandsFinished
  <1>4. \A d \in Cycles, n \in Messages :
            /\ cycle'[d].hand[n].state = Finished(c, m)[d].hand[n].state
            /\ cycle'[d].pc = Finished(c, m)[d].pc
            /\ Finished(c, m)[d].hand[m].state = "none" => cycle'[d].hand[m] = Finished(c, m)[d].hand[m]
            /\ n # m => cycle'[d].hand[n] = Finished(c, m)[d].hand[n]
            /\ Finished(c, m)[d].hand[m].state # "none" => cycle'[d].hand[m].late
    <2>1. \A d \in Cycles, n \in Messages :
              /\ Late(Finished(c, m), m)[d].hand[n].state = Finished(c, m)[d].hand[n].state
              /\ n # m => Late(Finished(c, m), m)[d].hand[n] = Finished(c, m)[d].hand[n]
              /\ Finished(c, m)[d].hand[m].state # "none" => Late(Finished(c, m), m)[d].hand[m].late
      BY <1>1, HandsGoneLate, Zenon
    <2>2. \A d \in Cycles :
              /\ Late(Finished(c, m), m)[d].pc = Finished(c, m)[d].pc
              /\ Finished(c, m)[d].hand[m].state = "none" => Late(Finished(c, m), m)[d] = Finished(c, m)[d]
      BY <1>1, LateElsewhere, Zenon
    <2> QED BY <1>2, <2>1, <2>2
  <1>5. NotHeld.state = "none"
    BY DEF NotHeld
  <1>6. \A d \in Cycles : cycle'[d].pc = cycle[d].pc
    <2>1. \A d \in Cycles : Finished(c, m)[d].pc = cycle[d].pc
      BY HandsFinished
    <2> QED BY <1>4, <2>1
  <1>7. ASSUME NEW d \in Cycles
        PROVE  /\ d = c => cycle'[d].hand[m] = NotHeld
               /\ d # c /\ cycle[d].hand[m].state = "none" => cycle'[d].hand[m] = cycle[d].hand[m]
    BY <1>3, <1>4, <1>5
  <1> QED BY <1>3, <1>4, <1>5, <1>6, <1>7

LEMMA InitClaims == Init => ClaimsHold
  BY DEF Init, ClaimsHold, IdleCycle, NotHeld

LEMMA NextClaims == TypeOK /\ ClaimsHold /\ [Next]_vars => ClaimsHold'
  <1> SUFFICES ASSUME TypeOK, ClaimsHold, [Next]_vars PROVE ClaimsHold'
    OBVIOUS
  <1> USE DEF Statuses
  <1>1. ASSUME NEW r \in Callers, NEW a \in Asks[r], Ask(r, a[1], a[2]) PROVE ClaimsHold'
    BY <1>1 DEF Ask, ClaimsHold
  <1>2. ASSUME NEW r \in Callers, FindKey(r) \/ Reread(r) PROVE ClaimsHold'
    BY <1>2 DEF FindKey, Reread, ClaimsHold
  <1>3. ASSUME NEW r \in Callers, Create(r) PROVE ClaimsHold'
    <2>1. UNCHANGED cycle
      BY <1>3 DEF Create
    <2>2. \A n \in Messages : row[n].status = "none" \/ row'[n] = row[n]
      BY <1>3 DEF Create, CreateRow, Insert, TypeOK
    <2> QED BY <2>1, <2>2 DEF ClaimsHold
  <1>4. ASSUME NEW c \in Cycles, Select(c) PROVE ClaimsHold'
    <2>1. \A d \in Cycles : cycle'[d].hand = cycle[d].hand
      BY <1>4 DEF Select, TypeOK, Cycle
    <2> QED BY <1>4, <2>1 DEF Select, ClaimsHold
  <1>5. ASSUME NEW c \in Cycles, Update(c) PROVE ClaimsHold'
    <2>1. \A d \in Cycles : cycle'[d].hand = cycle[d].hand
      BY <1>5 DEF Update, TypeOK, Cycle
    <2>2. \A n \in Messages : row[n].status = "SENDING" /\ ~row[n].stale => row'[n] = row[n]
      BY <1>5 DEF Update, Won, Due, IsDue
    <2> QED BY <2>1, <2>2 DEF ClaimsHold
  <1>6. ASSUME NEW c \in Cycles, Fetch(c) PROVE ClaimsHold'
    <2>1. UNCHANGED row
      BY <1>6 DEF Fetch
    <2>2. \A m \in Messages : \/ cycle'[c].hand[m].state = "none"
                             \/ /\ row[m].stale => cycle'[c].hand[m].late
                                /\ row[m].status = "SENDING" /\ row[m].lock = c
      BY <1>6, FetchHands
    <2>3. \A d \in Cycles, m \in Messages : d # c => cycle'[d].hand[m] = cycle[d].hand[m]
      BY <1>6, FetchHands
    <2> QED BY <2>1, <2>2, <2>3 DEF ClaimsHold
  <1>7. ASSUME NEW c \in Cycles, NEW m \in Messages, Send(c, m) PROVE ClaimsHold'
    <2>1. UNCHANGED row
      BY <1>7 DEF Send
    <2>2. \A d \in Cycles, n \in Messages :
              /\ cycle'[d].hand[n].late = cycle[d].hand[n].late
              /\ cycle'[d].hand[n].state # "none" => cycle[d].hand[n].state # "none"
      BY <1>7, SendHands
    <2> QED BY <2>1, <2>2 DEF ClaimsHold
  <1>8. ASSUME NEW c \in Cycles, NEW m \in Messages, Record(c, m) PROVE ClaimsHold'
    <2>1. \A n \in Messages : n # m => row'[n] = row[n]
      BY <1>8, MarkedRow DEF Record
    <2> QED BY <1>8, <2>1, RecordHands DEF ClaimsHold
  <1>9. ASSUME NEW c \in Cycles, NEW m \in Messages, RecordFails(c, m) PROVE ClaimsHold'
    <2>1. UNCHANGED row /\ cycle' = Finished(c, m) /\ NotHeld.state = "none"
      BY <1>9 DEF RecordFails, NotHeld
    <2>2. \A d \in Cycles, n \in Messages :
              cycle'[d].hand[n] = NotHeld \/ cycle'[d].hand[n] = cycle[d].hand[n]
      BY <2>1, HandsFinished
    <2> QED BY <2>1, <2>2 DEF ClaimsHold
  <1>10. ASSUME NEW c \in Cycles, cycle' = [cycle EXCEPT ![c] = IdleCycle],
                \A m \in Messages : \/ row[m].status = "SENT"
                                    \/ row'[m] = Disowned(c)[m]
         PROVE  ClaimsHold'
    <2>1. NotHeld.state = "none"
      BY DEF NotHeld
    <2>2. \A d \in Cycles, m \in Messages :
              cycle'[d].hand[m] = IF d = c THEN NotHeld ELSE cycle[d].hand[m]
      BY <1>10, IdleCycleTyped DEF TypeOK
    <2>3. \A d \in Cycles, m \in Messages :
              d # c /\ row[m].status = "SENDING" /\ row[m].lock = d /\ ~row[m].stale =>
                  row'[m].status = "SENDING" /\ row'[m].lock = d /\ ~row'[m].stale
      BY <1>10, RowsDisowned
    <2> QED BY <2>1, <2>2, <2>3 DEF ClaimsHold
  <1>11. ASSUME NEW c \in Cycles, Abort(c) PROVE ClaimsHold'
    BY <1>10, <1>11 DEF Abort
  <1>12. ASSUME NEW c \in Cycles, Purge(c) PROVE ClaimsHold'
    <2>1. \A m \in Messages : row[m].status = "SENT" \/ row'[m] = Disowned(c)[m]
      BY <1>12 DEF Purge, Purgeable
    <2> QED BY <1>10, <1>12, <2>1 DEF Purge
  <1>13. ASSUME NEW m \in Messages, BackoffPasses(m) PROVE ClaimsHold'
    BY <1>13 DEF BackoffPasses, ClaimsHold, TypeOK
  <1>14. ASSUME NEW m \in Messages, cycle' = Late(cycle, m),
                \A n \in Messages : n # m => row'[n] = row[n]
         PROVE  ClaimsHold'
    <2>1. cycle \in [Cycles -> Cycle]
      BY DEF TypeOK
    <2>2. \A c \in Cycles, n \in Messages :
              /\ cycle'[c].hand[n].state = cycle[c].hand[n].state
              /\ n # m => cycle'[c].hand[n] = cycle[c].hand[n]
              /\ cycle[c].hand[m].state # "none" => cycle'[c].hand[m].late
      <3>1. \A c \in Cycles, n \in Messages :
              /\ Late(cycle, m)[c].hand[n].state = cycle[c].hand[n].state
              /\ n # m => Late(cycle, m)[c].hand[n] = cycle[c].hand[n]
              /\ cycle[c].hand[m].state # "none" => Late(cycle, m)[c].hand[m].late
        BY <2>1, HandsGoneLate, Zenon
      <3> QED BY <1>14, <3>1
    <2> QED BY <1>14, <2>2 DEF ClaimsHold
  <1>15. ASSUME NEW m \in Messages, GoesStale(m) PROVE ClaimsHold'
    BY <1>14, <1>15 DEF GoesStale, TypeOK
  <1>16. ASSUME NEW m \in Messages, Retry(m) PROVE ClaimsHold'
    BY <1>16 DEF Retry, ClaimsHold
  <1>17. ASSUME NEW m \in Messages, Requeue(m) PROVE ClaimsHold'
    <2>1. CASE Exists(m)
      BY <1>14, <1>17, <2>1 DEF Requeue, TypeOK
    <2>2. CASE UNCHANGED <<row, revivals, cycle>>
      BY <2>2 DEF ClaimsHold
    <2> QED BY <1>17, <2>1, <2>2 DEF Requeue
  <1>18. CASE UNCHANGED vars
    BY <1>18 DEF vars, ClaimsHold
  <1> QED BY <1>1, <1>2, <1>3, <1>4, <1>5, <1>6, <1>7, <1>8, <1>9, <1>11, <1>12, <1>13, <1>15,
             <1>16, <1>17, <1>18 DEF Next, Step

\* No two cycles hold one message unless its claim went stale or was requeued under
\* its holder: the update of claimDue repeats the predicate, so that of two cycles
\* that selected a row only the first gets it.
THEOREM OneHolderAlways == Spec => []OneHolder
  <1>1. ClaimsHold => OneHolder
    BY DEF ClaimsHold, OneHolder, Held
  <1> QED BY <1>1, InitClaims, NextClaims, TypeCorrect, PTL DEF Spec

-----------------------------------------------------------------------------
(* Deliveries *)

\* Whatever is said to be sent, in a row or in a cycle's hands, the provider took.
SentIsTaken ==
    \A m \in Messages :
        /\ row[m].status \in {"SENT", "purged"} => m \in accepted
        /\ \A c \in Cycles : cycle[c].hand[m].state = "sent" => m \in accepted

\* Steps that take nothing over and declare nothing sent.
LEMMA NothingSent ==
    ASSUME SentIsTaken, UNCHANGED accepted,
           \A m \in Messages : \/ row'[m].status \notin {"SENT", "purged"}
                               \/ row'[m].status = row[m].status,
           \A c \in Cycles, m \in Messages : \/ cycle'[c].hand[m].state # "sent"
                                            \/ cycle'[c].hand[m].state = cycle[c].hand[m].state
    PROVE  SentIsTaken'
  BY DEF SentIsTaken

LEMMA InitSent == Init => SentIsTaken
  BY DEF Init, SentIsTaken, Absent, IdleCycle, NotHeld

LEMMA NextSent == TypeOK /\ SentIsTaken /\ [Next]_vars => SentIsTaken'
  <1> SUFFICES ASSUME TypeOK, SentIsTaken, [Next]_vars PROVE SentIsTaken'
    OBVIOUS
  <1> NotHeld.state = "none"
    BY DEF NotHeld
  <1>1. ASSUME NEW r \in Callers, \/ \E a \in Asks[r] : Ask(r, a[1], a[2])
                                 \/ FindKey(r) \/ Reread(r) PROVE SentIsTaken'
    BY <1>1 DEF Ask, FindKey, Reread, SentIsTaken
  <1>2. ASSUME NEW r \in Callers, Create(r) PROVE SentIsTaken'
    <2>1. UNCHANGED <<cycle, accepted>>
      BY <1>2 DEF Create
    <2>2. CASE Insert(r)
      <3>1. PICK m \in Messages :
                row' = [row EXCEPT ![m] = [Absent EXCEPT !.status = "PENDING",
                                                         !.payload = request[r].payload]]
        BY <2>2 DEF Insert
      <3> DEFINE fresh == [Absent EXCEPT !.status = "PENDING", !.payload = request[r].payload]
      <3>2. fresh.status = "PENDING"
        BY DEF Absent
      <3>3. row' = [row EXCEPT ![m] = fresh]
        BY <3>1
      <3> HIDE DEF fresh
      <3>4. \A n \in Messages : row'[n] = row[n] \/ row'[n].status = "PENDING"
        BY <3>2, <3>3 DEF TypeOK
      <3> QED BY <2>1, <3>4, NothingSent
    <2>3. CASE UNCHANGED row
      BY <2>1, <2>3 DEF SentIsTaken
    <2> QED BY <1>2, <2>2, <2>3 DEF Create, CreateRow
  <1>3. ASSUME NEW c \in Cycles, Select(c) PROVE SentIsTaken'
    <2>1. \A d \in Cycles : cycle'[d].hand = cycle[d].hand
      BY <1>3 DEF Select, TypeOK, Cycle
    <2> QED BY <1>3, <2>1 DEF Select, SentIsTaken
  <1>4. ASSUME NEW c \in Cycles, Update(c) PROVE SentIsTaken'
    <2>1. \A d \in Cycles : cycle'[d].hand = cycle[d].hand
      BY <1>4 DEF Update, TypeOK, Cycle
    <2>2. \A n \in Messages : row'[n].status = "SENDING" \/ row'[n] = row[n]
      BY <1>4, RowsOfAClaim DEF Update
    <2> QED BY <1>4, <2>1, <2>2, NothingSent DEF Update
  <1>5. ASSUME NEW c \in Cycles, Fetch(c) PROVE SentIsTaken'
    <2>1. \A d \in Cycles, m \in Messages :
              cycle'[d].hand[m].state \in {"none", "todo", cycle[d].hand[m].state}
      BY <1>5, FetchHands
    <2> QED BY <1>5, <2>1, NothingSent DEF Fetch
  <1>6. ASSUME NEW c \in Cycles, NEW m \in Messages, Send(c, m) PROVE SentIsTaken'
    <2>1. UNCHANGED row
      BY <1>6 DEF Send
    <2>2. /\ accepted \subseteq Messages /\ accepted' \subseteq Messages
          /\ accepted \subseteq accepted'
      BY <1>6, SendHands DEF TypeOK
    <2>3. \A d \in Cycles, n \in Messages :
              \/ cycle'[d].hand[n] = cycle[d].hand[n]
              \/ cycle'[d].hand[n].state = "sent" => n \in accepted'
      BY <1>6, SendHands
    <2> QED BY <2>1, <2>2, <2>3 DEF SentIsTaken
  <1>7. ASSUME NEW c \in Cycles, NEW m \in Messages, Record(c, m) PROVE SentIsTaken'
    <2>1. /\ \A n \in Messages : n # m => row'[n] = row[n]
          /\ row'[m].status = IF Exists(m) THEN Outcome(cycle[c].hand[m]) ELSE row[m].status
      BY <1>7, MarkedRow DEF Record
    <2>2. Outcome(cycle[c].hand[m]) \in {"SENT", "purged"} => m \in accepted
      BY DEF Outcome, AfterFailure, SentIsTaken
    <2>3. \A d \in Cycles, n \in Messages :
              cycle'[d].hand[n].state \in {"none", cycle[d].hand[n].state}
      BY <1>7, RecordHands
    <2>4. UNCHANGED accepted
      BY <1>7 DEF Record
    <2> QED BY <2>1, <2>2, <2>3, <2>4 DEF SentIsTaken
  <1>8. ASSUME NEW c \in Cycles, NEW m \in Messages, RecordFails(c, m) PROVE SentIsTaken'
    <2>1. \A d \in Cycles, n \in Messages :
              cycle'[d].hand[n] = NotHeld \/ cycle'[d].hand[n] = cycle[d].hand[n]
      BY <1>8, HandsFinished DEF RecordFails
    <2> QED BY <1>8, <2>1, NothingSent DEF RecordFails
  <1>9. ASSUME NEW c \in Cycles, Abort(c) PROVE SentIsTaken'
    <2>1. \A d \in Cycles, m \in Messages :
              cycle'[d].hand[m] = IF d = c THEN NotHeld ELSE cycle[d].hand[m]
      BY <1>9, IdleCycleTyped DEF Abort, TypeOK
    <2>2. \A m \in Messages : row'[m].status = row[m].status
      BY <1>9, RowsDisowned DEF Abort
    <2> QED BY <1>9, <2>1, <2>2, NothingSent DEF Abort
  <1>10. ASSUME NEW c \in Cycles, Purge(c) PROVE SentIsTaken'
    <2>1. \A d \in Cycles, m \in Messages :
              cycle'[d].hand[m] = IF d = c THEN NotHeld ELSE cycle[d].hand[m]
      BY <1>10, IdleCycleTyped DEF Purge, TypeOK
    <2>2. \A m \in Messages : row[m].status = "SENT" \/ row'[m] = Disowned(c)[m]
      BY <1>10 DEF Purge, Purgeable
    <2>3. \A m \in Messages : row[m].status = "SENT" \/ row'[m].status = row[m].status
      BY <2>2, RowsDisowned
    <2>4. UNCHANGED accepted
      BY <1>10 DEF Purge
    <2> QED BY <2>1, <2>3, <2>4 DEF SentIsTaken
  <1>11. ASSUME NEW m \in Messages, BackoffPasses(m) PROVE SentIsTaken'
    <2>1. \A n \in Messages : row'[n].status = row[n].status
      BY <1>11 DEF BackoffPasses, TypeOK, Row
    <2> QED BY <1>11, <2>1 DEF BackoffPasses, SentIsTaken
  <1>12. ASSUME NEW m \in Messages, cycle' = Late(cycle, m)
         PROVE  \A d \in Cycles, n \in Messages :
                    cycle'[d].hand[n].state = cycle[d].hand[n].state
    BY <1>12, HandsGoneLate DEF TypeOK
  <1>13. ASSUME NEW m \in Messages, GoesStale(m) PROVE SentIsTaken'
    <2>1. \A n \in Messages : row'[n].status = row[n].status
      BY <1>13 DEF GoesStale, TypeOK, Row
    <2> QED BY <1>12, <1>13, <2>1, NothingSent DEF GoesStale
  <1>14. ASSUME NEW m \in Messages, Retry(m) PROVE SentIsTaken'
    BY <1>14 DEF Retry, SentIsTaken
  <1>15. ASSUME NEW m \in Messages, Requeue(m) PROVE SentIsTaken'
    <2>1. UNCHANGED accepted
      BY <1>15 DEF Requeue
    <2>2. CASE Exists(m)
      <3> DEFINE fresh == [Absent EXCEPT !.status = "PENDING", !.payload = row[m].payload]
      <3>1. fresh.status = "PENDING"
        BY DEF Absent
      <3>2. row' = [row EXCEPT ![m] = fresh] /\ cycle' = Late(cycle, m)
        BY <1>15, <2>2 DEF Requeue
      <3> HIDE DEF fresh
      <3>3. \A n \in Messages : row'[n] = row[n] \/ row'[n].status = "PENDING"
        BY <3>1, <3>2 DEF TypeOK
      <3> QED BY <1>12, <2>1, <3>2, <3>3, NothingSent
    <2>3. CASE UNCHANGED <<row, revivals, cycle>>
      BY <2>1, <2>3 DEF SentIsTaken
    <2> QED BY <1>15, <2>2, <2>3 DEF Requeue
  <1>16. CASE UNCHANGED vars
    BY <1>16 DEF vars, SentIsTaken
  <1> QED BY <1>1, <1>2, <1>3, <1>4, <1>5, <1>6, <1>7, <1>8, <1>9, <1>10, <1>11, <1>13, <1>14,
             <1>15, <1>16 DEF Next, Step

\* A row that says SENT, or that the purge took, was accepted by the provider, however
\* many cycles wrote its status over each other (deliver, markSent, purgeSentBefore).
THEOREM SentWasAcceptedAlways == Spec => []SentWasAccepted
  <1>1. SentIsTaken => SentWasAccepted
    BY DEF SentIsTaken, SentWasAccepted
  <1> QED BY <1>1, InitSent, NextSent, TypeCorrect, PTL DEF Spec

-----------------------------------------------------------------------------
(* Copies *)

\* A message is in doubt once a claim of it has run out; and one that was accepted
\* and is not in doubt is recorded as sent or about to be: nobody has it still to
\* send, and no cycle is about to fetch it.
Certain(m) ==
    /\ row[m].status \in {"SENDING", "SENT", "purged"}
    /\ \A c \in Cycles : /\ cycle[c].hand[m].state \in {"none", "sent"}
                         /\ (row[m].status = "SENDING" /\ row[m].lock = c) => At(c, "deliver")
DoubtsKnown ==
    \A m \in Messages :
        /\ row[m].stale => m \in unsure
        /\ \A c \in Cycles : cycle[c].hand[m].late => m \in unsure
        /\ m \in accepted => m \in unsure \/ Certain(m)

LEMMA InitDoubts == Init => DoubtsKnown
  BY DEF Init, DoubtsKnown, IdleCycle, NotHeld, Absent

\* Steps that add nothing to what was accepted, and keep a certain message certain.
LEMMA DoubtsKept ==
    ASSUME TypeOK, DoubtsKnown, accepted' = accepted, unsure \subseteq unsure',
           \A m \in Messages : row'[m].stale => m \in unsure' \/ row[m].stale,
           \A c \in Cycles, m \in Messages :
               cycle'[c].hand[m].late => m \in unsure' \/ cycle[c].hand[m].late,
           \A m \in Messages : (Certain(m) /\ m \notin unsure') => Certain(m)'
    PROVE  DoubtsKnown'
  BY DEF DoubtsKnown

LEMMA NextDoubts == TypeOK /\ ClaimsHold /\ DoubtsKnown /\ [Next]_vars => DoubtsKnown'
  <1> SUFFICES ASSUME TypeOK, ClaimsHold, DoubtsKnown, [Next]_vars PROVE DoubtsKnown'
    OBVIOUS
  <1> NotHeld.state = "none" /\ NotHeld.late = FALSE
    BY DEF NotHeld
  <1>1. ASSUME UNCHANGED <<row, cycle, delivered>> PROVE DoubtsKnown'
    BY <1>1 DEF DoubtsKnown, Certain, At
  <1>2. ASSUME NEW r \in Callers, \/ \E a \in Asks[r] : Ask(r, a[1], a[2])
                                 \/ FindKey(r) \/ Reread(r) PROVE DoubtsKnown'
    BY <1>1, <1>2 DEF Ask, FindKey, Reread
  <1>3. ASSUME NEW r \in Callers, Create(r) PROVE DoubtsKnown'
    <2>1. UNCHANGED <<cycle, delivered>>
      BY <1>3 DEF Create
    <2>2. CASE Insert(r)
      <3>1. PICK m \in Messages :
                /\ row[m].status = "none"
                /\ row' = [row EXCEPT ![m] = [Absent EXCEPT !.status = "PENDING",
                                                            !.payload = request[r].payload]]
        BY <2>2 DEF Insert
      <3> DEFINE fresh == [Absent EXCEPT !.status = "PENDING", !.payload = request[r].payload]
      <3>2. fresh.stale = FALSE
        BY DEF Absent
      <3>3. row' = [row EXCEPT ![m] = fresh]
        BY <3>1
      <3> HIDE DEF fresh
      <3>4. \A n \in Messages : row'[n] = IF n = m THEN fresh ELSE row[n]
        BY <3>3 DEF TypeOK
      <3> QED BY <2>1, <3>1, <3>2, <3>4, DoubtsKept DEF Certain, At
    <2>3. CASE UNCHANGED row
      BY <1>1, <2>1, <2>3
    <2> QED BY <1>3, <2>2, <2>3 DEF Create, CreateRow
  <1>4. ASSUME NEW c \in Cycles, Select(c) PROVE DoubtsKnown'
    <2>1. \A d \in Cycles : /\ cycle'[d].hand = cycle[d].hand
                            /\ d # c => cycle'[d].pc = cycle[d].pc
      BY <1>4 DEF Select, TypeOK, Cycle
    <2> QED BY <1>4, <2>1, DoubtsKept DEF Select, Certain, At
  <1>5. ASSUME NEW c \in Cycles, Update(c) PROVE DoubtsKnown'
    <2>1. \A d \in Cycles : /\ cycle'[d].hand = cycle[d].hand
                            /\ d # c => cycle'[d].pc = cycle[d].pc
      BY <1>5 DEF Update, TypeOK, Cycle
    <2>2. \A m \in Messages : IF m \in Won(c) THEN ~row'[m].stale ELSE row'[m] = row[m]
      BY <1>5, RowsOfAClaim DEF Update
    <2>3. \A m \in Messages : (Certain(m) /\ m \notin unsure') => row'[m] = row[m]
      BY <1>5, <2>2 DEF Update, Won, Due, IsDue, Certain, DoubtsKnown
    <2> QED BY <1>5, <2>1, <2>2, <2>3, DoubtsKept DEF Update, Certain, At
  <1>6. ASSUME NEW c \in Cycles, Fetch(c) PROVE DoubtsKnown'
    <2>1. UNCHANGED <<row, delivered>> /\ At(c, "fetch")
      BY <1>6 DEF Fetch
    <2>2. \A d \in Cycles : d # c => cycle'[d] = cycle[d]
      BY <1>6 DEF Fetch, TypeOK
    <2>3. \A m \in Messages :
              \/ cycle'[c].hand[m] = NotHeld
              \/ /\ cycle'[c].hand[m].late => row[m].stale
                 /\ row[m].status = "SENDING" /\ row[m].lock = c
      BY <1>6 DEF Fetch, TypeOK
    <2>4. \A d \in Cycles, m \in Messages : cycle'[d].hand[m].late => m \in unsure
      BY <2>2, <2>3 DEF DoubtsKnown
    <2>5. ASSUME NEW m \in Messages, Certain(m) PROVE Certain(m)'
      <3>1. row[m].status # "SENDING" \/ row[m].lock # c
        BY <2>1, <2>5 DEF Certain, At
      <3> QED BY <2>1, <2>2, <2>3, <2>5, <3>1 DEF Certain, At
    <2> QED BY <2>1, <2>4, <2>5 DEF DoubtsKnown
  <1>7. ASSUME NEW c \in Cycles, NEW m \in Messages, Send(c, m) PROVE DoubtsKnown'
    <2>1. UNCHANGED row /\ At(c, "deliver")
      BY <1>7 DEF Send
    <2>2. /\ cycle[c].hand[m].state = "todo"
          /\ \A d \in Cycles : cycle'[d].pc = cycle[d].pc
          /\ \A d \in Cycles, n \in Messages :
                 /\ cycle'[d].hand[n].late = cycle[d].hand[n].late
                 /\ cycle'[d].hand[n] = cycle[d].hand[n] \/ (d = c /\ n = m)
          /\ accepted' \subseteq accepted \cup {m} /\ unsure \subseteq unsure'
          /\ m \in accepted \/ m \notin accepted' \/ m \in unsure' \/ cycle'[c].hand[m].state = "sent"
      BY <1>7, SendHands
    <2>3. ASSUME NEW n \in Messages, n # m, Certain(n) PROVE Certain(n)'
      BY <2>1, <2>2, <2>3 DEF Certain, At
    <2>4. m \in accepted' => m \in unsure' \/ Certain(m)'
      <3>1. SUFFICES ASSUME m \in accepted', m \notin unsure' PROVE Certain(m)'
        OBVIOUS
      <3>2. m \notin accepted
        BY <2>2, <3>1 DEF DoubtsKnown, Certain
      <3>3. \A d \in Cycles : ~cycle[d].hand[m].late
        BY <2>2, <3>1 DEF DoubtsKnown
      <3>4. row[m].status = "SENDING" /\ row[m].lock = c
        BY <2>2, <3>3 DEF ClaimsHold
      <3>5. \A d \in Cycles : d # c => cycle[d].hand[m].state = "none"
        BY <3>3, <3>4 DEF ClaimsHold
      <3> QED BY <2>1, <2>2, <3>1, <3>2, <3>4, <3>5 DEF Certain, At
    <2> QED BY <2>1, <2>2, <2>3, <2>4 DEF DoubtsKnown
  <1>8. ASSUME NEW c \in Cycles, NEW m \in Messages, Record(c, m) PROVE DoubtsKnown'
    <2>1. UNCHANGED delivered /\ Mark(c, m) /\ cycle[c].hand[m].state # "none"
      BY <1>8 DEF Record, InFlight, Held
    <2>2. \A d \in Cycles, n \in Messages :
              /\ n # m => cycle'[d].hand[n] = cycle[d].hand[n]
              /\ cycle'[d].pc = cycle[d].pc
              /\ d = c => cycle'[d].hand[m] = NotHeld
              /\ d # c /\ cycle[d].hand[m].state = "none" => cycle'[d].hand[m] = cycle[d].hand[m]
              /\ cycle'[d].hand[n].state \in {"none", cycle[d].hand[n].state}
      BY <1>8, RecordHands
    <2>3. ASSUME NEW d \in Cycles, d # c, cycle[d].hand[m].state # "none" PROVE m \in unsure
      BY <2>1, <2>3 DEF ClaimsHold, DoubtsKnown
    <2>4. \A n \in Messages : n # m => row'[n] = row[n]
      BY <2>1, MarkedRow
    <2>5. row'[m].stale => row[m].stale
      BY <2>1 DEF Mark, TypeOK, Row
    <2>6. ASSUME Certain(m) PROVE Certain(m)'
      <3>1. cycle[c].hand[m].state = "sent"
        BY <2>1, <2>6 DEF Certain
      <3>2. row'[m].status \in {"SENT", "purged"}
        BY <2>1, <2>6, <3>1, MarkedRow DEF Certain, Exists, Outcome, Statuses
      <3> QED BY <2>2, <2>6, <3>2 DEF Certain, At
    <2>7. \A n \in Messages : Certain(n) => Certain(n)'
      BY <2>2, <2>4, <2>6 DEF Certain, At
    <2>8. \A d \in Cycles, n \in Messages :
              cycle'[d].hand[n].late => n \in unsure \/ cycle[d].hand[n].late
      BY <2>2, <2>3
    <2> QED BY <2>1, <2>4, <2>5, <2>7, <2>8, DoubtsKept
  <1>9. ASSUME NEW c \in Cycles, NEW m \in Messages, RecordFails(c, m) PROVE DoubtsKnown'
    <2>1. UNCHANGED <<row, delivered>> /\ cycle' = Finished(c, m)
      BY <1>9 DEF RecordFails
    <2>2. /\ \A d \in Cycles : cycle'[d].pc = cycle[d].pc
          /\ \A d \in Cycles, n \in Messages :
                 cycle'[d].hand[n] = NotHeld \/ cycle'[d].hand[n] = cycle[d].hand[n]
      BY <2>1, HandsFinished
    <2> QED BY <2>1, <2>2, DoubtsKept DEF Certain, At
  <1>10. ASSUME NEW c \in Cycles, cycle' = [cycle EXCEPT ![c] = IdleCycle], UNCHANGED delivered,
                \A m \in Messages : \/ row[m].status = "SENT" /\ row'[m].status = "purged"
                                                              /\ ~row'[m].stale
                                    \/ row'[m] = Disowned(c)[m]
         PROVE  DoubtsKnown'
    <2>1. \A d \in Cycles, m \in Messages :
              /\ cycle'[d].hand[m] = IF d = c THEN NotHeld ELSE cycle[d].hand[m]
              /\ d # c => cycle'[d].pc = cycle[d].pc
      BY <1>10, IdleCycleTyped DEF TypeOK
    <2>2. \A m \in Messages :
              /\ Disowned(c)[m].status = row[m].status /\ Disowned(c)[m].stale = row[m].stale
              /\ Disowned(c)[m].lock # c
              /\ row[m].lock # c => Disowned(c)[m].lock = row[m].lock
              /\ row[m].lock = c => Disowned(c)[m].lock = Former
      BY OutboxAssumption DEF Disowned, TypeOK, Row
    <2>3. Former \notin Cycles
      BY OutboxAssumption
    <2>4. ASSUME NEW m \in Messages, Certain(m) PROVE Certain(m)'
      BY <1>10, <2>1, <2>2, <2>3, <2>4 DEF Certain, At
    <2> QED BY <1>10, <2>1, <2>2, <2>4, DoubtsKept
  <1>11. ASSUME NEW c \in Cycles, Abort(c) PROVE DoubtsKnown'
    BY <1>10, <1>11 DEF Abort
  <1>12. ASSUME NEW c \in Cycles, Purge(c) PROVE DoubtsKnown'
    <2> DEFINE gone == [Absent EXCEPT !.status = "purged"]
    <2>1. gone.status = "purged" /\ gone.stale = FALSE
      BY DEF Absent
    <2>2. \A m \in Messages : \/ row[m].status = "SENT" /\ row'[m] = gone
                              \/ row'[m] = Disowned(c)[m]
      BY <1>12 DEF Purge, Purgeable
    <2> HIDE DEF gone
    <2> QED BY <1>10, <1>12, <2>1, <2>2 DEF Purge
  <1>13. ASSUME NEW m \in Messages, BackoffPasses(m) PROVE DoubtsKnown'
    <2>1. \A n \in Messages : /\ row'[n].status = row[n].status /\ row'[n].stale = row[n].stale
                              /\ row'[n].lock = row[n].lock
      BY <1>13 DEF BackoffPasses, TypeOK, Row
    <2> QED BY <1>13, <2>1 DEF BackoffPasses, DoubtsKnown, Certain, At
  <1>14. ASSUME NEW m \in Messages, cycle' = Late(cycle, m), Doubt(m), UNCHANGED accepted,
                \A n \in Messages : n # m => row'[n] = row[n]
         PROVE  DoubtsKnown'
    <2>1. \A d \in Cycles, n \in Messages : /\ cycle'[d].pc = cycle[d].pc
                                            /\ n # m => cycle'[d].hand[n] = cycle[d].hand[n]
      <3>1. cycle \in [Cycles -> Cycle]
        BY DEF TypeOK
      <3>2. \A d \in Cycles, n \in Messages :
                n # m => Late(cycle, m)[d].hand[n] = cycle[d].hand[n]
        BY <3>1, HandsGoneLate, Zenon
      <3>3. \A d \in Cycles : Late(cycle, m)[d].pc = cycle[d].pc
        BY <3>1, LateElsewhere, Zenon
      <3> QED BY <1>14, <3>2, <3>3
    <2>2. unsure' = unsure \cup {m}
      BY <1>14 DEF Doubt
    <2> QED BY <1>14, <2>1, <2>2, DoubtsKept DEF Certain, At
  <1>15. ASSUME NEW m \in Messages, GoesStale(m) PROVE DoubtsKnown'
    BY <1>14, <1>15 DEF GoesStale, TypeOK
  <1>16. ASSUME NEW m \in Messages, Retry(m) PROVE DoubtsKnown'
    BY <1>1, <1>16 DEF Retry
  <1>17. ASSUME NEW m \in Messages, Requeue(m) PROVE DoubtsKnown'
    <2>1. CASE Exists(m)
      BY <1>14, <1>17, <2>1 DEF Requeue, TypeOK
    <2>2. CASE UNCHANGED <<row, revivals, cycle, unsure>>
      <3>1. UNCHANGED accepted
        BY <1>17 DEF Requeue
      <3> QED BY <1>1, <2>2, <3>1
    <2> QED BY <1>17, <2>1, <2>2 DEF Requeue
  <1>18. CASE UNCHANGED vars
    BY <1>1, <1>18 DEF vars
  <1> QED BY <1>2, <1>3, <1>4, <1>5, <1>6, <1>7, <1>8, <1>9, <1>11, <1>12, <1>13, <1>15,
             <1>16, <1>17, <1>18 DEF Next, Step

\* A message that the provider has accepted is on its way there again only after its
\* answer was lost, its claim ran out or the operator put it back, whatever else dies
\* or interleaves (claimDue, deliver, markSent).
THEOREM CopiesOnlyInDoubtAlways == Spec => []CopiesOnlyInDoubt
  <1>1. DoubtsKnown => CopiesOnlyInDoubt
    BY DEF DoubtsKnown, Certain, CopiesOnlyInDoubt
  <1> QED BY <1>1, InitClaims, NextClaims, InitDoubts, NextDoubts, TypeCorrect, PTL DEF Spec

-----------------------------------------------------------------------------
(* Keys and answers *)

\* A key in use stands for a row that is there, and an answer for what its key stands
\* for.
KeysStand == \A k \in Keys : keys[k] # NoMessage => Exists(keys[k])
AnswersStand ==
    \A a \in answers : /\ keys[a.key] = a.message /\ Exists(a.message)
                       /\ row[a.message].payload = a.payload
Standing == KeysStand /\ AnswersStand

\* Steps that leave keys and answers alone and every row its payload.
LEMMA RowsStand ==
    ASSUME Base, Standing, UNCHANGED <<keys, answers>>,
           \A m \in Messages : Exists(m) => Exists(m)' /\ row'[m].payload = row[m].payload
    PROVE  Standing'
  <1>1. \A k \in Keys : keys[k] \in Messages \cup {NoMessage}
    BY DEF Base, TypeOK
  <1>2. \A a \in answers : a.message \in Messages
    BY DEF Base, TypeOK
  <1> QED BY <1>1, <1>2 DEF Standing, KeysStand, AnswersStand

LEMMA ReplayStands ==
    ASSUME Base, Standing, NEW r \in Callers, Replay(r), request[r].key \in Keys,
           request[r].payload \in Payloads, keys[request[r].key] # NoMessage, UNCHANGED <<row, keys>>
    PROVE  Standing'
  <1>1. CASE UNCHANGED answers
    BY <1>1, RowsStand DEF Exists
  <1>2. CASE row[keys[request[r].key]].payload = request[r].payload /\ Answered(r, keys[request[r].key])
    <2> DEFINE new == [key |-> request[r].key, payload |-> request[r].payload,
                       message |-> keys[request[r].key]]
    <2>1. answers' \subseteq answers \cup {new}
      BY <1>2 DEF Answered
    <2>2. /\ keys[new.key] = new.message /\ Exists(new.message)
          /\ row[new.message].payload = new.payload
      BY <1>2 DEF Standing, KeysStand
    <2> HIDE DEF new
    <2> QED BY <2>1, <2>2 DEF Standing, KeysStand, AnswersStand, Exists
  <1> QED BY <1>1, <1>2 DEF Replay

LEMMA InsertStands ==
    ASSUME Base, Standing, NEW r \in Callers, Insert(r), request[r].pc = "create",
           request[r].key # NoKey => keys[request[r].key] = NoMessage
    PROVE  Standing'
  <1>1. PICK m \in Messages :
            /\ row[m].status = "none"
            /\ row' = [row EXCEPT ![m] = [Absent EXCEPT !.status = "PENDING",
                                                        !.payload = request[r].payload]]
            /\ keys' = IF request[r].key = NoKey THEN keys ELSE [keys EXCEPT ![request[r].key] = m]
            /\ Answered(r, m)
    BY DEF Insert
  <1> DEFINE fresh == [Absent EXCEPT !.status = "PENDING", !.payload = request[r].payload]
  <1>2. fresh.status = "PENDING" /\ fresh.payload = request[r].payload
    BY FreshRow DEF Base, TypeOK, Request
  <1>3. row' = [row EXCEPT ![m] = fresh]
    BY <1>1
  <1> HIDE DEF fresh
  <1>4. /\ \A n \in Messages : row'[n] = IF n = m THEN fresh ELSE row[n]
        /\ Exists(m)' /\ row'[m].payload = request[r].payload /\ ~Exists(m)
    BY <1>1, <1>2, <1>3 DEF Base, TypeOK, Exists, Statuses
  <1>5. ASSUME NEW n \in Messages, Exists(n) PROVE Exists(n)' /\ row'[n].payload = row[n].payload
    BY <1>4, <1>5 DEF Exists
  <1>6. CASE request[r].key = NoKey
    BY <1>1, <1>5, <1>6, RowsStand DEF Answered
  <1>7. CASE request[r].key # NoKey
    <2>1. request[r].key \in Keys /\ keys[request[r].key] = NoMessage
      BY <1>7 DEF Base, TypeOK, Request
    <2>2. \A k \in Keys : keys'[k] = IF k = request[r].key THEN m ELSE keys[k]
      BY <1>1, <1>7 DEF Base, TypeOK
    <2>3. KeysStand'
      <3>1. \A k \in Keys : keys[k] \in Messages \cup {NoMessage}
        BY DEF Base, TypeOK
      <3> QED BY <1>4, <1>5, <2>2, <3>1 DEF Standing, KeysStand
    <2>4. ASSUME NEW a \in answers
          PROVE  /\ keys'[a.key] = a.message /\ Exists(a.message)'
                 /\ row'[a.message].payload = a.payload
      <3>1. /\ a.key \in Keys /\ a.message \in Messages
            /\ keys[a.key] = a.message /\ Exists(a.message) /\ row[a.message].payload = a.payload
        BY DEF Base, TypeOK, Standing, AnswersStand
      <3>2. a.key # request[r].key
        BY <2>1, <3>1, OutboxAssumption
      <3> QED BY <1>5, <2>2, <3>1, <3>2
    <2> DEFINE new == [key |-> request[r].key, payload |-> request[r].payload, message |-> m]
    <2>5. answers' = answers \cup {new}
      BY <1>1, <1>7 DEF Answered
    <2>6. /\ keys'[new.key] = new.message /\ row'[new.message].status \in Statuses
          /\ row'[new.message].payload = new.payload
      BY <1>4, <2>1, <2>2 DEF Exists
    <2> HIDE DEF new
    <2>7. ASSUME NEW a \in answers'
          PROVE  /\ keys'[a.key] = a.message /\ Exists(a.message)'
                 /\ row'[a.message].payload = a.payload
      <3>1. CASE a \in answers
        BY <2>4, <3>1
      <3>2. CASE a = new
        BY <2>6, <3>2 DEF Exists
      <3> QED BY <2>5, <3>1, <3>2
    <2> QED BY <2>3, <2>7 DEF Standing, AnswersStand
  <1> QED BY <1>6, <1>7

LEMMA PurgeStands == ASSUME Base, Standing, NEW c \in Cycles, Purge(c) PROVE Standing'
  <1>1. PICK S \in SUBSET Purgeable :
            /\ row' = [m \in Messages |-> IF m \in S THEN [Absent EXCEPT !.status = "purged"]
                                                     ELSE Disowned(c)[m]]
            /\ keys' = [k \in Keys |-> IF keys[k] \in S THEN NoMessage ELSE keys[k]]
            /\ answers' = {a \in answers : a.message \notin S}
    BY DEF Purge
  <1>2. ASSUME NEW m \in Messages, m \notin S, Exists(m)
        PROVE  Exists(m)' /\ row'[m].payload = row[m].payload
    <2>1. row'[m] = Disowned(c)[m]
      BY <1>1, <1>2
    <2> QED BY <1>2, <2>1, RowsDisowned DEF Base, Exists
  <1>3. KeysStand'
    <2>1. \A k \in Keys : keys[k] \in Messages \cup {NoMessage}
      BY DEF Base, TypeOK
    <2>2. \A k \in Keys : keys'[k] # NoMessage =>
              keys'[k] = keys[k] /\ keys[k] \notin S
      BY <1>1
    <2> QED BY <1>2, <2>1, <2>2 DEF Standing, KeysStand
  <1>4. ASSUME NEW a \in answers'
        PROVE  /\ keys'[a.key] = a.message /\ Exists(a.message)'
               /\ row'[a.message].payload = a.payload
    <2>1. a \in answers /\ a.message \notin S
      BY <1>1, <1>4
    <2>2. /\ a.key \in Keys /\ a.message \in Messages
          /\ keys[a.key] = a.message /\ Exists(a.message) /\ row[a.message].payload = a.payload
      BY <2>1 DEF Base, TypeOK, Standing, AnswersStand
    <2> QED BY <1>1, <1>2, <2>1, <2>2
  <1> QED BY <1>3, <1>4 DEF Standing, AnswersStand

LEMMA InitStanding == Init => Standing
  BY DEF Init, Standing, KeysStand, AnswersStand

LEMMA NextStanding == Base /\ Standing /\ [Next]_vars => Standing'
  <1> SUFFICES ASSUME Base, Standing, [Next]_vars PROVE Standing'
    OBVIOUS
  <1>1. ASSUME UNCHANGED <<row, keys, answers>> PROVE Standing'
    BY <1>1, RowsStand DEF Exists
  <1>2. ASSUME NEW r \in Callers, \E a \in Asks[r] : Ask(r, a[1], a[2]) PROVE Standing'
    BY <1>1, <1>2 DEF Ask
  <1>3. ASSUME NEW r \in Callers, FindKey(r) \/ Reread(r) PROVE Standing'
    <2>1. request[r].key \in Keys /\ request[r].payload \in Payloads /\ UNCHANGED <<row, keys>>
      BY <1>3 DEF FindKey, Reread, Base, Asking
    <2>2. \/ keys[request[r].key] # NoMessage /\ Replay(r)
          \/ UNCHANGED answers
      BY <1>3 DEF FindKey, Reread
    <2> QED BY <1>1, <2>1, <2>2, ReplayStands
  <1>4. ASSUME NEW r \in Callers, Create(r) PROVE Standing'
    BY <1>1, <1>4, InsertStands DEF Create, CreateRow
  <1>5. ASSUME NEW c \in Cycles, \/ Select(c) \/ Fetch(c)
                                \/ \E m \in Messages : Send(c, m) \/ RecordFails(c, m)
        PROVE Standing'
    BY <1>1, <1>5 DEF Select, Fetch, Send, RecordFails, accepting
  <1>6. ASSUME NEW c \in Cycles, Update(c) PROVE Standing'
    <2>1. \A m \in Messages : row'[m] = row[m] \/ row'[m] = Locked(m, c)
      BY <1>6 DEF Update
    <2>2. ASSUME NEW m \in Messages, Exists(m)
          PROVE  Exists(m)' /\ row'[m].payload = row[m].payload
      <3>1. Locked(m, c).status = "SENDING" /\ Locked(m, c).payload = row[m].payload
        BY RowsOfAClaim DEF Base
      <3> QED BY <2>1, <2>2, <3>1 DEF Exists, Statuses
    <2> QED BY <1>6, <2>2, RowsStand DEF Update, accepting
  <1>7. ASSUME NEW c \in Cycles, NEW m \in Messages, Record(c, m) PROVE Standing'
    <2>1. /\ \A n \in Messages : row'[n].payload = row[n].payload
          /\ \A n \in Messages : n # m => row'[n] = row[n]
          /\ row'[m].status = IF Exists(m) THEN Outcome(cycle[c].hand[m]) ELSE row[m].status
      BY <1>7, MarkedRow DEF Record, Base
    <2>2. Outcome(cycle[c].hand[m]) \in Statuses
      BY DEF Outcome, AfterFailure, Statuses
    <2>3. \A n \in Messages : Exists(n) => Exists(n)'
      BY <2>1, <2>2 DEF Exists
    <2> QED BY <1>7, <2>1, <2>3, RowsStand DEF Record, accepting
  <1>8. ASSUME NEW c \in Cycles, Abort(c) PROVE Standing'
    <2>1. \A n \in Messages : Exists(n) => Exists(n)' /\ row'[n].payload = row[n].payload
      BY <1>8, RowsDisowned DEF Abort, Base, Exists
    <2> QED BY <1>8, <2>1, RowsStand DEF Abort, accepting
  <1>9. ASSUME NEW m \in Messages, BackoffPasses(m) \/ GoesStale(m) PROVE Standing'
    <2>1. \A n \in Messages : row'[n].status = row[n].status /\ row'[n].payload = row[n].payload
      BY <1>9 DEF BackoffPasses, GoesStale, Base, TypeOK, Row
    <2> QED BY <1>9, <2>1, RowsStand DEF BackoffPasses, GoesStale, accepting, Exists
  <1>10. ASSUME NEW m \in Messages, Retry(m) PROVE Standing'
    BY <1>1, <1>10 DEF Retry, accepting
  <1>11. ASSUME NEW m \in Messages, Requeue(m) PROVE Standing'
    <2> DEFINE fresh == [Absent EXCEPT !.status = "PENDING", !.payload = row[m].payload]
    <2>1. fresh.status = "PENDING" /\ fresh.payload = row[m].payload
      BY DEF Absent
    <2>2. row' = [row EXCEPT ![m] = fresh] \/ UNCHANGED row
      BY <1>11 DEF Requeue
    <2> HIDE DEF fresh
    <2>3. \A n \in Messages : Exists(n) => Exists(n)' /\ row'[n].payload = row[n].payload
      BY <2>1, <2>2 DEF Base, TypeOK, Exists, Statuses
    <2> QED BY <1>11, <2>3, RowsStand DEF Requeue, accepting
  <1>12. CASE UNCHANGED vars
    BY <1>1, <1>12 DEF vars
  <1> QED BY <1>2, <1>3, <1>4, <1>5, <1>6, <1>7, <1>8, <1>9, <1>10, <1>11, <1>12, PurgeStands
          DEF Next, Step

LEMMA AlwaysStanding == Spec => []Standing
  BY InitStanding, NextStanding, AlwaysBase, PTL DEF Spec

\* Whoever was answered with a message was answered with what it asked for, though
\* several requests race for one key (enqueue compares fingerprints on a replay).
THEOREM AnswersAreForPayload == Spec => []AnswerIsForPayload
  <1>1. Standing => AnswerIsForPayload
    BY DEF Standing, AnswersStand, AnswerIsForPayload
  <1> QED BY <1>1, AlwaysStanding, PTL

\* All requests with one key are answered with one message, unless it was purged since:
\* message and key are committed together, and the loser of a race re-reads the winner.
THEOREM OneMessagePerKeyAlways == Spec => []OneMessagePerKey
  <1>1. Standing => OneMessagePerKey
    BY DEF Standing, AnswersStand, OneMessagePerKey
  <1> QED BY <1>1, AlwaysStanding, PTL

=============================================================================
