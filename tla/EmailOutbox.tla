------------------------------ MODULE EmailOutbox ------------------------------
(***************************************************************************)
(* The email service: an outbox of message rows, the callers that enqueue  *)
(* under an idempotency key, the operator who revives rows, and the        *)
(* dispatch cycles that claim due rows, hand them to the provider and      *)
(* record what came of it.                                                 *)
(*                                                                         *)
(* Every statement is a step of its own, as no transaction spans two. Time *)
(* is left out: a backoff passes and a lock goes stale at any moment, the  *)
(* second even under a holder still at work, since a batch may take longer *)
(* than the claim timeout. A cycle's id stands for lockedBy and lockedAt.  *)
(***************************************************************************)
EXTENDS Naturals, FiniteSets, FiniteSetsExt

CONSTANTS
    Messages,       \* row ids
    Cycles,         \* the dispatch cycles that run at once, one per worker
    Callers,        \* the requests to POST /emails
    Keys,           \* idempotency keys
    Payloads,       \* what a request asks to be sent, and its fingerprint
    Asks,           \* caller -> the keys (NoKey for none) and payloads it may come with
    MaxAttempts,    \* EMAIL_MAX_ATTEMPTS
    BatchSize,      \* DISPATCHER_BATCH_SIZE
    Concurrency,    \* DISPATCHER_CONCURRENCY
    MaxRevivals,    \* bound: requeues by the operator
    Faults,         \* what may fail
    NoKey, NoMessage,
    Unlocked,       \* lockedBy null
    Former          \* the lock of a cycle that is over

ASSUME OutboxAssumption ==
    /\ MaxAttempts \in Nat \ {0} /\ BatchSize \in Nat \ {0} /\ Concurrency \in Nat \ {0}
    /\ MaxRevivals \in Nat
    /\ Faults \subseteq {"crash", "database", "lostReply", "slow"}
    /\ NoKey \notin Keys /\ NoMessage \notin Messages
    /\ Asks \in [Callers -> SUBSET ((Keys \cup {NoKey}) \X Payloads)]
    /\ Unlocked # Former /\ {Unlocked, Former} \cap Cycles = {}

VARIABLES
    row,            \* message -> its row
    keys,           \* idempotency key -> the message it produced
    request,        \* caller -> where its request is
    cycle,          \* cycle -> where it is, and the messages in its hands
    reviving,       \* messages that retry has found FAILED or DEAD and not requeued yet
    revivals,       \* requeues so far
    accepted,       \* messages the provider has accepted, once or more often
    unsure,         \* ghost: those whose accepting answer was lost, whose claim ran out, or
                    \* which the operator put back
    answers         \* ghost: the rows that requests with a key were answered with

operator == <<reviving, revivals>>
delivered == <<accepted, unsure>>
vars == <<row, keys, request, cycle, operator, delivered, answers>>
accepting == <<keys, request, answers>>

Statuses == {"PENDING", "SENDING", "SENT", "FAILED", "DEAD"}
Absent == [status |-> "none", payload |-> NoKey, attempts |-> 0, due |-> FALSE,
           lock |-> Unlocked, stale |-> FALSE]
Exists(m) == row[m].status \in Statuses

\* What a cycle has to do with a message: nothing, still to send it, or the result of
\* sending it; whether its attempts were spent when it was claimed, and (a ghost)
\* whether the claim has gone stale or was requeued meanwhile.
NotHeld == [state |-> "none", exhausted |-> FALSE, late |-> FALSE]
IdleCycle == [pc |-> "idle", candidates |-> {}, hand |-> [m \in Messages |-> NotHeld]]
IdleRequest == [pc |-> "idle", key |-> NoKey, payload |-> NoKey]

Init ==
    /\ row = [m \in Messages |-> Absent]
    /\ keys = [k \in Keys |-> NoMessage]
    /\ request = [r \in Callers |-> IdleRequest]
    /\ cycle = [c \in Cycles |-> IdleCycle]
    /\ reviving = {} /\ revivals = 0
    /\ accepted = {} /\ unsure = {}
    /\ answers = {}

-----------------------------------------------------------------------------
(* POST /emails *)

Answered(r, m) ==
    answers' = IF request[r].key = NoKey THEN answers
               ELSE answers \cup {[key |-> request[r].key, payload |-> request[r].payload, message |-> m]}

Done(r) == request' = [request EXCEPT ![r] = [IdleRequest EXCEPT !.pc = "done"]]

Ask(r, k, p) ==
    /\ request[r].pc = "idle"
    /\ request' = [request EXCEPT ![r] = [pc |-> IF k = NoKey THEN "create" ELSE "find",
                                          key |-> k, payload |-> p]]
    /\ UNCHANGED <<row, keys, cycle, operator, delivered, answers>>

\* A replay that returns the stored message whatever was asked.
ReplayUnchecked(r) == Answered(r, keys[request[r].key]) /\ Done(r)

\* A key that is known replays its message, unless it stands for another payload.
Replay(r) ==
    /\ IF row[keys[request[r].key]].payload = request[r].payload
       THEN Answered(r, keys[request[r].key])
       ELSE UNCHANGED answers
    /\ Done(r)

\* insert, first half: the transaction looks its key up.
FindKey(r) ==
    /\ request[r].pc = "find"
    /\ \/ keys[request[r].key] # NoMessage /\ Replay(r)
       \/ /\ keys[request[r].key] = NoMessage
          /\ request' = [request EXCEPT ![r].pc = "create"]
          /\ UNCHANGED answers
    /\ UNCHANGED <<row, keys, cycle, operator, delivered>>

\* Message and key, in one transaction.
Insert(r) ==
    \E m \in Messages :
        /\ row[m].status = "none"
        /\ row' = [row EXCEPT ![m] = [Absent EXCEPT !.status = "PENDING",
                                                    !.payload = request[r].payload]]
        /\ keys' = IF request[r].key = NoKey THEN keys ELSE [keys EXCEPT ![request[r].key] = m]
        /\ Answered(r, m) /\ Done(r)

\* insert, second half: message and key are committed together, or the key's racer
\* was first and neither is.
CreateRow(r) ==
    LET k == request[r].key
        taken == k # NoKey /\ keys[k] # NoMessage
    IN  \/ ~taken /\ Insert(r)
        \/ /\ taken
           /\ request' = [request EXCEPT ![r].pc = "reread"]
           /\ UNCHANGED <<row, keys, answers>>

Create(r) ==
    /\ request[r].pc = "create"
    /\ \/ CreateRow(r)
       \* No id left in this instance, or the database is down: a 5xx.
       \/ /\ "database" \in Faults \/ \A m \in Messages : row[m].status # "none"
          /\ Done(r)
          /\ UNCHANGED <<row, keys, answers>>
    /\ UNCHANGED <<cycle, operator, delivered>>

\* A re-read that takes it for granted that the winner's row is still there.
RereadUnchecked(r) ==
    /\ request[r].pc = "reread"
    /\ \/ keys[request[r].key] # NoMessage /\ Replay(r)
       \/ keys[request[r].key] = NoMessage /\ Answered(r, NoMessage) /\ Done(r)
    /\ UNCHANGED <<row, keys, cycle, operator, delivered>>

\* The loser of the race re-reads the winner's row, if it is still there.
Reread(r) ==
    /\ request[r].pc = "reread"
    /\ \/ keys[request[r].key] # NoMessage /\ Replay(r)
       \/ keys[request[r].key] = NoMessage /\ Done(r) /\ UNCHANGED answers
    /\ UNCHANGED <<row, keys, cycle, operator, delivered>>

-----------------------------------------------------------------------------
(* A dispatch cycle *)

At(c, pc) == cycle[c].pc = pc
Held(c) == {m \in Messages : cycle[c].hand[m].state # "none"}
InFlight(c) == {m \in Held(c) : cycle[c].hand[m].state # "todo"}

\* Cycle y with h for its part in message m.
Handled(y, m, h) == [y EXCEPT !.hand = [@ EXCEPT ![m] = h]]

\* The claim's predicate without orphan recovery.
IsDueUnorphaned(m) == row[m].status = "PENDING" \/ (row[m].status = "FAILED" /\ row[m].due)

\* The claim's predicate: due and claimable, or orphaned.
IsDue(m) ==
    \/ row[m].status = "PENDING"
    \/ row[m].status = "FAILED" /\ row[m].due
    \/ row[m].status = "SENDING" /\ row[m].stale
Due == {m \in Messages : IsDue(m)}

\* claimDue, first statement: up to a batch of due rows.
Select(c) ==
    /\ At(c, "idle")
    /\ \E S \in SUBSET Due :
           /\ S # {} /\ Cardinality(S) = Min({BatchSize, Cardinality(Due)})
           /\ cycle' = [cycle EXCEPT ![c].pc = "update", ![c].candidates = S]
    /\ UNCHANGED <<row, accepting, operator, delivered>>

Locked(m, c) == [row[m] EXCEPT !.status = "SENDING", !.lock = c, !.stale = FALSE, !.due = FALSE,
                               !.attempts = IF @ > MaxAttempts THEN @ ELSE @ + 1]

\* The update without the predicate it repeats.
WonUnguarded(c) == {m \in cycle[c].candidates : Exists(m)}

\* The candidates that are still due when the update reaches them.
Won(c) == cycle[c].candidates \cap Due

\* claimDue, second statement: the update repeats the predicate. attempts saturates
\* one above its limit, past which the code tells nothing apart.
Update(c) ==
    /\ At(c, "update")
    /\ row' = [m \in Messages |-> IF m \in Won(c) THEN Locked(m, c) ELSE row[m]]
    /\ cycle' = [cycle EXCEPT ![c].pc = "fetch", ![c].candidates = {}]
    /\ UNCHANGED <<accepting, operator, delivered>>

\* claimDue, third statement: the rows that carry this cycle's lock.
Fetch(c) ==
    /\ At(c, "fetch")
    /\ cycle' = [cycle EXCEPT ![c] =
           [pc |-> "deliver", candidates |-> {},
            hand |-> [m \in Messages |->
                          IF row[m].status = "SENDING" /\ row[m].lock = c
                          THEN [state |-> "todo", exhausted |-> row[m].attempts >= MaxAttempts,
                                late |-> row[m].stale]
                          ELSE NotHeld]]]
    /\ UNCHANGED <<row, accepting, operator, delivered>>

\* The provider takes m over. Whether it knows a copy for one by the Idempotency-Key,
\* as Resend does for a day, is nothing the service ever learns.
Accepts(m) == accepted' = accepted \cup {m}
Doubt(m) == unsure' = unsure \cup {m}

\* provider.send: accepted, no answer although accepted, an answer worth a retry, or
\* a refusal.
Send(c, m) ==
    /\ At(c, "deliver")
    /\ cycle[c].hand[m].state = "todo"
    /\ Cardinality(InFlight(c)) < Concurrency
    /\ \E state \in {"sent", "failed", "refused"} :
           /\ \/ state = "sent" /\ Accepts(m) /\ UNCHANGED unsure
              \/ state = "failed" /\ "lostReply" \in Faults /\ Accepts(m) /\ Doubt(m)
              \/ state \in {"failed", "refused"} /\ UNCHANGED delivered
           /\ cycle' = [cycle EXCEPT ![c] = Handled(cycle[c], m, [cycle[c].hand[m] EXCEPT !.state = state])]
    /\ UNCHANGED <<row, accepting, operator>>

\* The status recordFailure decides on, from the attempts that the claim read.
AfterFailure(h) ==
    IF h.state = "refused" \/ h.exhausted THEN "DEAD" ELSE "FAILED"

\* deliver falling through to recordFailure after a success.
OutcomeFallsThrough(h) == AfterFailure(h)

Outcome(h) == IF h.state = "sent" THEN "SENT" ELSE AfterFailure(h)

\* markSent, markForRetry or markDead: an update by id, whoever holds the row now. It
\* fails on a row that was purged.
Mark(c, m) ==
    LET status == Outcome(cycle[c].hand[m]) IN
    row' = IF Exists(m)
           THEN [row EXCEPT ![m] = [@ EXCEPT !.status = status, !.lock = Unlocked, !.stale = FALSE,
                                             !.due = FALSE]]
           ELSE row

Finished(c, m) == [cycle EXCEPT ![c] = Handled(cycle[c], m, NotHeld)]

\* The claim of m runs out, or is cleared, under the cycles that hold it.
Late(cycles, m) ==
    [c \in Cycles |-> IF cycles[c].hand[m].state = "none" THEN cycles[c]
                      ELSE Handled(cycles[c], m, [cycles[c].hand[m] EXCEPT !.late = TRUE])]

Record(c, m) ==
    /\ m \in InFlight(c)
    /\ Mark(c, m)
    /\ cycle' = Late(Finished(c, m), m)
    /\ UNCHANGED <<accepting, operator, delivered>>

\* The database fails under a cycle: an outcome goes unrecorded and is only logged.
RecordFails(c, m) ==
    /\ "database" \in Faults
    /\ m \in InFlight(c)
    /\ cycle' = Finished(c, m)
    /\ UNCHANGED <<row, accepting, operator, delivered>>

\* Locks a cycle leaves behind are no later cycle's: its lockedAt is another.
Disowned(c) == [m \in Messages |-> IF row[m].lock = c THEN [row[m] EXCEPT !.lock = Former] ELSE row[m]]

\* The worker is killed, or a statement of its claim fails: whatever the cycle had
\* locked stays SENDING.
Abort(c) ==
    /\ \/ "crash" \in Faults /\ ~At(c, "idle")
       \/ "database" \in Faults /\ cycle[c].pc \in {"update", "fetch"}
    /\ row' = Disowned(c)
    /\ cycle' = [cycle EXCEPT ![c] = IdleCycle]
    /\ UNCHANGED <<accepting, operator, delivered>>

\* Purging everything past its retention, delivered or not.
PurgeableAny == {m \in Messages : Exists(m)}
\* Only delivered rows are purged.
Purgeable == {m \in Messages : row[m].status = "SENT"}

\* The end of a tick: rows past their retention go, and their keys with them.
Purge(c) ==
    /\ At(c, "deliver") /\ Held(c) = {}
    /\ \E S \in SUBSET Purgeable :
           /\ row' = [m \in Messages |-> IF m \in S THEN [Absent EXCEPT !.status = "purged"]
                                                    ELSE Disowned(c)[m]]
           /\ keys' = [k \in Keys |-> IF keys[k] \in S THEN NoMessage ELSE keys[k]]
           /\ answers' = {a \in answers : a.message \notin S}
    /\ cycle' = [cycle EXCEPT ![c] = IdleCycle]
    /\ UNCHANGED <<request, operator, delivered>>

-----------------------------------------------------------------------------
(* The clock and the operator *)

BackoffPasses(m) ==
    /\ row[m].status = "FAILED" /\ ~row[m].due
    /\ row' = [row EXCEPT ![m].due = TRUE]
    /\ UNCHANGED <<accepting, cycle, operator, delivered>>

\* The lock outlives the claim timeout; between two statements of a claim only if the
\* database is that slow.
GoesStale(m) ==
    /\ row[m].status = "SENDING" /\ ~row[m].stale
    /\ "slow" \in Faults \/ \A c \in Cycles : ~(row[m].lock = c /\ At(c, "fetch"))
    /\ row' = [row EXCEPT ![m].stale = TRUE]
    /\ cycle' = Late(cycle, m)
    /\ Doubt(m)
    /\ UNCHANGED <<accepting, operator, accepted>>

\* POST /emails/:id/retry, first half: only FAILED and DEAD rows qualify ...
Retry(m) ==
    /\ row[m].status \in {"FAILED", "DEAD"}
    /\ m \notin reviving
    /\ Cardinality(reviving) + revivals < MaxRevivals
    /\ reviving' = reviving \cup {m}
    /\ UNCHANGED <<row, accepting, cycle, revivals, delivered>>

\* ... and second half: the row is put back by id, or is gone.
Requeue(m) ==
    /\ m \in reviving
    /\ reviving' = reviving \ {m}
    /\ IF Exists(m)
       THEN /\ revivals' = revivals + 1
            /\ row' = [row EXCEPT ![m] = [Absent EXCEPT !.status = "PENDING", !.payload = row[m].payload]]
            /\ cycle' = Late(cycle, m)
            /\ Doubt(m)
       ELSE UNCHANGED <<row, revivals, cycle, unsure>>
    /\ UNCHANGED <<accepting, accepted>>

-----------------------------------------------------------------------------
Step(c) ==
    \/ Select(c) \/ Update(c) \/ Fetch(c) \/ Purge(c)
    \/ \E m \in Messages : Send(c, m) \/ Record(c, m)

Next ==
    \/ \E r \in Callers : \/ \E a \in Asks[r] : Ask(r, a[1], a[2])
                          \/ FindKey(r) \/ Create(r) \/ Reread(r)
    \/ \E c \in Cycles : Step(c) \/ Abort(c) \/ \E m \in Messages : RecordFails(c, m)
    \/ \E m \in Messages : BackoffPasses(m) \/ GoesStale(m) \/ Retry(m) \/ Requeue(m)

Spec == Init /\ [][Next]_vars

\* The poll timer keeps firing, clocks advance, and neither the workers nor the
\* database fail every single time at one point of the way. Nothing is assumed of the
\* provider but that a call ends, which its timeout sees to, and nothing of callers
\* and of the operator.
Fairness ==
    /\ \A c \in Cycles : WF_vars(Step(c))
    /\ \A m \in Messages :
           /\ WF_vars(BackoffPasses(m)) /\ WF_vars(GoesStale(m))
           /\ SF_vars(\E c \in Cycles : Update(c) /\ m \in Won(c))
           /\ SF_vars(\E c \in Cycles : Fetch(c) /\ row[m].lock = c)
           /\ SF_vars(\E c \in Cycles : Send(c, m))
           /\ SF_vars(\E c \in Cycles : Record(c, m))

FairSpec == Spec /\ Fairness

-----------------------------------------------------------------------------
(* Properties *)

Row == [status : Statuses \cup {"none", "purged"}, payload : Payloads \cup {NoKey},
        attempts : 0 .. MaxAttempts + 1, due : BOOLEAN,
        lock : Cycles \cup {Unlocked, Former}, stale : BOOLEAN]
Request == [pc : {"idle", "find", "create", "reread", "done"},
            key : Keys \cup {NoKey}, payload : Payloads \cup {NoKey}]
Hand == [state : {"none", "todo", "sent", "failed", "refused"}, exhausted : BOOLEAN, late : BOOLEAN]
Cycle == [pc : {"idle", "update", "fetch", "deliver"}, candidates : SUBSET Messages,
          hand : [Messages -> Hand]]

\* Every variable has its type.
TypeOK ==
    /\ row \in [Messages -> Row]
    /\ keys \in [Keys -> Messages \cup {NoMessage}]
    /\ request \in [Callers -> Request]
    /\ cycle \in [Cycles -> Cycle]
    /\ reviving \subseteq Messages /\ revivals \in Nat
    /\ accepted \subseteq Messages /\ unsure \subseteq Messages
    /\ answers \subseteq [key : Keys, payload : Payloads, message : Messages]

\* A message that the provider has accepted is on its way there again only where the
\* service cannot know better: the answer was lost, the claim ran out, or the operator
\* put the row back. It is what the row id as provider key is there for; a claim that
\* two workers share, or an acceptance recorded as a failure, would be none of these.
CopiesOnlyInDoubt ==
    \A c \in Cycles, m \in Messages :
        (cycle[c].hand[m].state = "todo" /\ m \in accepted) => m \in unsure

\* A row that says SENT, or that the purge took, was accepted by the provider,
\* whichever of several cycles wrote its status last (deliver, purgeSentBefore).
SentWasAccepted ==
    \A m \in Messages : row[m].status \in {"SENT", "purged"} => m \in accepted

\* No two cycles hold one message, however their claims interleave, unless its claim
\* went stale or was requeued under its holder (claimDue: the update repeats the
\* predicate).
OneHolder ==
    \A c, d \in Cycles, m \in Messages : (m \in Held(c) /\ m \in Held(d) /\ c # d)
        => cycle[c].hand[m].late \/ cycle[d].hand[m].late

\* Whoever was answered with a message was answered with what it asked for, also when
\* two requests raced for one key (enqueue compares fingerprints after a replay).
AnswerIsForPayload == \A a \in answers : row[a.message].payload = a.payload

\* Requests with one key are answered with one message, unless it was purged since
\* (insert, and enqueue's re-read of the winner).
OneMessagePerKey ==
    \A a, b \in answers : a.key = b.key => a.message = b.message

\* Every message that was accepted into the outbox is delivered or dead-lettered in
\* the end, though workers die, outcomes go unrecorded and claims are taken over.
Settles ==
    \A m \in Messages : (row[m].status = "PENDING") ~> (row[m].status \in {"SENT", "DEAD", "purged"})

-----------------------------------------------------------------------------
(* What a comment in the code says that does not hold of it *)

\* A message is never claimed more often than its ceiling allows, "which is what stops
\* a message that reliably crashes its handler from being retried for ever"
\* (claimDue counts the attempt, and nothing looks at the count before the next claim).
AttemptsBounded == \A m \in Messages : row[m].attempts <= MaxAttempts
=============================================================================
