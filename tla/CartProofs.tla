------------------------------ MODULE CartProofs ------------------------------
(***************************************************************************)
(* Proofs about Cart, for any number of carts, products, handlers and      *)
(* replicas, and for any combination of faults unless a theorem says       *)
(* otherwise.                                                              *)
(***************************************************************************)
EXTENDS Cart, FiniteSetTheorems, TLAPS

-----------------------------------------------------------------------------
(* Lines *)

\* What one line more or less leaves is a count again.
LEMMA CountsClosed ==
    ASSUME NEW a \in Counts, NEW b \in Counts
    PROVE  Zero \in Counts /\ Surplus(a, b) \in Counts
  BY DEF Counts, Zero, Surplus

\* Whatever a request names, the plan settles on counts of every product.
LEMMA SettledCounts ==
    ASSUME NEW held \in Counts, NEW requested \in Counts \cup RequestedLines
    PROVE  Settled(held, requested) \in Counts
  <1>1. CASE requested \in Counts
    BY <1>1 DEF Counts, Settled
  <1>2. CASE requested \in RequestedLines
    <2>1. PICK S \in SUBSET Products : requested \in [S -> 0 .. MaxLine]
      BY <1>2 DEF RequestedLines
    <2>2. \A x \in S : requested[x] \in Nat
      BY <2>1, CartAssumption
    <2> QED BY <2>1, <2>2 DEF Counts, Settled
  <1> QED BY <1>1, <1>2

-----------------------------------------------------------------------------
(* Handlers *)

\* The handler of p goes on as j.
Sets(p, j) == proc' = [proc EXCEPT ![p] = j]

\* One more step of the handler that p runs: on the same cart, or to its end.
Advances(p, j) ==
    /\ Sets(p, j)
    /\ JobOK(j)
    /\ j.pc # "idle" => j.cart = proc[p].cart /\ proc[p].pc # "idle"

JobsOK ==
    /\ proc \in [Procs -> Job]
    /\ \A p \in Procs : JobOK(proc[p]) /\ (proc[p].pc # "idle" => proc[p].cart \in issued)

\* A handler that has ended is well-formed, and so is one that only has to unlock.
LEMMA EndsOK ==
    /\ JobOK(Idle) /\ Idle.pc = "idle"
    /\ \A j : JobOK(j) /\ j.pc # "idle" =>
             JobOK([Idle EXCEPT !.op = j.op, !.cart = j.cart, !.pc = "unlock"])
  <1>1. Idle \in Job /\ Idle.pc = "idle"
    BY DEF Idle, Job, PCs, Counts, Zero
  <1>2. JobOK(Idle)
    BY <1>1 DEF JobOK, Idle, Counts, Zero
  <1>3. ASSUME NEW j, JobOK(j), j.pc # "idle"
        PROVE  JobOK([Idle EXCEPT !.op = j.op, !.cart = j.cart, !.pc = "unlock"])
    <2> DEFINE k == [Idle EXCEPT !.op = j.op, !.cart = j.cart, !.pc = "unlock"]
    <2>1. j.op \in {"none", "set", "checkout"} \cup Causes /\ j.cart \in Carts
      BY <1>3 DEF JobOK, Job
    <2>2. k \in Job /\ k.pc = "unlock" /\ k.cart \in Carts /\ k.lines = Zero /\ Zero \in Counts
      BY <1>1, <2>1 DEF Job, Idle, PCs, Counts, Zero
    <2> HIDE DEF k
    <2>3. JobOK(k)
      BY <2>2 DEF JobOK
    <2> QED BY <2>3 DEF k
  <1> QED BY <1>1, <1>2, <1>3

\* Going to pc is a step of the same handler when pc is a place for its kind.
LEMMA GoAdvances ==
    ASSUME JobsOK, NEW p \in Procs, NEW x, Go(p, x), proc[p].pc # "idle",
           JobOK([proc[p] EXCEPT !.pc = x])
    PROVE  Advances(p, [proc[p] EXCEPT !.pc = x])
  <1>1. proc' = [proc EXCEPT ![p] = [proc[p] EXCEPT !.pc = x]]
    BY DEF Go, JobsOK
  <1>2. [proc[p] EXCEPT !.pc = x].cart = proc[p].cart
    BY DEF JobsOK, Job
  <1> QED BY <1>1, <1>2 DEF Advances, Sets

\* End and the idle job are steps of any handler.
LEMMA EndAdvances ==
    ASSUME JobsOK, NEW p \in Procs, proc[p].pc # "idle"
    PROVE  /\ End(p) => \E j : Advances(p, j) /\ j.pc = "unlock"
           /\ Sets(p, Idle) => Advances(p, Idle)
  <1>1. JobOK(proc[p])
    BY DEF JobsOK
  <1> DEFINE k == [Idle EXCEPT !.op = proc[p].op, !.cart = proc[p].cart, !.pc = "unlock"]
  <1>2. JobOK(k)
    BY <1>1, EndsOK
  <1>3. k.cart = proc[p].cart /\ k.pc = "unlock"
    BY DEF Idle
  <1>4. End(p) => Sets(p, k)
    BY DEF End, Sets
  <1> HIDE DEF k
  <1> QED BY <1>2, <1>3, <1>4, EndsOK DEF Advances

\* The jobs stay well-formed when one handler advances and no cart is unissued.
LEMMA JobsAfter ==
    ASSUME JobsOK, NEW p \in Procs, NEW j, Sets(p, j), JobOK(j),
           j.pc # "idle" => j.cart \in issued', issued \subseteq issued'
    PROVE  JobsOK'
  <1>1. proc' \in [Procs -> Job] /\ \A q \in Procs : proc'[q] = IF q = p THEN j ELSE proc[q]
    BY DEF Sets, JobsOK, JobOK
  <1>2. \A q \in Procs : JobOK(proc'[q]) /\ (proc'[q].pc # "idle" => proc'[q].cart \in issued')
    BY <1>1 DEF JobsOK
  <1> QED BY <1>1, <1>2 DEF JobsOK

\* Going somewhere keeps a job well-formed when the place is one for its kind.
LEMMA GoOK ==
    ASSUME NEW j, JobOK(j), NEW x \in PCs,
           x \notin {"lock", "plan"} => j.lines \in Counts,
           x \in {"plan", "reserve", "release", "commit", "undoReserve", "undoRelease"} => j.op = "set",
           x \in {"read", "transferOut", "transferIn", "restore", "discard"} => j.op = "checkout",
           x = "lock" => j.op \in {"set", "checkout"},
           x \in {"releaseLock", "writeLock", "take", "forget", "giveBack", "retire", "reschedule",
                  "unlockRelease"} => j.op \in Causes,
           j.pc # "idle",
           j.pc \in {"unlock", "unlockRelease"} => x \in {"unlock", "unlockRelease"}
    PROVE  JobOK([j EXCEPT !.pc = x])
  <1> DEFINE k == [j EXCEPT !.pc = x]
  <1>1. /\ k \in Job /\ k.pc = x /\ k.op = j.op /\ k.cart = j.cart /\ k.ref = j.ref
        /\ k.lines = j.lines
    BY DEF JobOK, Job
  <1>2. j.cart \in Carts
    BY DEF JobOK
  <1>3. x \notin {"idle", "unlock", "unlockRelease"} =>
            j.ref \in Refs /\ (IF j.op = "checkout" THEN j.ref \in Orders ELSE j.ref = j.cart)
    BY DEF JobOK
  <1>4. j.op = "checkout" => j.lines \in Counts
    BY DEF JobOK
  <1> HIDE DEF k
  <1>5. JobOK(k)
    BY <1>1, <1>2, <1>3, <1>4 DEF JobOK
  <1> QED BY <1>5 DEF k

\* The steps that a handler takes under its write lock.
SetStep(p) ==
    Plan(p) \/ ReserveLines(p) \/ ReleaseLines(p) \/ Commit(p) \/ UndoReserve(p) \/ UndoRelease(p)
CheckoutStep(p) == ReadLines(p) \/ TransferOut(p) \/ TransferIn(p) \/ Restore(p) \/ Discard(p)
ReleaseStep(p) == Take(p) \/ Forget(p) \/ GiveBack(p) \/ Retire(p) \/ Reschedule(p)
WorkStep(p) == SetStep(p) \/ CheckoutStep(p) \/ ReleaseStep(p) \/ RedisFails(p)

\* A step of setLines is one of a handler that works, and leaves it working or
\* with nothing but its lock to give back.
LEMMA SetAdvances ==
    ASSUME TypeOK, NEW p \in Procs, SetStep(p)
    PROVE  Working(p) /\ \E j : Advances(p, j) /\ j.pc \notin {"idle", "forget"}
  <1> DEFINE w == proc[p]
  <1>0. JobsOK /\ JobOK(w) /\ w \in Job
    BY DEF TypeOK, JobsOK
  <1>1. CASE End(p) /\ w.pc \in {"plan", "reserve", "release", "commit", "undoReserve", "undoRelease"}
    <2>1. Working(p) /\ w.pc # "idle"
      BY <1>1 DEF Working
    <2> QED BY <1>0, <1>1, <2>1, EndAdvances
  <1>2. ASSUME NEW x \in {"reserve", "release", "commit", "undoReserve", "undoRelease"}, Go(p, x),
               w.pc \in {"reserve", "release", "commit", "undoReserve", "undoRelease"}
        PROVE  Working(p) /\ \E j : Advances(p, j) /\ j.pc \notin {"idle", "forget"}
    <2>1. w.op = "set" /\ w.lines \in Counts
      BY <1>0, <1>2 DEF JobOK
    <2>2. x \in PCs
      BY <1>2 DEF PCs
    <2>3. JobOK([w EXCEPT !.pc = x])
      BY <1>0, <1>2, <2>1, <2>2, GoOK
    <2>4. [w EXCEPT !.pc = x].pc = x
      BY <1>0 DEF Job
    <2> HIDE DEF w
    <2>5. Working(p)
      BY <1>2 DEF Working, w
    <2> QED BY <1>0, <1>2, <2>3, <2>4, <2>5, GoAdvances DEF w
  <1>3. CASE Plan(p)
    <2> DEFINE c == w.cart
               settled == Settled(items[c], w.lines)
               reserve == Surplus(settled, items[c])
               release == Surplus(items[c], settled)
               k == [w EXCEPT !.pc = AfterPlan(reserve, release), !.lines = settled,
                              !.reserve = reserve, !.release = release]
    <2>1. w.pc = "plan" /\ (End(p) \/ Sets(p, k))
      BY <1>0, <1>3 DEF Plan, Sets, At, TypeOK, JobsOK
    <2>2. w.op = "set" /\ c \in Carts /\ items[c] \in Counts /\ w.lines \in Counts \cup RequestedLines
      BY <1>0, <2>1 DEF TypeOK, RedisOK, JobOK, Job
    <2>3. settled \in Counts
      BY <2>2, SettledCounts
    <2>4. reserve \in Counts /\ release \in Counts
      <3> HIDE DEF settled
      <3> QED BY <2>2, <2>3, CountsClosed
    <2>5. AfterPlan(reserve, release) \in {"reserve", "release", "commit"}
      BY DEF AfterPlan, AfterReserve
    <2> DEFINE x == AfterPlan(reserve, release)
    <2> HIDE DEF settled, reserve, release
    <2>6. /\ k \in Job /\ k.pc = x /\ k.op = "set" /\ k.cart = c /\ k.ref = w.ref /\ k.lines = settled
      <3>1. x \in PCs
        BY <2>5 DEF PCs
      <3> HIDE DEF x, w
      <3>2. k = [w EXCEPT !.pc = x, !.lines = settled, !.reserve = reserve, !.release = release]
        BY DEF x
      <3> QED BY <1>0, <2>2, <2>3, <2>4, <3>1, <3>2 DEF Job, c
    <2>7. w.ref \in Refs /\ w.ref = w.cart
      BY <1>0, <2>1, <2>2 DEF JobOK
    <2> HIDE DEF k, x
    <2>8. JobOK(k)
      BY <2>2, <2>3, <2>5, <2>6, <2>7 DEF JobOK, x
    <2>9. Sets(p, k) => Advances(p, k) /\ k.pc \notin {"idle", "forget"}
      BY <2>1, <2>5, <2>6, <2>8 DEF Advances, x
    <2> QED BY <1>1, <2>1, <2>9 DEF Working
  <1>4. CASE ReserveLines(p)
    <2>1. w.pc = "reserve" /\ (End(p) \/ Go(p, AfterReserve(w.release)))
      BY <1>4 DEF ReserveLines, At
    <2>2. AfterReserve(w.release) \in {"release", "commit"}
      BY DEF AfterReserve
    <2> QED BY <1>1, <1>2, <2>1, <2>2
  <1>5. CASE ReleaseLines(p)
    <2> DEFINE k == [w EXCEPT !.release = Zero, !.pc = "undoReserve"]
    <2>1. w.pc = "release" /\ (Go(p, "commit") \/ End(p) \/ Sets(p, k))
      BY <1>0, <1>5 DEF ReleaseLines, At, Sets, JobsOK
    <2>2. w.op = "set" /\ w.lines \in Counts /\ w.cart \in Carts /\ w.ref \in Refs /\ w.ref = w.cart
      BY <1>0, <2>1 DEF JobOK
    <2>3. /\ k \in Job /\ k.pc = "undoReserve" /\ k.op = "set" /\ k.cart = w.cart
          /\ k.ref = w.ref /\ k.lines = w.lines
      BY <1>0, <2>2, CountsClosed DEF Job, PCs, Counts, Zero
    <2> HIDE DEF k
    <2>4. JobOK(k)
      BY <2>2, <2>3 DEF JobOK
    <2>5. Sets(p, k) => Advances(p, k)
      BY <2>1, <2>3, <2>4 DEF Advances
    <2> QED BY <1>1, <1>2, <2>1, <2>3, <2>5 DEF Working
  <1>6. CASE Commit(p)
    <2>1. w.pc = "commit" /\ (End(p) \/ Go(p, FirstUndo(p)))
      BY <1>6 DEF Commit, At
    <2>2. FirstUndo(p) \in {"undoReserve", "undoRelease"}
      BY DEF FirstUndo
    <2> QED BY <1>1, <1>2, <2>1, <2>2
  <1>7. CASE UndoReserve(p) \/ UndoRelease(p)
    <2>1. w.pc \in {"undoReserve", "undoRelease"} /\ (End(p) \/ Go(p, "undoRelease"))
      BY <1>7 DEF UndoReserve, UndoRelease, At
    <2> QED BY <1>1, <1>2, <2>1
  <1> QED BY <1>3, <1>4, <1>5, <1>6, <1>7 DEF SetStep

\* The same of checkout.
LEMMA CheckoutAdvances ==
    ASSUME TypeOK, NEW p \in Procs, CheckoutStep(p)
    PROVE  Working(p) /\ \E j : Advances(p, j) /\ j.pc \notin {"idle", "forget"}
  <1> DEFINE w == proc[p]
             here == w.pc \in {"read", "transferOut", "transferIn", "restore", "discard"}
  <1>0. JobsOK /\ JobOK(w) /\ w \in Job
    BY DEF TypeOK, JobsOK
  <1>1. CASE End(p) /\ here
    <2>1. Working(p) /\ w.pc # "idle"
      BY <1>1 DEF Working
    <2> QED BY <1>0, <1>1, <2>1, EndAdvances
  <1>2. ASSUME NEW x \in {"transferIn", "restore", "discard"}, Go(p, x), here
        PROVE  Working(p) /\ \E j : Advances(p, j) /\ j.pc \notin {"idle", "forget"}
    <2>1. w.op = "checkout" /\ w.lines \in Counts
      BY <1>0, <1>2 DEF JobOK
    <2>2. x \in PCs
      BY <1>2 DEF PCs
    <2>3. JobOK([w EXCEPT !.pc = x])
      BY <1>0, <1>2, <2>1, <2>2, GoOK
    <2>4. [w EXCEPT !.pc = x].pc = x
      BY <1>0 DEF Job
    <2>5. Working(p) /\ w.pc # "idle"
      BY <1>2 DEF Working
    <2> HIDE DEF w
    <2> QED BY <1>0, <1>2, <2>3, <2>4, <2>5, GoAdvances DEF w
  <1>3. CASE ReadLines(p)
    <2> DEFINE k == [w EXCEPT !.lines = items[w.cart], !.pc = "transferOut"]
    <2>1. w.pc = "read" /\ (End(p) \/ Sets(p, k))
      BY <1>0, <1>3 DEF ReadLines, At, Sets, JobsOK
    <2>2. w.op = "checkout" /\ w.cart \in Carts /\ w.ref \in Refs /\ w.ref \in Orders /\ items[w.cart] \in Counts
      BY <1>0, <2>1 DEF JobOK, TypeOK, RedisOK
    <2>3. /\ k \in Job /\ k.pc = "transferOut" /\ k.op = "checkout" /\ k.cart = w.cart
          /\ k.ref = w.ref /\ k.lines \in Counts
      BY <1>0, <2>2 DEF Job, PCs
    <2> HIDE DEF k
    <2>4. JobOK(k)
      BY <2>2, <2>3 DEF JobOK
    <2>5. Sets(p, k) => Advances(p, k)
      BY <2>1, <2>3, <2>4 DEF Advances
    <2> QED BY <1>1, <2>1, <2>3, <2>5 DEF Working
  <1>4. CASE TransferOut(p) \/ TransferIn(p) \/ Restore(p) \/ Discard(p)
    <2>1. /\ here
          /\ End(p) \/ (\E x \in {"transferIn", "restore", "discard"} : Go(p, x))
      BY <1>4 DEF TransferOut, TransferIn, Restore, Discard, At
    <2> QED BY <1>1, <1>2, <2>1
  <1> QED BY <1>3, <1>4 DEF CheckoutStep

\* The same of releaseSession; it goes on to forget a cart that lists nothing.
LEMMA ReleaseAdvances ==
    ASSUME TypeOK, NEW p \in Procs, ReleaseStep(p)
    PROVE  /\ Working(p)
           /\ \E j : /\ Advances(p, j) /\ j.pc # "idle"
                     /\ j.pc = "forget" => UNCHANGED redis /\ Listed(items[j.cart]) = {}
  <1> DEFINE w == proc[p]
             here == w.pc \in {"take", "forget", "giveBack", "retire", "reschedule"}
  <1>0. JobsOK /\ JobOK(w) /\ w \in Job
    BY DEF TypeOK, JobsOK
  <1>1. CASE End(p) /\ here
    <2>1. Working(p) /\ w.pc # "idle"
      BY <1>1 DEF Working
    <2> QED BY <1>0, <1>1, <2>1, EndAdvances
  <1>2. ASSUME NEW x \in {"retire", "reschedule"}, Go(p, x), here
        PROVE  Working(p) /\ \E j : Advances(p, j) /\ j.pc \notin {"idle", "forget"}
    <2>1. w.op \in Causes /\ w.lines \in Counts
      BY <1>0, <1>2 DEF JobOK
    <2>2. x \in PCs
      BY <1>2 DEF PCs
    <2>3. JobOK([w EXCEPT !.pc = x])
      BY <1>0, <1>2, <2>1, <2>2, GoOK
    <2>4. [w EXCEPT !.pc = x].pc = x
      BY <1>0 DEF Job
    <2>5. Working(p) /\ w.pc # "idle"
      BY <1>2 DEF Working
    <2> HIDE DEF w
    <2> QED BY <1>0, <1>2, <2>3, <2>4, <2>5, GoAdvances DEF w
  <1>3. CASE Take(p)
    <2> DEFINE lines == items[w.cart]
               k == [w EXCEPT !.lines = lines,
                              !.pc = IF Listed(lines) # {} THEN "giveBack" ELSE "forget"]
    <2>1. w.pc = "take" /\ Sets(p, k) /\ UNCHANGED redis
      BY <1>0, <1>3 DEF Take, At, Sets, JobsOK
    <2>2. w.op \in Causes /\ w.cart \in Carts /\ w.ref \in Refs /\ lines \in Counts
          /\ (w.op # "checkout" => w.ref = w.cart)
      BY <1>0, <2>1 DEF JobOK, TypeOK, RedisOK
    <2>3. /\ k \in Job /\ k.pc = (IF Listed(lines) # {} THEN "giveBack" ELSE "forget")
          /\ k.op = w.op /\ k.cart = w.cart /\ k.ref = w.ref /\ k.lines = lines
      BY <1>0, <2>2 DEF Job, PCs
    <2>4. w.op \notin {"set", "checkout"}
      BY <2>2 DEF Causes
    <2> HIDE DEF k, lines
    <2>5. JobOK(k)
      BY <2>2, <2>3, <2>4 DEF JobOK
    <2>6. Advances(p, k)
      BY <2>1, <2>3, <2>5 DEF Advances
    <2>7. k.pc # "idle" /\ (k.pc = "forget" => Listed(items[k.cart]) = {})
      BY <2>3 DEF lines
    <2> QED BY <2>1, <2>6, <2>7 DEF Working
  <1>4. CASE Forget(p) \/ GiveBack(p) \/ Retire(p) \/ Reschedule(p)
    <2>1. /\ here
          /\ End(p) \/ (\E x \in {"retire", "reschedule"} : Go(p, x))
      BY <1>4 DEF Forget, GiveBack, Retire, Reschedule, At
    <2> QED BY <1>1, <1>2, <2>1
  <1> QED BY <1>3, <1>4 DEF ReleaseStep

\* Every step under the write lock is one of a handler that works on its cart, and
\* leaves it working or with nothing but its locks to give back.
LEMMA WorkAdvances ==
    ASSUME TypeOK, NEW p \in Procs, WorkStep(p)
    PROVE  /\ Working(p) /\ UNCHANGED locks
           /\ \E j : /\ Advances(p, j) /\ j.pc # "idle"
                     /\ j.pc = "forget" => UNCHANGED redis /\ Listed(items[j.cart]) = {}
  <1>1. UNCHANGED locks
    BY DEF WorkStep, SetStep, CheckoutStep, ReleaseStep, RedisFails, Plan, ReserveLines, ReleaseLines,
           Commit, UndoReserve, UndoRelease, ReadLines, TransferOut, TransferIn, Restore, Discard,
           Take, Forget, GiveBack, Retire, Reschedule, locks
  <1>2. CASE RedisFails(p)
    <2>1. Working(p) /\ proc[p].pc # "idle" /\ End(p)
      BY <1>2 DEF RedisFails, Working
    <2>2. \E j : Advances(p, j) /\ j.pc = "unlock"
      BY <2>1, EndAdvances DEF TypeOK, JobsOK
    <2> QED BY <1>1, <2>1, <2>2
  <1> QED BY <1>1, <1>2, SetAdvances, CheckoutAdvances, ReleaseAdvances DEF WorkStep

-----------------------------------------------------------------------------
(* Locks *)

LocksOK ==
    /\ writeLock \in [Carts -> Procs \cup {Nobody, Gone}]
    /\ releaseLock \in [Carts -> Procs \cup {Nobody, Gone}]

\* The places in which a handler has the write lock to itself.
Busy(j) == j.pc \notin {"idle", "lock", "releaseLock", "writeLock", "unlockRelease"}

\* Nobody but p loses a write lock.
OthersKeep(p) ==
    \A c \in Carts, q \in Procs \ {p} : writeLock[c] = q => writeLock'[c] = q

LockStep(p) ==
    \/ LockCart(p) \/ LockRelease(p) \/ LockForRelease(p) \/ Unlock(p) \/ UnlockRelease(p)
    \/ LoseLock(p) \/ Crash(p)

\* Taking a free lock, or leaving one that is one's own, takes no other's.
LEMMA LockWrites ==
    ASSUME LocksOK, NEW p \in Procs, proc[p].cart \in Carts
    PROVE  /\ Free(writeLock, p) /\ writeLock' = Acquired(writeLock, p) =>
                  OthersKeep(p) /\ writeLock'[proc[p].cart] = p
           /\ Free(writeLock, p) /\ writeLock' = [writeLock EXCEPT ![proc[p].cart] = Gone] => OthersKeep(p)
           /\ writeLock' = GivenBack(writeLock, p) => OthersKeep(p)
           /\ writeLock' = LeftBehind(writeLock, p) => OthersKeep(p)
           /\ writeLock' = writeLock => OthersKeep(p)
  BY CartAssumption DEF LocksOK, Free, Acquired, GivenBack, LeftBehind, OthersKeep

\* Every way a lock is written leaves the locks well-formed.
LEMMA LocksTyped ==
    ASSUME NEW lock \in [Carts -> Procs \cup {Nobody, Gone}], NEW p \in Procs, NEW c
    PROVE  /\ [lock EXCEPT ![c] = Gone] \in [Carts -> Procs \cup {Nobody, Gone}]
           /\ [lock EXCEPT ![c] = Nobody] \in [Carts -> Procs \cup {Nobody, Gone}]
           /\ Acquired(lock, p) \in [Carts -> Procs \cup {Nobody, Gone}]
           /\ GivenBack(lock, p) \in [Carts -> Procs \cup {Nobody, Gone}]
           /\ LeftBehind(lock, p) \in [Carts -> Procs \cup {Nobody, Gone}]
  BY DEF Acquired, GivenBack, LeftBehind

\* A step on the locks takes no lock of another handler, and one that starts to
\* work does so with the write lock of its cart.
LEMMA LockAdvances ==
    ASSUME TypeOK, NEW p \in Procs, LockStep(p)
    PROVE  /\ issued' = issued /\ OthersKeep(p) /\ LocksOK'
           /\ \E j : Advances(p, j) /\ (Busy(j) => j.pc # "forget" /\ writeLock'[j.cart] = p)
  <1> DEFINE w == proc[p]
  <1>0. JobsOK /\ LocksOK /\ JobOK(w) /\ w \in Job
    BY DEF TypeOK, JobsOK, LocksOK
  <1>1. ASSUME proc' = [proc EXCEPT ![p] = Idle], w.pc # "idle"
        PROVE  \E j : Advances(p, j) /\ (Busy(j) => j.pc # "forget" /\ writeLock'[j.cart] = p)
    <2>1. Advances(p, Idle) /\ ~Busy(Idle)
      BY <1>0, <1>1, EndAdvances DEF Sets, Idle, Busy
    <2> QED BY <2>1
  <1>2. ASSUME NEW x \in {"plan", "read", "take", "writeLock", "unlockRelease"}, Go(p, x),
               x = "plan" => w.pc = "lock" /\ w.op = "set",
               x = "read" => w.pc = "lock" /\ w.op = "checkout",
               x = "take" => w.pc = "writeLock",
               x = "writeLock" => w.pc = "releaseLock",
               x = "unlockRelease" => w.pc # "idle" /\ w.op \in Causes,
               x \in {"plan", "read", "take"} => writeLock'[w.cart] = p
        PROVE  \E j : Advances(p, j) /\ (Busy(j) => j.pc # "forget" /\ writeLock'[j.cart] = p)
    <2> DEFINE k == [w EXCEPT !.pc = x]
    <2>1. x \in PCs /\ w.pc # "idle"
      BY <1>2 DEF PCs
    <2>2. x \in {"take", "writeLock", "unlockRelease"} => w.op \in Causes
      BY <1>0, <1>2 DEF JobOK
    <2>3. x # "plan" => w.lines \in Counts
      <3>1. w.op \in Causes => w.pc \notin {"lock", "plan"}
        BY <1>0 DEF JobOK, Causes
      <3> QED BY <1>0, <1>2, <3>1 DEF JobOK
    <2>4. w.pc \in {"unlock", "unlockRelease"} => x = "unlockRelease"
      BY <1>2
    <2>5. k.pc = x /\ k.cart = w.cart
      BY <1>0 DEF Job
    <2>6. JobOK(k)
      <3> HIDE DEF w
      <3> QED BY <1>0, <1>2, <2>1, <2>2, <2>3, <2>4, GoOK
    <2>7. Advances(p, k)
      BY <1>0, <1>2, <2>1, <2>6, GoAdvances
    <2>8. Busy(k) => k.pc # "forget" /\ writeLock'[k.cart] = p
      <3> HIDE DEF w, k
      <3> QED BY <1>2, <2>5 DEF Busy
    <2> QED BY <2>7, <2>8
  <1>3. ASSUME w.pc # "idle" PROVE w.cart \in Carts
    BY <1>0, <1>3 DEF JobOK
  <1>4. CASE LockCart(p)
    <2>1. w.pc = "lock" /\ w.op \in {"set", "checkout"} /\ issued' = issued /\ releaseLock' = releaseLock
      BY <1>0, <1>4 DEF LockCart, At, JobOK, redis
    <2>2. CASE /\ Free(writeLock, p) /\ writeLock' = Acquired(writeLock, p)
               /\ Go(p, IF w.op = "set" THEN "plan" ELSE "read")
      <3>1. OthersKeep(p) /\ writeLock'[w.cart] = p /\ LocksOK'
        BY <1>0, <1>3, <2>1, <2>2, LockWrites, LocksTyped DEF LocksOK
      <3> QED BY <1>2, <2>1, <2>2, <3>1
    <2>3. CASE proc' = [proc EXCEPT ![p] = Idle] /\ UNCHANGED writeLock
      <3>1. OthersKeep(p) /\ LocksOK'
        BY <1>0, <2>1, <2>3 DEF OthersKeep, LocksOK
      <3> QED BY <1>1, <2>1, <2>3, <3>1
    <2> QED BY <1>4, <2>2, <2>3 DEF LockCart
  <1>5. CASE LockRelease(p)
    <2>1. /\ w.pc = "releaseLock" /\ issued' = issued /\ writeLock' = writeLock
          /\ releaseLock' \in {releaseLock, Acquired(releaseLock, p)}
          /\ Go(p, "writeLock") \/ proc' = [proc EXCEPT ![p] = Idle]
      BY <1>5 DEF LockRelease, At, redis
    <2>2. OthersKeep(p) /\ LocksOK'
      BY <1>0, <2>1, LocksTyped DEF OthersKeep, LocksOK
    <2> QED BY <1>1, <1>2, <2>1, <2>2
  <1>6. CASE LockForRelease(p)
    <2>1. w.pc = "writeLock" /\ w.op \in Causes /\ issued' = issued /\ releaseLock' = releaseLock
      BY <1>0, <1>6 DEF LockForRelease, At, JobOK, redis
    <2>2. CASE Free(writeLock, p) /\ writeLock' = Acquired(writeLock, p) /\ Go(p, "take")
      <3>1. OthersKeep(p) /\ writeLock'[w.cart] = p /\ LocksOK'
        BY <1>0, <1>3, <2>1, <2>2, LockWrites, LocksTyped DEF LocksOK
      <3> QED BY <1>2, <2>1, <2>2, <3>1
    <2>3. CASE Go(p, "unlockRelease") /\ UNCHANGED writeLock
      <3>1. OthersKeep(p) /\ LocksOK'
        BY <1>0, <2>1, <2>3 DEF OthersKeep, LocksOK
      <3> QED BY <1>2, <2>1, <2>3, <3>1
    <2> QED BY <1>6, <2>2, <2>3 DEF LockForRelease
  <1>7. CASE Unlock(p)
    <2>1. /\ w.pc = "unlock" /\ issued' = issued /\ releaseLock' = releaseLock
          /\ writeLock' \in {GivenBack(writeLock, p), LeftBehind(writeLock, p)}
          /\ \/ w.op \in Causes /\ Go(p, "unlockRelease")
             \/ proc' = [proc EXCEPT ![p] = Idle]
      BY <1>7 DEF Unlock, At, redis
    <2>2. OthersKeep(p) /\ LocksOK'
      BY <1>0, <1>3, <2>1, LockWrites, LocksTyped DEF LocksOK
    <2> QED BY <1>1, <1>2, <2>1, <2>2
  <1>8. CASE UnlockRelease(p)
    <2>1. /\ w.pc = "unlockRelease" /\ issued' = issued /\ writeLock' = writeLock
          /\ releaseLock' \in {GivenBack(releaseLock, p), LeftBehind(releaseLock, p)}
          /\ proc' = [proc EXCEPT ![p] = Idle]
      BY <1>8 DEF UnlockRelease, At, redis
    <2>2. OthersKeep(p) /\ LocksOK'
      BY <1>0, <2>1, LocksTyped DEF OthersKeep, LocksOK
    <2> QED BY <1>1, <2>1, <2>2
  <1>9. CASE LoseLock(p)
    <2>1. issued' = issued /\ w.pc \in {"lock", "releaseLock", "writeLock"}
      BY <1>9 DEF LoseLock, At, redis
    <2>2. \/ /\ Free(writeLock, p) /\ writeLock' = [writeLock EXCEPT ![w.cart] = Gone]
             /\ releaseLock' = releaseLock
          \/ /\ writeLock' = writeLock
             /\ releaseLock' = [releaseLock EXCEPT ![w.cart] = Gone]
      BY <1>9 DEF LoseLock
    <2>3. OthersKeep(p) /\ LocksOK'
      BY <1>0, <1>3, <2>1, <2>2, LockWrites, LocksTyped DEF LocksOK
    <2>4. \/ proc' = [proc EXCEPT ![p] = Idle]
          \/ w.pc = "writeLock" /\ Go(p, "unlockRelease")
      BY <1>9 DEF LoseLock, At
    <2>5. w.pc = "writeLock" => w.op \in Causes
      BY <1>0 DEF JobOK
    <2> QED BY <1>1, <1>2, <2>1, <2>3, <2>4, <2>5
  <1>10. CASE Crash(p)
    <2>1. /\ w.pc # "idle" /\ issued' = issued /\ proc' = [proc EXCEPT ![p] = Idle]
          /\ writeLock' = LeftBehind(writeLock, p) /\ releaseLock' = LeftBehind(releaseLock, p)
      BY <1>10 DEF Crash, At
    <2>2. OthersKeep(p) /\ LocksOK'
      BY <1>0, <1>3, <2>1, LockWrites, LocksTyped DEF LocksOK
    <2> QED BY <1>1, <2>1, <2>2
  <1> QED BY <1>4, <1>5, <1>6, <1>7, <1>8, <1>9, <1>10 DEF LockStep

-----------------------------------------------------------------------------
(* Redis *)

\* What a step under the write lock does to Redis.
RedisEffect(p) ==
    LET c == proc[p].cart IN
    \/ UNCHANGED redis
    \/ Touched(c) /\ UNCHANGED <<issued, session, items, notices, batch>>
    \/ At(p, "commit") /\ Committed(p)
    \/ Discarded(c) \/ Retired(c)
    \/ At(p, "forget") /\ Unscore(c) /\ UNCHANGED <<issued, session, items, notices, batch>>
    \/ /\ due' = due \cup {c} /\ early' = early \cup {c}
       /\ UNCHANGED <<issued, session, items, notices, batch>>

LEMMA WorkOnRedis ==
    ASSUME NEW p \in Procs, WorkStep(p)
    PROVE  RedisEffect(p)
  <1>1. CASE SetStep(p)
    BY <1>1 DEF SetStep, RedisEffect, Plan, ReserveLines, ReleaseLines, Commit, UndoReserve, UndoRelease,
                redis, index
  <1>2. CASE CheckoutStep(p)
    BY <1>2 DEF CheckoutStep, RedisEffect, ReadLines, TransferOut, TransferIn, Restore, Discard
  <1>3. CASE ReleaseStep(p)
    BY <1>3 DEF ReleaseStep, RedisEffect, Take, Forget, GiveBack, Retire, Reschedule
  <1>4. CASE RedisFails(p)
    BY <1>4 DEF RedisFails, RedisEffect
  <1> QED BY <1>1, <1>2, <1>3, <1>4 DEF WorkStep

\* Redis stays well-formed under such a step, which touches no cart but its own.
LEMMA EffectTyped ==
    ASSUME TypeOK, NEW p \in Procs, RedisEffect(p), proc[p].pc # "idle"
    PROVE  /\ RedisOK' /\ issued' = issued
           /\ \A c \in Carts \ {proc[p].cart} : items'[c] = items[c] /\ (c \in due <=> c \in due')
           /\ LET c == proc[p].cart IN
              /\ Listed(items[c]) # {} => c \in due
              /\ At(p, "forget") => Listed(items[c]) = {}
              => (Listed(items'[c]) # {} => c \in due')
  <1> DEFINE w == proc[p]
             c == w.cart
             Goal == /\ RedisOK' /\ issued' = issued
                     /\ \A b \in Carts \ {c} : items'[b] = items[b] /\ (b \in due <=> b \in due')
                     /\ (/\ Listed(items[c]) # {} => c \in due
                         /\ At(p, "forget") => Listed(items[c]) = {})
                        => (Listed(items'[c]) # {} => c \in due')
  <1>1. RedisOK /\ w \in Job /\ JobOK(w) /\ c \in issued /\ c \in Carts
    BY DEF TypeOK, JobOK, RedisOK
  <1> SUFFICES Goal
    BY DEF c, w
  <1> HIDE DEF w, c
  <1>2. CASE UNCHANGED redis
    BY <1>1, <1>2 DEF redis, index, RedisOK, Listed
  <1>3. CASE Touched(c) /\ UNCHANGED <<issued, session, items, notices, batch>>
    BY <1>1, <1>3 DEF Touched, Score, index, RedisOK, Listed
  <1>4. CASE At(p, "commit") /\ Committed(p)
    <2>1. PICK written : /\ written \in Counts
                         /\ items' = [items EXCEPT ![c] = written]
                         /\ IF Listed(written) # {}
                            THEN session' = session \cup {c} /\ Score(c)
                            ELSE session' = session \ {c} /\ Unscore(c)
                         /\ UNCHANGED <<issued, notices, batch>>
      <3> DEFINE changed == Listed(w.reserve) \cup Listed(w.release)
                 written == [x \in Products |-> IF x \in changed THEN w.lines[x] ELSE items[c][x]]
      <3>1. w.lines \in Counts /\ items[c] \in Counts
        BY <1>1, <1>4 DEF JobOK, RedisOK, At, w
      <3>2. written \in Counts
        <4> HIDE DEF changed
        <4> QED BY <3>1 DEF Counts
      <3> QED BY <1>4, <3>2 DEF Committed, w, c
    <2> QED BY <1>1, <1>4, <2>1 DEF Score, Unscore, RedisOK, At
  <1>5. CASE Discarded(c) \/ Retired(c)
    <2>1. Zero \in Counts /\ Listed(Zero) = {}
      BY DEF Counts, Zero, Listed
    <2> QED BY <1>1, <1>5, <2>1 DEF Discarded, Retired, Unscore, RedisOK
  <1>6. CASE At(p, "forget") /\ Unscore(c) /\ UNCHANGED <<issued, session, items, notices, batch>>
    BY <1>1, <1>6 DEF Unscore, RedisOK, Listed
  <1>7. CASE /\ due' = due \cup {c} /\ early' = early \cup {c}
             /\ UNCHANGED <<issued, session, items, notices, batch>>
    BY <1>1, <1>7 DEF RedisOK, Listed
  <1> QED BY <1>2, <1>3, <1>4, <1>5, <1>6, <1>7 DEF RedisEffect, c, w

-----------------------------------------------------------------------------
(* Inventory *)

\* What a step of a handler does to inventory: one call, of whole lines, that is
\* applied at most once, or none.
StockEffect ==
    \/ UNCHANGED stock
    \/ \E ref \in Refs, lines \in Counts : Reserve(ref, lines) \/ Release(ref, lines) \/ Enqueue(ref, lines)

LEMMA WorkOnStock ==
    ASSUME TypeOK, NEW p \in Procs, WorkStep(p)
    PROVE  StockEffect /\ logged' \subseteq Carts
  <1> DEFINE w == proc[p]
  <1>1. JobOK(w) /\ w.reserve \in Counts /\ w.release \in Counts
    BY DEF TypeOK, JobOK, Job
  <1>2. ASSUME NEW ref \in Refs, NEW lines \in Counts, NEW outcome,
               \/ HttpReserve(ref, lines, outcome)
               \/ HttpRelease(ref, lines, outcome)
               \/ DispatchRelease(ref, lines, outcome)
        PROVE  StockEffect
    BY <1>2 DEF StockEffect, HttpReserve, HttpRelease, DispatchRelease, AmqpRelease
  <1>3. /\ w.pc \in {"reserve", "release", "commit", "undoReserve", "undoRelease"} =>
               w.ref \in Refs /\ w.ref \in Carts /\ w.lines \in Counts
        /\ w.pc \in {"transferOut", "transferIn", "restore", "giveBack"} =>
               w.ref \in Refs /\ w.cart \in Refs /\ w.cart \in Carts /\ w.lines \in Counts
    BY <1>1 DEF JobOK, Refs
  <1>4. logged \subseteq Carts
    BY DEF TypeOK
  <1>5. CASE SetStep(p)
    <2>1. CASE Plan(p) \/ Commit(p)
      BY <1>4, <2>1 DEF Plan, Commit, StockEffect
    <2>2. CASE ReserveLines(p)
      BY <1>1, <1>2, <1>3, <1>4, <2>2 DEF ReserveLines, At
    <2>3. CASE ReleaseLines(p)
      BY <1>1, <1>2, <1>3, <1>4, <2>3 DEF ReleaseLines, At
    <2>4. CASE UndoReserve(p)
      BY <1>1, <1>2, <1>3, <1>4, <2>4 DEF UndoReserve, At
    <2>5. CASE UndoRelease(p)
      BY <1>1, <1>2, <1>3, <1>4, <2>5 DEF UndoRelease, At
    <2> QED BY <1>5, <2>1, <2>2, <2>3, <2>4, <2>5 DEF SetStep
  <1>6. CASE CheckoutStep(p)
    <2>1. CASE ReadLines(p) \/ Discard(p)
      BY <1>4, <2>1 DEF ReadLines, Discard, StockEffect
    <2>2. CASE TransferOut(p)
      BY <1>2, <1>3, <1>4, <2>2 DEF TransferOut, At
    <2>3. CASE TransferIn(p)
      BY <1>2, <1>3, <1>4, <2>3 DEF TransferIn, At
    <2>4. CASE Restore(p)
      BY <1>2, <1>3, <1>4, <2>4 DEF Restore, At
    <2> QED BY <1>6, <2>1, <2>2, <2>3, <2>4 DEF CheckoutStep
  <1>7. CASE ReleaseStep(p)
    <2>1. CASE GiveBack(p)
      BY <1>2, <1>3, <1>4, <2>1 DEF GiveBack, At
    <2>2. CASE Take(p) \/ Forget(p) \/ Retire(p) \/ Reschedule(p)
      BY <1>4, <2>2 DEF Take, Forget, Retire, Reschedule, StockEffect
    <2> QED BY <1>7, <2>1, <2>2 DEF ReleaseStep
  <1>8. CASE RedisFails(p)
    BY <1>4, <1>8 DEF RedisFails, StockEffect
  <1> QED BY <1>5, <1>6, <1>7, <1>8 DEF WorkStep

\* A call, or a message that the consumer takes, leaves every counter between
\* nothing and what is on hand.
LEMMA StockTyped ==
    ASSUME StockOK, StockEffect \/ (\E k \in 1 .. Len(queue) : Consume(k))
    PROVE  StockOK'
  <1>1. CASE UNCHANGED stock
    BY <1>1 DEF stock, StockOK
  <1>2. ASSUME NEW ref \in Refs, NEW lines \in Counts, Reserve(ref, lines)
        PROVE  StockOK'
    BY <1>2, CartAssumption DEF StockOK, Reserve, CanReserve, Plus, Counts
  <1>3. ASSUME NEW ref \in Refs, NEW lines \in Counts, Release(ref, lines)
        PROVE  StockOK'
    BY <1>3, CartAssumption DEF StockOK, Release, CanRelease, Minus, Counts
  <1>4. ASSUME NEW ref \in Refs, NEW lines \in Counts, Enqueue(ref, lines)
        PROVE  StockOK'
    <2>1. [ref |-> ref, lines |-> lines] \in [ref : Refs, lines : Counts]
      OBVIOUS
    <2> QED BY <1>4, <2>1 DEF StockOK, Enqueue
  <1>5. ASSUME NEW k \in 1 .. Len(queue), Consume(k)
        PROVE  StockOK'
    <2> DEFINE m == queue[k]
               M == [ref : Refs, lines : Counts]
    <2>1. m \in M /\ queue \in Seq(M) /\ Len(queue) \in Nat /\ Len(queue) >= 1
      <3>1. queue \in Seq(M)
        BY DEF StockOK
      <3> HIDE DEF M
      <3> QED BY <1>5, <3>1
    <2>2. queue' \in Seq(M)
      <3> HIDE DEF M
      <3>1. \A j \in 1 .. Len(queue) - 1 : (IF j < k THEN queue[j] ELSE queue[j + 1]) \in M
        BY <2>1
      <3>2. queue' = [j \in 1 .. Len(queue) - 1 |-> IF j < k THEN queue[j] ELSE queue[j + 1]]
        BY <1>5 DEF Consume
      <3>3. queue' \in [1 .. Len(queue) - 1 -> M] /\ Len(queue) - 1 \in Nat
        BY <2>1, <3>1, <3>2
      <3> QED BY <3>3
    <2>3. m.ref \in Refs /\ m.lines \in Counts
      BY <2>1
    <2> HIDE DEF m, M
    <2>4. transport' = transport
      BY <1>5 DEF Consume
    <2>5. CASE /\ CanRelease(m.lines) /\ reserved' = Minus(reserved, m.lines)
               /\ hold' = [hold EXCEPT ![m.ref] = Minus(@, m.lines)] /\ UNCHANGED deadLetters
      <3>1. reserved' \in [Products -> 0 .. Units]
        BY <2>3, <2>5, CartAssumption DEF StockOK, CanRelease, Minus, Counts
      <3>2. Minus(hold[m.ref], m.lines) \in [Products -> Int]
        BY <2>3 DEF StockOK, Minus, Counts
      <3>3. hold' \in [Refs -> [Products -> Int]]
        BY <2>3, <2>5, <3>2 DEF StockOK
      <3> QED BY <2>2, <2>4, <2>5, <3>1, <3>3 DEF StockOK, M
    <2>6. CASE deadLetters' = deadLetters \cup {m.ref} /\ UNCHANGED <<reserved, hold>>
      BY <2>2, <2>3, <2>4, <2>6 DEF StockOK, M
    <2> QED BY <1>5, <2>5, <2>6 DEF Consume, m
  <1> QED BY <1>1, <1>2, <1>3, <1>4, <1>5 DEF StockEffect

-----------------------------------------------------------------------------
(* Every step, and the type invariant *)

\* A request, an expiry event or a sweep that starts a handler on c.
Arrives(p, c) ==
    \/ \E requested \in RequestedLines : SetItems(p, c, requested)
    \/ \E o \in Orders : Checkout(p, c, o)
    \/ Abandon(p, c)
    \/ OnExpiry(p, c)
    \/ p = Sweeper /\ c \notin session /\ Sweep(c)

\* Time that passes, and what the index is read for.
TimePasses(c) == View(c) \/ DropNotice(c) \/ (c \in session /\ Sweep(c)) \/ Expire(c) \/ ItemsLapse(c)
LockLapses(c) == WriteLockLapse(c) \/ ReleaseLockLapse(c)
SweepReads == (\E carts \in SUBSET Carts : DueBefore(carts)) \/ SweepFails

LEMMA Kinds ==
    ASSUME Next
    PROVE  \/ \E p \in Procs : WorkStep(p) \/ LockStep(p) \/ (\E c \in Carts : Arrives(p, c))
           \/ \E c \in Carts : TimePasses(c) \/ LockLapses(c)
           \/ SweepReads
           \/ \E k \in 1 .. Len(queue) : Consume(k)
  <1>1. CASE \E p \in Procs : Step(p) \/ Crash(p) \/ LoseLock(p) \/ RedisFails(p)
    BY <1>1 DEF Step, WorkStep, LockStep, SetStep, CheckoutStep, ReleaseStep
  <1>2. CASE \E p \in Procs, c \in Carts :
                 \/ \E requested \in RequestedLines : SetItems(p, c, requested)
                 \/ \E o \in Orders : Checkout(p, c, o)
                 \/ Abandon(p, c)
                 \/ OnExpiry(p, c)
    BY <1>2 DEF Arrives
  <1>3. ASSUME NEW c \in Carts, Sweep(c)
        PROVE  Arrives(Sweeper, c) \/ TimePasses(c)
    BY <1>3 DEF Arrives, TimePasses
  <1> QED BY <1>1, <1>2, <1>3, CartAssumption DEF Next, TimePasses, LockLapses, SweepReads

\* The handlers of an update and of a checkout, as they start.
SetOf(c, requested) ==
    [Idle EXCEPT !.op = "set", !.pc = "lock", !.cart = c, !.ref = c, !.lines = requested]
CheckoutOf(c, o) == [Idle EXCEPT !.op = "checkout", !.pc = "lock", !.cart = c, !.ref = o]

BegunOK(j, c) == JobOK(j) /\ j.pc \in {"lock", "releaseLock"} /\ j.cart = c

\* A handler that starts on c is well-formed at the lock it begins with.
LEMMA Begins ==
    ASSUME NEW c \in Carts
    PROVE  /\ \A requested \in RequestedLines : BegunOK(SetOf(c, requested), c)
           /\ \A o \in Orders : BegunOK(CheckoutOf(c, o), c)
           /\ \A cause \in Causes : BegunOK(ReleaseOf(c, cause), c)
  <1>0. c \in Refs /\ Zero \in Counts
    BY CountsClosed DEF Refs, Counts, Zero
  <1>1. ASSUME NEW requested \in RequestedLines
        PROVE  BegunOK(SetOf(c, requested), c)
    <2> DEFINE j == SetOf(c, requested)
    <2>1. j \in Job /\ j.op = "set" /\ j.pc = "lock" /\ j.cart = c /\ j.ref = c
      BY <1>0 DEF SetOf, Idle, Job, PCs
    <2> HIDE DEF j
    <2>2. JobOK(j)
      BY <1>0, <2>1 DEF JobOK
    <2> QED BY <2>1, <2>2 DEF BegunOK, j
  <1>2. ASSUME NEW o \in Orders
        PROVE  BegunOK(CheckoutOf(c, o), c)
    <2> DEFINE j == CheckoutOf(c, o)
    <2>1. /\ j \in Job /\ j.op = "checkout" /\ j.pc = "lock" /\ j.cart = c /\ j.ref \in Refs
          /\ j.ref \in Orders /\ j.lines \in Counts
      BY <1>0 DEF CheckoutOf, Idle, Job, PCs, Refs
    <2> HIDE DEF j
    <2>2. JobOK(j)
      BY <1>0, <2>1 DEF JobOK
    <2> QED BY <2>1, <2>2 DEF BegunOK, j
  <1>3. ASSUME NEW cause \in Causes
        PROVE  BegunOK(ReleaseOf(c, cause), c)
    <2> DEFINE j == ReleaseOf(c, cause)
    <2>1. /\ j \in Job /\ j.op = cause /\ j.pc = "releaseLock" /\ j.cart = c /\ j.ref = c
          /\ j.lines \in Counts
      BY <1>0 DEF ReleaseOf, Idle, Job, PCs
    <2> HIDE DEF j
    <2>2. JobOK(j)
      BY <1>0, <2>1 DEF JobOK, Causes
    <2> QED BY <2>1, <2>2 DEF BegunOK, j
  <1> QED BY <1>1, <1>2, <1>3

\* The cart of a handler that starts has been handed out, and the handler starts at
\* one of its two locks.
LEMMA ArrivesOK ==
    ASSUME TypeOK, NEW p \in Procs, NEW c \in Carts, Arrives(p, c)
    PROVE  /\ UNCHANGED <<locks, stock, logged>> /\ proc[p].pc = "idle"
           /\ RedisOK' /\ issued \subseteq issued' /\ items' = items
           /\ \A b \in Carts : (Listed(items[b]) # {} /\ b \in due) => b \in due'
           /\ \E j : Sets(p, j) /\ JobOK(j) /\ j.pc \in {"lock", "releaseLock"} /\ j.cart \in issued'
  <1> DEFINE R == /\ RedisOK' /\ issued \subseteq issued' /\ c \in issued' /\ items' = items
                  /\ \A b \in Carts : (Listed(items[b]) # {} /\ b \in due) => b \in due'
  <1>0. RedisOK
    BY DEF TypeOK
  <1>1. ASSUME NEW j, Start(p, j)
        PROVE  UNCHANGED <<locks, stock, logged>> /\ proc[p].pc = "idle" /\ Sets(p, j)
    BY <1>1 DEF Start, At, Sets
  <1>2. ASSUME Touched(c), UNCHANGED <<issued, session, items, notices, batch>>
        PROVE  R
    BY <1>0, <1>2 DEF RedisOK, Touched, Score, index
  <1>3. ASSUME NEW j, Start(p, j), BegunOK(j, c), R
        PROVE  \E k : Sets(p, k) /\ JobOK(k) /\ k.pc \in {"lock", "releaseLock"} /\ k.cart \in issued'
    BY <1>1, <1>3 DEF BegunOK
  <1>4. ASSUME NEW cause \in Causes, Start(p, ReleaseOf(c, cause)), R
        PROVE  \E j : Sets(p, j) /\ JobOK(j) /\ j.pc \in {"lock", "releaseLock"} /\ j.cart \in issued'
    BY <1>3, <1>4, Begins
  <1>5. CASE \E requested \in RequestedLines : SetItems(p, c, requested)
    <2>1. PICK requested \in RequestedLines : SetItems(p, c, requested)
      BY <1>5
    <2>2. R
      BY <1>0, <1>2, <2>1 DEF SetItems, RedisOK, index
    <2>3. Start(p, SetOf(c, requested))
      BY <2>1 DEF SetItems, SetOf
    <2> QED BY <1>1, <1>3, <2>2, <2>3, Begins
  <1>6. CASE \E o \in Orders : Checkout(p, c, o)
    <2>1. PICK o \in Orders : Checkout(p, c, o)
      BY <1>6
    <2>2. R
      BY <1>2, <2>1 DEF Checkout
    <2>3. Start(p, CheckoutOf(c, o))
      BY <2>1 DEF Checkout, CheckoutOf
    <2> QED BY <1>1, <1>3, <2>2, <2>3, Begins
  <1>7. CASE Abandon(p, c)
    <2>1. R /\ Start(p, ReleaseOf(c, "abandoned")) /\ "abandoned" \in Causes
      BY <1>0, <1>7 DEF Abandon, RedisOK, redis, index, Causes
    <2> QED BY <1>1, <1>4, <2>1
  <1>8. CASE OnExpiry(p, c)
    <2>1. R /\ Start(p, ReleaseOf(c, "expired")) /\ "expired" \in Causes
      <3>1. notices[c] \in 1 .. Replicas /\ c \in issued
        BY <1>0, <1>8, CartAssumption DEF OnExpiry, RedisOK
      <3> QED BY <1>0, <1>8, <3>1, CartAssumption DEF OnExpiry, RedisOK, index, Causes
    <2> QED BY <1>1, <1>4, <2>1
  <1>9. CASE p = Sweeper /\ c \notin session /\ Sweep(c)
    <2>1. R /\ Start(p, ReleaseOf(c, "swept")) /\ "swept" \in Causes
      BY <1>0, <1>9 DEF Sweep, RedisOK, index, Causes
    <2> QED BY <1>1, <1>4, <2>1
  <1> QED BY <1>5, <1>6, <1>7, <1>8, <1>9 DEF Arrives

\* Time takes a cart's lines only when it takes them all, and never takes it off
\* the index.
LEMMA TimeOK ==
    ASSUME TypeOK, (\E c \in Carts : TimePasses(c)) \/ SweepReads
    PROVE  /\ UNCHANGED <<locks, stock, proc, logged>>
           /\ RedisOK' /\ issued' = issued
           /\ \A c \in Carts : items'[c] \in {items[c], Zero}
           /\ due \subseteq due'
  <1>0. RedisOK /\ Zero \in Counts
    BY DEF TypeOK, Counts, Zero
  <1>1. CASE \E c \in Carts : View(c) \/ (c \in session /\ Sweep(c))
    BY <1>0, <1>1 DEF View, Sweep, Touched, Score, index, RedisOK
  <1>2. CASE \E c \in Carts : DropNotice(c) \/ Expire(c)
    BY <1>0, <1>2, CartAssumption DEF DropNotice, Expire, index, RedisOK
  <1>3. CASE \E c \in Carts : ItemsLapse(c)
    BY <1>0, <1>3 DEF ItemsLapse, index, RedisOK
  <1>4. CASE SweepReads
    BY <1>0, <1>4 DEF SweepReads, DueBefore, SweepFails, index, RedisOK
  <1> QED BY <1>1, <1>2, <1>3, <1>4 DEF TimePasses

\* A step on the locks leaves Redis' data and inventory alone.
LEMMA LockLeaves ==
    ASSUME TypeOK, NEW p \in Procs, LockStep(p)
    PROVE  UNCHANGED <<issued, session, items, index, notices, stock, logged>> /\ RedisOK'
  <1>1. UNCHANGED <<issued, session, items, index, notices, stock, logged>> /\ batch' \in {batch, {}}
    BY DEF LockStep, LockCart, LockRelease, LockForRelease, Unlock, UnlockRelease, LoseLock, Crash, redis
  <1> QED BY <1>1 DEF TypeOK, RedisOK, index

LEMMA TypeParts == TypeOK <=> RedisOK /\ StockOK /\ LocksOK /\ JobsOK /\ logged \subseteq Carts
  BY DEF TypeOK, LocksOK, JobsOK

LEMMA InitTyped == Init => TypeOK
  <1> SUFFICES ASSUME Init PROVE TypeOK
    OBVIOUS
  <1>1. Zero \in Counts /\ Zero \in [Products -> 0 .. Units] /\ Zero \in [Products -> Int]
    BY CartAssumption DEF Zero, Counts
  <1>2. RedisOK /\ LocksOK /\ logged \subseteq Carts
    BY <1>1, CartAssumption DEF Init, RedisOK, LocksOK
  <1>3. StockOK
    BY <1>1 DEF Init, StockOK
  <1>4. JobsOK
    BY EndsOK DEF Init, JobsOK, JobOK
  <1> QED BY <1>2, <1>3, <1>4, TypeParts

LEMMA TypeStep == TypeOK /\ [Next]_vars => TypeOK'
  <1> SUFFICES ASSUME TypeOK, [Next]_vars PROVE TypeOK'
    OBVIOUS
  <1>0. RedisOK /\ StockOK /\ LocksOK /\ JobsOK /\ logged \subseteq Carts
    BY TypeParts
  <1>1. ASSUME NEW p \in Procs, WorkStep(p)
        PROVE  TypeOK'
    <2>1. PICK j : Advances(p, j) /\ proc[p].pc # "idle" /\ UNCHANGED locks
      BY <1>1, WorkAdvances DEF Working
    <2>2. RedisOK' /\ issued' = issued
      BY <1>1, <2>1, WorkOnRedis, EffectTyped
    <2>3. StockOK' /\ logged' \subseteq Carts
      BY <1>0, <1>1, WorkOnStock, StockTyped
    <2>4. JobsOK'
      BY <1>0, <2>1, <2>2, JobsAfter DEF Advances, JobsOK
    <2>5. LocksOK'
      BY <1>0, <2>1 DEF LocksOK, locks
    <2> QED BY <2>2, <2>3, <2>4, <2>5 DEF TypeOK, LocksOK, JobsOK
  <1>2. ASSUME NEW p \in Procs, LockStep(p)
        PROVE  TypeOK'
    <2>1. PICK j : Advances(p, j)
      BY <1>2, LockAdvances
    <2>2. LocksOK' /\ issued' = issued
      BY <1>2, LockAdvances
    <2>3. RedisOK' /\ UNCHANGED <<stock, logged>>
      BY <1>2, LockLeaves
    <2>4. StockOK' /\ logged' \subseteq Carts
      BY <1>0, <2>3 DEF stock, StockOK
    <2>5. JobsOK'
      BY <1>0, <2>1, <2>2, JobsAfter DEF Advances, JobsOK
    <2> QED BY <2>2, <2>3, <2>4, <2>5 DEF TypeOK, LocksOK, JobsOK
  <1>3. ASSUME NEW p \in Procs, NEW c \in Carts, Arrives(p, c)
        PROVE  TypeOK'
    <2>1. /\ UNCHANGED <<locks, stock, logged>> /\ RedisOK' /\ issued \subseteq issued'
      BY <1>3, ArrivesOK
    <2>2. PICK j : Sets(p, j) /\ JobOK(j) /\ j.cart \in issued'
      BY <1>3, ArrivesOK
    <2>3. JobsOK'
      BY <1>0, <2>1, <2>2, JobsAfter
    <2> QED BY <1>0, <2>1, <2>3 DEF TypeOK, LocksOK, JobsOK, StockOK, locks, stock
  <1>4. CASE (\E c \in Carts : TimePasses(c)) \/ SweepReads
    BY <1>0, <1>4, TimeOK DEF TypeOK, LocksOK, JobsOK, StockOK, locks, stock
  <1>5. ASSUME NEW c \in Carts, LockLapses(c)
        PROVE  TypeOK'
    <2>1. UNCHANGED <<redis, stock, proc, logged>>
      BY <1>5 DEF LockLapses, WriteLockLapse, ReleaseLockLapse
    <2>2. LocksOK'
      BY <1>0, <1>5 DEF LocksOK, LockLapses, WriteLockLapse, ReleaseLockLapse
    <2> QED BY <1>0, <2>1, <2>2 DEF TypeOK, RedisOK, LocksOK, JobsOK, StockOK, redis, index, stock
  <1>6. ASSUME NEW k \in 1 .. Len(queue), Consume(k)
        PROVE  TypeOK'
    <2>1. UNCHANGED <<redis, locks, proc, logged>>
      BY <1>6 DEF Consume
    <2>2. StockOK'
      BY <1>0, <1>6, StockTyped
    <2> QED BY <1>0, <2>1, <2>2 DEF TypeOK, RedisOK, LocksOK, JobsOK, redis, index, locks
  <1>7. CASE UNCHANGED vars
    BY <1>0, <1>7 DEF vars, redis, index, locks, stock, TypeOK, RedisOK, LocksOK, JobsOK, StockOK
  <1> QED BY <1>1, <1>2, <1>3, <1>4, <1>5, <1>6, <1>7, Kinds

\* Every variable has its type, whatever fails: what is reserved of a product is never
\* more than there is of it, and a handler is only ever where its kind of work can
\* take it, on a cart that was handed out.
THEOREM TypeCorrect == Spec => []TypeOK
  BY InitTyped, TypeStep, PTL DEF Spec

-----------------------------------------------------------------------------
(* One writer per cart, and the sweeper's index *)

\* Whoever has got past the write lock of a cart still holds it.
LockHeld == \A p \in Procs : Busy(proc[p]) => writeLock[proc[p].cart] = p

\* A release that is about to take its cart off the index has found nothing in it.
ForgetsEmpty == \A p \in Procs : At(p, "forget") => Listed(items[proc[p].cart]) = {}

\* The inductive invariant, where no lock lapses under a holder still at work.
Guarded == TypeOK /\ LockHeld /\ ForgetsEmpty /\ SweeperFindsEveryCart

\* What is true of the handler p alone, and of one of another cart.
LEMMA BusyWhereItWorks ==
    /\ \A p : Working(p) \/ At(p, "forget") => Busy(proc[p])
    /\ \A j : j.pc \in {"lock", "releaseLock"} => ~Busy(j) /\ j.pc # "forget"
  BY DEF Working, Busy, At

LEMMA GuardedWork ==
    ASSUME Guarded, NEW p \in Procs, WorkStep(p)
    PROVE  LockHeld' /\ ForgetsEmpty' /\ SweeperFindsEveryCart'
  <1>0. TypeOK /\ JobsOK
    BY DEF Guarded, TypeOK, JobsOK
  <1> DEFINE c == proc[p].cart
  <1>1. /\ Working(p) /\ writeLock' = writeLock /\ proc[p].pc # "idle"
        /\ writeLock[c] = p
    BY <1>0, WorkAdvances, BusyWhereItWorks DEF Guarded, LockHeld, locks, Working
  <1>2. PICK j : /\ Advances(p, j) /\ j.pc # "idle"
                 /\ j.pc = "forget" => UNCHANGED redis /\ Listed(items[j.cart]) = {}
    BY <1>0, WorkAdvances
  <1>3. /\ \A b \in Carts \ {c} : items'[b] = items[b] /\ (b \in due <=> b \in due')
        /\ (Listed(items[c]) # {} => c \in due) /\ (At(p, "forget") => Listed(items[c]) = {})
               => (Listed(items'[c]) # {} => c \in due')
    BY <1>0, <1>1, WorkOnRedis, EffectTyped
  <1>4. j.cart = c /\ proc'[p] = j /\ \A q \in Procs \ {p} : proc'[q] = proc[q]
    BY <1>0, <1>2 DEF Advances, Sets, JobsOK
  <1>5. \A q \in Procs : proc[q].pc # "idle" => proc[q].cart \in Carts
    BY <1>0 DEF JobsOK, JobOK
  <1>6. LockHeld'
    BY <1>1, <1>4 DEF Guarded, LockHeld
  <1>7. ForgetsEmpty'
    <2> SUFFICES ASSUME NEW q \in Procs, proc'[q].pc = "forget"
                 PROVE  Listed(items'[proc'[q].cart]) = {}
      BY DEF ForgetsEmpty, At
    <2>1. CASE q = p
      BY <1>2, <1>4, <2>1 DEF redis
    <2>2. CASE q # p
      <3>1. At(q, "forget") /\ proc'[q] = proc[q] /\ proc[q].cart \in Carts
        BY <1>4, <1>5, <2>2 DEF At
      <3>2. writeLock[proc[q].cart] = q /\ Listed(items[proc[q].cart]) = {}
        BY <3>1, BusyWhereItWorks DEF Guarded, LockHeld, ForgetsEmpty
      <3>3. proc[q].cart # c
        BY <1>1, <2>2, <3>2
      <3> QED BY <1>3, <3>1, <3>2, <3>3 DEF Listed
    <2> QED BY <2>1, <2>2
  <1>8. SweeperFindsEveryCart'
    <2>1. c \in Carts /\ (Listed(items'[c]) # {} => c \in due')
      BY <1>1, <1>3, <1>5 DEF Guarded, SweeperFindsEveryCart, ForgetsEmpty
    <2>2. \A b \in Carts \ {c} : Listed(items'[b]) # {} => b \in due'
      BY <1>3 DEF Guarded, SweeperFindsEveryCart, Listed
    <2> QED BY <2>1, <2>2 DEF SweeperFindsEveryCart
  <1> QED BY <1>6, <1>7, <1>8

LEMMA GuardedLocks ==
    ASSUME Guarded, NEW p \in Procs, LockStep(p)
    PROVE  LockHeld' /\ ForgetsEmpty' /\ SweeperFindsEveryCart'
  <1>0. TypeOK /\ JobsOK
    BY DEF Guarded, TypeOK, JobsOK
  <1>1. PICK j : Advances(p, j) /\ (Busy(j) => j.pc # "forget" /\ writeLock'[j.cart] = p)
    BY <1>0, LockAdvances
  <1>2. proc'[p] = j /\ \A q \in Procs \ {p} : proc'[q] = proc[q]
    BY <1>0, <1>1 DEF Advances, Sets, JobsOK
  <1>3. OthersKeep(p)
    BY <1>0, LockAdvances
  <1>4. \A q \in Procs : Busy(proc[q]) => proc[q].cart \in Carts
    BY <1>0 DEF JobsOK, JobOK, Busy
  <1>5. items' = items /\ due' = due
    BY <1>0, LockLeaves DEF index
  <1>6. LockHeld'
    BY <1>1, <1>2, <1>3, <1>4 DEF Guarded, LockHeld, OthersKeep
  <1>7. \A q \in Procs : proc'[q].pc = "forget" => At(q, "forget") /\ proc'[q] = proc[q]
    BY <1>1, <1>2 DEF At, Busy
  <1> QED BY <1>5, <1>6, <1>7 DEF Guarded, ForgetsEmpty, SweeperFindsEveryCart, Listed, At

LEMMA GuardedArrivals ==
    ASSUME Guarded, NEW p \in Procs, NEW c \in Carts, Arrives(p, c)
    PROVE  LockHeld' /\ ForgetsEmpty' /\ SweeperFindsEveryCart'
  <1>0. TypeOK /\ JobsOK
    BY DEF Guarded, TypeOK, JobsOK
  <1>1. PICK j : Sets(p, j) /\ j.pc \in {"lock", "releaseLock"}
    BY <1>0, ArrivesOK
  <1>2. /\ writeLock' = writeLock /\ items' = items
        /\ \A b \in Carts : (Listed(items[b]) # {} /\ b \in due) => b \in due'
    BY <1>0, ArrivesOK DEF locks
  <1>3. proc'[p] = j /\ \A q \in Procs \ {p} : proc'[q] = proc[q]
    BY <1>0, <1>1 DEF Sets, JobsOK
  <1>4. LockHeld'
    BY <1>1, <1>2, <1>3, BusyWhereItWorks DEF Guarded, LockHeld
  <1>5. \A q \in Procs : proc'[q].pc = "forget" => At(q, "forget") /\ proc'[q] = proc[q]
    BY <1>1, <1>3 DEF At
  <1>6. ForgetsEmpty'
    BY <1>2, <1>5 DEF Guarded, ForgetsEmpty, At, Listed
  <1>7. SweeperFindsEveryCart'
    BY <1>2 DEF Guarded, SweeperFindsEveryCart, Listed
  <1> QED BY <1>4, <1>6, <1>7

LEMMA GuardedStep ==
    ASSUME "lapse" \notin Faults, Guarded, [Next]_vars
    PROVE  Guarded'
  <1>0. TypeOK'
    BY TypeStep DEF Guarded
  <1> SUFFICES LockHeld' /\ ForgetsEmpty' /\ SweeperFindsEveryCart'
    BY <1>0 DEF Guarded
  <1>1. CASE \E p \in Procs : WorkStep(p) \/ LockStep(p) \/ (\E c \in Carts : Arrives(p, c))
    BY <1>1, GuardedWork, GuardedLocks, GuardedArrivals
  <1>2. CASE (\E c \in Carts : TimePasses(c)) \/ SweepReads
    <2>1. /\ writeLock' = writeLock /\ proc' = proc /\ due \subseteq due'
          /\ \A c \in Carts : items'[c] \in {items[c], Zero}
      BY <1>2, TimeOK DEF Guarded, locks
    <2>2. Listed(Zero) = {}
      BY DEF Listed, Zero
    <2>3. \A c \in Carts : Listed(items'[c]) \in {Listed(items[c]), {}}
      BY <2>1, <2>2 DEF Listed
    <2>4. \A q \in Procs : At(q, "forget") => proc[q].cart \in Carts
      BY DEF Guarded, TypeOK, JobOK, At
    <2>5. LockHeld' /\ SweeperFindsEveryCart'
      BY <2>1, <2>3 DEF Guarded, LockHeld, SweeperFindsEveryCart
    <2>6. ForgetsEmpty'
      BY <2>1, <2>3, <2>4 DEF Guarded, ForgetsEmpty, At
    <2> QED BY <2>5, <2>6
  <1>3. CASE \E c \in Carts : LockLapses(c)
    <2>1. PICK c \in Carts : LockLapses(c)
      BY <1>3
    <2>2. proc' = proc /\ items' = items /\ due' = due
      BY <2>1 DEF LockLapses, WriteLockLapse, ReleaseLockLapse, redis, index
    <2>3. \A b \in Carts, q \in Procs : writeLock[b] = q => writeLock'[b] = q
      BY <2>1, CartAssumption
      DEF Guarded, TypeOK, LockLapses, WriteLockLapse, ReleaseLockLapse, Lapses
    <2>4. \A q \in Procs : Busy(proc[q]) => proc[q].cart \in Carts
      BY DEF Guarded, TypeOK, JobOK, Busy
    <2> QED BY <2>2, <2>3, <2>4 DEF Guarded, LockHeld, ForgetsEmpty, SweeperFindsEveryCart, At, Listed
  <1>4. CASE (\E k \in 1 .. Len(queue) : Consume(k)) \/ UNCHANGED vars
    <2>1. writeLock' = writeLock /\ proc' = proc /\ items' = items /\ due' = due
      BY <1>4 DEF Consume, vars, locks, redis, index
    <2> QED BY <2>1 DEF Guarded, LockHeld, ForgetsEmpty, SweeperFindsEveryCart, At, Listed
  <1> QED BY <1>1, <1>2, <1>3, <1>4, Kinds

LEMMA InitGuarded == Init => Guarded
  <1> SUFFICES ASSUME Init PROVE Guarded
    OBVIOUS
  <1>1. \A p \in Procs : proc[p].pc = "idle"
    BY DEF Init, Idle
  <1>2. \A c \in Carts : Listed(items[c]) = {}
    BY DEF Init, Zero, Listed
  <1> QED BY <1>1, <1>2, InitTyped DEF Guarded, LockHeld, ForgetsEmpty, SweeperFindsEveryCart, Busy, At

\* Two handlers never work on one cart at once, however many replicas die and
\* whatever commands fail, so long as no holder outlives its lock's TTL (withLock).
THEOREM NeverTwoWriters == "lapse" \notin Faults => (Spec => []OneWriterPerCart)
  <1> SUFFICES ASSUME "lapse" \notin Faults PROVE Spec => []OneWriterPerCart
    OBVIOUS
  <1>1. Guarded => OneWriterPerCart
    BY BusyWhereItWorks DEF Guarded, LockHeld, OneWriterPerCart
  <1>2. Guarded /\ [Next]_vars => Guarded'
    BY GuardedStep
  <1> QED BY <1>1, <1>2, InitGuarded, PTL DEF Spec

\* Every cart that lists units is one that the sweep will come back for, on the same
\* condition: no script and no release takes a cart off the index while it has lines.
THEOREM NoCartForgotten == "lapse" \notin Faults => (Spec => []SweeperFindsEveryCart)
  <1> SUFFICES ASSUME "lapse" \notin Faults PROVE Spec => []SweeperFindsEveryCart
    OBVIOUS
  <1>1. Guarded => SweeperFindsEveryCart
    BY DEF Guarded
  <1>2. Guarded /\ [Next]_vars => Guarded'
    BY GuardedStep
  <1> QED BY <1>1, <1>2, InitGuarded, PTL DEF Spec

-----------------------------------------------------------------------------
(* What a cart lists and what inventory holds for it *)

\* The units under p's hold of its cart that the cart does not list at this point of
\* an update, a checkout or a release: negative when it lists units already given up.
Owes(j, x) ==
    IF j.pc \in {"release", "undoReserve"} THEN j.reserve[x]
    ELSE IF j.pc = "commit" THEN j.reserve[x] - j.release[x]
    ELSE IF j.pc \in {"transferIn", "restore", "discard", "retire"} THEN -j.lines[x]
    ELSE 0

\* The units of x that r holds once the messages that wait have arrived.
Net(r, x) == hold[r][x] - Pending(r, x)

\* What c lists is what it holds, but for what the handler at work on it (j) has in hand.
Balanced(c, j) == \A x \in Products : Net(c, x) = items[c][x] + Owes(j, x)

Attends(p, c) == Busy(proc[p]) /\ proc[p].cart = c

Balances ==
    \A c \in Carts :
        /\ \A p \in Procs : Attends(p, c) => Balanced(c, proc[p])
        /\ (\A p \in Procs : ~Attends(p, c)) => Balanced(c, Idle)

\* What a handler has read or planned fits what its cart lists.
Fits(j, listed) ==
    /\ j.pc \in {"reserve", "release", "commit"} =>
           \A x \in Products : /\ j.lines[x] = listed[x] + j.reserve[x] - j.release[x]
                               /\ j.release[x] <= listed[x]
                               /\ j.reserve[x] = 0 \/ j.release[x] = 0
    /\ j.pc \in {"transferOut", "transferIn", "restore", "discard", "giveBack", "retire"} =>
           j.lines = listed
    /\ j.pc = "undoReserve" => j.release = Zero
    /\ j.pc # "undoRelease"

Current == \A p \in Procs : Busy(proc[p]) => Fits(proc[p], items[proc[p].cart])

\* A counter and the holds it is the sum of: every unit that is reserved of a product
\* is some reference's, which inventory itself does not record.
Shared(n, held) ==
    \E U \in SUBSET (1 .. Units) : \E owner \in [U -> Refs] :
        /\ Cardinality(U) = n
        /\ \A r \in Refs : held[r] = Cardinality({u \in U : owner[u] = r})

HeldOf(x) == [r \in Refs |-> hold[r][x]]

\* Inventory has refused no message, only carts' units wait, and there is no unit
\* reserved that nobody holds.
Clean ==
    /\ deadLetters = {}
    /\ \A k \in 1 .. Len(queue) : queue[k].ref \in Carts
    /\ \A x \in Products : Shared(reserved[x], HeldOf(x))

\* The inductive invariant of the two theorems below.
Matched == logged = {} => Clean /\ Balances /\ Current

-----------------------------------------------------------------------------
(* Counting units *)

\* Some of the elements of a finite set, as many as asked for.
LEMMA SomeOf ==
    ASSUME NEW S, IsFiniteSet(S), NEW n \in 0 .. Cardinality(S)
    PROVE  \E T \in SUBSET S : IsFiniteSet(T) /\ Cardinality(T) = n
  <1>1. PICK f \in Bijection(1 .. Cardinality(S), S) : TRUE
    BY FS_CardinalityType DEF ExistsBijection
  <1> DEFINE T == {f[i] : i \in 1 .. n}
             g == [i \in 1 .. n |-> f[i]]
  <1>2. Cardinality(S) \in Nat /\ n \in Nat /\ 1 .. n \subseteq 1 .. Cardinality(S)
    BY FS_CardinalityType
  <1>3. T \in SUBSET S
    BY <1>1, <1>2 DEF Bijection, Injection
  <1>4. g \in Bijection(1 .. n, T)
    <2>1. f \in [1 .. Cardinality(S) -> S]
      BY <1>1 DEF Bijection, Injection
    <2>2. \A i, j \in 1 .. Cardinality(S) : f[i] = f[j] => i = j
      BY <1>1, <2>1 DEF Bijection, Injection, IsInjective
    <2>3. g \in [1 .. n -> T] /\ DOMAIN g = 1 .. n
      OBVIOUS
    <2>4. \A i, j \in 1 .. n : g[i] = g[j] => i = j
      BY <1>2, <2>2
    <2>5. \A t \in T : \E i \in 1 .. n : g[i] = t
      OBVIOUS
    <2> HIDE DEF g, T
    <2> QED BY <2>3, <2>4, <2>5 DEF Bijection, Injection, Surjection, IsInjective
  <1>5. Cardinality(T) = n
    BY <1>2, <1>4, FS_CountingElements DEF ExistsBijection
  <1> QED BY <1>3, <1>5, FS_Subset

\* Sets with no element in common add up.
LEMMA Adds ==
    ASSUME NEW S, NEW T, IsFiniteSet(S), IsFiniteSet(T), S \cap T = {}
    PROVE  /\ IsFiniteSet(S \cup T) /\ Cardinality(S \cup T) = Cardinality(S) + Cardinality(T)
           /\ Cardinality(S) \in Nat /\ Cardinality(T) \in Nat
  BY FS_Union, FS_EmptySet, FS_CardinalityType

\* One message holds as many units of x as its lines say.
LEMMA MessageUnits ==
    ASSUME NEW k, NEW n \in Nat
    PROVE  IsFiniteSet({k} \X (1 .. n)) /\ Cardinality({k} \X (1 .. n)) = n
  <1>1. IsFiniteSet({k}) /\ Cardinality({k}) = 1
    BY FS_Singleton
  <1>2. IsFiniteSet(1 .. n) /\ Cardinality(1 .. n) = n
    BY FS_Interval
  <1>3. /\ IsFiniteSet({k} \X (1 .. n))
        /\ Cardinality({k} \X (1 .. n)) = Cardinality({k}) * Cardinality(1 .. n)
    BY <1>1, <1>2, FS_Product
  <1>4. Cardinality({k}) * Cardinality(1 .. n) = 1 * n /\ 1 * n = n
    BY <1>1, <1>2
  <1> QED BY <1>3, <1>4

\* A message that waits at the broker.
Messages == [ref : Refs, lines : Counts]

\* The units that wait under r, each with the message it is in.
Waits(q, r, x) ==
    /\ \A k \in 1 .. Len(q) : \A n \in 1 .. q[k].lines[x] : q[k].ref = r => <<k, n>> \in Waiting(q, r, x)
    /\ \A w \in Waiting(q, r, x) : /\ w = <<w[1], w[2]>> /\ w[1] \in 1 .. Len(q) /\ q[w[1]].ref = r
                                   /\ w[2] \in 1 .. q[w[1]].lines[x]

\* What waits under a reference is finite, and made of its messages.
LEMMA WaitingUnits ==
    ASSUME NEW q \in Seq(Messages), NEW r, NEW x \in Products
    PROVE  /\ IsFiniteSet(Waiting(q, r, x)) /\ Cardinality(Waiting(q, r, x)) \in Nat
           /\ Waits(q, r, x)
           /\ Len(q) \in Nat /\ \A k \in 1 .. Len(q) : q[k] \in Messages /\ q[k].lines[x] \in Nat
  <1> DEFINE K == {j \in 1 .. Len(q) : q[j].ref = r}
             Part(k) == {k} \X (1 .. q[k].lines[x])
             M == {Part(k) : k \in K}
             f == [k \in K |-> Part(k)]
  <1>1. Len(q) \in Nat /\ \A k \in 1 .. Len(q) : q[k] \in Messages /\ q[k].lines[x] \in Nat
    <2>1. \A m \in Messages : m.lines[x] \in Nat
      BY DEF Messages, Counts
    <2> QED BY <2>1
  <1>2. IsFiniteSet(K)
    <2>1. K \in SUBSET (1 .. Len(q)) /\ IsFiniteSet(1 .. Len(q))
      BY <1>1, FS_Interval
    <2> HIDE DEF K
    <2> QED BY <2>1, FS_Subset
  <1>3. f \in Surjection(K, M)
    BY DEF Surjection
  <1>4. IsFiniteSet(M)
    <2> HIDE DEF f, M, K
    <2> QED BY <1>2, <1>3, FS_Surjection
  <1>5. \A T \in M : IsFiniteSet(T)
    <2>1. \A k \in K : IsFiniteSet({k} \X (1 .. q[k].lines[x]))
      BY <1>1, MessageUnits
    <2> QED BY <2>1
  <1>6. IsFiniteSet(UNION M)
    <2> HIDE DEF M
    <2> QED BY <1>4, <1>5, FS_UNION
  <1>7. Waiting(q, r, x) = UNION M
    BY DEF Waiting
  <1>8. Cardinality(Waiting(q, r, x)) \in Nat
    <2> HIDE DEF M
    <2> QED BY <1>6, <1>7, FS_CardinalityType
  <1>9. \A w : w \in UNION M <=> \E k \in K : w \in Part(k)
    OBVIOUS
  <1>10. \A k, n : n \in 1 .. q[k].lines[x] => <<k, n>> \in Part(k)
    OBVIOUS
  <1>11. \A w, k : w \in Part(k) => w = <<w[1], w[2]>> /\ w[1] = k /\ w[2] \in 1 .. q[k].lines[x]
    OBVIOUS
  <1>12. Waits(q, r, x)
    <2> HIDE DEF M, Part
    <2>1. \A k \in 1 .. Len(q) : \A n \in 1 .. q[k].lines[x] : q[k].ref = r => <<k, n>> \in Waiting(q, r, x)
      BY <1>7, <1>9, <1>10
    <2>2. \A w \in Waiting(q, r, x) : \E k \in K : w \in Part(k)
      BY <1>7, <1>9
    <2>3. \A w \in Waiting(q, r, x) : /\ w = <<w[1], w[2]>> /\ w[1] \in 1 .. Len(q) /\ q[w[1]].ref = r
                                       /\ w[2] \in 1 .. q[w[1]].lines[x]
      BY <2>2, <1>11
    <2> QED BY <2>1, <2>3 DEF Waits
  <1>13. IsFiniteSet(Waiting(q, r, x))
    <2> HIDE DEF M
    <2> QED BY <1>6, <1>7
  <1> QED BY <1>1, <1>8, <1>12, <1>13

\* A message published waits behind the others ...
LEMMA WaitsBehind ==
    ASSUME NEW q \in Seq(Messages), NEW m, NEW s \in Seq(Messages), NEW r, NEW x \in Products,
           Len(s) = Len(q) + 1, s[Len(q) + 1] = m, \A k \in 1 .. Len(q) : s[k] = q[k]
    PROVE  Cardinality(Waiting(s, r, x)) =
               Cardinality(Waiting(q, r, x)) + (IF m.ref = r THEN m.lines[x] ELSE 0)
  <1> DEFINE n == Len(q) + 1
             Added == {n} \X (1 .. m.lines[x])
  <1>1. s \in Seq(Messages) /\ Len(q) \in Nat /\ m \in Messages
    <2>1. Len(q) \in Nat /\ Len(q) + 1 \in 1 .. Len(s)
      OBVIOUS
    <2> QED BY <2>1
  <1>2. Len(s) = n /\ s[n] = m /\ \A k \in 1 .. Len(q) : s[k] = q[k]
    OBVIOUS
  <1>3. /\ IsFiniteSet(Waiting(q, r, x)) /\ Cardinality(Waiting(q, r, x)) \in Nat
        /\ Waits(q, r, x) /\ \A k \in 1 .. Len(q) : q[k].lines[x] \in Nat
    BY WaitingUnits
  <1>4. Waits(s, r, x)
    BY <1>1, WaitingUnits
  <1>5. \A w : w \in Added <=> w = <<n, w[2]>> /\ w[2] \in 1 .. m.lines[x]
    OBVIOUS
  <1>6. IsFiniteSet(Added) /\ Cardinality(Added) = m.lines[x] /\ m.lines[x] \in Nat
    <2>1. m.lines[x] \in Nat
      BY <1>1 DEF Messages, Counts
    <2> QED BY <2>1, MessageUnits
  <1>7. \A w \in Waiting(q, r, x) : w \in Waiting(s, r, x) /\ w[1] # n
    BY <1>1, <1>2, <1>3, <1>4 DEF Waits
  <1>8. \A w \in Waiting(s, r, x) : w[1] # n => w \in Waiting(q, r, x)
    BY <1>1, <1>2, <1>3, <1>4 DEF Waits
  <1>9. CASE m.ref = r
    <2>1. \A w \in Waiting(s, r, x) : w[1] = n => w \in Added
      BY <1>1, <1>2, <1>4, <1>5 DEF Waits
    <2>2. \A w \in Added : w \in Waiting(s, r, x) /\ w[1] = n
      BY <1>1, <1>2, <1>4, <1>5, <1>9 DEF Waits
    <2> HIDE DEF Added
    <2>3. Waiting(s, r, x) = Waiting(q, r, x) \cup Added
      BY <1>7, <1>8, <2>1, <2>2
    <2>4. Waiting(q, r, x) \cap Added = {}
      BY <1>7, <2>2
    <2>5. Cardinality(Waiting(s, r, x)) = Cardinality(Waiting(q, r, x)) + Cardinality(Added)
      BY <1>3, <1>6, <2>3, <2>4, Adds
    <2> QED BY <1>6, <1>9, <2>5
  <1>10. CASE m.ref # r
    <2>1. \A w \in Waiting(s, r, x) : w[1] # n
      BY <1>1, <1>2, <1>4, <1>10 DEF Waits
    <2>2. Waiting(s, r, x) = Waiting(q, r, x)
      BY <1>7, <1>8, <2>1
    <2> QED BY <1>3, <1>10, <2>2
  <1> QED BY <1>9, <1>10

\* ... and one consumed leaves the others as they were.
LEMMA WaitsNoMore ==
    ASSUME NEW q \in Seq(Messages), NEW k \in 1 .. Len(q), NEW s,
           s = [j \in 1 .. Len(q) - 1 |-> IF j < k THEN q[j] ELSE q[j + 1]],
           NEW r, NEW x \in Products
    PROVE  /\ s \in Seq(Messages)
           /\ Cardinality(Waiting(s, r, x)) =
                  Cardinality(Waiting(q, r, x)) - (IF q[k].ref = r THEN q[k].lines[x] ELSE 0)
           /\ q[k].ref = r => q[k].lines[x] <= Cardinality(Waiting(q, r, x))
  <1> DEFINE Taken == {k} \X (1 .. q[k].lines[x])
             Rest == {w \in Waiting(q, r, x) : w[1] # k}
             Before(w) == <<IF w[1] < k THEN w[1] ELSE w[1] + 1, w[2]>>
             f == [w \in Waiting(s, r, x) |-> Before(w)]
  <1>1. /\ Len(q) \in Nat /\ Len(q) >= 1 /\ k \in Nat /\ q[k].lines[x] \in Nat
        /\ \A j \in 1 .. Len(q) : q[j] \in Messages
    <2>1. Len(q) \in Nat /\ \A j \in 1 .. Len(q) : q[j] \in Messages /\ q[j].lines[x] \in Nat
      BY WaitingUnits
    <2>2. k \in Nat /\ 1 <= k /\ k <= Len(q)
      BY <2>1
    <2> QED BY <2>1, <2>2
  <1>2. /\ s \in Seq(Messages) /\ Len(s) = Len(q) - 1
        /\ \A j \in 1 .. Len(q) - 1 : s[j] = IF j < k THEN q[j] ELSE q[j + 1]
    <2>1. \A j \in 1 .. Len(q) - 1 : (IF j < k THEN q[j] ELSE q[j + 1]) \in Messages
      BY <1>1
    <2>2. s \in [1 .. Len(q) - 1 -> Messages] /\ Len(q) - 1 \in Nat
      BY <1>1, <2>1
    <2> QED BY <2>2
  <1>3. /\ IsFiniteSet(Waiting(q, r, x)) /\ Cardinality(Waiting(q, r, x)) \in Nat
        /\ Waits(q, r, x)
    BY WaitingUnits
  <1>4. IsFiniteSet(Waiting(s, r, x)) /\ Waits(s, r, x)
    BY <1>2, WaitingUnits
  <1>5. \A w \in Waiting(s, r, x) : Before(w) \in Rest
    <2> SUFFICES ASSUME NEW w \in Waiting(s, r, x) PROVE Before(w) \in Rest
      OBVIOUS
    <2> DEFINE b == IF w[1] < k THEN w[1] ELSE w[1] + 1
    <2>1. w[1] \in 1 .. Len(s) /\ s[w[1]].ref = r /\ w[2] \in 1 .. s[w[1]].lines[x]
      BY <1>4 DEF Waits
    <2>2. b \in 1 .. Len(q) /\ b # k /\ s[w[1]] = q[b]
      BY <1>1, <1>2, <2>1
    <2> HIDE DEF b
    <2>3. <<b, w[2]>> \in Waiting(q, r, x)
      BY <1>3, <2>1, <2>2 DEF Waits
    <2> QED BY <2>2, <2>3 DEF b
  <1>6. \A w \in Rest : \E v \in Waiting(s, r, x) : Before(v) = w
    <2> SUFFICES ASSUME NEW w \in Waiting(q, r, x), w[1] # k
                 PROVE  \E v \in Waiting(s, r, x) : Before(v) = w
      OBVIOUS
    <2> DEFINE b == IF w[1] < k THEN w[1] ELSE w[1] - 1
    <2>1. w = <<w[1], w[2]>> /\ w[1] \in 1 .. Len(q) /\ q[w[1]].ref = r /\ w[2] \in 1 .. q[w[1]].lines[x]
      BY <1>3 DEF Waits
    <2>2. b \in 1 .. Len(s) /\ s[b] = q[w[1]] /\ w[1] = IF b < k THEN b ELSE b + 1
      BY <1>1, <1>2, <2>1
    <2> HIDE DEF b
    <2>3. <<b, w[2]>> \in Waiting(s, r, x)
      BY <1>4, <2>1, <2>2 DEF Waits
    <2>4. Before(<<b, w[2]>>) = <<w[1], w[2]>>
      BY <2>2
    <2> HIDE DEF Before
    <2> QED BY <2>1, <2>3, <2>4
  <1>7. \A v, w \in Waiting(s, r, x) : Before(v) = Before(w) => v = w
    <2> SUFFICES ASSUME NEW v \in Waiting(s, r, x), NEW w \in Waiting(s, r, x), Before(v) = Before(w)
                 PROVE  v = w
      OBVIOUS
    <2>1. v = <<v[1], v[2]>> /\ w = <<w[1], w[2]>> /\ v[1] \in Nat /\ w[1] \in Nat
      BY <1>1, <1>2, <1>4 DEF Waits
    <2>2. (IF v[1] < k THEN v[1] ELSE v[1] + 1) = (IF w[1] < k THEN w[1] ELSE w[1] + 1) /\ v[2] = w[2]
      OBVIOUS
    <2>3. v[1] = w[1]
      BY <1>1, <2>1, <2>2
    <2> QED BY <2>1, <2>2, <2>3
  <1>8. IsFiniteSet(Rest)
    BY <1>3, FS_Subset
  <1>9. f \in Bijection(Waiting(s, r, x), Rest)
    <2>1. f \in [Waiting(s, r, x) -> Rest] /\ DOMAIN f = Waiting(s, r, x)
      BY <1>5
    <2>2. \A w \in Waiting(s, r, x) : f[w] = Before(w)
      OBVIOUS
    <2> HIDE DEF f, Before, Rest
    <2>3. IsInjective(f)
      BY <1>7, <2>1, <2>2 DEF IsInjective
    <2>4. \A t \in Rest : \E w \in Waiting(s, r, x) : f[w] = t
      BY <1>6, <2>2
    <2> QED BY <2>1, <2>3, <2>4 DEF Bijection, Injection, Surjection
  <1>10. Cardinality(Rest) = Cardinality(Waiting(s, r, x))
    <2> HIDE DEF f, Rest
    <2> QED BY <1>4, <1>9, FS_Bijection DEF ExistsBijection
  <1>11. \A w : w \in Taken <=> w = <<k, w[2]>> /\ w[2] \in 1 .. q[k].lines[x]
    OBVIOUS
  <1>12. IsFiniteSet(Taken) /\ Cardinality(Taken) = q[k].lines[x]
    BY <1>1, MessageUnits
  <1>13. CASE q[k].ref = r
    <2>1. \A w \in Waiting(q, r, x) : w[1] = k => w \in Taken
      BY <1>3, <1>11 DEF Waits
    <2>2. \A w \in Taken : w \in Waiting(q, r, x) /\ w[1] = k
      BY <1>1, <1>3, <1>11, <1>13 DEF Waits
    <2> HIDE DEF Taken
    <2>3. Waiting(q, r, x) = Rest \cup Taken /\ Rest \cap Taken = {}
      BY <2>1, <2>2
    <2> HIDE DEF Rest
    <2>4. /\ Cardinality(Waiting(q, r, x)) = Cardinality(Rest) + Cardinality(Taken)
          /\ Cardinality(Rest) \in Nat
      BY <1>8, <1>12, <2>3, Adds
    <2> QED BY <1>1, <1>2, <1>10, <1>12, <1>13, <2>4
  <1>14. CASE q[k].ref # r
    <2>1. \A w \in Waiting(q, r, x) : w[1] # k
      BY <1>3, <1>14 DEF Waits
    <2>2. Rest = Waiting(q, r, x)
      BY <2>1
    <2> HIDE DEF Rest
    <2> QED BY <1>2, <1>3, <1>10, <1>14, <2>2
  <1> QED BY <1>13, <1>14

\* Nobody holds more than is reserved, nor less than nothing.
LEMMA SharesBounded ==
    ASSUME NEW n, NEW held, Shared(n, held)
    PROVE  n \in 0 .. Units /\ \A r \in Refs : held[r] \in 0 .. n
  <1>0. PICK U \in SUBSET (1 .. Units) : \E owner \in [U -> Refs] :
            /\ Cardinality(U) = n
            /\ \A r \in Refs : held[r] = Cardinality({u \in U : owner[u] = r})
    BY DEF Shared
  <1>1. PICK owner \in [U -> Refs] :
            /\ Cardinality(U) = n
            /\ \A r \in Refs : held[r] = Cardinality({u \in U : owner[u] = r})
    BY <1>0
  <1>2. Units \in Nat /\ IsFiniteSet(1 .. Units) /\ Cardinality(1 .. Units) = Units
    BY CartAssumption, FS_Interval
  <1>3. IsFiniteSet(U) /\ Cardinality(U) <= Units /\ Cardinality(U) \in Nat
    BY <1>2, FS_Subset, FS_CardinalityType
  <1>4. ASSUME NEW r \in Refs
        PROVE  held[r] \in 0 .. n
    <2> DEFINE T == {u \in U : owner[u] = r}
    <2>1. T \in SUBSET U
      OBVIOUS
    <2>2. held[r] = Cardinality(T)
      BY <1>1
    <2> HIDE DEF T
    <2>3. IsFiniteSet(T) /\ Cardinality(T) <= Cardinality(U) /\ Cardinality(T) \in Nat
      BY <1>3, <2>1, FS_Subset, FS_CardinalityType
    <2> QED BY <1>1, <1>3, <2>2, <2>3
  <1> QED BY <1>1, <1>2, <1>3, <1>4

\* Where nobody holds anything, nothing is reserved.
LEMMA NothingShared ==
    ASSUME NEW held, \A r \in Refs : held[r] = 0
    PROVE  Shared(0, held)
  <1> DEFINE owner == [u \in {} |-> CHOOSE r \in Refs : TRUE]
  <1>1. {} \in SUBSET (1 .. Units) /\ owner \in [{} -> Refs]
    OBVIOUS
  <1>2. \A r : {u \in {} : owner[u] = r} = {}
    OBVIOUS
  <1> HIDE DEF owner
  <1>3. Cardinality({}) = 0
    BY FS_EmptySet
  <1> QED BY <1>1, <1>2, <1>3 DEF Shared

\* What is reserved for r comes out of what is free ...
LEMMA ShareTaken ==
    ASSUME NEW n, NEW held, Shared(n, held), NEW r \in Refs, NEW k \in Nat, k <= Units - n,
           NEW after, after[r] = held[r] + k, \A s \in Refs \ {r} : after[s] = held[s]
    PROVE  Shared(n + k, after)
  <1>0. PICK U \in SUBSET (1 .. Units) : \E owner \in [U -> Refs] :
            /\ Cardinality(U) = n
            /\ \A s \in Refs : held[s] = Cardinality({u \in U : owner[u] = s})
    BY DEF Shared
  <1>1. PICK owner \in [U -> Refs] :
            /\ Cardinality(U) = n
            /\ \A s \in Refs : held[s] = Cardinality({u \in U : owner[u] = s})
    BY <1>0
  <1>2. Units \in Nat /\ IsFiniteSet(1 .. Units) /\ Cardinality(1 .. Units) = Units /\ n \in 0 .. Units
    BY CartAssumption, FS_Interval, SharesBounded
  <1> DEFINE Free_ == (1 .. Units) \ U
  <1>3. IsFiniteSet(U) /\ IsFiniteSet(Free_) /\ Free_ \cup U = 1 .. Units /\ Free_ \cap U = {}
    BY <1>2, FS_Subset, FS_Difference
  <1> HIDE DEF Free_
  <1>4. Cardinality(Free_) = Units - n /\ Cardinality(Free_) \in Nat
    <2>1. Cardinality(Free_ \cup U) = Cardinality(Free_) + Cardinality(U) /\ Cardinality(Free_) \in Nat
      BY <1>3, Adds
    <2>2. Cardinality(Free_ \cup U) = Units
      BY <1>2, <1>3
    <2>3. Cardinality(U) = n /\ n \in Int /\ Units \in Int
      BY <1>1, <1>2
    <2>4. Cardinality(Free_) = Units - n
      BY <2>1, <2>2, <2>3
    <2> QED BY <2>1, <2>4
  <1>5. PICK T \in SUBSET Free_ : IsFiniteSet(T) /\ Cardinality(T) = k
    BY <1>3, <1>4, SomeOf
  <1> DEFINE V == U \cup T
             newOwner == [u \in V |-> IF u \in T THEN r ELSE owner[u]]
  <1>6. V \in SUBSET (1 .. Units) /\ newOwner \in [V -> Refs] /\ U \cap T = {}
    BY <1>3
  <1>7. Cardinality(V) = n + k
    BY <1>1, <1>3, <1>5, <1>6, Adds
  <1>8. ASSUME NEW s \in Refs
        PROVE  after[s] = Cardinality({u \in V : newOwner[u] = s})
    <2> DEFINE Old == {u \in U : owner[u] = s}
               New == {u \in V : newOwner[u] = s}
    <2>1. IsFiniteSet(Old) /\ Old \cap T = {}
      BY <1>3, <1>6, FS_Subset
    <2>2. CASE s = r
      <3>1. New = Old \cup T
        BY <1>6, <2>2
      <3> HIDE DEF New, Old
      <3>2. Cardinality(New) = Cardinality(Old) + k
        BY <1>5, <2>1, <3>1, Adds
      <3> QED BY <1>1, <2>2, <3>2 DEF Old, New
    <2>3. CASE s # r
      <3>1. New = Old
        BY <1>6, <2>3
      <3> QED BY <1>1, <2>3, <3>1
    <2> QED BY <2>2, <2>3
  <1> HIDE DEF V, newOwner
  <1> QED BY <1>6, <1>7, <1>8 DEF Shared

\* ... and what r gives back is free again.
LEMMA ShareGiven ==
    ASSUME NEW n, NEW held, Shared(n, held), NEW r \in Refs, NEW k \in Nat, k <= held[r],
           NEW after, after[r] = held[r] - k, \A s \in Refs \ {r} : after[s] = held[s]
    PROVE  Shared(n - k, after)
  <1>0. PICK U \in SUBSET (1 .. Units) : \E owner \in [U -> Refs] :
            /\ Cardinality(U) = n
            /\ \A s \in Refs : held[s] = Cardinality({u \in U : owner[u] = s})
    BY DEF Shared
  <1>1. PICK owner \in [U -> Refs] :
            /\ Cardinality(U) = n
            /\ \A s \in Refs : held[s] = Cardinality({u \in U : owner[u] = s})
    BY <1>0
  <1>2. IsFiniteSet(U) /\ n \in Nat /\ held[r] \in Nat
    <2>1. IsFiniteSet(1 .. Units)
      BY CartAssumption, FS_Interval
    <2>2. n \in 0 .. Units /\ held[r] \in 0 .. n
      BY SharesBounded
    <2>3. IsFiniteSet(U)
      BY <2>1, FS_Subset
    <2>4. Units \in Nat
      BY CartAssumption
    <2> QED BY <2>2, <2>3, <2>4
  <1> DEFINE Mine == {u \in U : owner[u] = r}
  <1>3. IsFiniteSet(Mine) /\ Cardinality(Mine) = held[r]
    BY <1>1, <1>2, FS_Subset
  <1> HIDE DEF Mine
  <1>4. PICK T \in SUBSET Mine : IsFiniteSet(T) /\ Cardinality(T) = k
    BY <1>2, <1>3, SomeOf
  <1> DEFINE V == U \ T
             newOwner == [u \in V |-> owner[u]]
  <1>5. T \subseteq U /\ \A u \in T : owner[u] = r
    BY DEF Mine
  <1>6. V \in SUBSET (1 .. Units) /\ newOwner \in [V -> Refs] /\ IsFiniteSet(V)
    BY <1>2, FS_Difference
  <1>7. Cardinality(V) = n - k
    <2>1. V \cup T = U /\ V \cap T = {}
      BY <1>5
    <2> HIDE DEF V
    <2>2. Cardinality(U) = Cardinality(V) + Cardinality(T) /\ Cardinality(V) \in Nat
      BY <1>4, <1>6, <2>1, Adds
    <2> QED BY <1>1, <1>4, <2>2
  <1>8. ASSUME NEW s \in Refs
        PROVE  after[s] = Cardinality({u \in V : newOwner[u] = s})
    <2> DEFINE Old == {u \in U : owner[u] = s}
               New == {u \in V : newOwner[u] = s}
    <2>1. IsFiniteSet(New)
      BY <1>6, FS_Subset
    <2>2. CASE s = r
      <3>1. Old = New \cup T /\ New \cap T = {}
        BY <1>5, <2>2
      <3> HIDE DEF New, Old
      <3>2. Cardinality(Old) = Cardinality(New) + k /\ Cardinality(New) \in Nat
        BY <1>4, <2>1, <3>1, Adds
      <3>3. held[s] = Cardinality(Old)
        BY <1>1 DEF Old
      <3> QED BY <2>2, <3>2, <3>3 DEF New
    <2>3. CASE s # r
      <3>1. New = Old
        BY <1>5, <2>3
      <3> QED BY <1>1, <2>3, <3>1
    <2> QED BY <2>2, <2>3
  <1> HIDE DEF V, newOwner
  <1> QED BY <1>6, <1>7, <1>8 DEF Shared

-----------------------------------------------------------------------------
(* Calls to inventory *)

\* r gains d of every product, which may be negative, and nobody else anything.
Shifts(r, d) ==
    \A x \in Products : /\ Net(r, x)' = Net(r, x) + d[x]
                        /\ \A s \in Refs \ {r} : Net(s, x)' = Net(s, x)

Less(lines) == [x \in Products |-> -lines[x]]

\* What StockOK and Clean say about the units of one product.
LEMMA Holding ==
    ASSUME StockOK, Clean, NEW x \in Products
    PROVE  /\ reserved[x] \in 0 .. Units /\ Units \in Nat
           /\ \A r \in Refs : hold[r][x] \in 0 .. reserved[x] /\ Pending(r, x) \in Nat
           /\ queue \in Seq(Messages)
  <1>1. queue \in Seq(Messages) /\ reserved[x] \in 0 .. Units /\ Units \in Nat
    BY CartAssumption DEF StockOK, Messages
  <1>2. \A r \in Refs : HeldOf(x)[r] \in 0 .. reserved[x]
    BY SharesBounded DEF Clean
  <1>3. \A r \in Refs : Pending(r, x) \in Nat
    BY <1>1, WaitingUnits DEF Pending
  <1> QED BY <1>1, <1>2, <1>3 DEF HeldOf

\* A call that leaves inventory as it is.
LEMMA NoCall ==
    ASSUME StockOK, Clean, UNCHANGED stock, NEW r \in Refs
    PROVE  Clean' /\ Shifts(r, Zero)
  <1>1. Clean'
    BY DEF Clean, stock, HeldOf
  <1>2. \A x \in Products, s \in Refs : Net(s, x)' = Net(s, x) /\ Net(s, x) \in Int
    BY Holding DEF Net, Pending, stock
  <1> QED BY <1>1, <1>2 DEF Shifts, Zero

\* A reservation takes units that are free, and shows in the holds of its reference.
LEMMA Reserved ==
    ASSUME StockOK, Clean, NEW ref \in Refs, NEW lines \in Counts, Reserve(ref, lines)
    PROVE  Clean' /\ Shifts(ref, lines)
  <1>1. /\ queue' = queue /\ deadLetters' = deadLetters
        /\ \A x \in Products : lines[x] \in Nat /\ lines[x] <= Units - reserved[x]
    BY DEF Reserve, CanReserve, Counts
  <1>2. \A x \in Products : /\ reserved'[x] = reserved[x] + lines[x]
                             /\ hold'[ref][x] = hold[ref][x] + lines[x]
                             /\ \A s \in Refs \ {ref} : hold'[s][x] = hold[s][x]
    BY DEF Reserve, StockOK, Plus
  <1>3. ASSUME NEW x \in Products
        PROVE  Shared(reserved'[x], HeldOf(x)')
    <2>1. Shared(reserved[x], HeldOf(x))
      BY DEF Clean
    <2>2. /\ HeldOf(x)'[ref] = HeldOf(x)[ref] + lines[x]
          /\ \A s \in Refs \ {ref} : HeldOf(x)'[s] = HeldOf(x)[s]
      BY <1>2 DEF HeldOf
    <2>3. Shared(reserved[x] + lines[x], HeldOf(x)')
      BY <1>1, <2>1, <2>2, ShareTaken
    <2> QED BY <1>2, <2>3
  <1>4. Clean'
    BY <1>1, <1>3 DEF Clean
  <1>5. Shifts(ref, lines)
    BY <1>1, <1>2, Holding DEF Shifts, Net, Pending
  <1> QED BY <1>4, <1>5

\* A release of units that are held takes them off its reference.
LEMMA Released ==
    ASSUME StockOK, Clean, NEW ref \in Refs, NEW lines \in Counts, Release(ref, lines),
           \A x \in Products : lines[x] <= hold[ref][x]
    PROVE  Clean' /\ Shifts(ref, Less(lines))
  <1>1. /\ queue' = queue /\ deadLetters' = deadLetters
        /\ \A x \in Products : lines[x] \in Nat
    BY DEF Release, Counts
  <1>2. \A x \in Products : /\ reserved'[x] = reserved[x] - lines[x]
                             /\ hold'[ref][x] = hold[ref][x] - lines[x]
                             /\ \A s \in Refs \ {ref} : hold'[s][x] = hold[s][x]
    BY DEF Release, StockOK, Minus
  <1>3. ASSUME NEW x \in Products
        PROVE  Shared(reserved'[x], HeldOf(x)')
    <2>1. Shared(reserved[x], HeldOf(x))
      BY DEF Clean
    <2>2. /\ HeldOf(x)'[ref] = HeldOf(x)[ref] - lines[x] /\ lines[x] <= HeldOf(x)[ref]
          /\ \A s \in Refs \ {ref} : HeldOf(x)'[s] = HeldOf(x)[s]
      BY <1>2 DEF HeldOf
    <2>3. Shared(reserved[x] - lines[x], HeldOf(x)')
      BY <1>1, <2>1, <2>2, ShareGiven
    <2> QED BY <1>2, <2>3
  <1>4. Clean'
    BY <1>1, <1>3 DEF Clean
  <1>5. Shifts(ref, Less(lines))
    BY <1>1, <1>2, Holding DEF Shifts, Net, Pending, Less
  <1> QED BY <1>4, <1>5

\* A release on its way takes its units off what its cart will hold.
LEMMA Enqueued ==
    ASSUME StockOK, Clean, NEW ref \in Carts, NEW lines \in Counts, Enqueue(ref, lines)
    PROVE  Clean' /\ Shifts(ref, Less(lines))
  <1>1. PICK m : m = [ref |-> ref, lines |-> lines]
    OBVIOUS
  <1>2. /\ m \in Messages /\ m.ref = ref /\ m.lines = lines /\ ref \in Refs
        /\ queue' = Append(queue, m) /\ UNCHANGED <<reserved, deadLetters, hold>>
    BY <1>1 DEF Enqueue, Messages, Refs
  <1>3. queue \in Seq(Messages)
    BY DEF StockOK, Messages
  <1>4. Clean'
    <2>1. \A k \in 1 .. Len(queue') : queue'[k] = m \/ (k \in 1 .. Len(queue) /\ queue'[k] = queue[k])
      BY <1>2, <1>3
    <2> QED BY <1>2, <2>1 DEF Clean, HeldOf
  <1>5. ASSUME NEW x \in Products, NEW s \in Refs
        PROVE  Pending(s, x)' = Pending(s, x) + (IF ref = s THEN lines[x] ELSE 0)
    <2>1. PICK after : after = queue'
      OBVIOUS
    <2>2. /\ after \in Seq(Messages) /\ Len(after) = Len(queue) + 1 /\ after[Len(queue) + 1] = m
          /\ \A k \in 1 .. Len(queue) : after[k] = queue[k]
      BY <1>2, <1>3, <2>1
    <2>3. Cardinality(Waiting(after, s, x)) =
              Cardinality(Waiting(queue, s, x)) + (IF m.ref = s THEN m.lines[x] ELSE 0)
      BY <1>3, <2>2, WaitsBehind
    <2> QED BY <1>2, <2>1, <2>3 DEF Pending
  <1>6. \A x \in Products : lines[x] \in Nat
    BY DEF Counts
  <1>7. Shifts(ref, Less(lines))
    BY <1>2, <1>5, <1>6, Holding DEF Shifts, Net, Less
  <1> QED BY <1>4, <1>7

\* A message that the consumer takes has been counted already.
LEMMA Consumed ==
    ASSUME StockOK, Clean, NEW k \in 1 .. Len(queue), Consume(k),
           \A c \in Carts, x \in Products : Pending(c, x) <= hold[c][x]
    PROVE  Clean' /\ \A r \in Refs, x \in Products : Net(r, x)' = Net(r, x)
  <1>1. PICK m : m = queue[k]
    OBVIOUS
  <1>2. queue \in Seq(Messages)
    BY DEF StockOK, Messages
  <1>3. Len(queue) \in Nat /\ m \in Messages
    BY <1>1, <1>2
  <1>4. m.ref \in Carts /\ m.ref \in Refs /\ \A x \in Products : m.lines[x] \in Nat
    BY <1>1, <1>3 DEF Clean, Messages, Counts
  <1>5. queue' = [j \in 1 .. Len(queue) - 1 |-> IF j < k THEN queue[j] ELSE queue[j + 1]]
    BY DEF Consume
  <1>6. ASSUME NEW r \in Refs, NEW x \in Products
        PROVE  /\ Pending(r, x)' = Pending(r, x) - (IF m.ref = r THEN m.lines[x] ELSE 0)
               /\ m.ref = r => m.lines[x] <= Pending(r, x)
    BY <1>1, <1>2, <1>5, WaitsNoMore DEF Pending
  <1>7. \A x \in Products : m.lines[x] <= hold[m.ref][x] /\ m.lines[x] <= reserved[x]
    <2> SUFFICES ASSUME NEW x \in Products PROVE m.lines[x] <= hold[m.ref][x] /\ m.lines[x] <= reserved[x]
      OBVIOUS
    <2>1. m.lines[x] <= Pending(m.ref, x) /\ Pending(m.ref, x) <= hold[m.ref][x]
      BY <1>4, <1>6
    <2>2. reserved[x] \in Int /\ hold[m.ref][x] \in Int /\ hold[m.ref][x] <= reserved[x]
          /\ Pending(m.ref, x) \in Int
      BY <1>4, Holding
    <2> QED BY <1>4, <2>1, <2>2
  <1>8. CanRelease(m.lines)
    BY <1>7 DEF CanRelease
  <1>9. /\ reserved' = Minus(reserved, m.lines) /\ deadLetters' = deadLetters
        /\ hold' = [hold EXCEPT ![m.ref] = Minus(@, m.lines)]
    BY <1>1, <1>8 DEF Consume
  <1>10. \A x \in Products : /\ reserved'[x] = reserved[x] - m.lines[x]
                              /\ hold'[m.ref][x] = hold[m.ref][x] - m.lines[x]
                              /\ \A s \in Refs \ {m.ref} : hold'[s][x] = hold[s][x]
    BY <1>4, <1>9 DEF StockOK, Minus
  <1>11. ASSUME NEW x \in Products
         PROVE  Shared(reserved'[x], HeldOf(x)')
    <2>1. Shared(reserved[x], HeldOf(x))
      BY DEF Clean
    <2>2. /\ HeldOf(x)'[m.ref] = HeldOf(x)[m.ref] - m.lines[x] /\ m.lines[x] <= HeldOf(x)[m.ref]
          /\ \A s \in Refs \ {m.ref} : HeldOf(x)'[s] = HeldOf(x)[s]
      BY <1>4, <1>7, <1>10 DEF HeldOf
    <2>3. Shared(reserved[x] - m.lines[x], HeldOf(x)')
      BY <1>4, <2>1, <2>2, ShareGiven
    <2> QED BY <1>10, <2>3
  <1>12. \A j \in 1 .. Len(queue') : queue'[j].ref \in Carts
    <2>1. Len(queue') = Len(queue) - 1 /\ \A j \in 1 .. Len(queue') :
              queue'[j] = IF j < k THEN queue[j] ELSE queue[j + 1]
      BY <1>3, <1>5
    <2>2. \A j \in 1 .. Len(queue') : j \in 1 .. Len(queue) /\ j + 1 \in 1 .. Len(queue)
      BY <1>3, <2>1
    <2> QED BY <2>1, <2>2 DEF Clean
  <1>13. Clean'
    BY <1>9, <1>11, <1>12 DEF Clean
  <1>14. ASSUME NEW r \in Refs, NEW x \in Products
         PROVE  Net(r, x)' = Net(r, x)
    <2>1. m.lines[x] \in Int /\ hold[r][x] \in Int /\ Pending(r, x) \in Int
      BY <1>4, Holding
    <2>2. /\ Pending(r, x)' = Pending(r, x) - (IF m.ref = r THEN m.lines[x] ELSE 0)
          /\ hold'[r][x] = hold[r][x] - (IF m.ref = r THEN m.lines[x] ELSE 0)
      BY <1>6, <1>10, <2>1
    <2>3. PICK n : n = IF m.ref = r THEN m.lines[x] ELSE 0
      OBVIOUS
    <2>4. n \in Int /\ Pending(r, x)' = Pending(r, x) - n /\ hold'[r][x] = hold[r][x] - n
      BY <2>1, <2>2, <2>3
    <2> QED BY <2>1, <2>4 DEF Net
  <1> QED BY <1>13, <1>14

-----------------------------------------------------------------------------
(* Who attends a cart *)

\* c gains d and no other cart anything.
Moves(c, d) ==
    \A x \in Products : /\ Net(c, x)' = Net(c, x) + d[x]
                        /\ \A b \in Carts \ {c} : Net(b, x)' = Net(b, x)

\* A handler passes its cart on to its next step, j, having gained d for it.
Hands(p, j, d) ==
    LET c == proc[p].cart IN
    /\ Sets(p, j) /\ Busy(j) /\ j.cart = c
    /\ \A b \in Carts \ {c} : items'[b] = items[b]
    /\ \A x \in Products : items[c][x] + Owes(proc[p], x) + d[x] = items'[c][x] + Owes(j, x)
    /\ Fits(j, items'[c])

\* The lock is one handler's.
LEMMA OneAttends ==
    ASSUME LockHeld, NEW p \in Procs, NEW q \in Procs, NEW c, Attends(p, c), Attends(q, c)
    PROVE  p = q
  BY DEF LockHeld, Attends

\* A handler that passes its cart on keeps it in step, and disturbs no other cart.
LEMMA Handed ==
    ASSUME TypeOK, LockHeld, Balances, Current, NEW p \in Procs, NEW j, NEW d, NEW c,
           Busy(proc[p]), c = proc[p].cart, Hands(p, j, d), Moves(c, d)
    PROVE  Balances' /\ Current'
  <1>1. c = proc[p].cart
    OBVIOUS
  <1>2. proc'[p] = j /\ j.cart = c /\ \A q \in Procs \ {p} : proc'[q] = proc[q]
    BY <1>1 DEF TypeOK, Hands, Sets
  <1>3. c \in Carts /\ Attends(p, c) /\ \A q \in Procs : Busy(proc[q]) => proc[q].cart \in Carts
    BY <1>1 DEF TypeOK, JobOK, Busy, Attends
  <1>4. \A q \in Procs \ {p} : Busy(proc[q]) => proc[q].cart \in Carts \ {c}
    BY <1>3, OneAttends DEF Attends
  <1>5. \A b \in Carts \ {c} : items'[b] = items[b] /\ \A x \in Products : Net(b, x)' = Net(b, x)
    BY <1>1 DEF Hands, Moves
  <1>6. \A x \in Products : Net(c, x)' = items'[c][x] + Owes(j, x)
    <2>1. \A x \in Products : Net(c, x) = items[c][x] + Owes(proc[p], x)
      BY <1>3 DEF Balances, Balanced
    <2>2. \A x \in Products : Net(c, x)' = Net(c, x) + d[x]
      BY <1>1 DEF Moves
    <2>3. \A x \in Products : items[c][x] + Owes(proc[p], x) + d[x] = items'[c][x] + Owes(j, x)
      BY <1>1 DEF Hands
    <2> QED BY <2>1, <2>2, <2>3
  <1>7. Current'
    <2>1. Fits(j, items'[c])
      BY <1>1 DEF Hands
    <2> QED BY <1>2, <1>4, <1>5, <2>1 DEF Current
  <1>8. \A b \in Carts : /\ \A q \in Procs \ {p} : Attends(q, b)' <=> Attends(q, b)
                         /\ Attends(p, b)' <=> b = c
    BY <1>1, <1>2 DEF Attends, Hands
  <1>9. ASSUME NEW b \in Carts, NEW q \in Procs, Attends(q, b)'
        PROVE  \A x \in Products : Net(b, x)' = items'[b][x] + Owes(proc'[q], x)
    <2>1. CASE q = p
      BY <1>2, <1>6, <1>8, <1>9, <2>1
    <2>2. CASE q # p
      <3>1. Attends(q, b) /\ b # c /\ proc'[q] = proc[q]
        BY <1>2, <1>4, <1>8, <1>9, <2>2 DEF Attends
      <3>2. \A x \in Products : Net(b, x) = items[b][x] + Owes(proc[q], x)
        BY <3>1 DEF Balances, Balanced
      <3> QED BY <1>5, <3>1, <3>2
    <2> QED BY <2>1, <2>2
  <1>10. ASSUME NEW b \in Carts, \A q \in Procs : ~Attends(q, b)'
         PROVE  \A x \in Products : Net(b, x)' = items'[b][x] + Owes(Idle, x)
    <2>1. b # c /\ \A q \in Procs : ~Attends(q, b)
      BY <1>1, <1>8, <1>10 DEF Attends
    <2>2. \A x \in Products : Net(b, x) = items[b][x] + Owes(Idle, x)
      BY <2>1 DEF Balances, Balanced
    <2> QED BY <1>5, <2>1, <2>2
  <1>11. Balances'
    BY <1>9, <1>10 DEF Balances, Balanced
  <1> QED BY <1>7, <1>11

\* A handler that begins finds its cart unattended, and one that has ended leaves it
\* as if nobody had been there.
LEMMA Attended ==
    ASSUME TypeOK, LockHeld, Balances, Current, NEW p \in Procs, NEW j, Sets(p, j),
           items' = items, \A c \in Carts, x \in Products : Net(c, x)' = Net(c, x),
           proc[p].pc = "unlock" \/ ~Busy(proc[p]),
           Busy(j) => j.pc \in {"plan", "read", "take"} /\ writeLock[j.cart] = Nobody
    PROVE  Balances' /\ Current'
  <1>1. proc'[p] = j /\ \A q \in Procs \ {p} : proc'[q] = proc[q]
    BY DEF TypeOK, Sets
  <1>2. Current'
    BY <1>1 DEF Current, Fits
  <1>3. /\ proc[p].pc = "unlock" => \A x \in Products : Owes(proc[p], x) = Owes(Idle, x)
        /\ Busy(j) => \A x \in Products : Owes(j, x) = Owes(Idle, x)
    BY DEF Owes, Idle
  <1>4. \A b \in Carts : \A q \in Procs \ {p} : Attends(q, b)' <=> Attends(q, b)
    BY <1>1 DEF Attends
  <1>5. ASSUME NEW b \in Carts, \A q \in Procs \ {p} : ~Attends(q, b)
        PROVE  \A x \in Products : Net(b, x)' = items'[b][x] + Owes(Idle, x)
    <2>1. CASE Attends(p, b)
      <3>1. proc[p].pc = "unlock"
        BY <2>1 DEF Attends
      <3>2. \A x \in Products : Net(b, x) = items[b][x] + Owes(proc[p], x)
        BY <2>1 DEF Balances, Balanced
      <3>3. \A x \in Products : Owes(proc[p], x) = Owes(Idle, x)
        BY <1>3, <3>1
      <3> QED BY <3>2, <3>3
    <2>2. CASE ~Attends(p, b)
      BY <1>3, <1>5, <2>2 DEF Balances, Balanced
    <2> QED BY <2>1, <2>2
  <1>6. ASSUME NEW b \in Carts, NEW q \in Procs, Attends(q, b)'
        PROVE  \A x \in Products : Net(b, x)' = items'[b][x] + Owes(proc'[q], x)
    <2>1. CASE q = p
      <3>1. Busy(j) /\ j.cart = b
        BY <1>1, <1>6, <2>1 DEF Attends
      <3>2. \A r \in Procs : ~Attends(r, b)
        BY <3>1, CartAssumption DEF LockHeld, Attends
      <3>3. \A x \in Products : Net(b, x)' = items'[b][x] + Owes(Idle, x)
        BY <1>5, <3>2
      <3>4. proc'[q] = j /\ \A x \in Products : Owes(j, x) = Owes(Idle, x)
        BY <1>1, <1>3, <2>1, <3>1
      <3> QED BY <3>3, <3>4
    <2>2. CASE q # p
      <3>1. Attends(q, b) /\ proc'[q] = proc[q]
        BY <1>1, <1>4, <1>6, <2>2
      <3> QED BY <3>1 DEF Balances, Balanced
    <2> QED BY <2>1, <2>2
  <1>7. ASSUME NEW b \in Carts, \A q \in Procs : ~Attends(q, b)'
        PROVE  \A x \in Products : Net(b, x)' = items'[b][x] + Owes(Idle, x)
    BY <1>4, <1>5, <1>7
  <1>8. Balances'
    BY <1>6, <1>7 DEF Balances, Balanced
  <1> QED BY <1>2, <1>8

-----------------------------------------------------------------------------
(* What a handler's call does to its cart *)

\* Whatever else may fail, a call is answered truly: it may only not get through.
Answered == Faults \subseteq {"unreachable", "slow"}

\* What a reference gains is its cart's; an order's gain is no cart's.
LEMMA ShiftsMove ==
    ASSUME StockOK, Clean, NEW c \in Carts, NEW r \in Refs, NEW d, Shifts(r, d)
    PROVE  /\ r = c => Moves(c, d)
           /\ r \in Orders => Moves(c, Zero)
  <1>1. CASE r = c
    <2>1. r \notin Orders /\ \A b \in Carts \ {c} : b \in Refs \ {r}
      BY <1>1, CartAssumption DEF Refs
    <2>2. \A x \in Products : Net(r, x)' = Net(r, x) + d[x] /\ \A s \in Refs \ {r} : Net(s, x)' = Net(s, x)
      BY DEF Shifts
    <2>3. \A x \in Products : Net(c, x)' = Net(c, x) + d[x] /\ \A b \in Carts \ {c} : Net(b, x)' = Net(b, x)
      BY <1>1, <2>1, <2>2
    <2> QED BY <2>1, <2>3 DEF Moves
  <1>2. CASE r \in Orders
    <2>1. \A b \in Carts : b \in Refs /\ b # r
      BY <1>2, CartAssumption DEF Refs
    <2>2. \A b \in Carts, x \in Products : Net(b, x)' = Net(b, x) /\ Net(b, x) \in Int
      BY <2>1, Holding DEF Shifts, Net
    <2> QED BY <1>2, <2>2, CartAssumption DEF Moves, Zero
  <1> QED BY <1>1, <1>2, CartAssumption

\* A step that makes no call moves nothing.
LEMMA StaysPut ==
    ASSUME StockOK, Clean, NEW c \in Carts, UNCHANGED stock
    PROVE  Clean' /\ Moves(c, Zero)
  <1>1. c \in Refs
    BY DEF Refs
  <1> QED BY <1>1, NoCall, ShiftsMove

\* A reservation for the cart, or for an order.
LEMMA Reserves ==
    ASSUME Answered, StockOK, Clean, NEW c \in Carts, NEW r, r = c \/ r \in Orders,
           NEW lines \in Counts, NEW outcome, HttpReserve(r, lines, outcome)
    PROVE  /\ Clean'
           /\ Moves(c, IF outcome = "ok" /\ r = c THEN lines ELSE Zero)
  <1>1. r \in Refs /\ (r = c <=> r \notin Orders)
    BY CartAssumption DEF Refs
  <1>2. CASE outcome = "ok"
    <2>1. Clean' /\ Shifts(r, lines)
      BY <1>1, <1>2, Reserved DEF HttpReserve
    <2> QED BY <1>1, <1>2, <2>1, ShiftsMove
  <1>3. CASE outcome # "ok"
    <2>1. UNCHANGED stock
      BY <1>3 DEF HttpReserve, Answered
    <2> QED BY <1>3, <2>1, StaysPut
  <1> QED BY <1>2, <1>3

\* A release of units that the cart holds is never refused.
LEMMA Gives ==
    ASSUME Answered, StockOK, Clean, NEW c \in Carts, NEW lines \in Counts, NEW outcome,
           \A x \in Products : lines[x] <= hold[c][x],
           HttpRelease(c, lines, outcome) \/ DispatchRelease(c, lines, outcome)
    PROVE  /\ Clean' /\ outcome \in {"ok", "error"}
           /\ Moves(c, IF outcome = "ok" THEN Less(lines) ELSE Zero)
  <1>1. c \in Refs
    BY DEF Refs
  <1>2. CanRelease(lines)
    <2> SUFFICES ASSUME NEW x \in Products PROVE lines[x] <= reserved[x]
      BY DEF CanRelease
    <2>1. lines[x] <= hold[c][x] /\ lines[x] \in Int
      BY DEF Counts
    <2>2. reserved[x] \in Int /\ hold[c][x] \in Int /\ hold[c][x] <= reserved[x]
      BY <1>1, Holding
    <2> QED BY <2>1, <2>2
  <1>3. \/ outcome = "ok" /\ (Release(c, lines) \/ Enqueue(c, lines))
        \/ outcome = "error" /\ UNCHANGED stock
    BY <1>2 DEF HttpRelease, DispatchRelease, AmqpRelease, Answered
  <1>4. CASE outcome = "ok" /\ (Release(c, lines) \/ Enqueue(c, lines))
    <2>1. Clean' /\ Shifts(c, Less(lines))
      BY <1>1, <1>4, Released, Enqueued
    <2> QED BY <1>1, <1>4, <2>1, ShiftsMove
  <1>5. CASE outcome = "error" /\ UNCHANGED stock
    BY <1>5, StaysPut
  <1> QED BY <1>3, <1>4, <1>5

-----------------------------------------------------------------------------
(* Steps of a handler *)

\* Where a step leaves its handler.
LEMMA Continues ==
    ASSUME TypeOK, NEW p \in Procs
    PROVE  /\ End(p) => \E j : Sets(p, j) /\ j.pc = "unlock" /\ j.cart = proc[p].cart
           /\ \A x : Go(p, x) => \E j : /\ Sets(p, j) /\ j.pc = x /\ j.cart = proc[p].cart
                                         /\ j.lines = proc[p].lines /\ j.reserve = proc[p].reserve
                                         /\ j.release = proc[p].release
  <1>1. proc[p] \in Job
    BY DEF TypeOK
  <1>2. ASSUME End(p)
        PROVE  \E j : Sets(p, j) /\ j.pc = "unlock" /\ j.cart = proc[p].cart
    <2> DEFINE j == [Idle EXCEPT !.op = proc[p].op, !.cart = proc[p].cart, !.pc = "unlock"]
    <2>1. j.pc = "unlock" /\ j.cart = proc[p].cart
      BY DEF Idle
    <2>2. Sets(p, j)
      BY <1>2 DEF End, Sets
    <2> HIDE DEF j
    <2> QED BY <2>1, <2>2
  <1>3. ASSUME NEW x, Go(p, x)
        PROVE  \E j : /\ Sets(p, j) /\ j.pc = x /\ j.cart = proc[p].cart
                      /\ j.lines = proc[p].lines /\ j.reserve = proc[p].reserve
                      /\ j.release = proc[p].release
    <2> DEFINE j == [proc[p] EXCEPT !.pc = x]
    <2>1. /\ j.pc = x /\ j.cart = proc[p].cart /\ j.lines = proc[p].lines
          /\ j.reserve = proc[p].reserve /\ j.release = proc[p].release
      BY <1>1 DEF Job
    <2>2. Sets(p, j)
      BY <1>3 DEF Go, Sets, TypeOK
    <2> HIDE DEF j
    <2> QED BY <2>1, <2>2
  <1> QED BY <1>2, <1>3

\* What is known of the handler p at work on c.
AtWork(p, c) ==
    /\ Busy(proc[p]) /\ proc[p].cart = c /\ c \in Carts /\ JobOK(proc[p])
    /\ \A x \in Products : items[c][x] \in Nat
    /\ \A x \in Products : proc[p].reserve[x] \in Nat /\ proc[p].release[x] \in Nat
    /\ proc[p].reserve \in Counts /\ proc[p].release \in Counts
    /\ Fits(proc[p], items[c])
    /\ \A x \in Products : /\ hold[c][x] \in Int /\ Pending(c, x) \in Nat
                            /\ hold[c][x] = items[c][x] + Pending(c, x) + Owes(proc[p], x)

\* Whoever holds a cart's lock is at work on it.
LEMMA Attending ==
    ASSUME TypeOK, Clean, Balances, Current, NEW p \in Procs, Busy(proc[p])
    PROVE  \E c : AtWork(p, c)
  <1> DEFINE c == proc[p].cart
  <1>1. /\ JobOK(proc[p]) /\ c \in Carts /\ c \in Refs /\ items[c] \in Counts
        /\ proc[p].reserve \in Counts /\ proc[p].release \in Counts
    BY DEF TypeOK, JobOK, Busy, Refs, RedisOK, Job
  <1>2. StockOK
    BY DEF TypeOK
  <1>3. ASSUME NEW x \in Products
        PROVE  /\ hold[c][x] \in Int /\ Pending(c, x) \in Nat
               /\ hold[c][x] = items[c][x] + Pending(c, x) + Owes(proc[p], x)
    <2>1. hold[c][x] \in Int /\ Pending(c, x) \in Nat
      BY <1>1, <1>2, Holding
    <2>2. Net(c, x) = items[c][x] + Owes(proc[p], x)
      BY <1>1 DEF Balances, Balanced, Attends
    <2>3. Owes(proc[p], x) \in Int
      BY <1>1 DEF Owes, JobOK, Counts
    <2>4. items[c][x] \in Int
      BY <1>1 DEF Counts
    <2> QED BY <2>1, <2>2, <2>3, <2>4 DEF Net
  <1>4. Fits(proc[p], items[c])
    BY DEF Current
  <1>5. AtWork(p, c)
    BY <1>1, <1>3, <1>4 DEF AtWork, Counts
  <1> QED BY <1>5

\* A step that leaves the carts' lines alone.
LEMMA Passes ==
    ASSUME NEW p \in Procs, NEW c, AtWork(p, c), items' = items,
           NEW j, Sets(p, j), Busy(j), j.cart = c, Fits(j, items[c]), NEW d,
           \A x \in Products : Owes(proc[p], x) \in Int /\ d[x] \in Int
                               /\ Owes(proc[p], x) + d[x] = Owes(j, x)
    PROVE  Hands(p, j, d)
  <1>1. \A x \in Products : items[c][x] + Owes(proc[p], x) + d[x] = items[c][x] + Owes(j, x)
    BY DEF AtWork
  <1>2. proc[p].cart = c
    BY DEF AtWork
  <1> QED BY <1>1, <1>2 DEF Hands

\* The work is done with nothing in hand.
LEMMA EndPasses ==
    ASSUME TypeOK, NEW p \in Procs, NEW c, AtWork(p, c), items' = items, End(p),
           NEW d, \A x \in Products : Owes(proc[p], x) \in Int /\ d[x] \in Int
                                      /\ Owes(proc[p], x) + d[x] = 0
    PROVE  \E j : Hands(p, j, d)
  <1>1. PICK j : Sets(p, j) /\ j.pc = "unlock" /\ j.cart = c
    BY Continues DEF AtWork
  <1>2. Busy(j) /\ Fits(j, items[c]) /\ \A x \in Products : Owes(j, x) = 0
    BY <1>1 DEF Busy, Fits, Owes
  <1>3. Hands(p, j, d)
    BY <1>1, <1>2, Passes
  <1> QED BY <1>3

\* What the plan will reserve and release is the difference between what it has read and what is asked for.
LEMMA PlanPasses ==
    ASSUME TypeOK, NEW p \in Procs, NEW c, AtWork(p, c), Plan(p)
    PROVE  \E j : Hands(p, j, Zero)
  <1> DEFINE w == proc[p]
             settled == Settled(items[c], w.lines)
             reserve == Surplus(settled, items[c])
             release == Surplus(items[c], settled)
             x_ == AfterPlan(reserve, release)
             k == [w EXCEPT !.pc = x_, !.lines = settled, !.reserve = reserve, !.release = release]
  <1>1. /\ w \in Job /\ JobOK(w) /\ w.pc = "plan" /\ w.cart = c /\ c \in Carts /\ items[c] \in Counts
        /\ items' = items
    BY DEF AtWork, TypeOK, RedisOK, Plan, At
  <1>2. /\ \A x \in Products : Owes(w, x) = 0 /\ Owes(w, x) \in Int /\ Zero[x] = 0 /\ Zero[x] \in Int
        /\ \A x \in Products : Owes(w, x) + Zero[x] = 0
    BY <1>1 DEF Owes, Zero
  <1>3. CASE End(p)
    BY <1>1, <1>2, <1>3, EndPasses
  <1>4. CASE Sets(p, k)
    <2>1. settled \in Counts
      <3>1. w.lines \in Counts \cup RequestedLines
        BY <1>1 DEF Job
      <3> QED BY <1>1, <3>1, SettledCounts
    <2>2. \A x \in Products :
              /\ reserve[x] = IF settled[x] > items[c][x] THEN settled[x] - items[c][x] ELSE 0
              /\ release[x] = IF items[c][x] > settled[x] THEN items[c][x] - settled[x] ELSE 0
      <3> HIDE DEF settled
      <3> QED BY DEF Surplus
    <2>3. k.pc = x_ /\ k.cart = c /\ k.lines = settled /\ k.reserve = reserve /\ k.release = release
      <3> HIDE DEF settled, reserve, release, x_
      <3> QED BY <1>1 DEF Job
    <2>4. /\ x_ \in {"reserve", "release", "commit"}
          /\ x_ \in {"release", "commit"} => \A x \in Products : ~(reserve[x] > 0)
          /\ x_ = "commit" => \A x \in Products : ~(release[x] > 0)
      <3> HIDE DEF settled, reserve, release
      <3> QED BY DEF AfterPlan, AfterReserve, Listed
    <2> HIDE DEF settled, reserve, release, x_, k
    <2>5. \A x \in Products : settled[x] \in Nat /\ items[c][x] \in Nat
      BY <1>1, <2>1 DEF Counts
    <2>6. \A x \in Products : /\ reserve[x] \in Nat /\ release[x] \in Nat
                              /\ settled[x] = items[c][x] + reserve[x] - release[x]
                              /\ release[x] <= items[c][x] /\ (reserve[x] = 0 \/ release[x] = 0)
      BY <2>2, <2>5
    <2>7. Busy(k) /\ Fits(k, items[c])
      BY <2>3, <2>4, <2>6 DEF Busy, Fits
    <2>8. \A x \in Products : Owes(k, x) = 0
      BY <2>3, <2>4, <2>6 DEF Owes
    <2>9. Hands(p, k, Zero)
      BY <1>1, <1>2, <1>4, <2>3, <2>7, <2>8, Passes
    <2> QED BY <2>9
  <1>5. End(p) \/ Sets(p, k)
    BY <1>1 DEF Plan, Sets, TypeOK
  <1> QED BY <1>3, <1>4, <1>5

\* What has been reserved is owed until the commit lists it.
LEMMA ReservePasses ==
    ASSUME Answered, TypeOK, Clean, NEW p \in Procs, NEW c, AtWork(p, c), ReserveLines(p)
    PROVE  Clean' /\ \E j, d : Hands(p, j, d) /\ Moves(c, d)
  <1> DEFINE w == proc[p]
  <1>1. /\ w.pc = "reserve" /\ w.ref = c /\ c \in Carts /\ w.cart = c /\ items' = items
        /\ w.reserve \in Counts /\ StockOK /\ Fits(w, items[c])
        /\ \A x \in Products : w.reserve[x] \in Nat /\ w.release[x] \in Nat
    BY DEF AtWork, JobOK, ReserveLines, At, redis, TypeOK
  <1>2. PICK outcome \in Outcomes :
            /\ HttpReserve(c, w.reserve, outcome)
            /\ IF outcome = "ok" THEN Go(p, AfterReserve(w.release)) ELSE End(p)
    BY <1>1 DEF ReserveLines
  <1>3. Clean' /\ Moves(c, IF outcome = "ok" THEN w.reserve ELSE Zero)
    BY <1>1, <1>2, Reserves
  <1>4. \A x \in Products : Owes(w, x) = 0 /\ Zero[x] = 0
    BY <1>1 DEF Owes, Zero
  <1>5. CASE outcome = "ok"
    <2>1. PICK x_ : x_ = AfterReserve(w.release)
      OBVIOUS
    <2>2. PICK j : /\ Sets(p, j) /\ j.pc = x_ /\ j.cart = c /\ j.lines = w.lines
                   /\ j.reserve = w.reserve /\ j.release = w.release
      BY <1>1, <1>2, <1>5, <2>1, Continues
    <2>3. x_ \in {"release", "commit"} /\ (x_ = "commit" => \A x \in Products : ~(w.release[x] > 0))
      BY <2>1 DEF AfterReserve, Listed
    <2>4. Busy(j) /\ Fits(j, items[c])
      BY <1>1, <2>2, <2>3 DEF Busy, Fits
    <2>5. \A x \in Products : Owes(j, x) = w.reserve[x]
      BY <1>1, <2>2, <2>3 DEF Owes
    <2>6. Hands(p, j, w.reserve)
      BY <1>1, <1>4, <2>2, <2>4, <2>5, Passes
    <2> QED BY <1>3, <1>5, <2>6
  <1>6. CASE outcome # "ok"
    <2>1. End(p)
      BY <1>2, <1>6
    <2>2. \E j : Hands(p, j, Zero)
      BY <1>1, <1>4, <2>1, EndPasses
    <2> QED BY <1>3, <1>6, <2>2
  <1> QED BY <1>5, <1>6

\* A release that fails leaves what was reserved to be undone.
LEMMA ReleasePasses ==
    ASSUME Answered, TypeOK, Clean, NEW p \in Procs, NEW c, AtWork(p, c), ReleaseLines(p)
    PROVE  Clean' /\ \E j, d : Hands(p, j, d) /\ Moves(c, d)
  <1> DEFINE w == proc[p]
  <1>1. /\ w.pc = "release" /\ w.ref = c /\ c \in Carts /\ w.cart = c /\ items' = items
        /\ w.release \in Counts /\ StockOK /\ Fits(w, items[c]) /\ w \in Job
        /\ \A x \in Products : /\ w.reserve[x] \in Nat /\ w.release[x] \in Nat
                                /\ items[c][x] \in Nat
    BY DEF AtWork, JobOK, ReleaseLines, At, redis, TypeOK
  <1>2. PICK outcome \in Outcomes :
            /\ DispatchRelease(c, w.release, outcome)
            /\ \/ outcome = "ok" /\ Go(p, "commit")
               \/ outcome # "ok" /\ Listed(w.reserve) = {} /\ End(p)
               \/ /\ outcome # "ok" /\ Listed(w.reserve) # {}
                  /\ proc' = [proc EXCEPT ![p].release = Zero, ![p].pc = "undoReserve"]
    BY <1>1 DEF ReleaseLines
  <1>3. \A x \in Products : Owes(w, x) = w.reserve[x]
    BY <1>1 DEF Owes
  <1>4. \A x \in Products : w.release[x] <= hold[c][x]
    <2>1. \A x \in Products : w.release[x] <= items[c][x]
      BY <1>1 DEF Fits
    <2>2. \A x \in Products : /\ Pending(c, x) \in Nat
                              /\ hold[c][x] = items[c][x] + Pending(c, x) + w.reserve[x]
      BY <1>3 DEF AtWork
    <2> QED BY <1>1, <2>1, <2>2
  <1>5. Clean' /\ Moves(c, IF outcome = "ok" THEN Less(w.release) ELSE Zero)
    BY <1>1, <1>2, <1>4, Gives
  <1>6. \A x \in Products : Less(w.release)[x] = -w.release[x] /\ Zero[x] = 0
    BY DEF Less, Zero
  <1>7. CASE outcome = "ok" /\ Go(p, "commit")
    <2>1. PICK j : /\ Sets(p, j) /\ j.pc = "commit" /\ j.cart = c /\ j.lines = w.lines
                   /\ j.reserve = w.reserve /\ j.release = w.release
      BY <1>1, <1>7, Continues
    <2>2. Busy(j) /\ Fits(j, items[c])
      BY <1>1, <2>1 DEF Busy, Fits
    <2>3. \A x \in Products : Owes(j, x) = w.reserve[x] - w.release[x]
      BY <2>1 DEF Owes
    <2>4. Hands(p, j, Less(w.release))
      BY <1>1, <1>3, <1>6, <2>1, <2>2, <2>3, Passes
    <2> QED BY <1>5, <1>7, <2>4
  <1>8. CASE outcome # "ok" /\ Listed(w.reserve) = {} /\ End(p)
    <2>1. \A x \in Products : w.reserve[x] = 0
      BY <1>1, <1>8 DEF Listed
    <2>2. \E j : Hands(p, j, Zero)
      BY <1>1, <1>3, <1>6, <1>8, <2>1, EndPasses
    <2> QED BY <1>5, <1>8, <2>2
  <1>9. CASE outcome # "ok" /\ proc' = [proc EXCEPT ![p].release = Zero, ![p].pc = "undoReserve"]
    <2> DEFINE k == [w EXCEPT !.release = Zero, !.pc = "undoReserve"]
    <2>1. Sets(p, k)
      BY <1>9 DEF Sets, TypeOK
    <2>2. k.pc = "undoReserve" /\ k.cart = c /\ k.reserve = w.reserve /\ k.release = Zero
      BY <1>1 DEF Job
    <2> HIDE DEF k
    <2>3. Busy(k) /\ Fits(k, items[c])
      BY <2>2 DEF Busy, Fits
    <2>4. \A x \in Products : Owes(k, x) = w.reserve[x]
      BY <2>2 DEF Owes
    <2>5. Hands(p, k, Zero)
      BY <1>1, <1>3, <1>6, <2>1, <2>2, <2>3, <2>4, Passes
    <2> QED BY <1>5, <1>9, <2>5
  <1> QED BY <1>2, <1>7, <1>8, <1>9

\* A write to the cart's lines that ends the work: what it lists then is what it holds.
LEMMA WritePasses ==
    ASSUME TypeOK, Clean, UNCHANGED stock, NEW p \in Procs, NEW c, AtWork(p, c), End(p),
           NEW a, items' = [items EXCEPT ![c] = a],
           \A x \in Products : Owes(proc[p], x) \in Int /\ a[x] = items[c][x] + Owes(proc[p], x)
    PROVE  Clean' /\ \E j, d : Hands(p, j, d) /\ Moves(c, d)
  <1>1. c \in Carts /\ proc[p].cart = c /\ StockOK /\ \A x \in Products : items[c][x] \in Nat
    BY DEF AtWork, TypeOK
  <1>2. items'[c] = a /\ \A b \in Carts \ {c} : items'[b] = items[b]
    BY <1>1 DEF TypeOK, RedisOK
  <1>3. PICK j : Sets(p, j) /\ j.pc = "unlock" /\ j.cart = c
    BY <1>1, Continues
  <1>4. Busy(j) /\ Fits(j, a) /\ \A x \in Products : Owes(j, x) = 0 /\ Zero[x] = 0
    BY <1>3 DEF Busy, Fits, Owes, Zero
  <1>5. \A x \in Products : items[c][x] + Owes(proc[p], x) + Zero[x] = a[x] + Owes(j, x)
    BY <1>1, <1>4
  <1>6. Hands(p, j, Zero)
    BY <1>1, <1>2, <1>3, <1>4, <1>5 DEF Hands
  <1> QED BY <1>1, <1>6, StaysPut

\* The commit lists what was reserved and drops what was released.
LEMMA CommitPasses ==
    ASSUME Answered, TypeOK, Clean, NEW p \in Procs, NEW c, AtWork(p, c), Commit(p)
    PROVE  Clean' /\ \E j, d : Hands(p, j, d) /\ Moves(c, d)
  <1> DEFINE w == proc[p]
             changed == Listed(w.reserve) \cup Listed(w.release)
             written == [x \in Products |-> IF x \in changed THEN w.lines[x] ELSE items[c][x]]
  <1>1. /\ w.pc = "commit" /\ w.cart = c /\ Fits(w, items[c])
        /\ \A x \in Products : /\ w.reserve[x] \in Nat /\ w.release[x] \in Nat
                                /\ items[c][x] \in Nat
    BY DEF AtWork, Commit, At
  <1>2. Committed(p) /\ End(p) /\ UNCHANGED stock
    BY DEF Commit, Answered
  <1>3. items' = [items EXCEPT ![c] = written]
    BY <1>1, <1>2 DEF Committed
  <1>4. \A x \in Products : x \in changed <=> w.reserve[x] > 0 \/ w.release[x] > 0
    BY DEF Listed
  <1>5. \A x \in Products : w.lines[x] = items[c][x] + w.reserve[x] - w.release[x]
    BY <1>1 DEF Fits
  <1>6. \A x \in Products : Owes(w, x) = w.reserve[x] - w.release[x] /\ Owes(w, x) \in Int
    BY <1>1 DEF Owes
  <1>7. \A x \in Products : written[x] = items[c][x] + Owes(w, x)
    <2> HIDE DEF changed
    <2> QED BY <1>1, <1>4, <1>5, <1>6
  <1> HIDE DEF written, changed
  <1> QED BY <1>2, <1>3, <1>6, <1>7, WritePasses

\* A rollback that logs nothing has given back what was reserved.
LEMMA UndoPasses ==
    ASSUME Answered, TypeOK, Clean, NEW p \in Procs, NEW c, AtWork(p, c),
           UndoReserve(p) \/ UndoRelease(p), logged' = {}
    PROVE  Clean' /\ \E j, d : Hands(p, j, d) /\ Moves(c, d)
  <1> DEFINE w == proc[p]
  <1>1. /\ w.pc = "undoReserve" /\ UndoReserve(p) /\ w.release = Zero
    BY DEF AtWork, Fits, UndoReserve, UndoRelease, At
  <1>2. /\ w.ref = c /\ c \in Carts /\ w.cart = c /\ items' = items /\ w.reserve \in Counts /\ StockOK
        /\ \A x \in Products : w.reserve[x] \in Nat /\ items[c][x] \in Nat
    BY <1>1 DEF AtWork, JobOK, UndoReserve, redis, TypeOK
  <1>3. PICK outcome \in Outcomes :
            /\ DispatchRelease(c, w.reserve, outcome)
            /\ IF outcome = "ok" /\ Listed(w.release) # {} THEN Go(p, "undoRelease") ELSE End(p)
            /\ logged' = IF outcome = "ok" THEN logged ELSE logged \cup {c}
    BY <1>1, <1>2 DEF UndoReserve
  <1>4. outcome = "ok" /\ End(p)
    <2>1. Listed(w.release) = {}
      BY <1>1 DEF Listed, Zero
    <2> QED BY <1>3, <2>1
  <1>5. \A x \in Products : Owes(w, x) = w.reserve[x] /\ Less(w.reserve)[x] = -w.reserve[x]
    BY <1>1 DEF Owes, Less
  <1>6. \A x \in Products : w.reserve[x] <= hold[c][x]
    <2>1. \A x \in Products : /\ Pending(c, x) \in Nat
                              /\ hold[c][x] = items[c][x] + Pending(c, x) + w.reserve[x]
      BY <1>5 DEF AtWork
    <2> QED BY <1>2, <2>1
  <1>7. Clean' /\ Moves(c, Less(w.reserve))
    BY <1>2, <1>3, <1>4, <1>6, Gives
  <1>8. \E j : Hands(p, j, Less(w.reserve))
    BY <1>2, <1>4, <1>5, EndPasses
  <1> QED BY <1>7, <1>8

\* A transfer gives up what the cart lists, then reserves it for the order.
LEMMA TransferPasses ==
    ASSUME Answered, TypeOK, Clean, NEW p \in Procs, NEW c, AtWork(p, c),
           ReadLines(p) \/ TransferOut(p) \/ TransferIn(p)
    PROVE  Clean' /\ \E j, d : Hands(p, j, d) /\ Moves(c, d)
  <1> DEFINE w == proc[p]
  <1>1. /\ w.cart = c /\ c \in Carts /\ items' = items /\ StockOK /\ w \in Job /\ Fits(w, items[c])
        /\ \A x \in Products : items[c][x] \in Nat
    BY DEF AtWork, ReadLines, TransferOut, TransferIn, redis, TypeOK
  <1>2. \A x \in Products : Zero[x] = 0
    BY DEF Zero
  <1>3. CASE ReadLines(p)
    <2>1. w.pc = "read" /\ UNCHANGED stock /\ \A x \in Products : Owes(w, x) = 0
      BY <1>3 DEF ReadLines, At, Owes
    <2>2. Clean' /\ Moves(c, Zero)
      BY <1>1, <2>1, StaysPut
    <2>3. CASE End(p)
      BY <1>1, <1>2, <2>1, <2>2, <2>3, EndPasses
    <2> DEFINE k == [w EXCEPT !.lines = items[c], !.pc = "transferOut"]
    <2>4. CASE Sets(p, k)
      <3>1. k.pc = "transferOut" /\ k.cart = c /\ k.lines = items[c]
        BY <1>1 DEF Job
      <3> HIDE DEF k
      <3>2. Busy(k) /\ Fits(k, items[c]) /\ \A x \in Products : Owes(k, x) = 0
        BY <3>1 DEF Busy, Fits, Owes
      <3>3. Hands(p, k, Zero)
        BY <1>1, <1>2, <2>1, <2>4, <3>1, <3>2, Passes
      <3> QED BY <2>2, <3>3
    <2>5. End(p) \/ Sets(p, k)
      BY <1>1, <1>3 DEF ReadLines, Sets, TypeOK
    <2> QED BY <2>3, <2>4, <2>5
  <1>4. CASE TransferOut(p)
    <2>1. /\ w.pc = "transferOut" /\ w.lines = items[c] /\ w.lines \in Counts
          /\ \A x \in Products : Owes(w, x) = 0 /\ Less(w.lines)[x] = -items[c][x]
      BY <1>1, <1>4 DEF TransferOut, At, Fits, Owes, Less, AtWork, JobOK
    <2>2. PICK outcome \in Outcomes :
              /\ HttpRelease(c, w.lines, outcome)
              /\ IF outcome = "ok" THEN Go(p, "transferIn") ELSE End(p)
      BY <1>1, <1>4 DEF TransferOut
    <2>3. \A x \in Products : w.lines[x] <= hold[c][x]
      <3>1. \A x \in Products : Pending(c, x) \in Nat /\ hold[c][x] = items[c][x] + Pending(c, x) + 0
        BY <2>1 DEF AtWork
      <3> QED BY <1>1, <2>1, <3>1
    <2>4. Clean' /\ Moves(c, IF outcome = "ok" THEN Less(w.lines) ELSE Zero)
      BY <1>1, <2>1, <2>2, <2>3, Gives
    <2>5. CASE outcome = "ok"
      <3>1. PICK j : Sets(p, j) /\ j.pc = "transferIn" /\ j.cart = c /\ j.lines = w.lines
        BY <1>1, <2>2, <2>5, Continues
      <3>2. Busy(j) /\ Fits(j, items[c]) /\ \A x \in Products : Owes(j, x) = -items[c][x]
        BY <2>1, <3>1 DEF Busy, Fits, Owes
      <3>3. Hands(p, j, Less(w.lines))
        BY <1>1, <2>1, <3>1, <3>2, Passes
      <3> QED BY <2>4, <2>5, <3>3
    <2>6. CASE outcome # "ok"
      <3>1. End(p)
        BY <2>2, <2>6
      <3>2. \E j : Hands(p, j, Zero)
        BY <1>1, <1>2, <2>1, <3>1, EndPasses
      <3> QED BY <2>4, <2>6, <3>2
    <2> QED BY <2>5, <2>6
  <1>5. CASE TransferIn(p)
    <2>1. /\ w.pc = "transferIn" /\ w.lines = items[c] /\ w.lines \in Counts /\ w.ref \in Orders
          /\ \A x \in Products : Owes(w, x) = -items[c][x]
      BY <1>1, <1>5 DEF TransferIn, At, Fits, Owes, AtWork, JobOK
    <2>2. PICK outcome \in Outcomes :
              /\ HttpReserve(w.ref, w.lines, outcome)
              /\ Go(p, IF outcome = "ok" THEN "discard" ELSE "restore")
      BY <1>5 DEF TransferIn
    <2>3. Clean' /\ Moves(c, Zero)
      <3>1. w.ref # c
        BY <1>1, <2>1, CartAssumption
      <3> QED BY <1>1, <2>1, <2>2, <3>1, Reserves
    <2>4. PICK x_ \in {"discard", "restore"} : Go(p, x_)
      BY <2>2
    <2>5. PICK j : Sets(p, j) /\ j.pc = x_ /\ j.cart = c /\ j.lines = w.lines
      BY <1>1, <2>4, Continues
    <2>6. Busy(j) /\ Fits(j, items[c]) /\ \A x \in Products : Owes(j, x) = -items[c][x]
      BY <2>1, <2>4, <2>5 DEF Busy, Fits, Owes
    <2>7. Hands(p, j, Zero)
      BY <1>1, <1>2, <2>1, <2>5, <2>6, Passes
    <2> QED BY <2>3, <2>7
  <1> QED BY <1>3, <1>4, <1>5

\* A failed transfer that logs nothing has put the hold back.
LEMMA RestorePasses ==
    ASSUME Answered, TypeOK, Clean, NEW p \in Procs, NEW c, AtWork(p, c), Restore(p), logged' = {}
    PROVE  Clean' /\ \E j, d : Hands(p, j, d) /\ Moves(c, d)
  <1> DEFINE w == proc[p]
  <1>1. /\ w.pc = "restore" /\ w.cart = c /\ c \in Carts /\ items' = items /\ StockOK /\ End(p)
        /\ w.lines = items[c] /\ w.lines \in Counts /\ \A x \in Products : items[c][x] \in Nat
    BY DEF AtWork, Restore, At, redis, TypeOK, Fits, JobOK
  <1>2. PICK outcome \in Outcomes :
            /\ HttpReserve(c, w.lines, outcome)
            /\ logged' = IF outcome = "ok" THEN logged ELSE logged \cup {c}
    BY <1>1 DEF Restore
  <1>3. outcome = "ok"
    BY <1>2
  <1>4. Clean' /\ Moves(c, w.lines)
    BY <1>1, <1>2, <1>3, Reserves
  <1>5. \A x \in Products : Owes(w, x) = -items[c][x] /\ w.lines[x] = items[c][x]
    BY <1>1 DEF Owes
  <1>6. \E j : Hands(p, j, w.lines)
    BY <1>1, <1>5, EndPasses
  <1> QED BY <1>4, <1>6

\* A cart whose units are the order's, or are back, lists nothing.
LEMMA DiscardPasses ==
    ASSUME Answered, TypeOK, Clean, NEW p \in Procs, NEW c, AtWork(p, c), Discard(p) \/ Retire(p)
    PROVE  Clean' /\ \E j, d : Hands(p, j, d) /\ Moves(c, d)
  <1> DEFINE w == proc[p]
  <1>1. /\ w.pc \in {"discard", "retire"} /\ w.cart = c /\ w.lines = items[c]
        /\ \A x \in Products : items[c][x] \in Nat
    BY DEF AtWork, Discard, Retire, At, Fits
  <1>2. UNCHANGED stock /\ End(p) /\ items' = [items EXCEPT ![c] = Zero]
    BY <1>1 DEF Discard, Retire, Discarded, Retired, Answered
  <1>3. \A x \in Products : Owes(w, x) \in Int /\ Zero[x] = items[c][x] + Owes(w, x)
    BY <1>1 DEF Owes, Zero
  <1> QED BY <1>2, <1>3, WritePasses

\* A release reads the lines, and lets them be if inventory does not answer.
LEMMA TakePasses ==
    ASSUME TypeOK, Clean, NEW p \in Procs, NEW c, AtWork(p, c),
           Take(p) \/ Forget(p) \/ Reschedule(p)
    PROVE  Clean' /\ \E j, d : Hands(p, j, d) /\ Moves(c, d)
  <1> DEFINE w == proc[p]
  <1>1. /\ w.pc \in {"take", "forget", "reschedule"} /\ w.cart = c /\ c \in Carts /\ items' = items
        /\ UNCHANGED stock /\ StockOK /\ w \in Job
    BY DEF AtWork, Take, Forget, Reschedule, At, redis, TypeOK
  <1>2. \A x \in Products : Owes(w, x) = 0 /\ Zero[x] = 0
    BY <1>1 DEF Owes, Zero
  <1>3. Clean' /\ Moves(c, Zero)
    BY <1>1, StaysPut
  <1>4. CASE End(p)
    BY <1>1, <1>2, <1>3, <1>4, EndPasses
  <1> DEFINE x_ == IF Listed(items[c]) # {} THEN "giveBack" ELSE "forget"
             k == [w EXCEPT !.lines = items[c], !.pc = x_]
  <1>5. CASE Sets(p, k)
    <2>1. k.pc = x_ /\ x_ \in {"giveBack", "forget"} /\ k.cart = c /\ k.lines = items[c]
      BY <1>1 DEF Job
    <2> HIDE DEF k, x_
    <2>2. Busy(k) /\ Fits(k, items[c]) /\ \A x \in Products : Owes(k, x) = 0
      BY <2>1 DEF Busy, Fits, Owes
    <2>3. Hands(p, k, Zero)
      BY <1>1, <1>2, <1>5, <2>1, <2>2, Passes
    <2> QED BY <1>3, <2>3
  <1>6. End(p) \/ Sets(p, k)
    BY <1>1 DEF Take, Forget, Reschedule, Sets, TypeOK
  <1> QED BY <1>4, <1>5, <1>6

\* A release that inventory has taken is owed until the cart is retired.
LEMMA GiveBackPasses ==
    ASSUME Answered, TypeOK, Clean, NEW p \in Procs, NEW c, AtWork(p, c), GiveBack(p)
    PROVE  Clean' /\ \E j, d : Hands(p, j, d) /\ Moves(c, d)
  <1> DEFINE w == proc[p]
  <1>1. /\ w.pc = "giveBack" /\ w.cart = c /\ w.ref = c /\ c \in Carts /\ items' = items /\ StockOK
        /\ w.lines = items[c] /\ w.lines \in Counts /\ \A x \in Products : items[c][x] \in Nat
    BY DEF AtWork, GiveBack, At, redis, TypeOK, Fits, JobOK, Causes
  <1>2. PICK outcome \in Outcomes :
            /\ DispatchRelease(c, w.lines, outcome)
            /\ Go(p, IF outcome = "error" THEN "reschedule" ELSE "retire")
    BY <1>1 DEF GiveBack
  <1>3. \A x \in Products : Owes(w, x) = 0 /\ Less(w.lines)[x] = -items[c][x] /\ Zero[x] = 0
    BY <1>1 DEF Owes, Less, Zero
  <1>4. \A x \in Products : w.lines[x] <= hold[c][x]
    <2>1. \A x \in Products : Pending(c, x) \in Nat /\ hold[c][x] = items[c][x] + Pending(c, x) + 0
      BY <1>3 DEF AtWork
    <2> QED BY <1>1, <2>1
  <1>5. /\ Clean' /\ outcome \in {"ok", "error"}
        /\ Moves(c, IF outcome = "ok" THEN Less(w.lines) ELSE Zero)
    BY <1>1, <1>2, <1>4, Gives
  <1>6. PICK x_ : x_ = IF outcome = "error" THEN "reschedule" ELSE "retire"
    OBVIOUS
  <1>7. PICK j : Sets(p, j) /\ j.pc = x_ /\ j.cart = c /\ j.lines = w.lines
    BY <1>1, <1>2, <1>6, Continues
  <1>8. CASE outcome = "ok"
    <2>1. Busy(j) /\ Fits(j, items[c]) /\ \A x \in Products : Owes(j, x) = -items[c][x]
      BY <1>1, <1>6, <1>7, <1>8 DEF Busy, Fits, Owes
    <2>2. Hands(p, j, Less(w.lines))
      BY <1>1, <1>3, <1>7, <2>1, Passes
    <2> QED BY <1>5, <1>8, <2>2
  <1>9. CASE outcome = "error"
    <2>1. Busy(j) /\ Fits(j, items[c]) /\ \A x \in Products : Owes(j, x) = 0
      BY <1>1, <1>6, <1>7, <1>9 DEF Busy, Fits, Owes
    <2>2. Hands(p, j, Zero)
      BY <1>1, <1>3, <1>7, <2>1, Passes
    <2> QED BY <1>5, <1>9, <2>2
  <1> QED BY <1>5, <1>8, <1>9

-----------------------------------------------------------------------------
(* Every step keeps carts and holds matched *)

\* A handler that works under the lock, whose calls are answered and who logs nothing.
LEMMA WorkPasses ==
    ASSUME Answered, TypeOK, Clean, NEW p \in Procs, NEW c, AtWork(p, c), WorkStep(p), logged' = {}
    PROVE  Clean' /\ \E j, d : Hands(p, j, d) /\ Moves(c, d)
  <1>1. ~RedisFails(p)
    BY DEF RedisFails, Answered
  <1>2. CASE Plan(p)
    <2>1. StockOK /\ UNCHANGED stock /\ c \in Carts
      BY <1>2 DEF Plan, TypeOK, AtWork
    <2>2. Clean' /\ Moves(c, Zero)
      BY <2>1, StaysPut
    <2> QED BY <1>2, <2>2, PlanPasses
  <1>3. CASE ReserveLines(p) \/ ReleaseLines(p) \/ Commit(p)
    BY <1>3, ReservePasses, ReleasePasses, CommitPasses
  <1>4. CASE UndoReserve(p) \/ UndoRelease(p)
    BY <1>4, UndoPasses
  <1>5. CASE CheckoutStep(p)
    BY <1>5, TransferPasses, RestorePasses, DiscardPasses DEF CheckoutStep
  <1>6. CASE ReleaseStep(p)
    BY <1>6, TakePasses, GiveBackPasses, DiscardPasses DEF ReleaseStep
  <1> QED BY <1>1, <1>2, <1>3, <1>4, <1>5, <1>6 DEF WorkStep, SetStep

\* Every step under the write lock keeps every cart in step.
LEMMA WorkMatches ==
    ASSUME Answered, Guarded, Clean, Balances, Current, NEW p \in Procs, WorkStep(p), logged' = {}
    PROVE  Clean' /\ Balances' /\ Current'
  <1>1. TypeOK /\ LockHeld
    BY DEF Guarded
  <1>2. Busy(proc[p])
    BY <1>1, WorkAdvances, BusyWhereItWorks
  <1>3. PICK c : AtWork(p, c)
    BY <1>1, <1>2, Attending
  <1>4. c = proc[p].cart
    BY <1>3 DEF AtWork
  <1>5. Clean' /\ \E j, d : Hands(p, j, d) /\ Moves(c, d)
    BY <1>1, <1>3, WorkPasses
  <1>6. PICK j, d : Hands(p, j, d) /\ Moves(c, d)
    BY <1>5
  <1>7. Balances' /\ Current'
    BY <1>1, <1>2, <1>4, <1>6, Handed
  <1> QED BY <1>5, <1>7

\* What inventory and the queue hold of every cart is as it was.
LEMMA SameNet ==
    ASSUME StockOK, Clean, UNCHANGED stock
    PROVE  Clean' /\ \A c \in Carts, x \in Products : Net(c, x)' = Net(c, x)
  <1>1. Clean'
    BY DEF Clean, stock, HeldOf
  <1> QED BY <1>1 DEF Net, Pending, stock

\* Taking a lock or giving it back begins or ends the work with nothing in hand.
LEMMA LockMatches ==
    ASSUME Answered, Guarded, Clean, Balances, Current, NEW p \in Procs, LockStep(p)
    PROVE  Clean' /\ Balances' /\ Current' /\ logged' = logged
  <1> DEFINE w == proc[p]
  <1>1. TypeOK /\ LockHeld /\ StockOK /\ JobOK(w) /\ w \in Job
    BY DEF Guarded, TypeOK
  <1>2. UNCHANGED <<items, stock, logged>>
    BY <1>1, LockLeaves
  <1>3. Clean' /\ \A c \in Carts, x \in Products : Net(c, x)' = Net(c, x)
    BY <1>1, <1>2, SameNet
  <1>4. \E j : /\ Sets(p, j) /\ (w.pc = "unlock" \/ ~Busy(w))
               /\ Busy(j) => j.pc \in {"plan", "read", "take"} /\ writeLock[j.cart] = Nobody
    <2>1. PICK j : Sets(p, j) /\ (Busy(j) => writeLock'[j.cart] = p)
      BY <1>1, LockAdvances DEF Advances
    <2>2. proc'[p] = j
      BY <1>1, <2>1 DEF TypeOK, Sets
    <2>3. w.pc = "unlock" \/ ~Busy(w)
      BY DEF LockStep, LockCart, LockRelease, LockForRelease, Unlock, UnlockRelease, LoseLock, Crash,
             At, Busy, Answered
    <2>4. Busy(j) => j.pc \in {"plan", "read", "take"} /\ writeLock[j.cart] = Nobody
      <3>1. CASE LockCart(p)
        <4>1. CASE proc' = [proc EXCEPT ![p] = Idle]
          BY <1>1, <2>2, <4>1 DEF TypeOK, Idle, Busy
        <4>2. CASE Free(writeLock, p) /\ Go(p, IF w.op = "set" THEN "plan" ELSE "read")
          BY <1>1, <2>2, <4>2 DEF TypeOK, Go, Free, Job
        <4> QED BY <3>1, <4>1, <4>2 DEF LockCart
      <3>2. CASE LockRelease(p)
        <4>1. CASE proc' = [proc EXCEPT ![p] = Idle]
          BY <1>1, <2>2, <4>1 DEF TypeOK, Idle, Busy
        <4>2. CASE Go(p, "writeLock")
          BY <1>1, <2>2, <4>2 DEF TypeOK, Go, Job, Busy
        <4> QED BY <3>2, <4>1, <4>2 DEF LockRelease
      <3>3. CASE LockForRelease(p)
        <4>1. CASE Free(writeLock, p) /\ Go(p, "take")
          BY <1>1, <2>2, <4>1 DEF TypeOK, Go, Free, Job
        <4>2. CASE Go(p, "unlockRelease")
          BY <1>1, <2>2, <4>2 DEF TypeOK, Go, Job, Busy
        <4> QED BY <3>3, <4>1, <4>2 DEF LockForRelease
      <3>4. CASE Unlock(p) \/ UnlockRelease(p)
        <4>1. CASE proc' = [proc EXCEPT ![p] = Idle]
          BY <1>1, <2>2, <4>1 DEF TypeOK, Idle, Busy
        <4>2. CASE Go(p, "unlockRelease")
          BY <1>1, <2>2, <4>2 DEF TypeOK, Go, Job, Busy
        <4> QED BY <3>4, <4>1, <4>2 DEF Unlock, UnlockRelease
      <3>5. ~LoseLock(p) /\ ~Crash(p)
        BY DEF LoseLock, Crash, Answered
      <3> QED BY <3>1, <3>2, <3>3, <3>4, <3>5 DEF LockStep
    <2> QED BY <2>1, <2>3, <2>4
  <1>5. PICK j : /\ Sets(p, j) /\ (w.pc = "unlock" \/ ~Busy(w))
                 /\ Busy(j) => j.pc \in {"plan", "read", "take"} /\ writeLock[j.cart] = Nobody
    BY <1>4
  <1>6. Balances' /\ Current'
    BY <1>1, <1>2, <1>3, <1>5, Attended
  <1> QED BY <1>2, <1>3, <1>6

\* A handler starts with nothing in hand.
LEMMA ArrivalMatches ==
    ASSUME Guarded, Clean, Balances, Current, NEW p \in Procs, NEW c \in Carts, Arrives(p, c)
    PROVE  Clean' /\ Balances' /\ Current' /\ logged' = logged
  <1>1. TypeOK /\ LockHeld /\ StockOK
    BY DEF Guarded, TypeOK
  <1>2. UNCHANGED <<stock, logged>> /\ items' = items /\ proc[p].pc = "idle"
    BY <1>1, ArrivesOK
  <1>3. PICK j : Sets(p, j) /\ j.pc \in {"lock", "releaseLock"}
    BY <1>1, ArrivesOK
  <1>4. Clean' /\ \A b \in Carts, x \in Products : Net(b, x)' = Net(b, x)
    BY <1>1, <1>2, SameNet
  <1>5. ~Busy(proc[p]) /\ ~Busy(j)
    BY <1>2, <1>3 DEF Busy
  <1>6. Balances' /\ Current'
    BY <1>1, <1>2, <1>3, <1>4, <1>5, Attended
  <1> QED BY <1>2, <1>4, <1>6

\* A step that changes neither the carts nor what is held of them.
LEMMA StillMatches ==
    ASSUME TypeOK, Balances, Current, proc' = proc, items' = items,
           \A c \in Carts, x \in Products : Net(c, x)' = Net(c, x)
    PROVE  Balances' /\ Current'
  <1>1. Current'
    BY DEF Current
  <1>2. \A c \in Carts : \A j : Balanced(c, j) => \A x \in Products : Net(c, x)' = items'[c][x] + Owes(j, x)
    BY DEF Balanced
  <1>3. \A c \in Carts, p \in Procs : Attends(p, c)' <=> Attends(p, c)
    BY DEF Attends
  <1>4. ASSUME NEW c \in Carts, NEW p \in Procs, Attends(p, c)'
        PROVE  \A x \in Products : Net(c, x)' = items'[c][x] + Owes(proc'[p], x)
    BY <1>2, <1>3, <1>4 DEF Balances
  <1>5. ASSUME NEW c \in Carts, \A p \in Procs : ~Attends(p, c)'
        PROVE  \A x \in Products : Net(c, x)' = items'[c][x] + Owes(Idle, x)
    BY <1>2, <1>3, <1>5 DEF Balances
  <1>6. Balances'
    BY <1>4, <1>5 DEF Balances, Balanced
  <1> QED BY <1>1, <1>6

\* No cart has more on its way back to inventory than it holds.
LEMMA WaitsForHeld ==
    ASSUME TypeOK, Clean, Balances, Current, NEW c \in Carts, NEW x \in Products
    PROVE  Pending(c, x) <= hold[c][x]
  <1>1. c \in Refs /\ StockOK /\ items[c][x] \in Nat
    BY DEF Refs, TypeOK, RedisOK, Counts
  <1>2. hold[c][x] \in Int /\ Pending(c, x) \in Nat
    BY <1>1, Holding
  <1>3. ASSUME NEW p \in Procs, Attends(p, c)
        PROVE  Pending(c, x) <= hold[c][x]
    <2> DEFINE w == proc[p]
    <2>1. /\ Busy(w) /\ w.cart = c /\ Fits(w, items[c]) /\ JobOK(w)
          /\ w.reserve[x] \in Nat /\ w.release[x] \in Nat
      BY <1>3 DEF Attends, Current, TypeOK, Job, Counts
    <2>2. Net(c, x) = items[c][x] + Owes(w, x)
      BY <1>3 DEF Balances, Balanced
    <2>3. Owes(w, x) \in Int /\ items[c][x] + Owes(w, x) >= 0
      <3>1. w.pc = "commit" => w.release[x] <= items[c][x]
        BY <2>1 DEF Fits
      <3>2. w.pc \in {"transferIn", "restore", "discard", "retire"} => w.lines[x] = items[c][x]
        BY <2>1 DEF Fits
      <3> QED BY <1>1, <2>1, <3>1, <3>2 DEF Owes
    <2> QED BY <1>1, <1>2, <2>2, <2>3 DEF Net
  <1>4. CASE \A p \in Procs : ~Attends(p, c)
    <2>1. Net(c, x) = items[c][x] + 0
      BY <1>4 DEF Balances, Balanced, Owes, Idle
    <2> QED BY <1>1, <1>2, <2>1 DEF Net
  <1> QED BY <1>3, <1>4

\* A late message takes only what its cart no longer lists.
LEMMA ConsumeMatches ==
    ASSUME TypeOK, Clean, Balances, Current, NEW k \in 1 .. Len(queue), Consume(k)
    PROVE  Clean' /\ Balances' /\ Current' /\ logged' = logged
  <1>1. StockOK /\ proc' = proc /\ items' = items /\ logged' = logged
    BY DEF TypeOK, Consume, redis
  <1>2. \A c \in Carts, x \in Products : Pending(c, x) <= hold[c][x]
    BY WaitsForHeld
  <1>3. Clean' /\ \A r \in Refs, x \in Products : Net(r, x)' = Net(r, x)
    BY <1>1, <1>2, Consumed
  <1>4. \A c \in Carts, x \in Products : Net(c, x)' = Net(c, x)
    BY <1>3 DEF Refs
  <1> QED BY <1>1, <1>3, <1>4, StillMatches

\* Time, the sweep's reading and a dead holder's lock leave carts and inventory alone.
LEMMA TimeMatches ==
    ASSUME Answered, TypeOK, Clean, Balances, Current,
           \/ \E c \in Carts : TimePasses(c) \/ LockLapses(c)
           \/ SweepReads
           \/ UNCHANGED vars
    PROVE  Clean' /\ Balances' /\ Current' /\ logged' = logged
  <1>1. UNCHANGED stock /\ proc' = proc /\ items' = items /\ logged' = logged
    BY DEF TimePasses, LockLapses, SweepReads, View, DropNotice, Sweep, Expire, ItemsLapse, WriteLockLapse,
           ReleaseLockLapse, DueBefore, SweepFails, Start, Answered, vars, redis
  <1>2. Clean' /\ \A c \in Carts, x \in Products : Net(c, x)' = Net(c, x)
    BY <1>1, SameNet DEF TypeOK
  <1> QED BY <1>1, <1>2, StillMatches

\* Nothing is listed, reserved or on its way.
LEMMA InitMatched == Init => Matched
  <1> SUFFICES ASSUME Init PROVE Clean /\ Balances /\ Current
    BY DEF Matched
  <1>1. \A r, x : Pending(r, x) = 0
    <2>1. \A r, x : Waiting(queue, r, x) = {}
      BY DEF Init, Waiting
    <2> QED BY <2>1, FS_EmptySet DEF Pending
  <1>2. \A p \in Procs : ~Busy(proc[p])
    BY DEF Init, Busy, Idle
  <1>3. \A r \in Refs, x \in Products : hold[r][x] = 0
    BY DEF Init, Zero
  <1>4. \A x \in Products : reserved[x] = 0
    BY DEF Init, Zero
  <1>5. \A x \in Products : Shared(reserved[x], HeldOf(x))
    BY <1>3, <1>4, NothingShared DEF HeldOf
  <1>6. \A k \in 1 .. Len(queue) : queue[k].ref \in Carts
    BY DEF Init
  <1>7. Clean
    BY <1>5, <1>6 DEF Clean, Init
  <1>8. \A c \in Carts, x \in Products : Net(c, x) = items[c][x] + Owes(Idle, x)
    <2>1. \A x : Owes(Idle, x) = 0
      BY DEF Owes, Idle
    <2>2. \A c \in Carts, x \in Products : items[c][x] = 0 /\ hold[c][x] = 0
      BY <1>3 DEF Init, Zero, Refs
    <2> QED BY <1>1, <2>1, <2>2 DEF Net
  <1>9. Balances /\ Current
    BY <1>2, <1>8 DEF Balances, Balanced, Current, Attends
  <1> QED BY <1>7, <1>9

\* A cart logged is never forgotten.
LEMMA LoggedGrows == TypeOK /\ [Next]_vars => logged \subseteq logged'
  <1> SUFFICES ASSUME TypeOK, [Next]_vars PROVE logged \subseteq logged'
    OBVIOUS
  <1>1. ASSUME NEW p \in Procs, WorkStep(p)
        PROVE  logged \subseteq logged'
    <2>1. CASE SetStep(p)
      BY <2>1 DEF SetStep, Plan, ReserveLines, ReleaseLines, Commit, UndoReserve, UndoRelease
    <2>2. CASE CheckoutStep(p)
      BY <2>2 DEF CheckoutStep, ReadLines, TransferOut, TransferIn, Restore, Discard
    <2>3. CASE ReleaseStep(p) \/ RedisFails(p)
      BY <2>3 DEF ReleaseStep, Take, Forget, GiveBack, Retire, Reschedule, RedisFails
    <2> QED BY <1>1, <2>1, <2>2, <2>3 DEF WorkStep
  <1>2. ASSUME NEW p \in Procs, LockStep(p) \/ \E c \in Carts : Arrives(p, c)
        PROVE  logged \subseteq logged'
    BY <1>2, LockLeaves, ArrivesOK
  <1>3. CASE (\E c \in Carts : TimePasses(c)) \/ SweepReads
    BY <1>3, TimeOK
  <1>4. CASE \/ \E c \in Carts : LockLapses(c)
             \/ \E k \in 1 .. Len(queue) : Consume(k)
             \/ UNCHANGED vars
    BY <1>4 DEF LockLapses, WriteLockLapse, ReleaseLockLapse, Consume, vars
  <1> QED BY <1>1, <1>2, <1>3, <1>4, Kinds

\* The invariant, step by step.
LEMMA MatchedStep ==
    ASSUME Answered, Guarded, Matched, [Next]_vars
    PROVE  Matched'
  <1> SUFFICES ASSUME logged' = {} PROVE Clean' /\ Balances' /\ Current'
    BY DEF Matched
  <1>1. TypeOK
    BY DEF Guarded
  <1>2. Clean /\ Balances /\ Current
    BY <1>1, LoggedGrows DEF Matched
  <1>3. ASSUME NEW p \in Procs, WorkStep(p) \/ LockStep(p) \/ \E c \in Carts : Arrives(p, c)
        PROVE  Clean' /\ Balances' /\ Current'
    BY <1>2, <1>3, WorkMatches, LockMatches, ArrivalMatches
  <1>4. CASE \E k \in 1 .. Len(queue) : Consume(k)
    BY <1>1, <1>2, <1>4, ConsumeMatches
  <1>5. CASE \/ \E c \in Carts : TimePasses(c) \/ LockLapses(c)
             \/ SweepReads
             \/ UNCHANGED vars
    BY <1>1, <1>2, <1>5, TimeMatches
  <1> QED BY <1>3, <1>4, <1>5, Kinds

\* What a cart lists is what inventory holds for it, whenever no handler has its write
\* lock and however updates, checkouts, releases and late messages interleave, so long
\* as a call that inventory does not answer was not applied, Redis answers and no
\* replica dies (withLock, and the order of calls and scripts under it).
THEOREM HoldsMatchCarts == Faults \subseteq {"unreachable", "slow"} => (Spec => []CartMatchesHold)
  <1> SUFFICES ASSUME Answered PROVE Spec => []CartMatchesHold
    BY DEF Answered
  <1>1. Guarded /\ Matched => CartMatchesHold
    <2> SUFFICES ASSUME Guarded, Matched, logged = {}, NEW c \in Carts, writeLock[c] = Nobody,
                        NEW x \in Products
                 PROVE  items[c][x] + Pending(c, x) = hold[c][x]
      BY DEF CartMatchesHold
    <2>1. \A p \in Procs : ~Attends(p, c)
      BY CartAssumption DEF Guarded, LockHeld, Attends
    <2>2. Net(c, x) = items[c][x] + 0
      BY <2>1 DEF Matched, Balances, Balanced, Owes, Idle
    <2>3. hold[c][x] \in Int /\ Pending(c, x) \in Nat
      BY Holding DEF Guarded, TypeOK, Matched, Refs
    <2>4. items[c][x] \in Nat
      BY DEF Guarded, TypeOK, RedisOK, Counts
    <2> QED BY <2>2, <2>3, <2>4 DEF Net
  <1>2. Guarded /\ Matched /\ [Next]_vars => (Guarded /\ Matched)'
    BY GuardedStep, MatchedStep DEF Answered
  <1> QED BY <1>1, <1>2, InitGuarded, InitMatched, PTL DEF Spec

\* No cart and no order ever gives back units that it does not hold, and inventory
\* refuses no release that the broker has taken, under the same condition: what is
\* reserved of a product is the sum of what each reference holds of it.
THEOREM NothingForeign == Faults \subseteq {"unreachable", "slow"} => (Spec => []NoForeignRelease)
  <1> SUFFICES ASSUME Answered PROVE Spec => []NoForeignRelease
    BY DEF Answered
  <1>1. Guarded /\ Matched => NoForeignRelease
    <2> SUFFICES ASSUME Guarded, Matched, logged = {}
                 PROVE  deadLetters = {} /\ \A r \in Refs, x \in Products : hold[r][x] >= 0
      BY DEF NoForeignRelease
    <2>1. Clean /\ StockOK
      BY DEF Matched, Guarded, TypeOK
    <2>2. \A r \in Refs, x \in Products : hold[r][x] \in 0 .. reserved[x] /\ reserved[x] \in 0 .. Units /\ Units \in Nat
      BY <2>1, Holding
    <2> QED BY <2>1, <2>2 DEF Clean
  <1>2. Guarded /\ Matched /\ [Next]_vars => (Guarded /\ Matched)'
    BY GuardedStep, MatchedStep DEF Answered
  <1> QED BY <1>1, <1>2, InitGuarded, InitMatched, PTL DEF Spec

===============================================================================
