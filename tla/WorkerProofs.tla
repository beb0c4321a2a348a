--------------------------- MODULE WorkerProofs ----------------------------
(***************************************************************************)
(* The worker's two jobs that repeat themselves, each proved on its own:   *)
(* the deliveries of Webhooks and the sweep of SlaSweep.                   *)
(*                                                                         *)
(* A delivery that is due has its job (PendingHasJob) because a worker     *)
(* adds the job before it commits the row (RetryIsQueued), nobody can take *)
(* it before that commit, and a job that fails leaves another one or       *)
(* strands its row.  Every run of the fanout has a number of its own       *)
(* because it follows a failure (Starts).                                  *)
(*                                                                         *)
(* A webhook's acceptances are bounded (PostedOnce) by counting, with      *)
(* those it gave, everything that may bring one more about (Chances): a    *)
(* fanout that has it to serve, a worker that tries, a job that waits.  A  *)
(* step adds a chance only for another, or counts it in again (Balance).   *)
(*                                                                         *)
(* The account of notices and losses (NoticedOnce) holds because a marker  *)
(* that a sweep has not committed is on a row no other sweep and no edit   *)
(* touches (Apart, Fresh), and because an edit writes back only markers    *)
(* that had been announced when it read them (KeptWasTold).                *)
(***************************************************************************)
EXTENDS Webhooks, SlaSweep, FiniteSetTheorems, TLAPS

-----------------------------------------------------------------------------
(* Webhooks. *)

\* The fanout runs on one worker at a time, and each of its runs is after a failure.
Fanning(w) == worker[w].on /\ worker[w].job = None

Starts ==
  /\ failed <= Failures
  /\ fan.st \in {"waiting", "active"} => fan.fails < FanoutRuns
  /\ fan.st = "waiting" => fan.starts <= fan.fails + failed
  /\ fan.st = "active" => 0 < fan.starts /\ fan.starts <= fan.fails + failed + 1
  /\ \A w \in Workers : Fanning(w) => /\ fan.st = "active"
                                      /\ \A v \in Workers \ {w} : ~Fanning(v)

\* A worker that tries a row again has it from taking the job to writing what became
\* of it.
Working ==
  \A w \in Workers :
    /\ ~worker[w].on => worker[w] = Idle
    /\ worker[w].ok # "unknown" => worker[w].at # None
    /\ worker[w].job # None =>
         /\ worker[w].todo = {}
         /\ worker[w].at # None => worker[w].at = worker[w].job /\ worker[w].wrote = {}
         /\ worker[w].at = None => /\ worker[w].wrote # {}
                                   /\ \A x \in worker[w].wrote : x.row = worker[w].job

\* A row that will be pending when its transaction commits has its job already, and
\* nobody takes that before.
RetryIsQueued ==
  \A w \in Workers : \A x \in worker[w].wrote : x.st = "pending" => jobs[x.row] > 0

Inv == TypeOK /\ Starts /\ Working /\ RetryIsQueued /\ PendingHasJob

-----------------------------------------------------------------------------
LEMMA NoRow == None \notin Rows /\ \A r \in Rows : r[1] \in Hooks
  BY DEF None, Rows

LEMMA IdleWorker == Idle \in Worker
  BY DEF Idle, Worker

LEMMA MoveWorker ==
  ASSUME TypeOK, NEW w \in Workers, NEW k \in Worker, worker' = [worker EXCEPT ![w] = k]
  PROVE  /\ worker' \in [Workers -> Worker]
         /\ worker'[w] = k /\ \A v \in Workers \ {w} : worker'[v] = worker[v]
  BY DEF TypeOK

\* The next run of the fanout still has a number.
LEMMA FreshRow ==
  ASSUME TypeOK, Starts, fan.st = "active", NEW h \in Hooks
  PROVE  <<h, fan.starts>> \in Rows
<1>1. fan.starts \in 1 .. FanoutRuns + Failures
  BY WebhooksAssumption DEF TypeOK, Starts
<1> QED BY <1>1 DEF Rows

\* A worker that goes on, or drops what it was at, leaves the runs of the fanout as
\* they are.
LEMMA StartsKept ==
  ASSUME TypeOK, Starts, NEW w \in Workers,
         \A v \in Workers \ {w} : worker'[v] = worker[v],
         fan' = fan, failed' = failed, Fanning(w)' => Fanning(w)
  PROVE  Starts'
<1>1. \A v \in Workers : Fanning(v)' => Fanning(v)
  BY DEF Fanning
<1> QED BY <1>1 DEF Starts

\* The invariant is one of each worker's record.
LEMMA WorkerStep ==
  ASSUME Working, RetryIsQueued, NEW w \in Workers,
         \A v \in Workers \ {w} : worker'[v] = worker[v],
         ~worker'[w].on => worker'[w] = Idle,
         worker'[w].ok # "unknown" => worker'[w].at # None,
         worker'[w].job # None =>
           /\ worker'[w].todo = {}
           /\ worker'[w].at # None => worker'[w].at = worker'[w].job /\ worker'[w].wrote = {}
           /\ worker'[w].at = None => /\ worker'[w].wrote # {}
                                      /\ \A x \in worker'[w].wrote : x.row = worker'[w].job,
         \A x \in worker'[w].wrote : x.st = "pending" => jobs'[x.row] > 0,
         \A v \in Workers \ {w} : \A x \in worker[v].wrote : x.st = "pending" => jobs'[x.row] > 0
  PROVE  Working' /\ RetryIsQueued'
<1>1. Working'
  <2> SUFFICES ASSUME NEW v \in Workers
               PROVE  /\ ~worker'[v].on => worker'[v] = Idle
                      /\ worker'[v].ok # "unknown" => worker'[v].at # None
                      /\ worker'[v].job # None =>
                           /\ worker'[v].todo = {}
                           /\ worker'[v].at # None => worker'[v].at = worker'[v].job /\ worker'[v].wrote = {}
                           /\ worker'[v].at = None => /\ worker'[v].wrote # {}
                                                      /\ \A x \in worker'[v].wrote : x.row = worker'[v].job
    BY DEF Working, Idle, None
  <2>1. CASE v = w
    BY <2>1
  <2>2. CASE v # w
    BY <2>2 DEF Working
  <2> QED BY <2>1, <2>2
<1>2. RetryIsQueued'
  BY DEF RetryIsQueued
<1> QED BY <1>1, <1>2

LEMMA IdleFacts ==
  /\ ~Idle.on /\ Idle.job = None /\ Idle.at = None /\ Idle.todo = {} /\ Idle.wrote = {}
  /\ Idle.ok = "unknown"
  BY DEF Idle

\* A worker that stops leaves nothing to keep.
LEMMA IdleStep ==
  ASSUME Working, RetryIsQueued, NEW w \in Workers,
         \A v \in Workers \ {w} : worker'[v] = worker[v], worker'[w] = Idle,
         \A r \in Rows : jobs'[r] >= jobs[r], TypeOK, jobs' \in [Rows -> Nat]
  PROVE  Working' /\ RetryIsQueued'
<1>1. \A v \in Workers : \A x \in worker[v].wrote : x.st = "pending" => jobs'[x.row] > 0
  BY DEF RetryIsQueued, TypeOK, Worker
<1> QED BY <1>1, IdleFacts, WorkerStep

-----------------------------------------------------------------------------
LEMMA RemoveStep ==
  ASSUME Inv, NEW h \in Hooks, Remove(h)
  PROVE  Inv'
<1>1. row' = [r \in Rows |-> IF r[1] = h THEN Absent ELSE row[r]]
  BY DEF Remove
<1>2. row' \in [Rows -> [st : {"none", "pending", "delivered", "failed"}, n : Nat]]
  BY <1>1 DEF Inv, TypeOK, Absent
<1>3. removed' \subseteq Hooks /\ UNCHANGED <<fan, jobs, worker, accepted, again, stranded, failed>>
  BY DEF Inv, TypeOK, Remove
<1>4. TypeOK'
  BY <1>2, <1>3 DEF Inv, TypeOK
<1>5. \A r \in Rows : row'[r].st = "pending" => row[r].st = "pending"
  BY <1>1 DEF Absent
<1>6. Starts' /\ Working' /\ RetryIsQueued' /\ PendingHasJob'
  BY <1>3, <1>5 DEF Inv, Starts, Fanning, Working, RetryIsQueued, PendingHasJob
<1> QED BY <1>4, <1>6 DEF Inv

LEMMA TakeFanoutStep ==
  ASSUME Inv, NEW w \in Workers, NEW hs \in SUBSET (Hooks \ removed), TakeFanout(w, hs)
  PROVE  Inv'
<1> DEFINE k == [Idle EXCEPT !.on = TRUE, !.todo = hs]
<1>1. k \in Worker /\ k.on /\ k.job = None /\ k.at = None /\ k.wrote = {} /\ k.ok = "unknown"
  BY DEF Idle, Worker
<1>2. worker' = [worker EXCEPT ![w] = k] /\ worker[w] = Idle
  BY DEF TakeFanout, Inv, Working
<1> HIDE DEF k
<1>3. /\ worker' \in [Workers -> Worker]
      /\ worker'[w] = k /\ \A v \in Workers \ {w} : worker'[v] = worker[v]
  BY <1>1, <1>2, MoveWorker DEF Inv
<1>4. /\ fan.st = "waiting" /\ fan'.st = "active" /\ fan'.starts = fan.starts + 1
      /\ fan'.fails = fan.fails /\ fan'.starts \in Nat /\ fan.starts \in Nat /\ fan.fails \in Nat
      /\ fan' \in [st : {"waiting", "active", "done", "dead"}, starts : Nat, fails : Nat]
  <2>1. fan.st = "waiting" /\ fan' = [fan EXCEPT !.st = "active", !.starts = fan.starts + 1]
    BY DEF TakeFanout
  <2>2. fan \in [st : {"waiting", "active", "done", "dead"}, starts : Nat, fails : Nat]
    BY DEF Inv, TypeOK
  <2>3. fan' = [st |-> "active", starts |-> fan.starts + 1, fails |-> fan.fails]
    BY <2>1, <2>2
  <2> QED BY <2>1, <2>2, <2>3
<1>5. UNCHANGED <<removed, row, jobs, accepted, again, stranded, failed>>
  BY DEF TakeFanout
<1>6. TypeOK'
  BY <1>3, <1>4, <1>5 DEF Inv, TypeOK
<1>7. Starts'
  <2>1. \A v \in Workers : ~Fanning(v)
    BY <1>4 DEF Inv, Starts
  <2>2. \A v \in Workers \ {w} : ~Fanning(v)'
    BY <1>3, <2>1 DEF Fanning
  <2>3. failed' = failed /\ failed \in Nat
    BY <1>5 DEF Inv, TypeOK
  <2>4. fan'.fails < FanoutRuns /\ 0 < fan'.starts /\ fan'.starts <= fan'.fails + failed' + 1
    BY <1>4, <2>3 DEF Inv, Starts
  <2> QED BY <1>4, <2>2, <2>3, <2>4 DEF Inv, Starts
<1>8. Working' /\ RetryIsQueued'
  <2>1. \A v \in Workers \ {w} : \A x \in worker[v].wrote : x.st = "pending" => jobs'[x.row] > 0
    BY <1>5 DEF Inv, RetryIsQueued
  <2> QED BY <1>1, <1>3, <2>1, WorkerStep DEF Inv
<1>9. PendingHasJob'
  BY <1>2, <1>3, <1>5, NoRow, IdleFacts DEF Inv, PendingHasJob
<1> QED BY <1>6, <1>7, <1>8, <1>9 DEF Inv

LEMMA MakeRowStep ==
  ASSUME Inv, NEW w \in Workers, NEW h \in Hooks, MakeRow(w, h)
  PROVE  Inv'
<1> DEFINE k == [worker[w] EXCEPT !.at = <<h, fan.starts>>, !.todo = @ \ {h}]
<1>1. Fanning(w) /\ worker[w] \in Worker
  BY DEF MakeRow, Fanning, Inv, TypeOK
<1>2. <<h, fan.starts>> \in Rows
  BY <1>1, FreshRow DEF Inv, Starts
<1>3. /\ k \in Worker /\ k.on = worker[w].on /\ k.job = worker[w].job /\ k.wrote = worker[w].wrote
      /\ k.at # None
  BY <1>1, <1>2, NoRow DEF Worker
<1>4. worker' = [worker EXCEPT ![w] = k]
  BY DEF MakeRow
<1> HIDE DEF k
<1>5. /\ worker' \in [Workers -> Worker]
      /\ worker'[w] = k /\ \A v \in Workers \ {w} : worker'[v] = worker[v]
  BY <1>3, <1>4, MoveWorker DEF Inv
<1>6. UNCHANGED <<removed, row, fan, jobs, accepted, again, stranded, failed>>
  BY DEF MakeRow
<1>7. TypeOK'
  BY <1>5, <1>6 DEF Inv, TypeOK
<1>8. Starts'
  BY <1>3, <1>5, <1>6, StartsKept DEF Inv, Fanning
<1>9. Working' /\ RetryIsQueued'
  <2>1. \A v \in Workers : \A x \in worker[v].wrote : x.st = "pending" => jobs'[x.row] > 0
    BY <1>6 DEF Inv, RetryIsQueued
  <2> QED BY <1>1, <1>3, <1>5, <2>1, WorkerStep DEF Inv, Fanning
<1>10. PendingHasJob'
  BY <1>3, <1>5, <1>6 DEF Inv, PendingHasJob
<1> QED BY <1>7, <1>8, <1>9, <1>10 DEF Inv

LEMMA TakeDeliverStep ==
  ASSUME Inv, NEW w \in Workers, NEW r \in Rows, TakeDeliver(w, r)
  PROVE  Inv'
<1>1. /\ worker[w] = Idle /\ jobs[r] \in Nat \ {0}
      /\ \A v \in Workers : \A x \in worker[v].wrote : x.row # r
  BY DEF TakeDeliver, Locked, Inv, Working, TypeOK
<1>2. /\ jobs' \in [Rows -> Nat] /\ \A q \in Rows \ {r} : jobs'[q] = jobs[q]
      /\ UNCHANGED <<removed, row, fan, accepted, again, stranded, failed>>
  BY <1>1 DEF TakeDeliver, Inv, TypeOK
<1>3. /\ worker' \in [Workers -> Worker] /\ \A v \in Workers \ {w} : worker'[v] = worker[v]
      /\ \/ worker'[w] = Idle /\ row[r].st # "pending"
         \/ /\ worker'[w].on /\ worker'[w].job = r /\ worker'[w].at = r
            /\ worker'[w].todo = {} /\ worker'[w].wrote = {}
  <2>1. CASE Owed(r)
    <3> DEFINE k == [Idle EXCEPT !.on = TRUE, !.job = r, !.at = r, !.tries = row[r].n]
    <3>1. k \in Worker /\ k.on /\ k.job = r /\ k.at = r /\ k.todo = {} /\ k.wrote = {}
      BY DEF Idle, Worker, Inv, TypeOK
    <3>2. worker' = [worker EXCEPT ![w] = k]
      BY <2>1 DEF TakeDeliver
    <3> HIDE DEF k
    <3> QED BY <3>1, <3>2, MoveWorker DEF Inv
  <2>2. CASE ~Owed(r)
    BY <1>1, <2>2 DEF TakeDeliver, Owed, Inv, TypeOK
  <2> QED BY <2>1, <2>2
<1>4. TypeOK'
  BY <1>2, <1>3 DEF Inv, TypeOK
<1>5. Starts'
  BY <1>2, <1>3, StartsKept, NoRow, IdleFacts DEF Inv, Fanning
<1>6. Working' /\ RetryIsQueued'
  <2>1. \A v \in Workers : \A x \in worker[v].wrote : x.st = "pending" => jobs'[x.row] > 0
    BY <1>1, <1>2 DEF Inv, RetryIsQueued, TypeOK, Worker
  <2> QED BY <1>3, <2>1, WorkerStep, NoRow, IdleFacts DEF Inv
<1>7. PendingHasJob'
  <2> SUFFICES ASSUME NEW q \in Rows, row'[q].st = "pending", q \notin stranded'
               PROVE  jobs'[q] > 0 \/ \E v \in Workers : worker'[v].job = q
    BY DEF PendingHasJob
  <2>1. jobs[q] > 0 \/ \E v \in Workers \ {w} : worker[v].job = q
    BY <1>1, <1>2, NoRow, IdleFacts DEF Inv, PendingHasJob
  <2> QED BY <1>2, <1>3, <2>1
<1> QED BY <1>4, <1>5, <1>6, <1>7 DEF Inv

LEMMA FetchStep ==
  ASSUME Inv, NEW w \in Workers, NEW ok \in {"yes", "no"}, Fetch(w, ok)
  PROVE  Inv'
<1> DEFINE k == [worker[w] EXCEPT !.ok = ok]
<1>1. worker[w] \in Worker
  BY DEF Inv, TypeOK
<1>2. /\ k \in Worker /\ k.on = worker[w].on /\ k.job = worker[w].job /\ k.at = worker[w].at
      /\ k.todo = worker[w].todo /\ k.wrote = worker[w].wrote
  BY <1>1 DEF Worker
<1>3. worker' = [worker EXCEPT ![w] = k]
  BY DEF Fetch
<1> HIDE DEF k
<1>4. /\ worker' \in [Workers -> Worker]
      /\ worker'[w] = k /\ \A v \in Workers \ {w} : worker'[v] = worker[v]
  BY <1>2, <1>3, MoveWorker DEF Inv
<1>5. UNCHANGED <<removed, row, fan, jobs, again, stranded, failed>>
  BY DEF Fetch
<1>6. accepted' \in [Hooks -> Nat]
  <2>1. accepted' = [accepted EXCEPT ![worker[w].at[1]] = IF ok = "yes" THEN @ + 1 ELSE @]
    BY DEF Fetch
  <2>2. worker[w].at[1] \in Hooks
    BY <1>1, NoRow DEF Fetch, Worker
  <2> QED BY <2>1, <2>2 DEF Inv, TypeOK
<1>7. TypeOK'
  BY <1>4, <1>5, <1>6 DEF Inv, TypeOK
<1>8. Starts'
  BY <1>2, <1>4, <1>5, StartsKept DEF Inv, Fanning
<1>9. Working' /\ RetryIsQueued'
  <2>1. \A v \in Workers : \A x \in worker[v].wrote : x.st = "pending" => jobs'[x.row] > 0
    BY <1>5 DEF Inv, RetryIsQueued
  <2>2. worker[w].on
    BY IdleFacts DEF Fetch, Inv, Working
  <2>3. worker'[w].job # None =>
          /\ worker'[w].todo = {}
          /\ worker'[w].at # None => worker'[w].at = worker'[w].job /\ worker'[w].wrote = {}
          /\ worker'[w].at = None => /\ worker'[w].wrote # {}
                                     /\ \A x \in worker'[w].wrote : x.row = worker'[w].job
    BY <1>2, <1>4 DEF Inv, Working
  <2>4. worker'[w].at # None
    BY <1>2, <1>4 DEF Fetch
  <2> QED BY <1>2, <1>4, <2>1, <2>2, <2>3, <2>4, WorkerStep DEF Inv
<1>10. PendingHasJob'
  BY <1>2, <1>4, <1>5 DEF Inv, PendingHasJob
<1> QED BY <1>7, <1>8, <1>9, <1>10 DEF Inv

LEMMA RecordStep ==
  ASSUME Inv, NEW w \in Workers, Record(w)
  PROVE  Inv'
<1> DEFINE r == worker[w].at
           x == Written(w)
           k == [worker[w] EXCEPT !.at = None, !.ok = "unknown", !.wrote = @ \cup {x}]
<1>1. /\ worker[w] \in Worker /\ worker[w].ok \in {"yes", "no"} /\ worker[w].tries \in Nat
      /\ worker[w].on /\ r \in Rows
  BY IdleFacts DEF Record, Inv, TypeOK, Working, Worker
<1>2. row[r].n \in Nat
  BY <1>1 DEF Inv, TypeOK
<1>3. /\ x \in [row : Rows, st : {"pending", "delivered", "failed"}, n : Nat]
      /\ x.row = r
      /\ x.st = "pending" => worker[w].ok = "no" /\ Retries(w)
  BY <1>1, <1>2 DEF Written, Attempts, Retries
<1> HIDE DEF x
<1>4. /\ k \in Worker /\ k.on /\ k.job = worker[w].job /\ k.at = None /\ k.ok = "unknown"
      /\ k.todo = worker[w].todo /\ k.wrote = worker[w].wrote \cup {x}
  BY <1>1, <1>3 DEF Worker
<1>5. worker' = [worker EXCEPT ![w] = k]
  BY DEF Record, x
<1> HIDE DEF k
<1>6. /\ worker' \in [Workers -> Worker]
      /\ worker'[w] = k /\ \A v \in Workers \ {w} : worker'[v] = worker[v]
  BY <1>4, <1>5, MoveWorker DEF Inv
<1>7. UNCHANGED <<removed, row, fan, accepted, again, stranded, failed>>
  BY DEF Record
<1>8. /\ jobs' \in [Rows -> Nat] /\ \A q \in Rows : jobs'[q] >= jobs[q]
      /\ x.st = "pending" => jobs'[r] > 0
  <2>1. CASE worker[w].ok = "no" /\ Retries(w)
    <3>1. jobs' = [jobs EXCEPT ![r] = @ + 1]
      BY <2>1 DEF Record
    <3> QED BY <1>1, <3>1 DEF Inv, TypeOK
  <2>2. CASE ~(worker[w].ok = "no" /\ Retries(w))
    <3>1. jobs' = jobs
      BY <2>2 DEF Record
    <3> QED BY <1>3, <2>2, <3>1 DEF Inv, TypeOK
  <2> QED BY <2>1, <2>2
<1>9. TypeOK'
  BY <1>6, <1>7, <1>8 DEF Inv, TypeOK
<1>10. Starts'
  BY <1>1, <1>4, <1>6, <1>7, StartsKept DEF Inv, Fanning
<1>11. Working' /\ RetryIsQueued'
  <2>1. \A v \in Workers : \A y \in worker[v].wrote : y.st = "pending" => jobs'[y.row] > 0
    <3> SUFFICES ASSUME NEW v \in Workers, NEW y \in worker[v].wrote, y.st = "pending"
                 PROVE  jobs'[y.row] > 0
      OBVIOUS
    <3>1. y.row \in Rows
      BY DEF Inv, TypeOK, Worker
    <3>2. jobs[y.row] > 0
      BY DEF Inv, RetryIsQueued
    <3> QED BY <1>8, <3>1, <3>2 DEF Inv, TypeOK
  <2>2. \A y \in worker'[w].wrote : y.st = "pending" => jobs'[y.row] > 0
    BY <1>3, <1>4, <1>6, <1>8, <2>1
  <2>3. worker[w].job # None => worker[w].todo = {} /\ worker[w].wrote = {} /\ x.row = worker[w].job
    BY <1>1, <1>3, NoRow DEF Inv, Working
  <2>4. worker'[w].job # None =>
          worker'[w].todo = {} /\ worker'[w].wrote # {} /\ \A y \in worker'[w].wrote : y.row = worker'[w].job
    BY <1>4, <1>6, <2>3
  <2> QED BY <1>4, <1>6, <2>1, <2>2, <2>4, WorkerStep DEF Inv
<1>12. PendingHasJob'
  <2> SUFFICES ASSUME NEW q \in Rows, row'[q].st = "pending", q \notin stranded'
               PROVE  jobs'[q] > 0 \/ \E v \in Workers : worker'[v].job = q
    BY DEF PendingHasJob
  <2>1. jobs[q] > 0 \/ \E v \in Workers : worker[v].job = q
    BY <1>7 DEF Inv, PendingHasJob
  <2>2. \A v \in Workers : worker'[v].job = worker[v].job
    BY <1>4, <1>6
  <2>3. jobs[q] \in Nat /\ jobs'[q] \in Nat /\ jobs'[q] >= jobs[q]
    BY <1>8 DEF Inv, TypeOK
  <2> QED BY <2>1, <2>2, <2>3
<1> QED BY <1>9, <1>10, <1>11, <1>12 DEF Inv

-----------------------------------------------------------------------------
\* What a commit makes pending has its job; a row it leaves alone keeps its own.
LEMMA CommitKeeps ==
  ASSUME Inv, NEW w \in Workers, Commits(w), stranded' = stranded,
         jobs' \in [Rows -> Nat], \A q \in Rows : jobs'[q] >= jobs[q]
  PROVE  /\ row' \in [Rows -> [st : {"none", "pending", "delivered", "failed"}, n : Nat]]
         /\ worker' \in [Workers -> Worker] /\ worker'[w] = Idle
         /\ \A v \in Workers \ {w} : worker'[v] = worker[v]
         /\ Working' /\ RetryIsQueued' /\ PendingHasJob'
<1>1. /\ worker' \in [Workers -> Worker] /\ worker'[w] = Idle
      /\ \A v \in Workers \ {w} : worker'[v] = worker[v]
  BY IdleWorker, MoveWorker DEF Commits, Inv
<1>2. Working' /\ RetryIsQueued'
  BY <1>1, IdleStep DEF Inv
<1>3. ASSUME NEW q \in Rows
      PROVE  /\ row'[q] \in [st : {"none", "pending", "delivered", "failed"}, n : Nat]
             /\ \/ \E x \in worker[w].wrote : x.row = q /\ row'[q].st = x.st
                \/ row'[q] = row[q] /\ \A x \in worker[w].wrote : x.row # q
  <2>1. CASE \E x \in worker[w].wrote : x.row = q
    <3> DEFINE x == CHOOSE x \in worker[w].wrote : x.row = q
    <3>1. x \in worker[w].wrote /\ x.row = q
      BY <2>1
    <3>2. row'[q] = [st |-> x.st, n |-> x.n]
      BY <2>1 DEF Commits
    <3> HIDE DEF x
    <3>3. x.st \in {"pending", "delivered", "failed"} /\ x.n \in Nat
      BY <3>1 DEF Inv, TypeOK, Worker
    <3> QED BY <3>1, <3>2, <3>3
  <2>2. CASE ~\E x \in worker[w].wrote : x.row = q
    BY <2>2 DEF Commits, Inv, TypeOK
  <2> QED BY <2>1, <2>2
<1>4. row' \in [Rows -> [st : {"none", "pending", "delivered", "failed"}, n : Nat]]
  <2>1. row' = [q \in Rows |-> row'[q]]
    BY DEF Commits
  <2> QED BY <1>3, <2>1
<1>5. PendingHasJob'
  <2> SUFFICES ASSUME NEW q \in Rows, row'[q].st = "pending", q \notin stranded'
               PROVE  jobs'[q] > 0 \/ \E v \in Workers : worker'[v].job = q
    BY DEF PendingHasJob
  <2>1. jobs[q] \in Nat /\ jobs'[q] \in Nat /\ jobs'[q] >= jobs[q]
    BY DEF Inv, TypeOK
  <2>2. CASE \E x \in worker[w].wrote : x.row = q /\ row'[q].st = x.st
    <3>1. jobs[q] > 0
      BY <2>2 DEF Inv, RetryIsQueued
    <3> QED BY <2>1, <3>1
  <2>3. CASE row'[q] = row[q] /\ \A x \in worker[w].wrote : x.row # q
    <3>1. jobs[q] > 0 \/ \E v \in Workers : worker[v].job = q
      BY <2>3 DEF Inv, PendingHasJob
    <3>2. worker[w].job # q
      BY <2>3, NoRow DEF Commits, Inv, Working
    <3> QED BY <1>1, <2>1, <3>1, <3>2
  <2> QED BY <1>3, <2>2, <2>3
<1> QED BY <1>1, <1>2, <1>4, <1>5

LEMMA CommitStep ==
  ASSUME Inv, NEW w \in Workers, Commit(w)
  PROVE  Inv'
<1>1. Commits(w) /\ UNCHANGED <<removed, jobs, accepted, again, stranded, failed>>
  BY DEF Commit
<1>2. jobs' \in [Rows -> Nat] /\ \A q \in Rows : jobs'[q] >= jobs[q]
  BY <1>1 DEF Inv, TypeOK
<1>3. /\ row' \in [Rows -> [st : {"none", "pending", "delivered", "failed"}, n : Nat]]
      /\ worker' \in [Workers -> Worker] /\ worker'[w] = Idle
      /\ \A v \in Workers \ {w} : worker'[v] = worker[v]
      /\ Working' /\ RetryIsQueued' /\ PendingHasJob'
  BY <1>1, <1>2, CommitKeeps
<1>4. fan' \in [st : {"waiting", "active", "done", "dead"}, starts : Nat, fails : Nat]
  BY DEF Commit, Inv, TypeOK
<1>5. TypeOK'
  BY <1>1, <1>2, <1>3, <1>4 DEF Inv, TypeOK
<1>6. Starts'
  <2>1. CASE Fanning(w)
    <3>1. fan'.st = "done"
      BY <2>1 DEF Commit, Fanning, Inv, TypeOK
    <3>2. \A v \in Workers : ~Fanning(v)'
      BY <1>3, <2>1, IdleFacts DEF Fanning, Inv, Starts
    <3> QED BY <1>1, <3>1, <3>2 DEF Inv, Starts
  <2>2. CASE ~Fanning(w)
    <3>1. fan' = fan
      BY <1>1, <2>2 DEF Commit, Commits, Fanning
    <3> QED BY <1>1, <1>3, <3>1, StartsKept, IdleFacts DEF Inv, Fanning
  <2> QED BY <2>1, <2>2
<1> QED BY <1>3, <1>5, <1>6 DEF Inv

LEMMA DueAgainTyped ==
  ASSUME TypeOK, NEW hs, DueAgain(hs)
  PROVE  again' \in [Hooks -> Nat]
  BY DEF DueAgain, TypeOK

\* The queue runs the same job once more; if it is the fanout, that is after a failure.
LEMMA RequeueStep ==
  ASSUME Inv, NEW w \in Workers, worker[w].on, Requeue(w),
         failed < Failures, failed' = failed + 1,
         worker' \in [Workers -> Worker], worker'[w] = Idle,
         \A v \in Workers \ {w} : worker'[v] = worker[v]
  PROVE  /\ jobs' \in [Rows -> Nat] /\ \A q \in Rows : jobs'[q] >= jobs[q]
         /\ worker[w].job # None => worker[w].job \in Rows /\ jobs'[worker[w].job] > 0
         /\ fan' \in [st : {"waiting", "active", "done", "dead"}, starts : Nat, fails : Nat]
         /\ failed' \in Nat /\ Starts'
<1>0. failed \in Nat /\ failed' \in Nat /\ failed' <= Failures
  BY WebhooksAssumption DEF Inv, TypeOK
<1>1. CASE worker[w].job = None
  <2>1. fan' = [fan EXCEPT !.st = "waiting"] /\ jobs' = jobs
    BY <1>1 DEF Requeue
  <2>2. fan \in [st : {"waiting", "active", "done", "dead"}, starts : Nat, fails : Nat]
    BY DEF Inv, TypeOK
  <2>3. Fanning(w)
    BY <1>1 DEF Fanning
  <2>4. \A v \in Workers : ~Fanning(v)'
    BY <2>3, IdleFacts DEF Fanning, Inv, Starts
  <2>5. fan.fails < FanoutRuns /\ fan.starts <= fan.fails + failed + 1
    BY <2>3 DEF Inv, Starts
  <2>6. /\ fan'.st = "waiting" /\ fan'.fails = fan.fails /\ fan'.starts = fan.starts
        /\ fan' \in [st : {"waiting", "active", "done", "dead"}, starts : Nat, fails : Nat]
    BY <2>1, <2>2
  <2>7. Starts'
    BY <1>0, <2>2, <2>4, <2>5, <2>6 DEF Starts
  <2> QED BY <1>0, <1>1, <2>1, <2>6, <2>7 DEF Inv, TypeOK
<1>2. CASE worker[w].job # None
  <2>1. jobs' = [jobs EXCEPT ![worker[w].job] = @ + 1] /\ fan' = fan
    BY <1>2 DEF Requeue
  <2>2. worker[w].job \in Rows
    BY <1>2 DEF Inv, TypeOK, Worker
  <2>3. /\ jobs' \in [Rows -> Nat] /\ jobs'[worker[w].job] > 0
        /\ \A q \in Rows : jobs'[q] >= jobs[q]
    BY <2>1, <2>2 DEF Inv, TypeOK
  <2>4. \A v \in Workers : Fanning(v)' => Fanning(v)
    BY IdleFacts DEF Fanning
  <2>5. fan.fails \in Nat /\ fan.starts \in Nat
    BY DEF Inv, TypeOK
  <2>6. Starts'
    BY <1>0, <2>1, <2>4, <2>5 DEF Inv, Starts
  <2> QED BY <1>0, <2>1, <2>2, <2>3, <2>6 DEF Inv, TypeOK
<1> QED BY <1>1, <1>2

LEMMA CrashStep ==
  ASSUME Inv, NEW w \in Workers, Crash(w)
  PROVE  Inv'
<1>1. /\ worker' \in [Workers -> Worker] /\ worker'[w] = Idle
      /\ \A v \in Workers \ {w} : worker'[v] = worker[v]
  BY IdleWorker, MoveWorker DEF Crash, Inv
<1>2. UNCHANGED <<removed, row, accepted, stranded>>
  BY DEF Crash
<1>3. again' \in [Hooks -> Nat]
  BY DueAgainTyped DEF Crash, Inv
<1>4. /\ jobs' \in [Rows -> Nat] /\ \A q \in Rows : jobs'[q] >= jobs[q]
      /\ worker[w].job # None => worker[w].job \in Rows /\ jobs'[worker[w].job] > 0
      /\ fan' \in [st : {"waiting", "active", "done", "dead"}, starts : Nat, fails : Nat]
      /\ failed' \in Nat /\ Starts'
  BY <1>1, RequeueStep DEF Crash
<1>5. TypeOK'
  BY <1>1, <1>2, <1>3, <1>4 DEF Inv, TypeOK
<1>6. Working' /\ RetryIsQueued'
  BY <1>1, <1>4, IdleStep DEF Inv
<1>7. PendingHasJob'
  <2> SUFFICES ASSUME NEW q \in Rows, row'[q].st = "pending", q \notin stranded'
               PROVE  jobs'[q] > 0 \/ \E v \in Workers : worker'[v].job = q
    BY DEF PendingHasJob
  <2>1. jobs[q] > 0 \/ \E v \in Workers : worker[v].job = q
    BY <1>2 DEF Inv, PendingHasJob
  <2>2. jobs[q] \in Nat /\ jobs'[q] \in Nat /\ jobs'[q] >= jobs[q]
    BY <1>4 DEF Inv, TypeOK
  <2> QED BY <1>1, <1>4, <2>1, <2>2, NoRow
<1> QED BY <1>4, <1>5, <1>6, <1>7 DEF Inv

LEMMA CrashLateStep ==
  ASSUME Inv, NEW w \in Workers, CrashLate(w)
  PROVE  Inv'
<1>1. /\ worker' \in [Workers -> Worker] /\ worker'[w] = Idle /\ worker[w].on
      /\ \A v \in Workers \ {w} : worker'[v] = worker[v]
  BY IdleWorker, MoveWorker DEF CrashLate, Commits, Inv
<1>2. UNCHANGED <<removed, accepted, stranded>>
  BY DEF CrashLate
<1>3. again' \in [Hooks -> Nat]
  BY DueAgainTyped DEF CrashLate, Inv
<1>4. /\ jobs' \in [Rows -> Nat] /\ \A q \in Rows : jobs'[q] >= jobs[q]
      /\ fan' \in [st : {"waiting", "active", "done", "dead"}, starts : Nat, fails : Nat]
      /\ failed' \in Nat /\ Starts'
  BY <1>1, RequeueStep DEF CrashLate
<1>5. /\ row' \in [Rows -> [st : {"none", "pending", "delivered", "failed"}, n : Nat]]
      /\ Working' /\ RetryIsQueued' /\ PendingHasJob'
  BY <1>2, <1>4, CommitKeeps DEF CrashLate
<1>6. TypeOK'
  BY <1>1, <1>2, <1>3, <1>4, <1>5 DEF Inv, TypeOK
<1> QED BY <1>4, <1>5, <1>6 DEF Inv

\* A job that fails is the last one of its row only if the row is counted among those
\* that are stranded.
LEMMA FailStep ==
  ASSUME Inv, NEW w \in Workers, Fail(w)
  PROVE  Inv'
<1>1. /\ worker' \in [Workers -> Worker] /\ worker'[w] = Idle
      /\ \A v \in Workers \ {w} : worker'[v] = worker[v]
  BY IdleWorker, MoveWorker DEF Fail, Inv
<1>2. UNCHANGED <<removed, row, jobs, accepted>>
  BY DEF Fail
<1>3. again' \in [Hooks -> Nat]
  BY DueAgainTyped DEF Fail, Inv
<1>4. failed \in Nat /\ failed' \in Nat /\ failed <= failed' /\ failed' <= Failures
  BY WebhooksAssumption DEF Fail, Inv, TypeOK, Starts
<1>5. fan' \in [st : {"waiting", "active", "done", "dead"}, starts : Nat, fails : Nat] /\ Starts'
  <2>1. fan \in [st : {"waiting", "active", "done", "dead"}, starts : Nat, fails : Nat]
    BY DEF Inv, TypeOK
  <2>2. CASE worker[w].job = None
    <3>1. Fanning(w)
      BY <2>2 DEF Fail, Fanning
    <3>2. \A v \in Workers : ~Fanning(v)'
      BY <1>1, <3>1, IdleFacts DEF Fanning, Inv, Starts
    <3>3. fan.fails < FanoutRuns /\ fan.starts <= fan.fails + failed + 1
      BY <3>1 DEF Inv, Starts
    <3>4. PICK st \in {"waiting", "dead"} :
            /\ fan' = [fan EXCEPT !.fails = fan.fails + 1, !.st = st]
            /\ st = "waiting" => fan.fails + 1 < FanoutRuns
      BY <2>2 DEF Fail
    <3>5. fan' = [st |-> st, starts |-> fan.starts, fails |-> fan.fails + 1]
      BY <2>1, <3>4
    <3>6. Starts'
      BY <1>4, <2>1, <3>2, <3>3, <3>4, <3>5 DEF Starts
    <3> QED BY <2>1, <3>5, <3>6
  <2>3. CASE worker[w].job # None
    <3>1. fan' = fan
      BY <2>3 DEF Fail
    <3>2. \A v \in Workers : Fanning(v)' => Fanning(v)
      BY <1>1, IdleFacts DEF Fanning
    <3>3. Starts'
      BY <1>4, <2>1, <3>1, <3>2 DEF Inv, Starts
    <3> QED BY <2>1, <3>1, <3>3
  <2> QED BY <2>2, <2>3
<1>6. stranded \subseteq stranded' /\ stranded' \subseteq Rows
  BY DEF Fail, Inv, TypeOK, Worker
<1>7. TypeOK'
  BY <1>1, <1>2, <1>3, <1>4, <1>5, <1>6 DEF Inv, TypeOK
<1>8. Working' /\ RetryIsQueued'
  <2>1. \A r \in Rows : jobs'[r] >= jobs[r]
    BY <1>2 DEF Inv, TypeOK
  <2> QED BY <1>1, <1>2, <2>1, IdleStep DEF Inv, TypeOK
<1>9. PendingHasJob'
  <2> SUFFICES ASSUME NEW q \in Rows, row'[q].st = "pending", q \notin stranded'
               PROVE  jobs'[q] > 0 \/ \E v \in Workers : worker'[v].job = q
    BY DEF PendingHasJob
  <2>1. jobs[q] > 0 \/ \E v \in Workers : worker[v].job = q
    BY <1>2, <1>6 DEF Inv, PendingHasJob
  <2>2. CASE worker[w].job = q
    <3>1. Beside(w) # {}
      BY <2>2, NoRow DEF Fail
    <3>2. jobs[q] > 0 \/ \E v \in Workers \ {w} : worker[v].job = q
      BY <2>2, <3>1 DEF Beside
    <3> QED BY <1>1, <1>2, <3>2
  <2>3. CASE worker[w].job # q
    BY <1>1, <1>2, <2>1, <2>3
  <2> QED BY <2>2, <2>3
<1> QED BY <1>5, <1>7, <1>8, <1>9 DEF Inv

-----------------------------------------------------------------------------
LEMMA Initially == Init => Inv
<1> SUFFICES ASSUME Init PROVE Inv
  OBVIOUS
<1>1. TypeOK
  BY IdleWorker DEF Init, TypeOK, Absent
<1>2. Starts
  BY IdleFacts, WebhooksAssumption DEF Init, Starts, Fanning
<1>3. Working /\ RetryIsQueued
  BY IdleFacts DEF Init, Working, RetryIsQueued
<1>4. PendingHasJob
  BY DEF Init, PendingHasJob, Absent
<1> QED BY <1>1, <1>2, <1>3, <1>4 DEF Inv

LEMMA Inductive == Inv /\ [Next]_vars => Inv'
<1> SUFFICES ASSUME Inv, [Next]_vars PROVE Inv'
  OBVIOUS
<1>1. CASE UNCHANGED vars
  BY <1>1 DEF vars, Inv, TypeOK, Starts, Fanning, Working, RetryIsQueued, PendingHasJob
<1>2. ASSUME NEW w \in Workers, Work(w) PROVE Inv'
  BY <1>2, TakeFanoutStep, MakeRowStep, TakeDeliverStep, FetchStep, RecordStep, CommitStep, FailStep
  DEF Work
<1> QED BY <1>1, <1>2, RemoveStep, FailStep, CrashStep, CrashLateStep DEF Next

LEMMA Invariance == Spec => []Inv
  BY Initially, Inductive, PTL DEF Spec

\* The queue, the deliveries and the fanout's runs keep their types: each run makes
\* rows under a number of its own.
THEOREM WebhooksTyped == Spec => []TypeOK
<1>1. Inv => TypeOK
  BY DEF Inv
<1> QED BY <1>1, Invariance, PTL

\* Whatever fails or runs twice, a delivery that is still due has a job that will try it,
\* or a worker at it; but for the rows counted as stranded (WebhookDeliverProcessor).
THEOREM NoneForgotten == Spec => []PendingHasJob
<1>1. Inv => PendingHasJob
  BY DEF Inv
<1> QED BY <1>1, Invariance, PTL

-----------------------------------------------------------------------------
(* What became of the event at one webhook, and what may still become of it. *)

\* A delivery that is settled, with nobody at it, stays so.
Live(r) == row[r] # Absent /\ (row[r].st = "delivered" => \E w \in Workers : worker[w].job = r)

\* A worker that has, or may have, its post refused, and leaves the next one to itself.
Trying(w, h) ==
  /\ worker[w].job # None /\ worker[w].job[1] = h /\ worker[w].ok # "yes"
  /\ \A x \in worker[w].wrote : x.st = "failed"

\* A fanout that may yet post to a webhook, in this run or in one after a failure.
Serving(h) ==
  \/ fan.st = "waiting"
  \/ \E w \in Workers : /\ Fanning(w)
                        /\ worker[w].ok = "yes" => worker[w].at[1] # h
                        /\ \A x \in worker[w].wrote : x.row[1] = h => x.st # "delivered"

TheFanout == <<"fanout", None, 0>>
AtIt(w) == <<"worker", w, 0>>
InQueue(r, i) == <<"job", r, i>>

\* Each may bring one more acceptance of the event about, unless what it is about is
\* made due again.
Chances(h) ==
  {c \in {TheFanout} : Serving(h)}
    \cup {AtIt(w) : w \in {w \in Workers : Trying(w, h)}}
    \cup {InQueue(p[1], p[2]) : p \in {p \in Rows \X Nat : /\ p[1][1] = h /\ Live(p[1])
                                                          /\ 0 < p[2] /\ p[2] <= jobs[p[1]]}}

Balance(h) == IsFiniteSet(Chances(h)) /\ accepted[h] + Cardinality(Chances(h)) <= 1 + again[h]

\* Rows are made under the number of their run; nobody takes a job of a run that has
\* not committed, and one job at most waits for each of its rows.
Unmade == \A r \in Rows : r[2] > fan.starts => row[r] = Absent /\ jobs[r] = 0

Retrying ==
  \A w \in Workers : worker[w].job # None =>
    /\ worker[w].job[2] <= fan.starts
    /\ worker[w].wrote # {} => row[worker[w].job] # Absent
    /\ \A x, y \in worker[w].wrote : x = y

Making ==
  \A w \in Workers : Fanning(w) =>
    /\ worker[w].at # None => worker[w].at[2] = fan.starts /\ worker[w].at[1] \notin worker[w].todo
    /\ \A x, y \in worker[w].wrote : x.row = y.row => x = y
    /\ \A x \in worker[w].wrote : /\ x.row[2] = fan.starts
                                  /\ x.row # worker[w].at /\ x.row[1] \notin worker[w].todo
    /\ \A r \in Rows : r[2] = fan.starts =>
         /\ row[r] = Absent
         /\ jobs[r] > 0 => jobs[r] = 1 /\ \E x \in worker[w].wrote : x.row = r /\ x.st = "pending"
    /\ \A v \in Workers : worker[v].job # None => worker[v].job[2] # fan.starts

Runs == Unmade /\ Retrying /\ Making

LEMMA RowIs == \A r \in Rows : r = <<r[1], r[2]>> /\ r[1] \in Hooks /\ r[2] \in Nat \ {0}
  BY WebhooksAssumption DEF Rows

LEMMA ChanceNames ==
  /\ \A w, r, i : AtIt(w) # TheFanout /\ InQueue(r, i) # TheFanout /\ AtIt(w) # InQueue(r, i)
  /\ \A w, v : AtIt(w) = AtIt(v) => w = v
  /\ \A r, q, i, j : InQueue(r, i) = InQueue(q, j) => r = q /\ i = j
  BY DEF TheFanout, AtIt, InQueue

\* To bound the chances, go through them.
LEMMA WithinNext ==
  ASSUME NEW h, NEW D, Serving(h)' => TheFanout \in D,
         \A w \in Workers : Trying(w, h)' => AtIt(w) \in D,
         \A r \in Rows, i \in Nat : r[1] = h /\ Live(r)' /\ 0 < i /\ i <= jobs'[r] => InQueue(r, i) \in D
  PROVE  Chances(h)' \subseteq D
  BY DEF Chances

LEMMA IsChance ==
  ASSUME NEW h
  PROVE  /\ Serving(h) => TheFanout \in Chances(h)
         /\ \A w \in Workers : Trying(w, h) => AtIt(w) \in Chances(h)
         /\ \A r \in Rows, i \in Nat :
              r[1] = h /\ Live(r) /\ 0 < i /\ i <= jobs[r] => InQueue(r, i) \in Chances(h)
<1>1. Serving(h) => TheFanout \in Chances(h)
  BY DEF Chances
<1>2. \A w \in Workers : Trying(w, h) => AtIt(w) \in Chances(h)
  BY DEF Chances
<1>3. ASSUME NEW r \in Rows, NEW i \in Nat, r[1] = h, Live(r), 0 < i, i <= jobs[r]
      PROVE  InQueue(r, i) \in Chances(h)
  <2> DEFINE p == <<r, i>>
  <2>1. p \in Rows \X Nat /\ p[1] = r /\ p[2] = i
    OBVIOUS
  <2>2. InQueue(p[1], p[2]) \in Chances(h)
    BY <1>3, <2>1 DEF Chances
  <2> QED BY <2>1, <2>2
<1> QED BY <1>1, <1>2, <1>3

LEMMA OneMore ==
  ASSUME NEW S, IsFiniteSet(S), NEW d
  PROVE  /\ IsFiniteSet(S \cup {d}) /\ Cardinality(S) \in Nat
         /\ Cardinality(S \cup {d}) \in Nat /\ Cardinality(S \cup {d}) <= Cardinality(S) + 1
<1>1. Cardinality(S) \in Nat
  BY FS_CardinalityType
<1>2. IsFiniteSet(S \cup {d}) /\ (Cardinality(S \cup {d}) = Cardinality(S) \/ Cardinality(S \cup {d}) = Cardinality(S) + 1)
  BY FS_AddElement
<1> QED BY <1>1, <1>2

\* A step keeps the account if it adds no chance, or one for one that is gone, or one
\* for an event that is made due again; an acceptance costs one.
LEMMA Keeps ==
  ASSUME TypeOK, TypeOK', NEW h \in Hooks, Balance(h), again'[h] >= again[h],
         accepted'[h] = accepted[h], Chances(h)' \subseteq Chances(h)
  PROVE  Balance(h)'
<1>1. IsFiniteSet(Chances(h)) /\ Cardinality(Chances(h)) \in Nat
  BY FS_CardinalityType DEF Balance
<1>2. /\ IsFiniteSet(Chances(h)') /\ Cardinality(Chances(h)') \in Nat
      /\ Cardinality(Chances(h)') <= Cardinality(Chances(h))
  BY <1>1, FS_Subset, FS_CardinalityType
<1>3. accepted[h] \in Nat /\ again[h] \in Nat /\ accepted'[h] \in Nat /\ again'[h] \in Nat
  BY DEF TypeOK
<1> QED BY <1>1, <1>2, <1>3 DEF Balance

LEMMA Trades ==
  ASSUME TypeOK, TypeOK', NEW h \in Hooks, Balance(h), again'[h] >= again[h],
         accepted'[h] = accepted[h],
         NEW c \in Chances(h), NEW d, Chances(h)' \subseteq (Chances(h) \ {c}) \cup {d}
  PROVE  Balance(h)'
<1> DEFINE R == Chances(h) \ {c}
           U == R \cup {d}
<1>1. IsFiniteSet(R) /\ Cardinality(R) = Cardinality(Chances(h)) - 1 /\ Cardinality(Chances(h)) \in Nat
  BY FS_RemoveElement, FS_CardinalityType DEF Balance
<1>2. IsFiniteSet(U) /\ Cardinality(U) \in Nat /\ Cardinality(U) <= Cardinality(Chances(h))
  <2> HIDE DEF R
  <2>1. IsFiniteSet(R \cup {d}) /\ Cardinality(R \cup {d}) \in Nat /\ Cardinality(R \cup {d}) <= Cardinality(R) + 1
    BY <1>1, OneMore
  <2> QED BY <1>1, <2>1
<1>3. /\ IsFiniteSet(Chances(h)') /\ Cardinality(Chances(h)') \in Nat
      /\ Cardinality(Chances(h)') <= Cardinality(U)
  <2>1. Chances(h)' \subseteq U
    OBVIOUS
  <2> HIDE DEF U
  <2> QED BY <1>2, <2>1, FS_Subset, FS_CardinalityType
<1>4. accepted[h] \in Nat /\ again[h] \in Nat /\ accepted'[h] \in Nat /\ again'[h] \in Nat
  BY DEF TypeOK
<1> HIDE DEF U, R
<1> QED BY <1>1, <1>2, <1>3, <1>4 DEF Balance

LEMMA Owes ==
  ASSUME TypeOK, TypeOK', NEW h \in Hooks, Balance(h), again'[h] = again[h] + 1,
         accepted'[h] = accepted[h], NEW d, Chances(h)' \subseteq Chances(h) \cup {d}
  PROVE  Balance(h)'
<1> DEFINE U == Chances(h) \cup {d}
<1>1. IsFiniteSet(Chances(h)) /\ Cardinality(Chances(h)) \in Nat
  BY FS_CardinalityType DEF Balance
<1>2. IsFiniteSet(U) /\ Cardinality(U) \in Nat /\ Cardinality(U) <= Cardinality(Chances(h)) + 1
  BY <1>1, OneMore
<1>3. /\ IsFiniteSet(Chances(h)') /\ Cardinality(Chances(h)') \in Nat
      /\ Cardinality(Chances(h)') <= Cardinality(U)
  <2>1. Chances(h)' \subseteq U
    OBVIOUS
  <2> HIDE DEF U
  <2> QED BY <1>2, <2>1, FS_Subset, FS_CardinalityType
<1>4. accepted[h] \in Nat /\ again[h] \in Nat /\ accepted'[h] \in Nat /\ again'[h] \in Nat
  BY DEF TypeOK
<1> HIDE DEF U
<1> QED BY <1>1, <1>2, <1>3, <1>4 DEF Balance

LEMMA Spends ==
  ASSUME TypeOK, TypeOK', NEW h \in Hooks, Balance(h), again'[h] >= again[h],
         accepted'[h] = accepted[h] + 1,
         NEW c \in Chances(h), Chances(h)' \subseteq Chances(h) \ {c}
  PROVE  Balance(h)'
<1> DEFINE R == Chances(h) \ {c}
<1>1. IsFiniteSet(R) /\ Cardinality(R) = Cardinality(Chances(h)) - 1 /\ Cardinality(Chances(h)) \in Nat
  BY FS_RemoveElement, FS_CardinalityType DEF Balance
<1>2. /\ IsFiniteSet(Chances(h)') /\ Cardinality(Chances(h)') \in Nat
      /\ Cardinality(Chances(h)') <= Cardinality(R)
  <2>1. Chances(h)' \subseteq R
    OBVIOUS
  <2> HIDE DEF R
  <2> QED BY <1>1, <2>1, FS_Subset, FS_CardinalityType
<1>3. accepted[h] \in Nat /\ again[h] \in Nat /\ accepted'[h] \in Nat /\ again'[h] \in Nat
  BY DEF TypeOK
<1> HIDE DEF R
<1> QED BY <1>1, <1>2, <1>3 DEF Balance

Account == Runs /\ \A h \in Hooks : Balance(h)

LEMMA AccountOpens == Init => Account
<1> SUFFICES ASSUME Init PROVE Account
  OBVIOUS
<1>1. Runs
  BY IdleFacts DEF Init, Runs, Unmade, Retrying, Making, Fanning
<1>2. ASSUME NEW h \in Hooks PROVE Balance(h)
  <2>1. Chances(h) \subseteq {TheFanout}
    <3>1. \A w \in Workers : ~Trying(w, h)
      BY IdleFacts DEF Init, Trying
    <3>2. \A r \in Rows : ~Live(r)
      BY DEF Init, Live
    <3> QED BY <3>1, <3>2 DEF Chances
  <2>2. IsFiniteSet({TheFanout}) /\ Cardinality({TheFanout}) = 1
    BY FS_Singleton
  <2>3. IsFiniteSet(Chances(h)) /\ Cardinality(Chances(h)) \in Nat /\ Cardinality(Chances(h)) <= 1
    BY <2>1, <2>2, FS_Subset, FS_CardinalityType
  <2>4. accepted[h] = 0 /\ again[h] = 0
    BY DEF Init
  <2> QED BY <2>3, <2>4 DEF Balance
<1> QED BY <1>1, <1>2 DEF Account

LEMMA RemoveAccount ==
  ASSUME Inv, Inv', Account, NEW g \in Hooks, Remove(g)
  PROVE  Account'
<1>1. /\ UNCHANGED <<fan, jobs, worker, accepted, again>>
      /\ \A r \in Rows : row'[r] = IF r[1] = g THEN Absent ELSE row[r]
      /\ \A r \in Rows : r[1] = g => ~Locked(r)
  BY DEF Remove
<1>2. Unmade'
  BY <1>1 DEF Account, Runs, Unmade
<1>3. Retrying'
  <2> SUFFICES ASSUME NEW w \in Workers, worker[w].job # None, worker[w].wrote # {}
               PROVE  row'[worker[w].job] # Absent
    BY <1>1 DEF Account, Runs, Retrying
  <2>1. worker[w].job \in Rows /\ row[worker[w].job] # Absent
    BY DEF Account, Runs, Retrying, Inv, TypeOK, Worker
  <2>2. Locked(worker[w].job)
    BY DEF Locked, Inv, Working
  <2> QED BY <1>1, <2>1, <2>2
<1>4. Making'
  BY <1>1 DEF Account, Runs, Making, Fanning
<1>5. ASSUME NEW h \in Hooks PROVE Balance(h)'
  <2>1. \A r \in Rows : Live(r)' => Live(r)
    BY <1>1 DEF Live
  <2>2. Serving(h)' => Serving(h)
    BY <1>1 DEF Serving, Fanning
  <2>3. \A w \in Workers : Trying(w, h)' => Trying(w, h)
    BY <1>1 DEF Trying
  <2>4. Chances(h)' \subseteq Chances(h)
    BY <1>1, <2>1, <2>2, <2>3, IsChance, WithinNext
  <2>5. again'[h] >= again[h] /\ accepted'[h] = accepted[h]
    BY <1>1 DEF Inv, TypeOK
  <2> QED BY <2>4, <2>5, Keeps DEF Inv, Account
<1> QED BY <1>2, <1>3, <1>4, <1>5 DEF Account, Runs

LEMMA TakeFanoutAccount ==
  ASSUME Inv, Inv', Account, NEW w \in Workers, NEW hs \in SUBSET (Hooks \ removed), TakeFanout(w, hs)
  PROVE  Account'
<1>1. /\ worker[w] = Idle /\ fan.st = "waiting" /\ fan'.st = "active"
      /\ fan'.starts = fan.starts + 1 /\ fan.starts \in Nat
      /\ \A v \in Workers \ {w} : worker'[v] = worker[v]
      /\ worker'[w].on /\ worker'[w].job = None /\ worker'[w].at = None /\ worker'[w].wrote = {}
      /\ worker'[w].ok = "unknown"
      /\ UNCHANGED <<row, jobs, accepted, again>>
  BY DEF TakeFanout, Inv, TypeOK, Working, Idle
<1>2. \A v \in Workers : ~Fanning(v)
  BY <1>1 DEF Inv, Starts
<1>3. Unmade'
  BY <1>1, RowIs DEF Account, Runs, Unmade
<1>4. Retrying'
  <2> SUFFICES ASSUME NEW v \in Workers, worker'[v].job # None
               PROVE  /\ worker'[v].job[2] <= fan'.starts
                      /\ worker'[v].wrote # {} => row'[worker'[v].job] # Absent
                      /\ \A x, y \in worker'[v].wrote : x = y
    BY DEF Retrying
  <2>1. worker'[v] = worker[v] /\ worker[v].job \in Rows
    BY <1>1 DEF Inv, TypeOK, Worker
  <2> QED BY <1>1, <2>1, RowIs DEF Account, Runs, Retrying
<1>5. Making'
  <2>1. \A v \in Workers : Fanning(v)' => v = w
    BY <1>1, <1>2 DEF Fanning
  <2>2. \A r \in Rows : r[2] = fan'.starts => row'[r] = Absent /\ jobs'[r] = 0
    BY <1>1 DEF Account, Runs, Unmade
  <2>3. \A v \in Workers : worker'[v].job # None => worker'[v].job[2] # fan'.starts
    <3> SUFFICES ASSUME NEW v \in Workers, worker'[v].job # None PROVE worker'[v].job[2] # fan'.starts
      OBVIOUS
    <3>1. worker'[v] = worker[v] /\ worker[v].job \in Rows
      BY <1>1 DEF Inv, TypeOK, Worker
    <3> QED BY <1>1, <3>1, RowIs DEF Account, Runs, Retrying
  <2> QED BY <1>1, <2>1, <2>2, <2>3 DEF Making
<1>6. ASSUME NEW h \in Hooks PROVE Balance(h)'
  <2>1. \A r \in Rows : Live(r)' => Live(r)
    BY <1>1, NoRow DEF Live
  <2>2. Serving(h)
    BY <1>1 DEF Serving
  <2>3. \A v \in Workers : Trying(v, h)' => Trying(v, h)
    BY <1>1 DEF Trying
  <2>4. Chances(h)' \subseteq Chances(h)
    BY <1>1, <2>1, <2>2, <2>3, IsChance, WithinNext
  <2>5. again'[h] >= again[h] /\ accepted'[h] = accepted[h]
    BY <1>1 DEF Inv, TypeOK
  <2> QED BY <2>4, <2>5, Keeps DEF Inv, Account
<1> QED BY <1>3, <1>4, <1>5, <1>6 DEF Account, Runs

LEMMA MakeRowAccount ==
  ASSUME Inv, Inv', Account, NEW w \in Workers, NEW g \in Hooks, MakeRow(w, g)
  PROVE  Account'
<1>0. worker'[w] = [worker[w] EXCEPT !.at = <<g, fan.starts>>, !.todo = @ \ {g}] /\ worker[w] \in Worker
  BY DEF MakeRow, Inv, TypeOK
<1>1. /\ Fanning(w) /\ worker[w].at = None /\ worker[w].ok = "unknown" /\ g \in worker[w].todo
      /\ \A v \in Workers \ {w} : worker'[v] = worker[v]
      /\ UNCHANGED <<row, fan, jobs, accepted, again>>
  BY DEF MakeRow, Fanning, Inv, TypeOK, Working
<1>2. /\ worker'[w].on = worker[w].on /\ worker'[w].job = None /\ worker[w].job = None
      /\ worker'[w].at = <<g, fan.starts>> /\ worker'[w].todo = worker[w].todo \ {g}
      /\ worker'[w].wrote = worker[w].wrote /\ worker'[w].ok = worker[w].ok
  BY <1>0, <1>1 DEF Worker, Fanning
<1>3. Unmade'
  BY <1>1 DEF Account, Runs, Unmade
<1>4. Retrying'
  BY <1>1, <1>2 DEF Account, Runs, Retrying
<1>5. \A v \in Workers : Fanning(v)' => v = w
  BY <1>1 DEF Inv, Starts, Fanning
<1>6. Making'
  <2>1. \A x \in worker[w].wrote : x.row # <<g, fan.starts>> /\ x.row[1] \notin worker[w].todo
    BY <1>1 DEF Account, Runs, Making
  <2>2. \A v \in Workers : worker'[v].job # None => worker'[v].job[2] # fan'.starts
    BY <1>1, <1>2 DEF Account, Runs, Making
  <2>3. /\ \A x, y \in worker[w].wrote : x.row = y.row => x = y
        /\ \A x \in worker[w].wrote : x.row[2] = fan.starts
        /\ \A r \in Rows : r[2] = fan.starts =>
             /\ row[r] = Absent
             /\ jobs[r] > 0 => jobs[r] = 1 /\ \E x \in worker[w].wrote : x.row = r /\ x.st = "pending"
    BY <1>1 DEF Account, Runs, Making
  <2> QED BY <1>1, <1>2, <1>5, <2>1, <2>2, <2>3 DEF Making
<1>7. ASSUME NEW h \in Hooks PROVE Balance(h)'
  <2>1. \A r \in Rows : Live(r)' => Live(r)
    BY <1>1, <1>2, NoRow DEF Live
  <2>2. Serving(h)' => Serving(h)
    BY <1>1, <1>2, <1>5 DEF Serving
  <2>3. \A v \in Workers : Trying(v, h)' => Trying(v, h)
    BY <1>1, <1>2 DEF Trying
  <2>4. Chances(h)' \subseteq Chances(h)
    BY <1>1, <2>1, <2>2, <2>3, IsChance, WithinNext
  <2>5. again'[h] >= again[h] /\ accepted'[h] = accepted[h]
    BY <1>1 DEF Inv, TypeOK
  <2> QED BY <2>4, <2>5, Keeps DEF Inv, Account
<1> QED BY <1>3, <1>4, <1>6, <1>7 DEF Account, Runs

LEMMA TakeDeliverAccount ==
  ASSUME Inv, Inv', Account, NEW w \in Workers, NEW r \in Rows, TakeDeliver(w, r)
  PROVE  Account'
<1>1. /\ worker[w] = Idle /\ jobs[r] \in Nat \ {0} /\ ~Locked(r)
      /\ jobs'[r] = jobs[r] - 1 /\ \A q \in Rows \ {r} : jobs'[q] = jobs[q]
      /\ UNCHANGED <<row, fan, accepted, again>>
  BY DEF TakeDeliver, Inv, Working, TypeOK
<1>2. \A v \in Workers \ {w} : worker'[v] = worker[v]
  BY DEF TakeDeliver, Inv, TypeOK
<1>3. \/ worker'[w] = Idle
      \/ /\ Owed(r) /\ worker'[w].on /\ worker'[w].job = r /\ worker'[w].at = r
         /\ worker'[w].wrote = {} /\ worker'[w].ok = "unknown"
  <2>1. CASE Owed(r)
    <3>1. worker'[w] = [Idle EXCEPT !.on = TRUE, !.job = r, !.at = r, !.tries = row[r].n]
      BY <2>1 DEF TakeDeliver, Inv, TypeOK
    <3> QED BY <2>1, <3>1 DEF Idle
  <2>2. CASE ~Owed(r)
    BY <1>1, <2>2 DEF TakeDeliver
  <2> QED BY <2>1, <2>2
<1>4. Owed(r) => row[r] # Absent /\ row[r].st # "delivered"
  BY DEF Owed, Absent
<1>5. r[2] <= fan.starts
  BY <1>1, RowIs DEF Account, Runs, Unmade, Inv, TypeOK
<1>6. Unmade'
  BY <1>1, <1>5, RowIs DEF Account, Runs, Unmade, Inv, TypeOK
<1>7. Retrying'
  BY <1>1, <1>2, <1>3, <1>5, IdleFacts DEF Account, Runs, Retrying
<1>8. Making'
  <2> SUFFICES ASSUME NEW v \in Workers, Fanning(v)'
               PROVE  /\ Fanning(v) /\ worker'[v] = worker[v]
                      /\ \A q \in Rows : q[2] = fan.starts => row[q] = Absent /\ jobs'[q] = jobs[q]
                      /\ \A u \in Workers : worker'[u].job # None => worker'[u].job[2] # fan.starts
    BY <1>1 DEF Account, Runs, Making
  <2>1. v # w
    BY <1>3, IdleFacts, NoRow DEF Fanning
  <2>2. Fanning(v) /\ worker'[v] = worker[v]
    BY <1>2, <2>1 DEF Fanning
  <2>3. \A q \in Rows : q[2] = fan.starts =>
          /\ row[q] = Absent
          /\ jobs[q] > 0 => jobs[q] = 1 /\ \E x \in worker[v].wrote : x.row = q /\ x.st = "pending"
    BY <2>2 DEF Account, Runs, Making
  <2>4. r[2] # fan.starts
    BY <1>1, <2>3 DEF Locked
  <2>5. \A u \in Workers : worker[u].job # None => worker[u].job[2] # fan.starts
    BY <2>2 DEF Account, Runs, Making
  <2> QED BY <1>1, <1>2, <1>3, <2>2, <2>3, <2>4, <2>5, IdleFacts
<1>9. ASSUME NEW h \in Hooks PROVE Balance(h)'
  <2>1. \A q \in Rows : Live(q)' => Live(q)
    BY <1>1, <1>2, <1>3, <1>4, IdleFacts, NoRow DEF Live
  <2>2. Serving(h)' => Serving(h)
    BY <1>1, <1>2, <1>3, IdleFacts, NoRow DEF Serving, Fanning
  <2>3. again'[h] >= again[h] /\ accepted'[h] = accepted[h]
    BY <1>1 DEF Inv, TypeOK
  <2>4. \A q \in Rows : jobs'[q] <= jobs[q] /\ jobs[q] \in Nat /\ jobs'[q] \in Nat
    BY <1>1 DEF Inv, TypeOK
  <2>5. \A v \in Workers : Trying(v, h)' => Trying(v, h) \/ (v = w /\ Owed(r) /\ r[1] = h)
    BY <1>2, <1>3, IdleFacts DEF Trying
  <2>6. CASE Owed(r) /\ r[1] = h
    <3>1. InQueue(r, jobs[r]) \in Chances(h)
      BY <1>1, <1>4, <2>6, IsChance DEF Live
    <3>2. Chances(h)' \subseteq (Chances(h) \ {InQueue(r, jobs[r])}) \cup {AtIt(w)}
      <4> DEFINE D == (Chances(h) \ {InQueue(r, jobs[r])}) \cup {AtIt(w)}
      <4>1. Serving(h)' => TheFanout \in D
        BY <2>2, IsChance, ChanceNames
      <4>2. \A v \in Workers : Trying(v, h)' => AtIt(v) \in D
        BY <2>5, IsChance, ChanceNames
      <4>3. \A q \in Rows, i \in Nat : q[1] = h /\ Live(q)' /\ 0 < i /\ i <= jobs'[q] => InQueue(q, i) \in D
        <5> SUFFICES ASSUME NEW q \in Rows, NEW i \in Nat, q[1] = h, Live(q)', 0 < i, i <= jobs'[q]
                     PROVE  InQueue(q, i) \in D
          OBVIOUS
        <5>1. InQueue(q, i) \in Chances(h)
          BY <2>1, <2>4, IsChance
        <5>2. q # r \/ i # jobs[r]
          BY <1>1
        <5> QED BY <5>1, <5>2, ChanceNames
      <4> HIDE DEF D
      <4>4. Chances(h)' \subseteq D
        BY <4>1, <4>2, <4>3, WithinNext
      <4> QED BY <4>4 DEF D
    <3> QED BY <2>3, <3>1, <3>2, Trades DEF Inv, Account
  <2>7. CASE ~(Owed(r) /\ r[1] = h)
    <3>1. Chances(h)' \subseteq Chances(h)
      BY <2>1, <2>2, <2>4, <2>5, <2>7, IsChance, WithinNext
    <3> QED BY <2>3, <3>1, Keeps DEF Inv, Account
  <2> QED BY <2>6, <2>7
<1> QED BY <1>6, <1>7, <1>8, <1>9 DEF Account, Runs

LEMMA FetchAccount ==
  ASSUME Inv, Inv', Account, NEW w \in Workers, NEW ok \in {"yes", "no"}, Fetch(w, ok)
  PROVE  Account'
<1>1. /\ worker[w].at \in Rows /\ worker[w].ok = "unknown" /\ worker[w].on
      /\ \A v \in Workers \ {w} : worker'[v] = worker[v]
      /\ UNCHANGED <<row, fan, jobs, again>>
  BY IdleFacts DEF Fetch, Inv, TypeOK, Working, Worker
<1>2. /\ worker'[w].on = worker[w].on /\ worker'[w].job = worker[w].job /\ worker'[w].at = worker[w].at
      /\ worker'[w].todo = worker[w].todo /\ worker'[w].wrote = worker[w].wrote /\ worker'[w].ok = ok
  BY DEF Fetch, Inv, TypeOK, Worker
<1>3. \A h \in Hooks : accepted'[h] = IF ok = "yes" /\ worker[w].at[1] = h THEN accepted[h] + 1 ELSE accepted[h]
  BY <1>1 DEF Fetch, Inv, TypeOK
<1>4. \A v \in Workers : Fanning(v)' <=> Fanning(v)
  BY <1>1, <1>2 DEF Fanning
<1>5. Unmade'
  BY <1>1 DEF Account, Runs, Unmade
<1>6. Retrying'
  BY <1>1, <1>2 DEF Account, Runs, Retrying
<1>7. Making'
  <2> SUFFICES ASSUME NEW v \in Workers, Fanning(v)
               PROVE  /\ worker'[v].at = worker[v].at /\ worker'[v].todo = worker[v].todo
                      /\ worker'[v].wrote = worker[v].wrote
                      /\ \A u \in Workers : worker'[u].job = worker[u].job
    BY <1>1, <1>4 DEF Account, Runs, Making
  <2> QED BY <1>1, <1>2
<1>8. ASSUME NEW h \in Hooks PROVE Balance(h)'
  <2>1. \A q \in Rows : Live(q)' => Live(q)
    BY <1>1, <1>2 DEF Live
  <2>2. Serving(h)' => Serving(h)
    BY <1>1, <1>2, <1>4 DEF Serving
  <2>3. \A v \in Workers : Trying(v, h)' => Trying(v, h)
    BY <1>1, <1>2 DEF Trying
  <2>4. again'[h] >= again[h]
    BY <1>1 DEF Inv, TypeOK
  <2>5. Chances(h)' \subseteq Chances(h)
    BY <1>1, <2>1, <2>2, <2>3, IsChance, WithinNext
  <2>6. CASE ok = "yes" /\ worker[w].at[1] = h
    <3>1. accepted'[h] = accepted[h] + 1
      BY <1>3, <2>6
    <3>2. CASE worker[w].job = None
      <4>1. Fanning(w) /\ fan.st = "active" /\ \A v \in Workers \ {w} : ~Fanning(v)
        BY <1>1, <3>2 DEF Fanning, Inv, Starts
      <4>2. \A x \in worker[w].wrote : x.row[1] # h
        <5> SUFFICES ASSUME NEW x \in worker[w].wrote, x.row[1] = h PROVE FALSE
          OBVIOUS
        <5>1. x.row \in Rows
          BY DEF Inv, TypeOK, Worker
        <5>2. x.row[2] = fan.starts /\ x.row # worker[w].at /\ worker[w].at[2] = fan.starts
          BY <1>1, <4>1, NoRow DEF Account, Runs, Making
        <5> QED BY <1>1, <2>6, <5>1, <5>2, RowIs
      <4>3. Serving(h)
        BY <1>1, <4>1, <4>2 DEF Serving
      <4>4. ~Serving(h)'
        BY <1>1, <1>2, <1>4, <2>6, <4>1 DEF Serving
      <4>5. TheFanout \in Chances(h)
        BY <4>3, IsChance
      <4>6. Chances(h)' \subseteq Chances(h) \ {TheFanout}
        <5> DEFINE D == Chances(h) \ {TheFanout}
        <5>1. \A v \in Workers : Trying(v, h)' => AtIt(v) \in D
          BY <2>3, IsChance, ChanceNames
        <5>2. \A q \in Rows, i \in Nat : q[1] = h /\ Live(q)' /\ 0 < i /\ i <= jobs'[q] => InQueue(q, i) \in D
          BY <1>1, <2>1, IsChance, ChanceNames
        <5> HIDE DEF D
        <5>3. Chances(h)' \subseteq D
          BY <4>4, <5>1, <5>2, WithinNext
        <5> QED BY <5>3 DEF D
      <4> QED BY <2>4, <3>1, <4>5, <4>6, Spends DEF Inv, Account
    <3>3. CASE worker[w].job # None
      <4>1. worker[w].wrote = {} /\ worker[w].job[1] = h
        BY <1>1, <2>6, <3>3, NoRow DEF Inv, Working
      <4>2. Trying(w, h) /\ ~Trying(w, h)'
        BY <1>1, <1>2, <2>6, <3>3, <4>1 DEF Trying
      <4>3. AtIt(w) \in Chances(h)
        BY <4>2, IsChance
      <4>4. Chances(h)' \subseteq Chances(h) \ {AtIt(w)}
        <5> DEFINE D == Chances(h) \ {AtIt(w)}
        <5>1. \A v \in Workers : Trying(v, h)' => AtIt(v) \in D
          BY <2>3, <4>2, IsChance, ChanceNames
        <5>2. \A q \in Rows, i \in Nat : q[1] = h /\ Live(q)' /\ 0 < i /\ i <= jobs'[q] => InQueue(q, i) \in D
          BY <1>1, <2>1, IsChance, ChanceNames
        <5>3. Serving(h)' => TheFanout \in D
          BY <2>2, IsChance, ChanceNames
        <5> HIDE DEF D
        <5>4. Chances(h)' \subseteq D
          BY <5>1, <5>2, <5>3, WithinNext
        <5> QED BY <5>4 DEF D
      <4> QED BY <2>4, <3>1, <4>3, <4>4, Spends DEF Inv, Account
    <3> QED BY <3>2, <3>3
  <2>7. CASE ~(ok = "yes" /\ worker[w].at[1] = h)
    <3>1. accepted'[h] = accepted[h]
      BY <1>3, <2>7
    <3> QED BY <2>4, <2>5, <3>1, Keeps DEF Inv, Account
  <2> QED BY <2>6, <2>7
<1> QED BY <1>5, <1>6, <1>7, <1>8 DEF Account, Runs

LEMMA RecordAccount ==
  ASSUME Inv, Inv', Account, NEW w \in Workers, Record(w)
  PROVE  Account'
<1> DEFINE r == worker[w].at
           x == Written(w)
<1>1. /\ worker[w].ok \in {"yes", "no"} /\ worker[w].on /\ r \in Rows /\ worker[w] \in Worker
      /\ \A v \in Workers \ {w} : worker'[v] = worker[v]
      /\ UNCHANGED <<row, fan, accepted, again>>
  BY IdleFacts DEF Record, Inv, TypeOK, Working, Worker
<1>2. /\ x.row = r
      /\ worker[w].ok = "yes" => x.st = "delivered"
      /\ worker[w].ok = "no" => x.st = IF Retries(w) THEN "pending" ELSE "failed"
  BY <1>1 DEF Written, Retries
<1>3. worker'[w] = [worker[w] EXCEPT !.at = None, !.ok = "unknown", !.wrote = @ \cup {x}]
  BY DEF Record, Inv, TypeOK
<1> HIDE DEF x
<1>4. /\ worker'[w].on = worker[w].on /\ worker'[w].job = worker[w].job /\ worker'[w].at = None
      /\ worker'[w].todo = worker[w].todo /\ worker'[w].wrote = worker[w].wrote \cup {x}
      /\ worker'[w].ok = "unknown"
  <2>1. worker[w] \in Worker
    BY <1>1
  <2> QED BY <1>3, <2>1 DEF Worker
<1>5. /\ \A q \in Rows \ {r} : jobs'[q] = jobs[q]
      /\ jobs[r] \in Nat /\ jobs'[r] = IF x.st = "pending" THEN jobs[r] + 1 ELSE jobs[r]
  <2>1. x.st = "pending" <=> worker[w].ok = "no" /\ Retries(w)
    BY <1>1, <1>2
  <2>2. jobs' = IF worker[w].ok = "no" /\ Retries(w) THEN [jobs EXCEPT ![r] = @ + 1] ELSE jobs
    BY DEF Record
  <2> QED BY <1>1, <2>1, <2>2 DEF Inv, TypeOK
<1>6. worker[w].job # None => worker[w].wrote = {} /\ worker[w].job = r /\ row[r] # Absent
  BY <1>1, NoRow DEF Record, Inv, Working
<1>7. \A v \in Workers : Fanning(v)' <=> Fanning(v)
  BY <1>1, <1>4 DEF Fanning
<1>8. Fanning(w) => /\ r[2] = fan.starts /\ r[1] \notin worker[w].todo
                    /\ \A y \in worker[w].wrote : y.row # r
                    /\ row[r] = Absent /\ jobs[r] = 0
  <2> SUFFICES ASSUME Fanning(w)
               PROVE  /\ r[2] = fan.starts /\ r[1] \notin worker[w].todo
                      /\ \A y \in worker[w].wrote : y.row # r
                      /\ row[r] = Absent /\ jobs[r] = 0
    OBVIOUS
  <2>1. r[2] = fan.starts /\ r[1] \notin worker[w].todo /\ \A y \in worker[w].wrote : y.row # r
    BY <1>1, NoRow DEF Account, Runs, Making
  <2>2. row[r] = Absent /\ (jobs[r] > 0 => \E y \in worker[w].wrote : y.row = r)
    BY <1>1, <2>1 DEF Account, Runs, Making
  <2> QED BY <1>5, <2>1, <2>2
<1>9. r[2] <= fan.starts
  BY <1>1, <1>6, <1>8, RowIs DEF Account, Runs, Retrying, Fanning, Inv, TypeOK
<1>10. Unmade'
  BY <1>1, <1>5, <1>9, RowIs DEF Account, Runs, Unmade, Inv, TypeOK
<1>11. Retrying'
  <2> SUFFICES ASSUME NEW v \in Workers, worker'[v].job # None
               PROVE  /\ worker'[v].job[2] <= fan.starts
                      /\ worker'[v].wrote # {} => row[worker'[v].job] # Absent
                      /\ \A y, z \in worker'[v].wrote : y = z
    BY <1>1 DEF Retrying
  <2>1. CASE v = w
    BY <1>4, <1>6, <1>9, <2>1
  <2>2. CASE v # w
    BY <1>1, <2>2 DEF Account, Runs, Retrying
  <2> QED BY <2>1, <2>2
<1>12. Making'
  <2> SUFFICES ASSUME NEW v \in Workers, Fanning(v)
               PROVE  /\ worker'[v].at # None => worker'[v].at[2] = fan.starts /\ worker'[v].at[1] \notin worker'[v].todo
                      /\ \A y, z \in worker'[v].wrote : y.row = z.row => y = z
                      /\ \A y \in worker'[v].wrote : /\ y.row[2] = fan.starts
                                                     /\ y.row # worker'[v].at /\ y.row[1] \notin worker'[v].todo
                      /\ \A q \in Rows : q[2] = fan.starts =>
                           /\ row[q] = Absent
                           /\ jobs'[q] > 0 => jobs'[q] = 1 /\ \E y \in worker'[v].wrote : y.row = q /\ y.st = "pending"
                      /\ \A u \in Workers : worker'[u].job # None => worker'[u].job[2] # fan.starts
    BY <1>1, <1>7 DEF Making
  <2>1. \A u \in Workers : worker'[u].job # None => worker'[u].job[2] # fan.starts
    BY <1>1, <1>4 DEF Account, Runs, Making
  <2>2. CASE v = w
    <3>1. /\ \A y, z \in worker[w].wrote : y.row = z.row => y = z
          /\ \A y \in worker[w].wrote : y.row[2] = fan.starts /\ y.row[1] \notin worker[w].todo /\ y.row \in Rows
          /\ \A q \in Rows : q[2] = fan.starts =>
               /\ row[q] = Absent
               /\ jobs[q] > 0 => jobs[q] = 1 /\ \E y \in worker[w].wrote : y.row = q /\ y.st = "pending"
      BY <2>2 DEF Account, Runs, Making, Inv, TypeOK, Worker
    <3>2. \A y \in worker'[w].wrote : y = x \/ y \in worker[w].wrote
      BY <1>4
    <3>3. \A y, z \in worker'[w].wrote : y.row = z.row => y = z
      BY <1>2, <1>8, <2>2, <3>1, <3>2
    <3>4. \A y \in worker'[w].wrote : /\ y.row[2] = fan.starts
                                      /\ y.row # None /\ y.row[1] \notin worker'[w].todo
      BY <1>1, <1>2, <1>4, <1>8, <2>2, <3>1, <3>2, NoRow
    <3>5. ASSUME NEW q \in Rows, q[2] = fan.starts
          PROVE  /\ row[q] = Absent
                 /\ jobs'[q] > 0 => jobs'[q] = 1 /\ \E y \in worker'[w].wrote : y.row = q /\ y.st = "pending"
      <4>1. CASE q = r
        BY <1>2, <1>4, <1>5, <1>8, <2>2, <4>1
      <4>2. CASE q # r
        BY <1>4, <1>5, <3>1, <3>5, <4>2
      <4> QED BY <4>1, <4>2
    <3> QED BY <1>4, <2>1, <2>2, <3>3, <3>4, <3>5
  <2>3. CASE v # w
    <3>1. worker'[v] = worker[v] /\ worker[w].job # None
      BY <1>1, <2>3 DEF Fanning, Inv, Starts
    <3>2. r[2] # fan.starts
      BY <1>6, <3>1 DEF Account, Runs, Making
    <3>3. \A q \in Rows : q[2] = fan.starts => jobs'[q] = jobs[q]
      BY <1>5, <3>2
    <3> QED BY <2>1, <3>1, <3>3 DEF Account, Runs, Making
  <2> QED BY <2>2, <2>3
<1>13. ASSUME NEW h \in Hooks PROVE Balance(h)'
  <2>1. \A q \in Rows : Live(q)' => Live(q)
    BY <1>1, <1>4 DEF Live
  <2>2. Serving(h)' => Serving(h)
    <3> SUFFICES ASSUME Serving(h)', fan.st # "waiting" PROVE Serving(h)
      BY <1>1 DEF Serving
    <3>1. PICK v \in Workers : /\ Fanning(v)
                               /\ worker'[v].ok = "yes" => worker'[v].at[1] # h
                               /\ \A y \in worker'[v].wrote : y.row[1] = h => y.st # "delivered"
      BY <1>1, <1>7 DEF Serving
    <3>2. CASE v = w
      BY <1>2, <1>4, <3>1, <3>2 DEF Serving
    <3>3. CASE v # w
      BY <1>1, <3>1, <3>3 DEF Serving
    <3> QED BY <3>2, <3>3
  <2>3. \A v \in Workers : Trying(v, h)' => Trying(v, h)
    <3>1. Trying(w, h)' => Trying(w, h)
      BY <1>2, <1>4, <1>6 DEF Trying
    <3> QED BY <1>1, <3>1 DEF Trying
  <2>4. again'[h] >= again[h] /\ accepted'[h] = accepted[h]
    BY <1>1 DEF Inv, TypeOK
  <2>5. CASE worker[w].job # None /\ x.st = "pending" /\ r[1] = h
    <3>1. Trying(w, h) /\ ~Trying(w, h)'
      BY <1>1, <1>2, <1>4, <1>6, <2>5 DEF Trying
    <3>2. AtIt(w) \in Chances(h)
      BY <3>1, IsChance
    <3>3. Chances(h)' \subseteq (Chances(h) \ {AtIt(w)}) \cup {InQueue(r, jobs'[r])}
      <4> DEFINE D == (Chances(h) \ {AtIt(w)}) \cup {InQueue(r, jobs'[r])}
      <4>1. Serving(h)' => TheFanout \in D
        BY <2>2, IsChance, ChanceNames
      <4>2. \A v \in Workers : Trying(v, h)' => AtIt(v) \in D
        BY <2>3, <3>1, IsChance, ChanceNames
      <4>3. \A q \in Rows, i \in Nat : q[1] = h /\ Live(q)' /\ 0 < i /\ i <= jobs'[q] => InQueue(q, i) \in D
        <5> SUFFICES ASSUME NEW q \in Rows, NEW i \in Nat, q[1] = h, Live(q)', 0 < i, i <= jobs'[q]
                     PROVE  InQueue(q, i) \in D
          OBVIOUS
        <5>1. i <= jobs[q] \/ (q = r /\ i = jobs'[r])
          BY <1>5, <2>5
        <5> QED BY <2>1, <5>1, IsChance, ChanceNames
      <4> HIDE DEF D
      <4>4. Chances(h)' \subseteq D
        BY <4>1, <4>2, <4>3, WithinNext
      <4> QED BY <4>4 DEF D
    <3> QED BY <2>4, <3>2, <3>3, Trades DEF Inv, Account
  <2>6. CASE ~(worker[w].job # None /\ x.st = "pending" /\ r[1] = h)
    <3>1. \A q \in Rows : q[1] = h /\ Live(q)' => jobs'[q] = jobs[q]
      BY <1>1, <1>5, <1>8, <2>1, <2>6 DEF Fanning, Live
    <3>2. Chances(h)' \subseteq Chances(h)
      BY <2>1, <2>2, <2>3, <3>1, IsChance, WithinNext
    <3> QED BY <2>4, <3>2, Keeps DEF Inv, Account
  <2> QED BY <2>5, <2>6
<1> QED BY <1>10, <1>11, <1>12, <1>13 DEF Account, Runs

\* A worker that stops touches rows and jobs of its own only.
LEMMA RunsStop ==
  ASSUME Inv, Account, NEW w \in Workers, worker[w].on, worker'[w] = Idle,
         \A v \in Workers \ {w} : worker'[v] = worker[v], fan'.starts = fan.starts,
         \A q \in Rows : \/ row'[q] = row[q]
                         \/ row'[q] # Absent /\ (worker[w].job = q \/ (Fanning(w) /\ q[2] = fan.starts)),
         \A q \in Rows : jobs'[q] = jobs[q] \/ worker[w].job = q
  PROVE  Runs'
<1>1. \A q \in Rows : worker[w].job = q => q[2] <= fan.starts
  BY NoRow DEF Account, Runs, Retrying
<1>2. fan.starts \in Nat
  BY DEF Inv, TypeOK
<1>3. Unmade'
  <2> SUFFICES ASSUME NEW q \in Rows, q[2] > fan.starts PROVE row'[q] = Absent /\ jobs'[q] = 0
    BY DEF Unmade
  <2>1. row[q] = Absent /\ jobs[q] = 0
    BY DEF Account, Runs, Unmade
  <2>2. worker[w].job # q /\ q[2] # fan.starts
    BY <1>1, <1>2, RowIs
  <2> QED BY <2>1, <2>2
<1>4. Retrying'
  <2> SUFFICES ASSUME NEW v \in Workers, worker'[v].job # None
               PROVE  /\ worker'[v].job[2] <= fan.starts
                      /\ worker'[v].wrote # {} => row'[worker'[v].job] # Absent
                      /\ \A x, y \in worker'[v].wrote : x = y
    BY DEF Retrying
  <2>1. worker'[v] = worker[v] /\ worker[v].job \in Rows
    BY IdleFacts DEF Inv, TypeOK, Worker
  <2> QED BY <2>1 DEF Account, Runs, Retrying
<1>5. Making'
  <2> SUFFICES ASSUME NEW v \in Workers, Fanning(v)'
               PROVE  /\ Fanning(v) /\ worker'[v] = worker[v]
                      /\ \A q \in Rows : q[2] = fan.starts => row'[q] = row[q] /\ jobs'[q] = jobs[q]
                      /\ \A u \in Workers : worker'[u].job # None => worker'[u].job[2] # fan.starts
    BY DEF Account, Runs, Making
  <2>1. v # w
    BY IdleFacts DEF Fanning
  <2>2. Fanning(v) /\ worker'[v] = worker[v]
    BY <2>1 DEF Fanning
  <2>3. ~Fanning(w)
    BY <2>1, <2>2 DEF Inv, Starts
  <2>4. \A u \in Workers : worker[u].job # None => worker[u].job[2] # fan.starts
    BY <2>2 DEF Account, Runs, Making
  <2>5. \A q \in Rows : worker[w].job = q => q[2] # fan.starts
    BY <2>4, NoRow
  <2> QED BY <2>2, <2>3, <2>4, <2>5, IdleFacts
<1> QED BY <1>3, <1>4, <1>5 DEF Runs

LEMMA CommitsIs ==
  ASSUME Inv, Account, NEW w \in Workers, Commits(w)
  PROVE  /\ worker[w].on /\ worker[w].ok = "unknown" /\ worker[w].todo = {}
         /\ worker'[w] = Idle /\ \A v \in Workers \ {w} : worker'[v] = worker[v]
         /\ \A x \in worker[w].wrote : /\ x.row \in Rows /\ x.st \in {"pending", "delivered", "failed"}
                                       /\ row'[x.row].st = x.st /\ row'[x.row] # Absent
         /\ \A q \in Rows : (\A x \in worker[w].wrote : x.row # q) => row'[q] = row[q]
         /\ \A x, y \in worker[w].wrote : x.row = y.row => x = y
         /\ worker[w].job # None => /\ worker[w].job \in Rows /\ row[worker[w].job] # Absent
                                    /\ \E x \in worker[w].wrote : worker[w].wrote = {x} /\ x.row = worker[w].job
         /\ Fanning(w) => /\ \A x \in worker[w].wrote : x.row[2] = fan.starts
                          /\ \A q \in Rows : q[2] = fan.starts =>
                               /\ row[q] = Absent
                               /\ jobs[q] > 0 => jobs[q] = 1 /\ \E x \in worker[w].wrote : x.row = q /\ x.st = "pending"
<1>1. /\ worker[w].on /\ worker[w].at = None /\ worker[w].todo = {}
      /\ worker'[w] = Idle /\ \A v \in Workers \ {w} : worker'[v] = worker[v]
  BY DEF Commits, Inv, TypeOK
<1>2. worker[w].ok = "unknown"
  BY <1>1 DEF Inv, Working
<1>3. worker[w].job # None =>
        /\ worker[w].job \in Rows /\ row[worker[w].job] # Absent
        /\ \E x \in worker[w].wrote : worker[w].wrote = {x} /\ x.row = worker[w].job
  <2> SUFFICES ASSUME worker[w].job # None
               PROVE  /\ worker[w].job \in Rows /\ row[worker[w].job] # Absent
                      /\ \E x \in worker[w].wrote : worker[w].wrote = {x} /\ x.row = worker[w].job
    OBVIOUS
  <2>1. worker[w].job \in Rows /\ worker[w].wrote # {} /\ \A x \in worker[w].wrote : x.row = worker[w].job
    BY <1>1 DEF Inv, Working, TypeOK, Worker
  <2>2. row[worker[w].job] # Absent /\ \A x, y \in worker[w].wrote : x = y
    BY <2>1 DEF Account, Runs, Retrying
  <2> QED BY <2>1, <2>2
<1>4. Fanning(w) =>
        /\ \A x, y \in worker[w].wrote : x.row = y.row => x = y
        /\ \A x \in worker[w].wrote : x.row[2] = fan.starts
        /\ \A q \in Rows : q[2] = fan.starts =>
             /\ row[q] = Absent
             /\ jobs[q] > 0 => jobs[q] = 1 /\ \E x \in worker[w].wrote : x.row = q /\ x.st = "pending"
  BY DEF Account, Runs, Making
<1>5. \A x, y \in worker[w].wrote : x.row = y.row => x = y
  BY <1>1, <1>3, <1>4 DEF Fanning
<1>6. ASSUME NEW x \in worker[w].wrote
      PROVE  /\ x.row \in Rows /\ x.st \in {"pending", "delivered", "failed"}
             /\ row'[x.row].st = x.st /\ row'[x.row] # Absent
  <2>1. x.row \in Rows /\ x.st \in {"pending", "delivered", "failed"}
    BY DEF Inv, TypeOK, Worker
  <2> DEFINE y == CHOOSE y \in worker[w].wrote : y.row = x.row
  <2>2. y = x
    BY <1>5
  <2>3. row'[x.row] = [st |-> y.st, n |-> y.n]
    BY <2>1 DEF Commits
  <2> HIDE DEF y
  <2> QED BY <2>1, <2>2, <2>3 DEF Absent
<1>7. \A q \in Rows : (\A x \in worker[w].wrote : x.row # q) => row'[q] = row[q]
  BY DEF Commits
<1> QED BY <1>1, <1>2, <1>3, <1>4, <1>5, <1>6, <1>7

LEMMA CommitsRows ==
  ASSUME Inv, Account, NEW w \in Workers, Commits(w), NEW q \in Rows
  PROVE  \/ row'[q] = row[q]
         \/ row'[q] # Absent /\ (worker[w].job = q \/ (Fanning(w) /\ q[2] = fan.starts))
<1>1. CASE \E x \in worker[w].wrote : x.row = q
  <2>1. PICK x \in worker[w].wrote : x.row = q
    BY <1>1
  <2>2. row'[q] # Absent
    BY <2>1, CommitsIs
  <2>3. CASE worker[w].job = None
    BY <2>1, <2>2, <2>3, CommitsIs DEF Fanning
  <2>4. CASE worker[w].job # None
    BY <2>1, <2>2, <2>4, CommitsIs
  <2> QED BY <2>3, <2>4
<1>2. CASE ~\E x \in worker[w].wrote : x.row = q
  BY <1>2, CommitsIs
<1> QED BY <1>1, <1>2

\* A row that is live after a commit was live before, or the fanout has just made it.
LEMMA CommitsLive ==
  ASSUME Inv, Account, NEW w \in Workers, Commits(w), NEW q \in Rows, Live(q)'
  PROVE  Live(q) \/ (Fanning(w) /\ \E x \in worker[w].wrote : x.row = q)
<1>1. CASE worker[w].job = q
  <2>1. row[q] # Absent
    BY <1>1, NoRow, CommitsIs
  <2> QED BY <1>1, <2>1 DEF Live
<1>2. CASE worker[w].job # q /\ \A x \in worker[w].wrote : x.row # q
  <2>1. row'[q] = row[q]
    BY <1>2, CommitsIs
  <2>2. \A v \in Workers : worker'[v].job = q => worker[v].job = q
    BY CommitsIs, IdleFacts, NoRow
  <2> QED BY <2>1, <2>2 DEF Live
<1>3. CASE worker[w].job # q /\ \E x \in worker[w].wrote : x.row = q
  <2>1. worker[w].job = None
    BY <1>3, CommitsIs
  <2> QED BY <1>3, <2>1, CommitsIs DEF Fanning
<1> QED BY <1>1, <1>2, <1>3

LEMMA CommitAccount ==
  ASSUME Inv, Inv', Account, NEW w \in Workers, Commit(w)
  PROVE  Account'
<1>1. /\ Commits(w) /\ UNCHANGED <<jobs, accepted, again>>
      /\ fan'.starts = fan.starts
      /\ worker[w].job # None => fan' = fan
      /\ worker[w].job = None => fan'.st = "done"
  BY DEF Commit, Inv, TypeOK
<1>2. /\ worker[w].on /\ worker[w].ok = "unknown" /\ worker'[w] = Idle
      /\ \A v \in Workers \ {w} : worker'[v] = worker[v]
  BY <1>1, CommitsIs
<1>3. Runs'
  BY <1>1, <1>2, CommitsRows, RunsStop
<1>4. ASSUME NEW h \in Hooks PROVE Balance(h)'
  <2>1. again'[h] >= again[h] /\ accepted'[h] = accepted[h]
    BY <1>1 DEF Inv, TypeOK
  <2>2. \A v \in Workers : Trying(v, h)' => Trying(v, h)
    BY <1>2, IdleFacts DEF Trying
  <2>3. CASE worker[w].job # None
    <3>1. Serving(h)' => Serving(h)
      BY <1>1, <1>2, <2>3, IdleFacts DEF Serving, Fanning
    <3>2. \A q \in Rows : Live(q)' => Live(q)
      BY <1>1, <2>3, CommitsLive DEF Fanning
    <3>3. Chances(h)' \subseteq Chances(h)
      BY <1>1, <2>2, <3>1, <3>2, IsChance, WithinNext
    <3> QED BY <2>1, <3>3, Keeps DEF Inv, Account
  <2>4. CASE worker[w].job = None
    <3>1. Fanning(w) /\ \A v \in Workers \ {w} : ~Fanning(v)
      BY <1>2, <2>4 DEF Fanning, Inv, Starts
    <3>2. ~Serving(h)'
      BY <1>1, <1>2, <2>4, <3>1, IdleFacts DEF Serving, Fanning
    <3>3. \A q \in Rows : Live(q)' => Live(q) \/ \E x \in worker[w].wrote : x.row = q
      BY <1>1, CommitsLive
    <3>4. CASE \E x \in worker[w].wrote : x.row[1] = h /\ x.st = "pending"
      <4>1. PICK x \in worker[w].wrote : x.row[1] = h /\ x.st = "pending"
        BY <3>4
      <4>2. /\ x.row \in Rows /\ x.row[2] = fan.starts
            /\ \A y \in worker[w].wrote : y.row[1] = h => y = x
        <5> SUFFICES ASSUME NEW y \in worker[w].wrote, y.row[1] = h
                     PROVE  x.row \in Rows /\ x.row[2] = fan.starts /\ y = x
          BY <4>1
        <5>1. /\ x.row \in Rows /\ x.row[2] = fan.starts
              /\ y.row \in Rows /\ y.row[2] = fan.starts
          BY <1>1, <3>1, <4>1, CommitsIs
        <5>2. x.row = y.row
          BY <4>1, <5>1, RowIs
        <5> QED BY <1>1, <4>1, <5>1, <5>2, CommitsIs
      <4>3. Serving(h)
        BY <1>2, <3>1, <4>1, <4>2 DEF Serving
      <4>4. TheFanout \in Chances(h)
        BY <4>3, IsChance
      <4>5. Chances(h)' \subseteq (Chances(h) \ {TheFanout}) \cup {InQueue(x.row, 1)}
        <5> DEFINE D == (Chances(h) \ {TheFanout}) \cup {InQueue(x.row, 1)}
        <5>1. \A v \in Workers : Trying(v, h)' => AtIt(v) \in D
          BY <2>2, IsChance, ChanceNames
        <5>2. \A q \in Rows, i \in Nat : q[1] = h /\ Live(q)' /\ 0 < i /\ i <= jobs'[q] => InQueue(q, i) \in D
          <6> SUFFICES ASSUME NEW q \in Rows, NEW i \in Nat, q[1] = h, Live(q)', 0 < i, i <= jobs'[q]
                       PROVE  InQueue(q, i) \in D
            OBVIOUS
          <6>1. CASE Live(q)
            BY <1>1, <6>1, IsChance, ChanceNames
          <6>2. CASE \E y \in worker[w].wrote : y.row = q
            <7>1. q = x.row
              BY <4>2, <6>2
            <7>2. jobs[q] > 0 => jobs[q] = 1
              BY <1>1, <3>1, <4>2, <7>1, CommitsIs
            <7>3. jobs[q] \in Nat /\ jobs'[q] = jobs[q]
              BY <1>1 DEF Inv, TypeOK
            <7>4. i = 1
              BY <7>2, <7>3
            <7> QED BY <7>1, <7>4
          <6> QED BY <3>3, <6>1, <6>2
        <5> HIDE DEF D
        <5>3. Chances(h)' \subseteq D
          BY <3>2, <5>1, <5>2, WithinNext
        <5> QED BY <5>3 DEF D
      <4> QED BY <2>1, <4>4, <4>5, Trades DEF Inv, Account
    <3>5. CASE ~\E x \in worker[w].wrote : x.row[1] = h /\ x.st = "pending"
      <4>1. \A q \in Rows, i \in Nat : q[1] = h /\ Live(q)' /\ 0 < i /\ i <= jobs'[q] => InQueue(q, i) \in Chances(h)
        <5> SUFFICES ASSUME NEW q \in Rows, NEW i \in Nat, q[1] = h, Live(q)', 0 < i, i <= jobs'[q]
                     PROVE  InQueue(q, i) \in Chances(h)
          OBVIOUS
        <5>1. CASE Live(q)
          BY <1>1, <5>1, IsChance
        <5>2. CASE \E y \in worker[w].wrote : y.row = q
          <6>1. q[2] = fan.starts
            BY <1>1, <3>1, <5>2, CommitsIs
          <6>2. ~(jobs[q] > 0)
            BY <1>1, <3>1, <3>5, <6>1, CommitsIs
          <6>3. jobs[q] \in Nat /\ jobs'[q] = jobs[q]
            BY <1>1 DEF Inv, TypeOK
          <6> QED BY <6>2, <6>3
        <5> QED BY <3>3, <5>1, <5>2
      <4>2. \A v \in Workers : Trying(v, h)' => AtIt(v) \in Chances(h)
        BY <2>2, IsChance
      <4>3. Chances(h)' \subseteq Chances(h)
        BY <3>2, <4>1, <4>2, WithinNext
      <4> QED BY <2>1, <4>3, Keeps DEF Inv, Account
    <3> QED BY <3>4, <3>5
  <2> QED BY <2>3, <2>4
<1> QED BY <1>3, <1>4 DEF Account

LEMMA DueAgainIs ==
  ASSUME TypeOK, NEW hs, DueAgain(hs), NEW h \in Hooks
  PROVE  /\ h \in hs => again'[h] = again[h] + 1
         /\ h \notin hs => again'[h] = again[h]
         /\ again'[h] >= again[h]
  BY DEF DueAgain, TypeOK

\* The chances that remain when a worker stops without a commit, but for a job or a run
\* of the fanout that stands for what it was at.
LEMMA Dropped ==
  ASSUME Inv, NEW w \in Workers, worker'[w] = Idle,
         \A v \in Workers \ {w} : worker'[v] = worker[v], row' = row, NEW h \in Hooks
  PROVE  /\ \A v \in Workers : Trying(v, h)' => Trying(v, h) /\ v # w
         /\ \A q \in Rows : Live(q)' => Live(q)
         /\ worker[w].job # None /\ fan' = fan => (Serving(h)' => Serving(h))
<1>1. \A v \in Workers : Trying(v, h)' => Trying(v, h) /\ v # w
  BY IdleFacts DEF Trying
<1>2. \A q \in Rows : Live(q)' => Live(q)
  BY IdleFacts, NoRow DEF Live
<1>3. worker[w].job # None /\ fan' = fan => (Serving(h)' => Serving(h))
  BY IdleFacts DEF Serving, Fanning
<1> QED BY <1>1, <1>2, <1>3

\* A fanout that fails, or is run again, either still had the webhook to serve or
\* forgets that it accepted.
LEMMA FanoutStops ==
  ASSUME Inv, Inv', Account, NEW w \in Workers, Fanning(w), worker'[w] = Idle,
         \A v \in Workers \ {w} : worker'[v] = worker[v],
         UNCHANGED <<row, jobs, accepted>>, NEW hs, DueAgain(hs), Forgotten(w) \subseteq hs,
         NEW h \in Hooks
  PROVE  Balance(h)'
<1>1. again'[h] >= again[h] /\ accepted'[h] = accepted[h] /\ (h \in hs => again'[h] = again[h] + 1)
  BY DueAgainIs DEF Inv, TypeOK
<1>2. /\ \A v \in Workers : Trying(v, h)' => AtIt(v) \in Chances(h)
      /\ \A q \in Rows, i \in Nat : q[1] = h /\ Live(q)' /\ 0 < i /\ i <= jobs'[q] => InQueue(q, i) \in Chances(h)
  BY Dropped, IsChance
<1>3. CASE Serving(h)
  <2>1. Chances(h)' \subseteq Chances(h)
    BY <1>2, <1>3, IsChance, WithinNext
  <2> QED BY <1>1, <2>1, Keeps DEF Inv, Account
<1>4. CASE ~Serving(h)
  <2>1. \/ worker[w].ok = "yes" /\ worker[w].at[1] = h
        \/ \E x \in worker[w].wrote : x.row[1] = h /\ x.st = "delivered"
    BY <1>4 DEF Serving
  <2>2. h \in Forgotten(w)
    BY <2>1 DEF Forgotten
  <2>3. Chances(h)' \subseteq Chances(h) \cup {TheFanout}
    <3> DEFINE D == Chances(h) \cup {TheFanout}
    <3>1. /\ TheFanout \in D
          /\ \A v \in Workers : Trying(v, h)' => AtIt(v) \in D
          /\ \A q \in Rows, i \in Nat : q[1] = h /\ Live(q)' /\ 0 < i /\ i <= jobs'[q] => InQueue(q, i) \in D
      BY <1>2
    <3> HIDE DEF D
    <3>2. Chances(h)' \subseteq D
      BY <3>1, WithinNext
    <3> QED BY <3>2 DEF D
  <2> QED BY <1>1, <2>2, <2>3, Owes DEF Inv, Account
<1> QED BY <1>3, <1>4

LEMMA FailAccount ==
  ASSUME Inv, Inv', Account, NEW w \in Workers, Fail(w)
  PROVE  Account'
<1>1. /\ worker[w].on /\ worker'[w] = Idle /\ \A v \in Workers \ {w} : worker'[v] = worker[v]
      /\ UNCHANGED <<row, jobs, accepted>> /\ DueAgain(Forgotten(w))
      /\ fan'.starts = fan.starts
      /\ worker[w].job # None => fan' = fan
  BY DEF Fail, Inv, TypeOK
<1>2. Runs'
  BY <1>1, RunsStop
<1>3. ASSUME NEW h \in Hooks PROVE Balance(h)'
  <2>1. CASE worker[w].job = None
    BY <1>1, <2>1, FanoutStops DEF Fanning
  <2>2. CASE worker[w].job # None
    <3>1. again'[h] >= again[h] /\ accepted'[h] = accepted[h]
      BY <1>1, DueAgainIs DEF Inv
    <3>2. Chances(h)' \subseteq Chances(h)
      BY <1>1, <2>2, Dropped, IsChance, WithinNext
    <3> QED BY <3>1, <3>2, Keeps DEF Inv, Account
  <2> QED BY <2>1, <2>2
<1> QED BY <1>2, <1>3 DEF Account

\* A job that is run again has another beside it, is of a webhook whose acceptance is
\* lost, or was still trying.
LEMMA JobAgain ==
  ASSUME Inv, Inv', Account, NEW w \in Workers, NEW r \in Rows, worker[w].job = r, worker'[w] = Idle,
         \A v \in Workers \ {w} : worker'[v] = worker[v],
         jobs' = [jobs EXCEPT ![r] = @ + 1], UNCHANGED <<fan, accepted>>,
         NEW h \in Hooks, again'[h] >= again[h],
         \A q \in Rows : Live(q)' => Live(q),
         h = r[1] /\ Live(r)' => again'[h] = again[h] + 1 \/ Trying(w, h)
  PROVE  Balance(h)'
<1>2. jobs[r] \in Nat /\ jobs'[r] = jobs[r] + 1 /\ \A q \in Rows \ {r} : jobs'[q] = jobs[q]
  BY DEF Inv, TypeOK
<1>3. accepted'[h] = accepted[h]
  OBVIOUS
<1>4. \A v \in Workers : Trying(v, h)' => Trying(v, h) /\ v # w
  BY IdleFacts DEF Trying
<1>5. Serving(h)' => Serving(h)
  BY IdleFacts, NoRow DEF Serving, Fanning
<1>6. ASSUME NEW q \in Rows, NEW i \in Nat, q[1] = h, Live(q)', 0 < i, i <= jobs'[q]
      PROVE  InQueue(q, i) \in Chances(h) \/ (q = r /\ i = jobs'[r])
  <2>1. i <= jobs[q] \/ (q = r /\ i = jobs'[r])
    BY <1>2, <1>6
  <2> QED BY <1>6, <2>1, IsChance
<1>7. CASE h = r[1] /\ Live(r)'
  <2>1. CASE again'[h] = again[h] + 1
    <3> DEFINE D == Chances(h) \cup {InQueue(r, jobs'[r])}
    <3>1. /\ Serving(h)' => TheFanout \in D
          /\ \A v \in Workers : Trying(v, h)' => AtIt(v) \in D
          /\ \A q \in Rows, i \in Nat : q[1] = h /\ Live(q)' /\ 0 < i /\ i <= jobs'[q] => InQueue(q, i) \in D
      BY <1>4, <1>5, <1>6, IsChance
    <3>2. Chances(h)' \subseteq D
      <4> HIDE DEF D
      <4> QED BY <3>1, WithinNext
    <3> QED BY <1>3, <2>1, <3>2, Owes DEF Inv, Account
  <2>2. CASE Trying(w, h)
    <3> DEFINE D == (Chances(h) \ {AtIt(w)}) \cup {InQueue(r, jobs'[r])}
    <3>1. AtIt(w) \in Chances(h)
      BY <2>2, IsChance
    <3>2. Serving(h)' => TheFanout \in D
      BY <1>5, IsChance, ChanceNames
    <3>3. \A v \in Workers : Trying(v, h)' => AtIt(v) \in D
      BY <1>4, IsChance, ChanceNames
    <3>4. \A q \in Rows, i \in Nat : q[1] = h /\ Live(q)' /\ 0 < i /\ i <= jobs'[q] => InQueue(q, i) \in D
      BY <1>6, ChanceNames
    <3>5. Chances(h)' \subseteq D
      <4> HIDE DEF D
      <4> QED BY <3>2, <3>3, <3>4, WithinNext
    <3> QED BY <1>3, <3>1, <3>5, Trades DEF Inv, Account
  <2> QED BY <1>7, <2>1, <2>2
<1>8. CASE ~(h = r[1] /\ Live(r)')
  <2>1. Chances(h)' \subseteq Chances(h)
    <3>1. \A q \in Rows, i \in Nat : q[1] = h /\ Live(q)' /\ 0 < i /\ i <= jobs'[q] => InQueue(q, i) \in Chances(h)
      <4> SUFFICES ASSUME NEW q \in Rows, NEW i \in Nat, q[1] = h, Live(q)', 0 < i, i <= jobs'[q]
                   PROVE  InQueue(q, i) \in Chances(h)
        OBVIOUS
      <4>1. InQueue(q, i) \in Chances(h) \/ (q = r /\ i = jobs'[r])
        BY <1>6
      <4>2. q # r
        BY <1>8
      <4> QED BY <4>1, <4>2
    <3> QED BY <1>4, <1>5, <3>1, IsChance, WithinNext
  <2> QED BY <1>3, <2>1, Keeps DEF Inv, Account
<1> QED BY <1>7, <1>8

LEMMA CrashAccount ==
  ASSUME Inv, Inv', Account, NEW w \in Workers, Crash(w)
  PROVE  Account'
<1>1. /\ worker[w].on /\ worker'[w] = Idle /\ \A v \in Workers \ {w} : worker'[v] = worker[v]
      /\ UNCHANGED <<row, accepted>> /\ DueAgain(Forgotten(w) \cup Beside(w))
  BY DEF Crash, Inv, TypeOK
<1>2. /\ worker[w].job = None => jobs' = jobs
      /\ worker[w].job # None => jobs' = [jobs EXCEPT ![worker[w].job] = @ + 1] /\ fan' = fan
      /\ fan'.starts = fan.starts
  BY DEF Crash, Requeue, Inv, TypeOK
<1>3. Runs'
  <2>1. \A q \in Rows : jobs'[q] = jobs[q] \/ worker[w].job = q
    BY <1>2 DEF Inv, TypeOK
  <2> QED BY <1>1, <1>2, <2>1, RunsStop
<1>4. ASSUME NEW h \in Hooks PROVE Balance(h)'
  <2>1. CASE worker[w].job = None
    <3>1. Forgotten(w) \subseteq Forgotten(w) \cup Beside(w)
      OBVIOUS
    <3> QED BY <1>1, <1>2, <2>1, <3>1, FanoutStops DEF Fanning
  <2>2. CASE worker[w].job # None
    <3>1. /\ again'[h] >= again[h]
          /\ h \in Forgotten(w) \cup Beside(w) => again'[h] = again[h] + 1
      BY <1>1, DueAgainIs DEF Inv
    <3>2. \A q \in Rows : Live(q)' => Live(q)
      BY <1>1, Dropped
    <3>3. ASSUME h = worker[w].job[1], ~Trying(w, h)
          PROVE  h \in Forgotten(w) \cup Beside(w)
      <4>1. CASE worker[w].ok = "yes"
        <5>1. worker[w].at = worker[w].job
          BY <2>2, <4>1 DEF Inv, Working
        <5> QED BY <3>3, <4>1, <5>1 DEF Forgotten
      <4>2. CASE \E x \in worker[w].wrote : x.st # "failed"
        <5>1. PICK x \in worker[w].wrote : x.st # "failed"
          BY <4>2
        <5>2. x.row = worker[w].job /\ x.st \in {"pending", "delivered"}
          BY <2>2, <5>1 DEF Inv, Working, TypeOK, Worker
        <5>3. CASE x.st = "delivered"
          BY <3>3, <5>2, <5>3 DEF Forgotten
        <5>4. CASE x.st = "pending"
          <6>1. jobs[worker[w].job] > 0
            BY <5>2, <5>4 DEF Inv, RetryIsQueued
          <6> QED BY <2>2, <3>3, <6>1 DEF Beside
        <5> QED BY <5>2, <5>3, <5>4
      <4> QED BY <2>2, <3>3, <4>1, <4>2 DEF Trying
    <3>4. PICK r \in Rows : worker[w].job = r
      BY <2>2 DEF Inv, TypeOK, Worker
    <3>5. jobs' = [jobs EXCEPT ![r] = @ + 1] /\ UNCHANGED <<fan, accepted>>
      BY <1>1, <1>2, <2>2, <3>4
    <3>6. h = r[1] => again'[h] = again[h] + 1 \/ Trying(w, h)
      BY <3>1, <3>3, <3>4
    <3> QED BY <1>1, <3>1, <3>2, <3>4, <3>5, <3>6, JobAgain
  <2> QED BY <2>1, <2>2
<1> QED BY <1>3, <1>4 DEF Account

LEMMA CrashLateAccount ==
  ASSUME Inv, Inv', Account, NEW w \in Workers, CrashLate(w)
  PROVE  Account'
<1> DEFINE served == {h \in Hooks : worker[w].job = None /\ \E x \in worker[w].wrote : x.row[1] = h}
<1>1. /\ Commits(w) /\ UNCHANGED accepted /\ DueAgain(Beside(w) \cup served)
  BY DEF CrashLate
<1>2. /\ worker[w].job = None => jobs' = jobs /\ fan'.st = "waiting"
      /\ worker[w].job # None => jobs' = [jobs EXCEPT ![worker[w].job] = @ + 1] /\ fan' = fan
      /\ fan'.starts = fan.starts
  BY DEF CrashLate, Requeue, Inv, TypeOK
<1>3. /\ worker[w].on /\ worker[w].ok = "unknown" /\ worker'[w] = Idle
      /\ \A v \in Workers \ {w} : worker'[v] = worker[v]
  BY <1>1, CommitsIs
<1>4. Runs'
  <2>1. \A q \in Rows : jobs'[q] = jobs[q] \/ worker[w].job = q
    BY <1>2 DEF Inv, TypeOK
  <2> QED BY <1>1, <1>2, <1>3, <2>1, CommitsRows, RunsStop
<1>5. ASSUME NEW h \in Hooks PROVE Balance(h)'
  <2>1. /\ again'[h] >= again[h]
        /\ h \in Beside(w) \cup served => again'[h] = again[h] + 1
        /\ accepted'[h] = accepted[h]
    BY <1>1, DueAgainIs DEF Inv
  <2>2. CASE worker[w].job # None
    <3>0. PICK r \in Rows : worker[w].job = r
      BY <1>1, <2>2, CommitsIs
    <3>1. PICK x \in worker[w].wrote : worker[w].wrote = {x} /\ x.row = r
      BY <1>1, <2>2, <3>0, CommitsIs
    <3>2. /\ r \in Rows /\ row'[r].st = x.st /\ x.st \in {"pending", "delivered", "failed"}
      BY <1>1, <3>1, CommitsIs
    <3>3. \A q \in Rows : Live(q)' => Live(q)
      BY <1>1, <2>2, CommitsLive DEF Fanning
    <3>4. ASSUME h = r[1], Live(r)'
          PROVE  again'[h] = again[h] + 1 \/ Trying(w, h)
      <4>1. CASE x.st = "failed"
        BY <1>3, <2>2, <3>0, <3>1, <3>4, <4>1 DEF Trying
      <4>2. CASE x.st = "pending"
        <5>1. jobs[r] > 0
          BY <3>1, <4>2 DEF Inv, RetryIsQueued
        <5>2. h \in Beside(w)
          BY <2>2, <3>0, <3>4, <5>1 DEF Beside
        <5> QED BY <2>1, <5>2
      <4>3. CASE x.st = "delivered"
        <5>1. PICK v \in Workers : worker'[v].job = r
          BY <3>2, <3>4, <4>3 DEF Live
        <5>2. v # w /\ worker[v].job = r
          BY <1>3, <2>2, <3>0, <5>1, IdleFacts
        <5>3. h \in Beside(w)
          BY <2>2, <3>0, <3>4, <5>2 DEF Beside
        <5> QED BY <2>1, <5>3
      <4> QED BY <3>2, <4>1, <4>2, <4>3
    <3>5. jobs' = [jobs EXCEPT ![r] = @ + 1] /\ UNCHANGED <<fan, accepted>>
      BY <1>1, <1>2, <2>2, <3>0
    <3> QED BY <1>3, <2>1, <3>0, <3>3, <3>4, <3>5, JobAgain
  <2>3. CASE worker[w].job = None
    <3>1. Fanning(w)
      BY <1>3, <2>3 DEF Fanning
    <3>2. \A v \in Workers : Trying(v, h)' => AtIt(v) \in Chances(h)
      BY <1>3, IdleFacts, IsChance DEF Trying
    <3>3. \A q \in Rows : Live(q)' => Live(q) \/ \E x \in worker[w].wrote : x.row = q
      BY <1>1, CommitsLive
    <3>4. CASE ~\E x \in worker[w].wrote : x.row[1] = h
      <4>1. Serving(h)
        BY <1>3, <3>1, <3>4 DEF Serving
      <4>2. \A q \in Rows, i \in Nat : q[1] = h /\ Live(q)' /\ 0 < i /\ i <= jobs'[q] => InQueue(q, i) \in Chances(h)
        BY <1>2, <2>3, <3>3, <3>4, IsChance
      <4>3. Chances(h)' \subseteq Chances(h)
        BY <3>2, <4>1, <4>2, IsChance, WithinNext
      <4> QED BY <2>1, <4>3, Keeps DEF Inv, Account
    <3>5. CASE \E x \in worker[w].wrote : x.row[1] = h
      <4>1. PICK x \in worker[w].wrote : x.row[1] = h
        BY <3>5
      <4>2. again'[h] = again[h] + 1
        BY <2>1, <2>3, <4>1
      <4>3. \A y \in worker[w].wrote : y.row[1] = h => y = x
        <5> SUFFICES ASSUME NEW y \in worker[w].wrote, y.row[1] = h PROVE y = x
          OBVIOUS
        <5>1. x.row \in Rows /\ x.row[2] = fan.starts /\ y.row \in Rows /\ y.row[2] = fan.starts
          BY <1>1, <3>1, <4>1, CommitsIs
        <5>2. x.row = y.row
          BY <4>1, <5>1, RowIs
        <5> QED BY <1>1, <4>1, <5>2, CommitsIs
      <4>4. x.row \in Rows /\ x.row[2] = fan.starts /\ jobs[x.row] \in Nat
        BY <1>1, <3>1, <4>1, CommitsIs DEF Inv, TypeOK
      <4>5. jobs[x.row] > 0 => jobs[x.row] = 1 /\ x.st = "pending"
        <5> SUFFICES ASSUME jobs[x.row] > 0 PROVE jobs[x.row] = 1 /\ x.st = "pending"
          OBVIOUS
        <5>1. jobs[x.row] = 1 /\ \E y \in worker[w].wrote : y.row = x.row /\ y.st = "pending"
          BY <1>1, <3>1, <4>4, CommitsIs
        <5> QED BY <4>1, <4>3, <5>1
      <4>6. ASSUME NEW q \in Rows, NEW i \in Nat, q[1] = h, Live(q)', 0 < i, i <= jobs'[q]
            PROVE  InQueue(q, i) \in Chances(h) \/ (q = x.row /\ i = 1 /\ x.st = "pending")
        <5>1. jobs'[q] = jobs[q]
          BY <1>2, <2>3
        <5>2. CASE Live(q)
          BY <4>6, <5>1, <5>2, IsChance
        <5>3. CASE \E y \in worker[w].wrote : y.row = q
          <6>1. q = x.row
            BY <4>3, <4>6, <5>3
          <6> QED BY <4>4, <4>5, <4>6, <5>1, <6>1
        <5> QED BY <3>3, <4>6, <5>2, <5>3
      <4>7. CASE x.st = "pending"
        <5>1. Serving(h)
          BY <1>3, <3>1, <4>3, <4>7 DEF Serving
        <5> DEFINE D == Chances(h) \cup {InQueue(x.row, 1)}
        <5>2. /\ Serving(h)' => TheFanout \in D
              /\ \A v \in Workers : Trying(v, h)' => AtIt(v) \in D
              /\ \A q \in Rows, i \in Nat : q[1] = h /\ Live(q)' /\ 0 < i /\ i <= jobs'[q] => InQueue(q, i) \in D
          BY <3>2, <4>6, <5>1, IsChance
        <5>3. Chances(h)' \subseteq D
          <6> HIDE DEF D
          <6> QED BY <5>2, WithinNext
        <5> QED BY <2>1, <4>2, <5>3, Owes DEF Inv, Account
      <4>8. CASE x.st # "pending"
        <5> DEFINE D == Chances(h) \cup {TheFanout}
        <5>1. /\ TheFanout \in D
              /\ \A v \in Workers : Trying(v, h)' => AtIt(v) \in D
              /\ \A q \in Rows, i \in Nat : q[1] = h /\ Live(q)' /\ 0 < i /\ i <= jobs'[q] => InQueue(q, i) \in D
          BY <3>2, <4>6, <4>8
        <5>2. Chances(h)' \subseteq D
          <6> HIDE DEF D
          <6> QED BY <5>1, WithinNext
        <5> QED BY <2>1, <4>2, <5>2, Owes DEF Inv, Account
      <4> QED BY <4>7, <4>8
    <3> QED BY <3>4, <3>5
  <2> QED BY <2>2, <2>3
<1> QED BY <1>4, <1>5 DEF Account

LEMMA AccountKept == Inv /\ Account /\ [Next]_vars => Account'
<1> SUFFICES ASSUME Inv, Account, [Next]_vars PROVE Account'
  OBVIOUS
<1>0. Inv'
  BY Inductive
<1>1. CASE UNCHANGED vars
  <2>1. Runs'
    BY <1>1 DEF vars, Account, Runs, Unmade, Retrying, Making, Fanning
  <2>2. ASSUME NEW h \in Hooks PROVE Balance(h)'
    BY <1>1 DEF vars, Account, Balance, Chances, Serving, Trying, Live, Fanning
  <2> QED BY <2>1, <2>2 DEF Account
<1>2. ASSUME NEW w \in Workers, Work(w) PROVE Account'
  BY <1>0, <1>2, TakeFanoutAccount, MakeRowAccount, TakeDeliverAccount, FetchAccount, RecordAccount,
     CommitAccount, FailAccount
  DEF Work
<1> QED BY <1>0, <1>1, <1>2, RemoveAccount, FailAccount, CrashAccount, CrashLateAccount DEF Next

\* However often jobs fail, crash or run twice, a webhook accepts the event once, and once
\* more for each time its acceptance was lost or its delivery doubled (deliverOnce).
THEOREM PostedOnceEach == Spec => []PostedOnce
<1>1. Inv /\ Account => PostedOnce
  <2> SUFFICES ASSUME Inv, Account, NEW h \in Hooks PROVE accepted[h] <= 1 + again[h]
    BY DEF PostedOnce
  <2>1. Cardinality(Chances(h)) \in Nat /\ accepted[h] + Cardinality(Chances(h)) <= 1 + again[h]
    BY FS_CardinalityType DEF Account, Balance
  <2>2. accepted[h] \in Nat /\ again[h] \in Nat
    BY DEF Inv, TypeOK
  <2> QED BY <2>1, <2>2
<1>2. Init => Inv /\ Account
  BY Initially, AccountOpens
<1>3. Inv /\ Account /\ [Next]_vars => (Inv /\ Account)'
  BY Inductive, AccountKept
<1> QED BY <1>1, <1>2, <1>3, PTL DEF Spec

-----------------------------------------------------------------------------
(* SlaSweep. *)

Apart == \A s, r \in Sweeps : \A k \in sweep[s].adds, j \in sweep[r].adds : k[1] = j[1] => s = r

Fresh == \A s \in Sweeps : \A k \in sweep[s].adds : k[2] \notin tags[k[1]]

KeptWasTold == \A e \in Edits : edit[e] # NoEdit => \A m \in edit[e].keep : told[<<edit[e].ticket, m>>] > 0

Quiet == \A s \in Sweeps : ~sweep[s].on => sweep[s] = NoSweep

SlaInv == SweepTypeOK /\ Quiet /\ Apart /\ Fresh /\ KeptWasTold /\ NoticedOnce

-----------------------------------------------------------------------------
(* Types. *)

\* A mark is put on a ticket that exists.
LEMMA MarkOfIsMark == ASSUME NEW t \in Tickets PROVE MarkOf(t) \in Mark
  BY DEF MarkOf, Mark, Marker

\* Counting losses keeps counters numbers.
LEMMA LoseTyped ==
  ASSUME NEW marks, undone \in [Mark -> Nat], Lose(marks)
  PROVE  undone' \in [Mark -> Nat]
  BY DEF Lose

\* Every step keeps the types.
LEMMA TypeStep == SweepTypeOK /\ [SweepNext]_sweepVars => SweepTypeOK'
<1> SUFFICES ASSUME SweepTypeOK, [SweepNext]_sweepVars PROVE SweepTypeOK'
  OBVIOUS
<1> USE DEF SweepTypeOK
<1>1. ASSUME NEW s \in Sweeps, Begin(s) PROVE SweepTypeOK'
  <2>1. {k \in {MarkOf(t) : t \in Candidates} : k[2] \notin tags[k[1]]} \subseteq Mark
    BY MarkOfIsMark DEF Candidates
  <2> QED BY <1>1, <2>1 DEF Begin, Sweep
<1>2. ASSUME NEW s \in Sweeps, NEW k \in Mark, Announce(s, k) PROVE SweepTypeOK'
  <2>1. sweep' \in [Sweeps -> Sweep]
    BY <1>2 DEF Announce, Sweep
  <2>2. told' \in [Mark -> Nat]
    BY <1>2 DEF Announce
  <2> QED BY <1>2, <2>1, <2>2 DEF Announce
<1>3. ASSUME NEW s \in Sweeps, NEW k \in Mark, Pass(s, k) PROVE SweepTypeOK'
  BY <1>3 DEF Pass, Sweep
<1>4. ASSUME NEW s \in Sweeps, CommitSweep(s) PROVE SweepTypeOK'
  BY <1>4 DEF CommitSweep, Sweep, NoSweep
<1>5. ASSUME NEW s \in Sweeps, Rollback(s) PROVE SweepTypeOK'
  <2>1. undone' \in [Mark -> Nat]
    BY <1>5, LoseTyped DEF Rollback
  <2> QED BY <1>5, <2>1 DEF Rollback, Sweep, NoSweep
<1>6. ASSUME NEW e \in Edits, NEW t \in Tickets, BeginEdit(e, t) PROVE SweepTypeOK'
  BY <1>6 DEF BeginEdit, Edit
<1>7. ASSUME NEW e \in Edits, EndEdit(e) PROVE SweepTypeOK'
  <2>1. undone' \in [Mark -> Nat]
    BY <1>7, LoseTyped DEF EndEdit
  <2>2. edit[e] \in Edit
    BY <1>7 DEF EndEdit
  <2>3. tags' \in [Tickets -> SUBSET Marker] /\ edit' \in [Edits -> Edit \cup {NoEdit}] /\ dropped' \in Nat
    BY <1>7, <2>2 DEF EndEdit, Edit
  <2> QED BY <1>7, <2>1, <2>3 DEF EndEdit
<1>8. ASSUME NEW t \in Tickets, Move(t) \/ Miss(t) PROVE SweepTypeOK'
  BY <1>8 DEF Move, Miss
<1>9. CASE UNCHANGED sweepVars
  BY <1>9 DEF sweepVars
<1> QED BY <1>1, <1>2, <1>3, <1>4, <1>5, <1>6, <1>7, <1>8, <1>9 DEF SweepNext, Sweeping

\* The tables, the sweeps, the edits and the counters keep their types (SlaSweep.TypeOK).
THEOREM SweepTyped == SweepSpec => []SweepTypeOK
<1>1. SweepInit => SweepTypeOK
  BY DEF SweepInit, SweepTypeOK, NoSweep, Sweep, NoEdit, Mark, Marker
<1> QED BY <1>1, TypeStep, PTL DEF SweepSpec

-----------------------------------------------------------------------------
(* The account. *)

\* What NoticedOnce says of one mark.
Accounted(k) == /\ told[k] <= undone[k] + (IF Marked(k) THEN 1 ELSE 0)
                /\ Marked(k) => told[k] > 0

LEMMA NoticedOnceIs == NoticedOnce <=> \A k \in Mark : Accounted(k)
  BY DEF NoticedOnce, Accounted

\* A mark is a ticket and a marker, and its counters are numbers.
LEMMA MarkIs ==
  ASSUME SweepTypeOK, NEW k \in Mark
  PROVE  k[1] \in Tickets /\ k[2] \in Marker /\ k = <<k[1], k[2]>> /\ told[k] \in Nat /\ undone[k] \in Nat
  BY DEF Mark, SweepTypeOK

\* What a sweep holds are marks.
LEMMA AddsAreMarks == ASSUME SweepTypeOK, NEW s \in Sweeps PROVE sweep[s].adds \subseteq Mark
  BY DEF SweepTypeOK, Sweep

\* A mark that stays on or off, with its counters, stays accounted for.
LEMMA SameAccount ==
  ASSUME NEW k \in Mark, Accounted(k), Marked(k)' <=> Marked(k), told'[k] = told[k], undone'[k] = undone[k]
  PROVE  Accounted(k)'
  BY DEF Accounted

\* A row without a lock has marks only among its tags.
LEMMA Unlocked ==
  ASSUME SweepTypeOK, NEW k \in Mark, ~RowLocked(k[1])
  PROVE  (\A s \in Sweeps : k \notin sweep[s].adds) /\ (Marked(k) <=> k[2] \in tags[k[1]])
  BY MarkIs DEF RowLocked, Marked

\* Steps that neither write tags nor announce anything, and release no lock.
LEMMA Bystander ==
  ASSUME SlaInv, SweepTypeOK', tags' = tags, told' = told, undone' = undone, edit' = edit,
         \A s \in Sweeps : sweep'[s].adds = sweep[s].adds,
         \A s \in Sweeps : ~sweep'[s].on => sweep'[s] = NoSweep
  PROVE  SlaInv'
<1>1. \A k \in Mark : Accounted(k)'
  BY SameAccount, NoticedOnceIs DEF SlaInv, Marked
<1>2. NoticedOnce'
  BY <1>1 DEF NoticedOnce, Accounted
<1> QED BY <1>2 DEF SlaInv, Quiet, Apart, Fresh, KeptWasTold

LEMMA AnnounceStep ==
  ASSUME SlaInv, SweepTypeOK', NEW s \in Sweeps, NEW k \in Mark, Announce(s, k)
  PROVE  SlaInv'
<1>1. /\ SweepTypeOK /\ ~RowLocked(k[1]) /\ k[2] \notin tags[k[1]] /\ tags' = tags /\ edit' = edit /\ undone' = undone
      /\ sweep[s].on
  BY DEF SlaInv, Quiet, NoSweep, Announce, Turn, Appends
<1>2. /\ sweep'[s].adds = sweep[s].adds \cup {k} /\ sweep'[s].on = sweep[s].on
      /\ \A r \in Sweeps \ {s} : sweep'[r] = sweep[r]
  BY <1>1 DEF Announce, SweepTypeOK, Sweep
<1>3. told'[k] = told[k] + 1 /\ \A j \in Mark \ {k} : told'[j] = told[j]
  BY <1>1 DEF Announce, SweepTypeOK
<1>4. \A r \in Sweeps : \A j \in sweep[r].adds : j \in Mark /\ j[1] # k[1]
  BY <1>1, AddsAreMarks, MarkIs DEF RowLocked
<1>5. ASSUME NEW j \in Mark PROVE Accounted(j)'
  <2>1. CASE j = k
    <3>1. ~Marked(k)
      BY <1>1, Unlocked
    <3>2. Accounted(k)
      BY NoticedOnceIs DEF SlaInv
    <3>3. told[k] <= undone[k] /\ told[k] \in Nat /\ undone[k] \in Nat
      BY <3>1, <3>2, <1>1, MarkIs DEF Accounted
    <3>4. Marked(k)'
      BY <1>2 DEF Marked
    <3>5. told'[k] <= undone'[k] + 1 /\ told'[k] > 0
      BY <3>3, <1>1, <1>3
    <3> QED BY <2>1, <3>4, <3>5 DEF Accounted
  <2>2. CASE j # k
    <3>1. Marked(j)' <=> Marked(j)
      BY <2>2, <1>1, <1>2 DEF Marked
    <3> QED BY <2>2, <3>1, <1>1, <1>3, SameAccount, NoticedOnceIs DEF SlaInv
  <2> QED BY <2>1, <2>2
<1>6. NoticedOnce'
  BY <1>5 DEF NoticedOnce, Accounted
<1>7. Apart'
  BY <1>2, <1>4 DEF SlaInv, Apart
<1>8. Fresh'
  BY <1>1, <1>2 DEF SlaInv, Fresh
<1>9. KeptWasTold'
  <2> SUFFICES ASSUME NEW e \in Edits, edit[e] # NoEdit, NEW m \in edit[e].keep
               PROVE  told'[<<edit[e].ticket, m>>] > 0
    BY <1>1 DEF KeptWasTold
  <2>1. <<edit[e].ticket, m>> \in Mark
    BY <1>1 DEF SweepTypeOK, Edit, Mark
  <2>2. told[<<edit[e].ticket, m>>] > 0 /\ told[<<edit[e].ticket, m>>] \in Nat
    BY <2>1, <1>1 DEF SlaInv, KeptWasTold, SweepTypeOK
  <2> QED BY <2>1, <2>2, <1>3
<1>10. Quiet'
  BY <1>2, <1>1 DEF SlaInv, Quiet, Announce
<1> QED BY <1>6, <1>7, <1>8, <1>9, <1>10 DEF SlaInv

LEMMA SweepCommitStep ==
  ASSUME SlaInv, SweepTypeOK', NEW s \in Sweeps, CommitSweep(s)
  PROVE  SlaInv'
<1>1. /\ SweepTypeOK /\ edit' = edit /\ told' = told /\ undone' = undone
      /\ \A t \in Tickets : tags'[t] = tags[t] \cup {m \in Marker : <<t, m>> \in sweep[s].adds}
  BY DEF SlaInv, CommitSweep, SweepTypeOK
<1>2. sweep'[s] = NoSweep /\ \A r \in Sweeps \ {s} : sweep'[r] = sweep[r]
  BY <1>1 DEF CommitSweep, SweepTypeOK
<1>3. ASSUME NEW k \in Mark PROVE Accounted(k)'
  <2>1. k[2] \in tags'[k[1]] <=> k[2] \in tags[k[1]] \/ k \in sweep[s].adds
    BY <1>1, MarkIs
  <2>2. Marked(k)' <=> Marked(k)
    BY <1>2, <2>1 DEF Marked, NoSweep
  <2> QED BY <1>1, <2>2, SameAccount, NoticedOnceIs DEF SlaInv
<1>4. NoticedOnce'
  BY <1>3 DEF NoticedOnce, Accounted
<1>5. Apart'
  BY <1>2 DEF SlaInv, Apart, NoSweep
<1>6. Fresh'
  <2> SUFFICES ASSUME NEW r \in Sweeps, NEW j \in sweep'[r].adds PROVE j[2] \notin tags'[j[1]]
    BY DEF Fresh
  <2>1. r # s /\ j \in sweep[r].adds /\ j \in Mark
    BY <1>1, <1>2, AddsAreMarks DEF NoSweep
  <2>2. j \notin sweep[s].adds
    BY <2>1 DEF SlaInv, Apart
  <2> QED BY <1>1, <2>1, <2>2, MarkIs DEF SlaInv, Fresh
<1> QED BY <1>1, <1>2, <1>4, <1>5, <1>6 DEF SlaInv, Quiet, KeptWasTold

LEMMA RollbackStep ==
  ASSUME SlaInv, SweepTypeOK', NEW s \in Sweeps, Rollback(s)
  PROVE  SlaInv'
<1>1. /\ SweepTypeOK /\ tags' = tags /\ edit' = edit /\ told' = told
      /\ \A k \in Mark : undone'[k] = IF k \in sweep[s].adds THEN undone[k] + 1 ELSE undone[k]
  BY DEF SlaInv, Rollback, Lose
<1>2. sweep'[s] = NoSweep /\ \A r \in Sweeps \ {s} : sweep'[r] = sweep[r]
  BY <1>1 DEF Rollback, SweepTypeOK
<1>3. ASSUME NEW k \in Mark PROVE Accounted(k)'
  <2>1. Accounted(k) /\ told[k] \in Nat /\ undone[k] \in Nat
    BY <1>1, MarkIs, NoticedOnceIs DEF SlaInv
  <2>2. Marked(k)' => Marked(k)
    BY <1>1, <1>2 DEF Marked, NoSweep
  <2>3. CASE k \in sweep[s].adds
    <3>1. undone'[k] = undone[k] + 1 /\ told'[k] = told[k]
      BY <1>1, <2>3
    <3> QED BY <2>1, <2>2, <3>1 DEF Accounted
  <2>4. CASE k \notin sweep[s].adds
    <3>1. Marked(k)' <=> Marked(k)
      BY <1>1, <1>2, <2>4 DEF Marked, NoSweep
    <3> QED BY <1>1, <2>1, <2>4, <3>1, SameAccount
  <2> QED BY <2>3, <2>4
<1>4. NoticedOnce'
  BY <1>3 DEF NoticedOnce, Accounted
<1>5. Apart' /\ Fresh' /\ Quiet'
  BY <1>1, <1>2 DEF SlaInv, Apart, Fresh, Quiet, NoSweep
<1> QED BY <1>1, <1>4, <1>5 DEF SlaInv, KeptWasTold

LEMMA BeginEditStep ==
  ASSUME SlaInv, SweepTypeOK', NEW e \in Edits, NEW t \in Tickets, BeginEdit(e, t)
  PROVE  SlaInv'
<1>1. /\ SweepTypeOK /\ tags' = tags /\ told' = told /\ undone' = undone /\ sweep' = sweep
      /\ edit'[e] = [ticket |-> t, keep |-> tags[t]] /\ \A d \in Edits \ {e} : edit'[d] = edit[d]
  BY DEF SlaInv, BeginEdit, SweepTypeOK
<1>2. NoticedOnce'
  BY <1>1 DEF SlaInv, NoticedOnce, Marked
<1>3. ASSUME NEW m \in tags[t] PROVE told[<<t, m>>] > 0
  <2>1. <<t, m>> \in Mark
    BY <1>1 DEF SweepTypeOK, Mark
  <2> QED BY <2>1 DEF SlaInv, NoticedOnce, Marked
<1>4. KeptWasTold'
  BY <1>1, <1>3 DEF SlaInv, KeptWasTold
<1> QED BY <1>1, <1>2, <1>4 DEF SlaInv, Apart, Fresh, Quiet

LEMMA EndEditStep ==
  ASSUME SlaInv, SweepTypeOK', NEW e \in Edits, EndEdit(e)
  PROVE  SlaInv'
<1> DEFINE t == edit[e].ticket
           keep == edit[e].keep
<1>1. /\ SweepTypeOK /\ edit[e] # NoEdit /\ t \in Tickets /\ keep \subseteq Marker /\ ~RowLocked(t)
      /\ sweep' = sweep /\ told' = told
      /\ edit'[e] = NoEdit /\ \A d \in Edits \ {e} : edit'[d] = edit[d]
  BY DEF SlaInv, EndEdit, SweepTypeOK, Edit
<1>2. tags'[t] = keep /\ \A u \in Tickets \ {t} : tags'[u] = tags[u]
  BY <1>1 DEF EndEdit, SweepTypeOK
<1>3. \A k \in Mark : undone'[k] = IF k[1] = t /\ k[2] \in tags[t] \ keep THEN undone[k] + 1 ELSE undone[k]
  <2>1. \A k \in Mark : k \in {<<t, m>> : m \in tags[t] \ keep} <=> k[1] = t /\ k[2] \in tags[t] \ keep
    BY <1>1, MarkIs
  <2>2. \A k \in Mark : undone'[k] = IF k \in {<<t, m>> : m \in tags[t] \ keep} THEN undone[k] + 1 ELSE undone[k]
    BY DEF EndEdit, Lose
  <2> QED BY <2>1, <2>2
<1>4. ASSUME NEW k \in Mark PROVE Accounted(k)'
  <2>1. /\ Accounted(k) /\ told[k] \in Nat /\ undone[k] \in Nat
        /\ k[1] \in Tickets /\ k = <<k[1], k[2]>>
    BY <1>1, MarkIs, NoticedOnceIs DEF SlaInv
  <2>2. CASE k[1] # t
    <3>1. Marked(k)' <=> Marked(k)
      BY <1>1, <1>2, <2>1, <2>2 DEF Marked
    <3> QED BY <1>1, <1>3, <2>1, <2>2, <3>1, SameAccount
  <2>3. CASE k[1] = t
    <3>1. Marked(k) <=> k[2] \in tags[t]
      BY <1>1, <2>3, Unlocked
    <3>2. Marked(k)' <=> k[2] \in keep
      BY <1>1, <1>2, <2>3, Unlocked DEF Marked
    <3>3. k[2] \in keep => told[k] > 0
      BY <1>1, <2>1, <2>3 DEF SlaInv, KeptWasTold
    <3>4. told'[k] = told[k] /\ undone'[k] = IF k[2] \in tags[t] \ keep THEN undone[k] + 1 ELSE undone[k]
      BY <1>1, <1>3, <2>3
    <3>5. told[k] <= undone[k] + (IF k[2] \in tags[t] THEN 1 ELSE 0)
      BY <2>1, <3>1 DEF Accounted
    <3>6. told'[k] <= undone'[k] + (IF k[2] \in keep THEN 1 ELSE 0)
      BY <2>1, <3>4, <3>5
    <3> QED BY <3>2, <3>3, <3>4, <3>6 DEF Accounted
  <2> QED BY <2>2, <2>3
<1>5. NoticedOnce'
  BY <1>4 DEF NoticedOnce, Accounted
<1>6. Fresh'
  <2> SUFFICES ASSUME NEW r \in Sweeps, NEW j \in sweep[r].adds PROVE j[2] \notin tags'[j[1]]
    BY <1>1 DEF Fresh
  <2>1. j \in Mark /\ j[1] \in Tickets /\ j[1] # t
    BY <1>1, AddsAreMarks, MarkIs, Unlocked
  <2> QED BY <1>2, <2>1 DEF SlaInv, Fresh
<1> QED BY <1>1, <1>5, <1>6 DEF SlaInv, Apart, Quiet, KeptWasTold

LEMMA SlaInvStep == SlaInv /\ [SweepNext]_sweepVars => SlaInv'
<1> SUFFICES ASSUME SlaInv, [SweepNext]_sweepVars PROVE SlaInv'
  OBVIOUS
<1>0. SweepTypeOK /\ SweepTypeOK'
  BY TypeStep DEF SlaInv
<1>1. ASSUME NEW s \in Sweeps, Begin(s) PROVE SlaInv'
  <2>1. \A r \in Sweeps : sweep'[r].adds = sweep[r].adds /\ (~sweep'[r].on => sweep'[r] = NoSweep)
    <3>1. sweep[s] = NoSweep /\ sweep'[s].adds = {} /\ sweep'[s].on
      BY <1>0, <1>1 DEF Begin, SlaInv, Quiet, SweepTypeOK
    <3>2. \A r \in Sweeps \ {s} : sweep'[r] = sweep[r]
      BY <1>0, <1>1 DEF Begin, SweepTypeOK
    <3>3. sweep[s].adds = {}
      BY <3>1 DEF NoSweep
    <3> QED BY <3>1, <3>2, <3>3 DEF SlaInv, Quiet
  <2> QED BY <1>0, <1>1, <2>1, Bystander DEF Begin
<1>2. ASSUME NEW s \in Sweeps, NEW k \in Mark, Pass(s, k) PROVE SlaInv'
  <2>1. \A r \in Sweeps : sweep'[r].adds = sweep[r].adds /\ (~sweep'[r].on => sweep'[r] = NoSweep)
    <3>1. sweep[s].on
      BY <1>2 DEF Pass, Turn, SlaInv, Quiet, NoSweep
    <3>2. sweep'[s].on /\ sweep'[s].adds = sweep[s].adds /\ \A r \in Sweeps \ {s} : sweep'[r] = sweep[r]
      BY <1>0, <1>2, <3>1 DEF Pass, SweepTypeOK, Sweep
    <3> QED BY <3>2 DEF SlaInv, Quiet
  <2> QED BY <1>0, <1>2, <2>1, Bystander DEF Pass
<1>3. ASSUME (\E t \in Tickets : Move(t) \/ Miss(t)) \/ UNCHANGED sweepVars PROVE SlaInv'
  BY <1>0, <1>3, Bystander DEF Move, Miss, sweepVars, SlaInv, Quiet
<1> QED BY <1>0, <1>1, <1>2, <1>3, AnnounceStep, SweepCommitStep, RollbackStep, BeginEditStep, EndEditStep
        DEF SweepNext, Sweeping

\* However many sweeps and tag edits overlap, and whatever rolls back, notices go out
\* once for each time a marker was put on, and once more only if it was lost
\* (SlaSweepProcessor, tickets.service patch).
THEOREM NoticedOncePerMark == SweepSpec => []NoticedOnce
<1>1. SweepInit => SlaInv
  BY DEF SweepInit, SlaInv, SweepTypeOK, Quiet, Apart, Fresh, KeptWasTold, NoticedOnce, Marked, NoSweep, Sweep, NoEdit, Mark, Marker
<1>2. SlaInv => NoticedOnce
  BY DEF SlaInv
<1> QED BY <1>1, <1>2, SlaInvStep, PTL DEF SweepSpec
=============================================================================
