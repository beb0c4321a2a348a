------------------------------ MODULE Webhooks ------------------------------
(***************************************************************************)
(* One event sent to its subscribers (processors.ts,                       *)
(* WebhookDeliverProcessor; the subscriptions of webhooks.module.ts).      *)
(*                                                                         *)
(* A fanout job makes a delivery row for every active webhook and posts    *)
(* to each; a post that failed leaves its row pending and adds a job that  *)
(* tries it again.  A job runs in one transaction, which the posts and the *)
(* jobs it adds are not part of, on one of several workers.                *)
(*                                                                         *)
(* Left out: payloads, signatures and the backoff, but for one thing: its  *)
(* 10 s or more outlive the 5 s a transaction may take, so that a retry    *)
(* never comes before the row it is about.                                 *)
(***************************************************************************)
EXTENDS Naturals, FiniteSets

CONSTANTS
  Hooks,        \* webhooks
  Workers,      \* jobs that run at once
  MaxAttempts,  \* MAX_ATTEMPTS of a delivery
  FanoutRuns,   \* attempts of the fanout job
  Failures      \* bound: jobs that fail or are run once more by the queue

ASSUME WebhooksAssumption ==
  /\ MaxAttempts \in Nat \ {0}
  /\ FanoutRuns \in Nat \ {0}
  /\ Failures \in Nat

VARIABLES
  removed,   \* webhooks removed
  row,       \* each delivery row, as committed
  fan,       \* the fanout job
  jobs,      \* how many jobs wait to try each row again
  worker,    \* what each worker is at
  accepted,  \* how often each subscriber accepted the event
  again,     \* how often an accepted event, or one still due, was made due once more
  stranded,  \* rows a job of which failed, for it is not run again
  failed     \* failures so far

vars == <<removed, row, fan, jobs, worker, accepted, again, stranded, failed>>

Rows == Hooks \X (1 .. FanoutRuns + Failures)       \* one for each run of the fanout

None == <<>>

Absent == [st |-> "none", n |-> 0]

\* job: a row to be tried again, or None for the fanout; todo: the webhooks the
\* fanout has yet to serve; at: the row it posts; tries: the attempts read on it;
\* wrote: the rows it has written and not committed.
Worker == [on : BOOLEAN, job : Rows \cup {None}, todo : SUBSET Hooks, at : Rows \cup {None},
           tries : Nat, ok : {"unknown", "yes", "no"},
           wrote : SUBSET [row : Rows, st : {"pending", "delivered", "failed"}, n : Nat]]

Idle == [on |-> FALSE, job |-> None, todo |-> {}, at |-> None, tries |-> 0,
         ok |-> "unknown", wrote |-> {}]

TypeOK ==
  /\ removed \subseteq Hooks
  /\ row \in [Rows -> [st : {"none", "pending", "delivered", "failed"}, n : Nat]]
  /\ fan \in [st : {"waiting", "active", "done", "dead"}, starts : Nat, fails : Nat]
  /\ jobs \in [Rows -> Nat]
  /\ worker \in [Workers -> Worker]
  /\ accepted \in [Hooks -> Nat]
  /\ again \in [Hooks -> Nat]
  /\ stranded \subseteq Rows
  /\ failed \in Nat

Init ==
  /\ removed = {}
  /\ row = [r \in Rows |-> Absent]
  /\ fan = [st |-> "waiting", starts |-> 0, fails |-> 0]
  /\ jobs = [r \in Rows |-> 0]
  /\ worker = [w \in Workers |-> Idle]
  /\ accepted = [h \in Hooks |-> 0]
  /\ again = [h \in Hooks |-> 0]
  /\ stranded = {}
  /\ failed = 0

\* A row some worker has made or written and not committed.
Locked(r) == \E w \in Workers : \/ worker[w].job = None /\ worker[w].at = r
                                \/ \E x \in worker[w].wrote : x.row = r

-----------------------------------------------------------------------------
(* WebhooksService.remove. *)

\* The deliveries go with it; the DELETE waits for those who hold one.
Remove(h) ==
  /\ h \notin removed
  /\ \A r \in Rows : r[1] = h => ~Locked(r)
  /\ removed' = removed \cup {h}
  /\ row' = [r \in Rows |-> IF r[1] = h THEN Absent ELSE row[r]]
  /\ UNCHANGED <<fan, jobs, worker, accepted, again, stranded, failed>>

-----------------------------------------------------------------------------
(* The jobs. *)

\* It serves the webhooks that are active and want the event, whichever those are by
\* now: they are created and changed at any time.
TakeFanout(w, hs) ==
  /\ ~worker[w].on /\ fan.st = "waiting"
  /\ fan' = [fan EXCEPT !.st = "active", !.starts = @ + 1]
  /\ worker' = [worker EXCEPT ![w] = [Idle EXCEPT !.on = TRUE,
                                        !.todo = hs]]
  /\ UNCHANGED <<removed, row, jobs, accepted, again, stranded, failed>>

MakeRow(w, h) ==
  /\ worker[w].on /\ worker[w].job = None /\ worker[w].at = None
  /\ h \in worker[w].todo \ removed
  /\ worker' = [worker EXCEPT ![w].at = <<h, fan.starts>>, ![w].todo = @ \ {h}]
  /\ UNCHANGED <<removed, row, fan, jobs, accepted, again, stranded, failed>>

OwedAlways(r) == row[r].st # "none"     \* mutant: delivered rows are posted again

Owed(r) == row[r].st \notin {"none", "delivered"}

TakeDeliver(w, r) ==
  /\ ~worker[w].on /\ jobs[r] > 0 /\ ~Locked(r)
  /\ jobs' = [jobs EXCEPT ![r] = @ - 1]
  /\ worker' = IF Owed(r)
               THEN [worker EXCEPT ![w] = [Idle EXCEPT !.on = TRUE, !.job = r, !.at = r,
                                                       !.tries = row[r].n]]
               ELSE worker
  /\ UNCHANGED <<removed, row, fan, accepted, again, stranded, failed>>

\* The subscriber answers, or refuses, or not in ten seconds.
Fetch(w, ok) ==
  /\ worker[w].at # None /\ worker[w].ok = "unknown"
  /\ worker' = [worker EXCEPT ![w].ok = ok]
  /\ accepted' = [accepted EXCEPT ![worker[w].at[1]] = IF ok = "yes" THEN @ + 1 ELSE @]
  /\ UNCHANGED <<removed, row, fan, jobs, again, stranded, failed>>

SameAttempts(w) == worker[w].tries      \* mutant: never counted
Attempts(w) == worker[w].tries + 1

FailedForGood(w) == Attempts(w) >= MaxAttempts

\* A failed post is counted from what was read, an accepted one on the row itself.
Written(w) ==
  LET r == worker[w].at
  IN  IF worker[w].ok = "yes" THEN [row |-> r, st |-> "delivered", n |-> row[r].n + 1]
      ELSE [row |-> r, st |-> IF FailedForGood(w) THEN "failed" ELSE "pending", n |-> Attempts(w)]

RetriesOneLess(w) == Attempts(w) + 1 < MaxAttempts   \* mutant: off by one

Retries(w) == ~FailedForGood(w)

Record(w) ==
  LET r == worker[w].at
  IN  /\ worker[w].ok # "unknown"
      /\ worker[w].job # None => row[r] # Absent /\ ~Locked(r)
      /\ worker' = [worker EXCEPT ![w].at = None, ![w].ok = "unknown", ![w].wrote = @ \cup {Written(w)}]
      /\ jobs' = IF worker[w].ok = "no" /\ Retries(w) THEN [jobs EXCEPT ![r] = @ + 1] ELSE jobs
      /\ UNCHANGED <<removed, row, fan, accepted, again, stranded, failed>>

\* The transaction is over: row after row as it was written.
Commits(w) ==
  /\ worker[w].on /\ worker[w].at = None /\ worker[w].todo = {}
  /\ row' = [r \in Rows |-> IF \E x \in worker[w].wrote : x.row = r
                            THEN LET x == CHOOSE x \in worker[w].wrote : x.row = r
                                 IN  [st |-> x.st, n |-> x.n]
                            ELSE row[r]]
  /\ worker' = [worker EXCEPT ![w] = Idle]

Commit(w) ==
  /\ Commits(w)
  /\ fan' = IF worker[w].job = None THEN [fan EXCEPT !.st = "done"] ELSE fan
  /\ UNCHANGED <<removed, jobs, accepted, again, stranded, failed>>

-----------------------------------------------------------------------------
(* Failures. *)

\* The webhook or the row it is about was removed under it.
Broken(w) ==
  \/ worker[w].job # None /\ worker[w].ok # "unknown" /\ row[worker[w].job] = Absent
  \/ worker[w].job = None /\ worker[w].at = None /\ worker[w].todo \cap removed # {}

\* Whose acceptance is not to be known.
Forgotten(w) ==
  {x.row[1] : x \in {x \in worker[w].wrote : x.st = "delivered"}}
    \cup (IF worker[w].ok = "yes" THEN {worker[w].at[1]} ELSE {})

\* Another job stands for the row this one is about: the retry it added itself, or
\* one from an earlier failure.
Beside(w) ==
  LET r == worker[w].job
  IN  {h \in Hooks : /\ r # None /\ h = r[1]
                     /\ jobs[r] > 0 \/ \E v \in Workers \ {w} : worker[v].job = r}

DueAgain(hs) == again' = [h \in Hooks |-> IF h \in hs THEN again[h] + 1 ELSE again[h]]

\* The queue runs the same job once more.
Requeue(w) ==
  IF worker[w].job = None THEN fan' = [fan EXCEPT !.st = "waiting"] /\ UNCHANGED jobs
  ELSE jobs' = [jobs EXCEPT ![worker[w].job] = @ + 1] /\ UNCHANGED fan

\* An error, or five seconds: the transaction rolls back.  The fanout has attempts
\* left; the job of one row has none.
Fail(w) ==
  /\ worker[w].on
  /\ IF Broken(w) THEN UNCHANGED failed ELSE failed < Failures /\ failed' = failed + 1
  /\ worker' = [worker EXCEPT ![w] = Idle]
  /\ DueAgain(Forgotten(w))
  /\ IF worker[w].job = None
     THEN /\ fan' = [fan EXCEPT !.fails = @ + 1,
                                !.st = IF fan.fails + 1 < FanoutRuns THEN "waiting" ELSE "dead"]
          /\ UNCHANGED stranded
     ELSE /\ stranded' = IF Beside(w) = {} THEN stranded \cup {worker[w].job} ELSE stranded
          /\ UNCHANGED fan
  /\ UNCHANGED <<removed, row, jobs, accepted>>

\* The worker dies before its transaction is over ...
Crash(w) ==
  /\ worker[w].on
  /\ failed < Failures /\ failed' = failed + 1
  /\ worker' = [worker EXCEPT ![w] = Idle]
  /\ DueAgain(Forgotten(w) \cup Beside(w))
  /\ Requeue(w)
  /\ UNCHANGED <<removed, row, accepted, stranded>>

\* ... or after it, and before the queue knows.
CrashLate(w) ==
  /\ failed < Failures /\ failed' = failed + 1
  /\ Commits(w)
  /\ DueAgain(Beside(w) \cup {h \in Hooks : worker[w].job = None /\ \E x \in worker[w].wrote : x.row[1] = h})
  /\ Requeue(w)
  /\ UNCHANGED <<removed, accepted, stranded>>

-----------------------------------------------------------------------------
Work(w) ==
  \/ \E hs \in SUBSET (Hooks \ removed) : TakeFanout(w, hs)
  \/ \E h \in Hooks : MakeRow(w, h)
  \/ \E r \in Rows : TakeDeliver(w, r)
  \/ \E ok \in {"yes", "no"} : Fetch(w, ok)
  \/ Record(w) \/ Commit(w)
  \/ Broken(w) /\ Fail(w)

Next ==
  \/ \E h \in Hooks : Remove(h)
  \/ \E w \in Workers : Work(w) \/ Fail(w) \/ Crash(w) \/ CrashLate(w)

Spec == Init /\ [][Next]_vars

\* Workers take what waits and go on with what they took; a fetch ends within 10 s.
FairSpec == Spec /\ \A w \in Workers : WF_vars(Work(w))

-----------------------------------------------------------------------------
\* A subscriber accepts an event a second time only if its first answer was lost
\* with a transaction, or two jobs came to stand for one delivery
\* (deliverOnce, "if (!delivery || delivery.status === 'delivered') return").
PostedOnce == \A h \in Hooks : accepted[h] <= 1 + again[h]

\* A delivery that is not settled has a job to settle it, but for those whose own
\* job failed (deliverOnce: "turning a transient endpoint outage into a permanent
\* delivery failure" is what a retry without a job would do).
PendingHasJob ==
  \A r \in Rows : \/ row[r].st # "pending" \/ r \in stranded
                  \/ jobs[r] > 0 \/ \E w \in Workers : worker[w].job = r

\* In the end no delivery of the event is pending: each was accepted, given up after
\* MAX_ATTEMPTS or removed, unless its job failed (deliverOnce).
DeliveriesSettle == <>[](\A r \in Rows : row[r].st # "pending" \/ r \in stranded)
=============================================================================
