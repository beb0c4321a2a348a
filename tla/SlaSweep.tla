------------------------------ MODULE SlaSweep ------------------------------
(***************************************************************************)
(* The SLA sweep of one desk (processors.ts, SlaSweepProcessor).           *)
(*                                                                         *)
(* Every minute a worker reads the tickets whose first response is due     *)
(* soon or overdue, the most overdue first and no more than Batch, and     *)
(* announces each once.  Its memory is a marker among the ticket's tags:   *)
(* an UPDATE appends the marker unless the row has it, and notices are     *)
(* enqueued if it did.  The sweep is one transaction, but the queue is not *)
(* part of it; two workers may sweep at once; and a request that edits the *)
(* tags writes back the markers it read (tickets.service, patch).          *)
(*                                                                         *)
(* Left out: who is notified.  The order of the due times is fixed, though *)
(* a pause that ends extends one of them.                                  *)
(***************************************************************************)
EXTENDS Naturals, FiniteSets

CONSTANTS
  Tickets,    \* the tickets, in the order of their due times
  Sweeps,     \* sweeps that may run at once
  Edits,      \* tag edits that may be in flight at once
  Batch,      \* BATCH
  Drops       \* bound: sweeps that roll back and edits that drop a marker

ASSUME SweepAssumption ==
  /\ Tickets \subseteq Nat \ {0}
  /\ Batch \in Nat \ {0}
  /\ Drops \in Nat

VARIABLES
  waits,    \* the tickets due within half an hour, new or open, unpaused, unanswered
  late,     \* those whose due time is past
  tags,     \* the markers on each row, as committed
  sweep,    \* each sweep
  edit,     \* each tag edit
  told,     \* how often each marker's notices were enqueued
  undone,   \* how often each marker was lost
  dropped   \* failures so far

sweepVars == <<waits, late, tags, sweep, edit, told, undone, dropped>>

Marker == {"soon", "late"}        \* sla:due-soon, sla:breached
Mark == Tickets \X Marker

\* todo: the marks to put on, as the snapshot has them; adds: those put on and not
\* committed, each with its row's lock.
Sweep == [on : BOOLEAN, todo : SUBSET Mark, adds : SUBSET Mark]

NoSweep == [on |-> FALSE, todo |-> {}, adds |-> {}]

Edit == [ticket : Tickets, keep : SUBSET Marker]

NoEdit == [ticket |-> 0, keep |-> {}]

SweepTypeOK ==
  /\ waits \subseteq Tickets
  /\ late \subseteq Tickets
  /\ tags \in [Tickets -> SUBSET Marker]
  /\ sweep \in [Sweeps -> Sweep]
  /\ edit \in [Edits -> Edit \cup {NoEdit}]
  /\ told \in [Mark -> Nat]
  /\ undone \in [Mark -> Nat]
  /\ dropped \in Nat

SweepInit ==
  /\ waits = {}
  /\ late = {}
  /\ tags = [t \in Tickets |-> {}]
  /\ sweep = [s \in Sweeps |-> NoSweep]
  /\ edit = [e \in Edits |-> NoEdit]
  /\ told = [k \in Mark |-> 0]
  /\ undone = [k \in Mark |-> 0]
  /\ dropped = 0

\* These marks are no longer on their rows, though they were announced.
Lose(marks) == undone' = [k \in Mark |-> IF k \in marks THEN undone[k] + 1 ELSE undone[k]]

-----------------------------------------------------------------------------
(* The sweep. *)

LatestDue == {t \in waits : Cardinality({u \in waits : u > t}) < Batch}  \* mutant: orderBy desc

Candidates == {t \in waits : Cardinality({u \in waits : u < t}) < Batch}

MarkOf(t) == <<t, IF t \in late THEN "late" ELSE "soon">>

\* Tickets that carry their mark already are skipped on the snapshot's word.
Begin(s) ==
  /\ ~sweep[s].on
  /\ Candidates # {}
  /\ LET todo == {k \in {MarkOf(t) : t \in Candidates} : k[2] \notin tags[k[1]]}
     IN  sweep' = [sweep EXCEPT ![s] = [on |-> TRUE, todo |-> todo, adds |-> {}]]
  /\ UNCHANGED <<waits, late, tags, edit, told, undone, dropped>>

\* The UPDATE waits for a sweep that has not committed its marker on the row.
RowLocked(t) == \E s \in Sweeps, m \in Marker : <<t, m>> \in sweep[s].adds

Turn(s, k) ==
  /\ k \in sweep[s].todo
  /\ \A j \in sweep[s].todo : k[1] <= j[1]
  /\ ~RowLocked(k[1])

AppendsAlways(k) == TRUE          \* mutant: the snapshot alone decides

\* NOT (tags @> marker), on the row as it is after the wait.
Appends(k) == k[2] \notin tags[k[1]]

Announce(s, k) ==
  /\ Turn(s, k) /\ Appends(k)
  /\ sweep' = [sweep EXCEPT ![s].todo = @ \ {k}, ![s].adds = @ \cup {k}]
  /\ told' = [told EXCEPT ![k] = @ + 1]
  /\ UNCHANGED <<waits, late, tags, edit, undone, dropped>>

\* Another worker got there first.
Pass(s, k) ==
  /\ Turn(s, k) /\ ~Appends(k)
  /\ sweep' = [sweep EXCEPT ![s].todo = @ \ {k}]
  /\ UNCHANGED <<waits, late, tags, edit, told, undone, dropped>>

CommitSweep(s) ==
  /\ sweep[s].on /\ sweep[s].todo = {}
  /\ tags' = [t \in Tickets |-> tags[t] \cup {m \in Marker : <<t, m>> \in sweep[s].adds}]
  /\ sweep' = [sweep EXCEPT ![s] = NoSweep]
  /\ UNCHANGED <<waits, late, edit, told, undone, dropped>>

\* The transaction fails or runs out of time; what is in the queue stays there.
Rollback(s) ==
  /\ sweep[s].on
  /\ dropped < Drops /\ dropped' = dropped + 1
  /\ Lose(sweep[s].adds)
  /\ sweep' = [sweep EXCEPT ![s] = NoSweep]
  /\ UNCHANGED <<waits, late, tags, edit, told>>

-----------------------------------------------------------------------------
(* A request that replaces a ticket's tags. *)

BeginEdit(e, t) ==
  /\ edit[e] = NoEdit
  /\ edit' = [edit EXCEPT ![e] = [ticket |-> t, keep |-> tags[t]]]
  /\ UNCHANGED <<waits, late, tags, sweep, told, undone, dropped>>

\* Writes the markers it read, over those that were put on since.
EndEdit(e) ==
  LET t == edit[e].ticket
      lost == {<<t, m>> : m \in tags[t] \ edit[e].keep}
  IN  /\ edit[e] # NoEdit /\ ~RowLocked(t)
      /\ tags' = [tags EXCEPT ![t] = edit[e].keep]
      /\ Lose(lost)
      /\ IF lost = {} THEN UNCHANGED dropped ELSE dropped < Drops /\ dropped' = dropped + 1
      /\ edit' = [edit EXCEPT ![e] = NoEdit]
      /\ UNCHANGED <<waits, late, sweep, told>>

-----------------------------------------------------------------------------
(* Time, and whatever answers, pauses or resumes a ticket. *)

\* A ticket comes up for its response, or no longer.
Move(t) ==
  /\ waits' = IF t \in waits THEN waits \ {t} ELSE waits \cup {t}
  /\ UNCHANGED <<late, tags, sweep, edit, told, undone, dropped>>

Miss(t) ==
  /\ \A u \in Tickets : u < t => u \in late
  /\ late' = late \cup {t}
  /\ UNCHANGED <<waits, tags, sweep, edit, told, undone, dropped>>

Sweeping(s) == Begin(s) \/ (\E k \in Mark : Announce(s, k) \/ Pass(s, k)) \/ CommitSweep(s)

SweepNext ==
  \/ \E s \in Sweeps : Sweeping(s) \/ Rollback(s)
  \/ \E e \in Edits : (\E t \in Tickets : BeginEdit(e, t)) \/ EndEdit(e)
  \/ \E t \in Tickets : Move(t) \/ Miss(t)

SweepSpec == SweepInit /\ [][SweepNext]_sweepVars

\* The scheduler goes on adding sweeps, and a worker finishes one it began.
FairSweepSpec == SweepSpec /\ \A s \in Sweeps : WF_sweepVars(Sweeping(s))

-----------------------------------------------------------------------------
\* "Emit due-soon/breach events once per ticket" (SlaSweepProcessor): notices
\* go out once for each time the marker was put on, whichever sweeps overlap,
\* and once more only if that marker was lost; and no marker stands that was
\* never announced, or its ticket would stay silent for good.
Marked(k) == k[2] \in tags[k[1]] \/ \E s \in Sweeps : k \in sweep[s].adds

NoticedOnce ==
  \A k \in Mark : /\ told[k] <= undone[k] + (IF Marked(k) THEN 1 ELSE 0)
                  /\ Marked(k) => told[k] > 0

\* A ticket that is overdue and stays among the Batch most overdue is announced
\* ("most overdue first", sweepWorkspace), though sweeps fail and edits erase markers.
Foremost(t) == t \in waits \cap late /\ Cardinality({u \in waits : u < t}) < Batch

OverdueIsTold ==
  \A t \in Tickets : Foremost(t) ~> (told[<<t, "late">>] > 0 \/ ~Foremost(t))

=============================================================================
