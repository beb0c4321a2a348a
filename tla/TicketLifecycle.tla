------------------------- MODULE TicketLifecycle -------------------------
(***************************************************************************)
(* A support ticket and the request handlers that move it: the console's   *)
(* patch, reply, bot switch and merge (tickets.service, messages.service)  *)
(* and the chatbot's append, handoff and resolve (chat.module).            *)
(*                                                                         *)
(* Every authenticated request runs in one READ COMMITTED transaction      *)
(* (workspace-binding.interceptor), and every handler has one shape: read  *)
(* the ticket without locking it, decide in memory, UPDATE the columns it  *)
(* decided on.  So a request is two steps here.  A Begin action is the     *)
(* read and the decision; it stores the columns to SET.  Commit applies    *)
(* them to the row as it is BY THEN, because an UPDATE by id waits for the *)
(* other writer's row lock and then overwrites only its own columns.       *)
(* Rollback is the transaction that times out or fails.                    *)
(*                                                                         *)
(* Abstracted: ids, bodies, tags, priority, outcome and team scope (the    *)
(* actor may see the ticket); firstResponseDueAt and resolutionDueAt are   *)
(* one `due', both being moved together; SLA policies attach no business   *)
(* calendar, so a business minute is a minute of `now'.                    *)
(***************************************************************************)
EXTENDS Integers, Sequences

CONSTANTS
  Tickets,      \* the tickets of the desk
  BotTickets,   \* those a chatbot filed (createdByApiKeyId is set)
  Requests,     \* transactions that may be in flight at once
  Ops,          \* the endpoints in use
  Roles,        \* who calls them
  Assigns,      \* assigneeId in a patch: TRUE somebody, FALSE nobody
  None,         \* null
  Same,         \* a column an UPDATE leaves out
  SlaMins,      \* the policy's target, in minutes
  MaxNow,       \* bound: the clock stops here
  MaxThread     \* bound: no message is added to a longer thread

\* An admin passes every check below that a lead passes.
Role == {"agent", "lead", "key"}

Endpoint == {"patch", "reply", "bot-enabled", "append", "handoff", "resolve", "merge"}

VARIABLES
  ticket,   \* the tickets table: one row per ticket
  thread,   \* ticket_messages: the authors of each ticket's messages, in order
  req,      \* the in-flight request of each slot
  now,      \* the clock, in minutes
  waited    \* history: how long each console ticket has been in pending or on_hold

vars == <<ticket, thread, req, now, waited>>

-----------------------------------------------------------------------------
Status   == {"new", "open", "pending", "on_hold", "resolved", "closed"}
Finished == {"resolved", "closed"}
Pausing  == {"pending", "on_hold"}

Author == {"customer", "bot", "agent", "system", "note"}

Time   == Nat \cup {None}

ASSUME TicketAssumption ==
  /\ BotTickets \subseteq Tickets
  /\ Ops \subseteq Endpoint
  /\ Roles \subseteq Role
  /\ Assigns \subseteq BOOLEAN
  /\ SlaMins \in Nat /\ MaxNow \in Nat /\ MaxThread \in Nat
  /\ None # Same
  /\ \A null \in {None, Same} :
       /\ null \notin Nat /\ null \notin BOOLEAN /\ null \notin Tickets
       /\ null \notin Status /\ null \notin Author

(* The columns of a ticket row.  The stamps that no handler compares with   *)
(* another time are only set or null.                                       *)
Row == [status : Status, assigned : BOOLEAN, bot : BOOLEAN, handedOff : BOOLEAN,
        firstResponded : BOOLEAN, botReplied : BOOLEAN,
        resolvedAt : BOOLEAN, closedAt : BOOLEAN, pausedAt : Time, due : Time]

Flag == BOOLEAN \cup {Same}

\* The data argument of an UPDATE.
Data == [status : Status \cup {Same}, assigned : Flag, bot : Flag, handedOff : Flag,
         firstResponded : Flag, botReplied : Flag,
         resolvedAt : Flag, closedAt : Flag, pausedAt : Time \cup {Same}, due : Time \cup {Same}]

Leave == [status |-> Same, assigned |-> Same, bot |-> Same, handedOff |-> Same,
          firstResponded |-> Same, botReplied |-> Same,
          resolvedAt |-> Same, closedAt |-> Same, pausedAt |-> Same, due |-> Same]

\* The spread  ...(cond ? { column: value } : {})
When(cond, value) == IF cond THEN value ELSE Same

Idle == [op |-> "idle", by |-> None, on |-> None, into |-> None, at |-> 0,
         set |-> Leave, says |-> None]

Request == [op : Endpoint, by : Role, on : Tickets, into : Tickets \cup {None}, at : Nat,
            set : Data, says : Author \cup {None}]

TypeOK ==
  /\ ticket \in [Tickets -> Row]
  /\ thread \in [Tickets -> Seq(Author)]
  /\ req \in [Requests -> Request \cup {Idle}]
  /\ now \in Nat
  /\ waited \in [Tickets \ BotTickets -> [since : Time, mins : Int]]

-----------------------------------------------------------------------------
(* ticket-state-machine.ts *)

TRANSITIONS ==
  [new      |-> {"open", "pending", "on_hold", "resolved", "closed"},
   open     |-> {"pending", "on_hold", "resolved", "closed"},
   pending  |-> {"open", "on_hold", "resolved", "closed"},
   on_hold  |-> {"open", "pending", "resolved", "closed"},
   resolved |-> {"open", "closed"},
   closed   |-> {"open"}]

IsReopen(from, to) == from \in Finished /\ to = "open"

handlingOf(t, row) ==
  IF row.status \in Finished THEN "closed"
  ELSE IF t \in BotTickets /\ ~row.handedOff THEN "ai"
  ELSE IF row.assigned THEN "assigned"
  ELSE IF t \in BotTickets THEN "escalated" ELSE "human"

-----------------------------------------------------------------------------
(* sla.service.ts, timerPatchForTransition.  Entering pending or on_hold    *)
(* pauses the clock; leaving them extends the deadline by the pause.        *)

PausesPendingOnly(to) == to = "pending"                        \* mutant

Pauses(to) == to \in Pausing

PauseRestarts(row, to) == Pauses(to)                           \* mutant: its minutes are lost

PauseBegins(row, to) == Pauses(to) /\ row.pausedAt = None

Extended(row) == When(row.due # None, row.due + (now - row.pausedAt))

StampsBoth(to, stamp) == When(to = "resolved", TRUE)           \* mutant: no closedAt

Stamps(to, stamp) == When(to = stamp, TRUE)

timerPatchForTransition(row, to) ==
  LET resumes == ~Pauses(to) /\ row.pausedAt # None
  IN  [Leave EXCEPT
         !.pausedAt = IF resumes THEN None ELSE When(PauseBegins(row, to), now),
         !.due = IF resumes THEN Extended(row) ELSE Same,
         !.resolvedAt = Stamps(to, "resolved"),
         !.closedAt = Stamps(to, "closed")]

-----------------------------------------------------------------------------
(* The read half of every request. *)

Start(r, op, by, t, into, set, says) ==
  /\ req[r] = Idle /\ op \in Ops
  /\ req' = [req EXCEPT ![r] = [op |-> op, by |-> by, on |-> t, into |-> into,
                                at |-> now, set |-> set, says |-> says]]
  /\ UNCHANGED <<ticket, thread, now, waited>>

Room(t) == Len(thread[t]) < MaxThread

(* PATCH /tickets/:id, and assign, transition and bulk which call it: a new  *)
(* status, a new assignee, or both.                                          *)

MayMove(row, to, by) == /\ to \in TRANSITIONS[row.status]
                        /\ IsReopen(row.status, to) => by = "lead"

applyTransition(row, to) ==
  LET reopens == IsReopen(row.status, to)
  IN  [timerPatchForTransition(row, to) EXCEPT
         !.status = to,
         !.resolvedAt = IF reopens THEN FALSE ELSE @,
         !.closedAt = IF reopens THEN FALSE ELSE @]

\* An agent may only assign itself; it cannot unassign.
MayAssign(by, who) == by = "agent" => who # FALSE

Moves(row, to) == to \notin {None, row.status}

PatchSet(row, to, who) ==
  [(IF Moves(row, to) THEN applyTransition(row, to) ELSE Leave) EXCEPT
     !.assigned = When(who # None, who)]

Patch(r, t, by, to, who) ==
  LET row == ticket[t]
  IN  /\ Moves(row, to) \/ who # None
      /\ MayAssign(by, who)
      /\ Moves(row, to) => MayMove(row, to, by)
      /\ Start(r, "patch", by, t, None, PatchSet(row, to, who), None)

(* POST /tickets/:id/messages.  A person's public reply takes the            *)
(* conversation from the bot, whether or not anyone called handoff.          *)

RepliesQuietly(row) ==  \* mutant: no handedOffAt
  [Leave EXCEPT !.bot = FALSE, !.firstResponded = When(~row.firstResponded, TRUE),
                !.status = When(row.status = "new", "open")]

PublicReply(row) ==
  [Leave EXCEPT !.bot = FALSE, !.handedOff = TRUE,
                !.firstResponded = When(~row.firstResponded, TRUE),
                !.status = When(row.status = "new", "open")]

Reply(r, t, by, note) ==
  LET public == by # "key" /\ ~note
  IN  /\ Room(t)
      /\ Start(r, "reply", by, t, None, IF public THEN PublicReply(ticket[t]) ELSE Leave,
               IF note THEN "note" ELSE IF by = "key" THEN "system" ELSE "agent")

(* POST /tickets/:id/bot-enabled, for people only. *)
SetBotEnabled(r, t, by, enabled) ==
  /\ by # "key"
  /\ Start(r, "bot-enabled", by, t, None, [Leave EXCEPT !.bot = enabled], None)

(* POST /chat/:sessionRef/messages: the visitor types or the bot answers.    *)

BotMayPost(row) == row.bot

BotReplyCounts(row) ==  \* mutant: a bot answer satisfies first response
  [Leave EXCEPT !.botReplied = TRUE, !.firstResponded = TRUE]

BotAnswers(row) == [Leave EXCEPT !.botReplied = TRUE]

ReopensResolvedOnly(row) ==  \* mutant: a closed conversation stays closed
  IF row.status = "resolved"
  THEN [Leave EXCEPT !.status = "open", !.resolvedAt = FALSE, !.closedAt = FALSE]
  ELSE Leave
ReopensKeepingStamps(row) ==  \* mutant: the stamps survive the reopening
  IF row.status \in Finished THEN [Leave EXCEPT !.status = "open"] ELSE Leave

VisitorWrites(row) ==
  LET finished == row.status \in Finished
      waits    == row.handedOff /\ row.status = "pending"
  IN  [Leave EXCEPT !.status = When(finished \/ waits, "open"),
                    !.pausedAt = When(waits, None),
                    !.resolvedAt = When(finished, FALSE),
                    !.closedAt = When(finished, FALSE)]

AppendMessage(r, t, author) ==
  /\ t \in BotTickets /\ Room(t)
  /\ author = "bot" => BotMayPost(ticket[t])
  /\ Start(r, "append", "key", t, None,
           IF author = "bot" THEN BotAnswers(ticket[t]) ELSE VisitorWrites(ticket[t]), author)

(* POST /chat/:sessionRef/handoff: the bot gives up; the human clock starts. *)

HandoffLeavesBot(row) ==  \* mutant: the bot keeps the floor
  [Leave EXCEPT !.handedOff = TRUE, !.status = "open", !.pausedAt = None, !.due = now + SlaMins]

HandoffSet(row) ==
  [Leave EXCEPT !.handedOff = TRUE, !.bot = FALSE, !.status = "open", !.pausedAt = None,
                !.due = now + SlaMins,
                !.resolvedAt = When(row.status \in Finished, FALSE),
                !.closedAt = When(row.status \in Finished, FALSE)]

Handoff(r, t, reason) ==
  /\ t \in BotTickets /\ ~ticket[t].handedOff /\ Room(t)
  /\ Start(r, "handoff", "key", t, None, HandoffSet(ticket[t]), IF reason THEN "note" ELSE None)

(* POST /chat/:sessionRef/resolve: the bot closes what it answered alone.    *)

BotMayResolve(row) == ~row.handedOff /\ row.status \notin Finished

Resolve(r, t) ==
  /\ t \in BotTickets /\ BotMayResolve(ticket[t])
  /\ Start(r, "resolve", "key", t, None, [Leave EXCEPT !.status = "resolved", !.resolvedAt = TRUE], None)

(* POST /tickets/:id/merge: the thread moves to the target, the source closes. *)

MayMerge(source, target) == target.status \notin Finished

Merge(r, s, t) ==
  /\ s # t /\ Len(thread[s]) + Len(thread[t]) < MaxThread
  /\ MayMerge(ticket[s], ticket[t])
  /\ Start(r, "merge", "lead", s, t, [Leave EXCEPT !.status = "closed", !.closedAt = TRUE], None)

-----------------------------------------------------------------------------
(* The write half, the failure, and the clock. *)

\* The row an UPDATE leaves behind.
Over(set, row) == [c \in DOMAIN row |-> IF set[c] = Same THEN row[c] ELSE set[c]]

Write(q) == /\ ticket' = [ticket EXCEPT ![q.on] = Over(q.set, @)]
            /\ UNCHANGED now

\* A console ticket begins to wait, goes on waiting, or has waited since.
Waits(w, q) ==
  IF q.set.status = Same THEN w
  ELSE IF q.set.status \in Pausing THEN [w EXCEPT !.since = IF @ = None THEN q.at ELSE @]
  ELSE IF w.since = None THEN w
  ELSE [since |-> None, mins |-> w.mins + (q.at - w.since)]

Commit(r) ==
  LET q == req[r] IN
  /\ q # Idle /\ q.op # "merge"
  /\ Write(q)
  /\ thread' = IF q.says = None THEN thread ELSE [thread EXCEPT ![q.on] = Append(@, q.says)]
  /\ waited' = IF q.on \in BotTickets THEN waited ELSE [waited EXCEPT ![q.on] = Waits(@, q)]
  /\ req' = [req EXCEPT ![r] = Idle]

\* The source keeps its pause, until it is reopened.
CommitMerge(r) ==
  LET q == req[r] IN
  /\ q.op = "merge"
  /\ Write(q)
  /\ thread' = [t \in Tickets |-> CASE t = q.on   -> <<>>
                                   [] t = q.into -> Append(thread[t] \o thread[q.on], "note")
                                   [] OTHER      -> thread[t]]
  /\ req' = [req EXCEPT ![r] = Idle]
  /\ UNCHANGED waited

Rollback(r) ==
  /\ req[r] # Idle
  /\ req' = [req EXCEPT ![r] = Idle]
  /\ UNCHANGED <<ticket, thread, now, waited>>

Tick == now < MaxNow /\ now' = now + 1 /\ UNCHANGED <<ticket, thread, req, waited>>

Created(t) ==
  [status |-> "new", assigned |-> FALSE, bot |-> TRUE, handedOff |-> FALSE,
   firstResponded |-> FALSE, botReplied |-> FALSE, resolvedAt |-> FALSE, closedAt |-> FALSE,
   pausedAt |-> None, due |-> IF t \in BotTickets THEN None ELSE SlaMins]

Init ==
  /\ ticket = [t \in Tickets |-> Created(t)]
  /\ thread = [t \in Tickets |-> <<>>]
  /\ req = [r \in Requests |-> Idle]
  /\ now = 0
  /\ waited = [t \in Tickets \ BotTickets |-> [since |-> None, mins |-> 0]]

Console(r, t) ==
  \/ \E by \in Roles, to \in Status \cup {None}, who \in Assigns \cup {None} : Patch(r, t, by, to, who)
  \/ \E by \in Roles, note \in BOOLEAN : Reply(r, t, by, note)
  \/ \E by \in Roles, enabled \in BOOLEAN : SetBotEnabled(r, t, by, enabled)
  \/ \E target \in Tickets : Merge(r, t, target)

Chatbot(r, t) ==
  \/ \E author \in {"customer", "bot"} : AppendMessage(r, t, author)
  \/ \E reason \in BOOLEAN : Handoff(r, t, reason)
  \/ Resolve(r, t)

Next ==
  \/ \E r \in Requests :
        \/ \E t \in Tickets : Console(r, t) \/ Chatbot(r, t)
        \/ Commit(r) \/ CommitMerge(r) \/ Rollback(r)
  \/ Tick

Spec == Init /\ [][Next]_vars

-----------------------------------------------------------------------------
(* What holds however requests interleave. *)

\* A conversation shown as handled by the bot is one no person has answered
\* in public: a reply stamps handedOffAt in the transaction that stores it
\* (messages.service, tickets.service handlingOf).  Merge breaks it, because
\* it moves a thread without the stamps.
AiMeansNobodyAnswered ==
  \A t \in Tickets :
    handlingOf(t, ticket[t]) = "ai" => \A i \in 1..Len(thread[t]) : thread[t][i] # "agent"

\* Whatever row a stale UPDATE lands on, a resolved ticket carries resolvedAt
\* and a closed one closedAt: status and stamps move in one SET.
FinishedMeansStamped ==
  \A t \in Tickets : /\ ticket[t].status = "resolved" => ticket[t].resolvedAt
                     /\ ticket[t].status = "closed" => ticket[t].closedAt

\* First response is only ever stamped by a person's public reply, never by
\* the bot's answer (the comment in chat.module appendMessage).  Of a ticket
\* not merged away, whose thread is gone.
FirstResponseIsHuman ==
  \A t \in Tickets :
    ticket[t].firstResponded => \E i \in 1..Len(thread[t]) : thread[t][i] = "agent"

Commits(r) == req[r] # Idle /\ req'[r] = Idle /\ ticket' # ticket

\* The floor changes hands in one step.  The bot is silenced by the very
\* commit that hands the conversation over, a hand-over is never undone, and
\* only a person's switch gives the bot the floor back.
FloorPassesAtomically ==
  [][\A t \in Tickets :
       /\ ticket[t].handedOff => ticket'[t].handedOff
       /\ ~ticket[t].handedOff /\ ticket'[t].handedOff => ~ticket'[t].bot
       /\ ~ticket[t].bot /\ ticket'[t].bot =>
            \E r \in Requests : Commits(r) /\ req[r].op = "bot-enabled" /\ req[r].by # "key"
    ]_vars

-----------------------------------------------------------------------------
(* What holds of one request at a time, and what interleaving breaks.  Every *)
(* guard is evaluated on the row as read, every write lands on the row as it  *)
(* is by then.                                                                *)

Says(t, author) == /\ Len(thread'[t]) = Len(thread[t]) + 1
                   /\ thread'[t][Len(thread'[t])] = author

\* A visitor's reply to a finished conversation reopens it: no visitor message
\* lands on a ticket and leaves it resolved or closed (chat.module).
VisitorReplyIsSeen ==
  [][\A t \in Tickets : Says(t, "customer") => ticket'[t].status \notin Finished]_vars

\* An unfinished ticket carries no resolution stamp, or the reports count work
\* that is still open as done.
UnfinishedMeansUnstamped ==
  \A t \in Tickets :
    ticket[t].status \notin Finished => ~ticket[t].resolvedAt /\ ~ticket[t].closedAt

-----------------------------------------------------------------------------
(* The SLA clock of console tickets, one request at a time.  On a chatbot's   *)
(* ticket a visitor's reply ends a pause without extending the due times, and *)
(* the bot's resolve leaves one running.                                      *)

\* "Entering pending/on_hold pauses the clock; returning to open extends both due
\* times by the paused duration" (sla.service): after any number of pauses, each of
\* them in one waiting state or in both, a ticket is due when its target and every
\* minute it has waited are over.  A ticket that was merged waits until it is reopened.
DueFollowsWaiting ==
  \A t \in Tickets \ BotTickets : ticket[t].due = SlaMins + waited[t].mins

\* The clock stands still while the ticket waits in pending or on_hold and runs
\* while it is new or open; the sweep skips a paused ticket, so an open one that
\* is paused is never announced.  A merge leaves its closed source paused.
PausedWhileWaiting ==
  \A t \in Tickets \ BotTickets :
    /\ ticket[t].status \in Pausing => ticket[t].pausedAt # None
    /\ ticket[t].status \in {"new", "open"} => ticket[t].pausedAt = None

=============================================================================
