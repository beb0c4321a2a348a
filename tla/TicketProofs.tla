----------------------------- MODULE TicketProofs -----------------------------
(***************************************************************************)
(* Whatever row a stale UPDATE lands on, some facts about it survive,      *)
(* because every data argument carries them whole: one that finishes a     *)
(* ticket stamps it, one that removes a stamp reopens it, one that hands a *)
(* conversation over silences the bot, and so on.  Fits says it of one     *)
(* data argument, apart from the row it was decided on and the row it will *)
(* meet; the invariant says it of every request in flight.                 *)
(*                                                                         *)
(* The clock of a ticket in working time comes last: at any point of a     *)
(* walk through the calendar, what it has counted is what was worked from  *)
(* where it began up to where it is.                                       *)
(***************************************************************************)
EXTENDS TicketLifecycle, BusinessHours, FiniteSetTheorems, TLAPS

Fits(q) ==
  /\ q.set.pausedAt \notin {None, Same} => q.set.pausedAt <= now
  /\ q.set.status = "resolved" => q.set.resolvedAt = TRUE
  /\ q.set.status = "closed" => q.set.closedAt = TRUE
  /\ q.set.resolvedAt = FALSE => q.set.status = "open"
  /\ q.set.closedAt = FALSE => q.set.status = "open"
  /\ q.set.handedOff # Same => q.set.handedOff = TRUE /\ q.set.bot = FALSE
  /\ q.set.bot = TRUE => q.op = "bot-enabled" /\ q.by # "key"
  /\ q.set.firstResponded # Same => q.set.firstResponded = TRUE /\ q.says = "agent"
  /\ q.says = "agent" => q.set.handedOff = TRUE
  /\ q.op \in Ops

\* No pause began in the future.
PausesPast == \A t \in Tickets : ticket[t].pausedAt # None => ticket[t].pausedAt <= now

InFlightFits == \A r \in Requests : req[r] # Idle => Fits(req[r])

IInv == TypeOK /\ PausesPast /\ InFlightFits /\ FinishedMeansStamped

-----------------------------------------------------------------------------
(* Every endpoint's data argument is one, and fits. *)

\* What a Begin action promises of the data it stores.
Sound(op, by, set, says) ==
  set \in Data /\ Fits([op |-> op, by |-> by, on |-> None, into |-> None, at |-> 0,
                        set |-> set, says |-> says])

LEMMA Nulls ==
  /\ Same # None /\ Same # TRUE /\ Same # FALSE
  /\ Same # "resolved" /\ Same # "closed" /\ Same # "open"
  /\ None # "agent" /\ None # "bot" /\ None # "customer"
<1> QED
  BY TicketAssumption DEF Status, Author

LEMMA TransitionFits ==
  ASSUME TypeOK, PausesPast, NEW t \in Tickets, NEW to \in Status, "patch" \in Ops
  PROVE  LET set == applyTransition(ticket[t], to)
         IN  Sound("patch", "lead", set, None) /\ set.bot = Same /\ set.handedOff = Same
<1> USE TicketAssumption
<1> DEFINE row == ticket[t]
<1>1. /\ row \in Row /\ now \in Nat
      /\ row.pausedAt # None => row.pausedAt <= now
  BY DEF TypeOK, PausesPast
<1> HIDE DEF row
<1>2. ASSUME row.pausedAt # None PROVE Extended(row) \in Time \cup {Same}
  BY <1>1, <1>2 DEF Extended, When, Row, Time
<1>3. timerPatchForTransition(row, to) \in Data
  BY <1>1, <1>2 DEF timerPatchForTransition, Stamps, When, Data, Leave, Flag, Time
<1>4. LET set == timerPatchForTransition(row, to)
      IN  /\ set.bot = Same /\ set.handedOff = Same /\ set.firstResponded = Same
          /\ set.pausedAt \notin {None, Same} => set.pausedAt = now
          /\ set.resolvedAt = IF to = "resolved" THEN TRUE ELSE Same
          /\ set.closedAt = IF to = "closed" THEN TRUE ELSE Same
  BY DEF timerPatchForTransition, Stamps, When, Leave
<1> DEFINE timer == timerPatchForTransition(row, to)
           set == applyTransition(row, to)
<1> HIDE DEF timer
<1>5. set \in Data
  <2>1. ASSUME NEW a \in Flag, NEW b \in Flag
        PROVE  [timer EXCEPT !.status = to, !.resolvedAt = a, !.closedAt = b] \in Data
    BY <1>3 DEF timer, Data
  <2>2. timer.resolvedAt \in Flag /\ timer.closedAt \in Flag /\ FALSE \in Flag
    BY <1>3 DEF timer, Data, Flag
  <2> QED
    BY <2>1, <2>2 DEF applyTransition, timer
<1>6. set.status = to /\ set.bot = timer.bot /\ set.handedOff = timer.handedOff
      /\ set.firstResponded = timer.firstResponded /\ set.pausedAt = timer.pausedAt
  BY <1>3 DEF applyTransition, timer, Data
<1>7. /\ set.resolvedAt = IF IsReopen(row.status, to) THEN FALSE ELSE timer.resolvedAt
      /\ set.closedAt = IF IsReopen(row.status, to) THEN FALSE ELSE timer.closedAt
  BY <1>3 DEF applyTransition, timer, Data
<1> HIDE DEF set
<1>8. /\ Same \notin {TRUE, FALSE} /\ None # "agent"
      /\ {None, Same} \cap Status = {} /\ set.status \in Status
  BY <1>6 DEF Author
<1>9. set.pausedAt \notin {None, Same} => set.pausedAt <= now
  BY <1>1, <1>4, <1>6 DEF timer
<1>10. /\ to = "resolved" => set.resolvedAt = TRUE
       /\ to = "closed" => set.closedAt = TRUE
       /\ set.resolvedAt = FALSE => to = "open"
       /\ set.closedAt = FALSE => to = "open"
  BY <1>4, <1>7, <1>8 DEF timer, IsReopen
<1>11. Sound("patch", "lead", set, None)
  BY <1>4, <1>5, <1>6, <1>8, <1>9, <1>10 DEF timer, Sound, Fits
<1> QED
  BY <1>4, <1>6, <1>11 DEF timer, set, row

LEMMA LeaveFits == ASSUME NEW op \in Ops, NEW by, NEW says, says # "agent" PROVE Sound(op, by, Leave, says)
<1> QED
  BY Nulls DEF Sound, Fits, Leave, Data, Flag

LEMMA PatchFits ==
  ASSUME TypeOK, PausesPast, NEW t \in Tickets, NEW by, "patch" \in Ops,
         NEW to \in Status \cup {None}, NEW who \in Assigns \cup {None}
  PROVE  Sound("patch", by, PatchSet(ticket[t], to, who), None)
<1> USE TicketAssumption
<1> DEFINE set == IF Moves(ticket[t], to) THEN applyTransition(ticket[t], to) ELSE Leave
<1>1. Sound("patch", by, set, None) /\ set.bot = Same
  <2>1. None # "agent"
    BY DEF Author
  <2>2. CASE Moves(ticket[t], to)
    BY <2>2, TransitionFits DEF Moves, Sound, Fits
  <2> QED
    BY <2>1, <2>2, LeaveFits DEF Leave
<1> HIDE DEF set
<1>2. PatchSet(ticket[t], to, who) = [set EXCEPT !.assigned = When(who # None, who)]
  BY DEF PatchSet, set
<1>3. When(who # None, who) \in Flag
  BY DEF When, Flag
<1> QED
  BY <1>1, <1>2, <1>3 DEF Sound, Fits, Data

LEMMA ReplyFits ==
  ASSUME TypeOK, NEW t \in Tickets, NEW by, "reply" \in Ops
  PROVE  Sound("reply", by, PublicReply(ticket[t]), "agent")
<1> QED
  BY TicketAssumption DEF Sound, Fits, PublicReply, Leave, Data, Flag, Status, When

LEMMA BotEnabledFits ==
  ASSUME NEW by, by # "key", NEW enabled \in BOOLEAN, "bot-enabled" \in Ops
  PROVE  Sound("bot-enabled", by, [Leave EXCEPT !.bot = enabled], None)
<1> QED
  BY Nulls DEF Sound, Fits, Leave, Data, Flag

LEMMA VisitorFits ==
  ASSUME TypeOK, NEW t \in Tickets, NEW by, "append" \in Ops
  PROVE  Sound("append", by, VisitorWrites(ticket[t]), "customer")
<1> QED
  BY TicketAssumption DEF Sound, Fits, VisitorWrites, Leave, Data, Flag, Status, When, Time

LEMMA BotAnswerFits ==
  ASSUME NEW row, NEW by, "append" \in Ops
  PROVE  Sound("append", by, BotAnswers(row), "bot")
<1> QED
  BY Nulls DEF Sound, Fits, BotAnswers, Leave, Data, Flag

LEMMA HandoffFits ==
  ASSUME TypeOK, NEW t \in Tickets, NEW by, NEW says, says # "agent", "handoff" \in Ops
  PROVE  Sound("handoff", by, HandoffSet(ticket[t]), says)
<1>1. now + SlaMins \in Nat
  BY TicketAssumption DEF TypeOK
<1> QED
  BY <1>1, Nulls DEF Sound, Fits, HandoffSet, Leave, Data, Flag, Status, When, Time

LEMMA ResolveFits ==
  ASSUME NEW by, "resolve" \in Ops
  PROVE  Sound("resolve", by, [Leave EXCEPT !.status = "resolved", !.resolvedAt = TRUE], None)
<1> QED
  BY Nulls DEF Sound, Fits, Leave, Data, Flag, Status

LEMMA MergeFits ==
  ASSUME NEW by, "merge" \in Ops
  PROVE  Sound("merge", by, [Leave EXCEPT !.status = "closed", !.closedAt = TRUE], None)
<1> QED
  BY Nulls DEF Sound, Fits, Leave, Data, Flag, Status

-----------------------------------------------------------------------------
(* The row an UPDATE leaves. *)

LEMMA OverColumns ==
  ASSUME NEW set \in Data, NEW row \in Row
  PROVE  /\ Over(set, row) \in Row
         /\ \A c \in DOMAIN row : Over(set, row)[c] = IF set[c] = Same THEN row[c] ELSE set[c]
         /\ DOMAIN row = {"status", "assigned", "bot", "handedOff", "firstResponded", "botReplied",
                          "resolvedAt", "closedAt", "pausedAt", "due"}
<1>1. DOMAIN row = {"status", "assigned", "bot", "handedOff", "firstResponded", "botReplied",
                    "resolvedAt", "closedAt", "pausedAt", "due"}
  BY DEF Row
<1>2. \A c \in DOMAIN row : Over(set, row)[c] = IF set[c] = Same THEN row[c] ELSE set[c]
  BY DEF Over
<1> DEFINE new == Over(set, row)
<1>3. /\ new.status \in Status /\ new.assigned \in BOOLEAN /\ new.bot \in BOOLEAN
      /\ new.handedOff \in BOOLEAN /\ new.firstResponded \in BOOLEAN /\ new.botReplied \in BOOLEAN
      /\ new.resolvedAt \in BOOLEAN /\ new.closedAt \in BOOLEAN
      /\ new.pausedAt \in Time /\ new.due \in Time
  BY <1>1, <1>2 DEF Row, Data, Flag
<1>4. new = [c \in DOMAIN row |-> new[c]]
  BY DEF Over
<1> HIDE DEF new
<1>5. new = [status |-> new.status, assigned |-> new.assigned, bot |-> new.bot,
             handedOff |-> new.handedOff, firstResponded |-> new.firstResponded,
             botReplied |-> new.botReplied, resolvedAt |-> new.resolvedAt,
             closedAt |-> new.closedAt, pausedAt |-> new.pausedAt, due |-> new.due]
  BY <1>1, <1>4
<1>6. new \in Row
  BY <1>3, <1>5 DEF Row
<1> QED
  BY <1>1, <1>2, <1>6 DEF new

-----------------------------------------------------------------------------
(* Steps. *)

LEMMA BeginIs ==
  ASSUME IInv, NEW r \in Requests, NEW t \in Tickets, Console(r, t) \/ Chatbot(r, t)
  PROVE  \E op \in Ops, by \in Role, into \in Tickets \cup {None}, set \in Data, says \in Author \cup {None} :
           Start(r, op, by, t, into, set, says) /\ Sound(op, by, set, says)
<1> DEFINE Begun == \E op \in Ops, by \in Role, into \in Tickets \cup {None},
                       set \in Data, says \in Author \cup {None} :
                      Start(r, op, by, t, into, set, says) /\ Sound(op, by, set, says)
<1> USE TicketAssumption DEF IInv
<1>0. ASSUME NEW op, NEW by \in Role, NEW into \in Tickets \cup {None}, NEW set,
             NEW says \in Author \cup {None},
             Start(r, op, by, t, into, set, says), Sound(op, by, set, says)
      PROVE  Begun
  BY <1>0 DEF Start, Sound
<1>1. ASSUME NEW by \in Roles, NEW to \in Status \cup {None}, NEW who \in Assigns \cup {None},
             Patch(r, t, by, to, who) PROVE Begun
  <2>1. "patch" \in Ops /\ by \in Role
        /\ Start(r, "patch", by, t, None, PatchSet(ticket[t], to, who), None)
    BY <1>1 DEF Patch, Start
  <2>2. Sound("patch", by, PatchSet(ticket[t], to, who), None)
    BY <2>1, PatchFits
  <2> QED
    BY <1>0, <2>1, <2>2
<1>2. ASSUME NEW by \in Roles, NEW note \in BOOLEAN, Reply(r, t, by, note) PROVE Begun
  <2>1. CASE by # "key" /\ ~note
    <3>1. "reply" \in Ops /\ by \in Role /\ "agent" \in Author
          /\ Start(r, "reply", by, t, None, PublicReply(ticket[t]), "agent")
      BY <1>2, <2>1 DEF Reply, Start, Author
    <3> QED
      BY <1>0, <3>1, ReplyFits
  <2>2. CASE ~(by # "key" /\ ~note)
    <3> DEFINE says == IF note THEN "note" ELSE IF by = "key" THEN "system" ELSE "agent"
    <3>1. says # "agent" /\ says \in Author
      BY <2>2 DEF Author
    <3>2. Start(r, "reply", by, t, None, Leave, says) /\ "reply" \in Ops
      BY <1>2, <2>2 DEF Reply, Start
    <3> HIDE DEF says
    <3> QED
      BY <1>0, <3>1, <3>2, LeaveFits
  <2> QED
    BY <2>1, <2>2
<1>3. ASSUME NEW by \in Roles, NEW enabled \in BOOLEAN, SetBotEnabled(r, t, by, enabled) PROVE Begun
  <2>1. "bot-enabled" \in Ops /\ by # "key" /\ by \in Role
        /\ Start(r, "bot-enabled", by, t, None, [Leave EXCEPT !.bot = enabled], None)
    BY <1>3 DEF SetBotEnabled, Start
  <2> QED
    BY <1>0, <2>1, BotEnabledFits
<1>4. ASSUME NEW target \in Tickets, Merge(r, t, target) PROVE Begun
  <2> DEFINE set == [Leave EXCEPT !.status = "closed", !.closedAt = TRUE]
  <2>1. "merge" \in Ops /\ Start(r, "merge", "lead", t, target, set, None)
    BY <1>4 DEF Merge, Start
  <2>2. Sound("merge", "lead", set, None)
    BY <2>1, MergeFits
  <2> HIDE DEF set
  <2> QED
    BY <1>0, <2>1, <2>2 DEF Role
<1>5. ASSUME NEW author \in {"customer", "bot"}, AppendMessage(r, t, author) PROVE Begun
  <2>1. CASE author = "bot"
    <3>1. "append" \in Ops /\ "bot" \in Author
          /\ Start(r, "append", "key", t, None, BotAnswers(ticket[t]), "bot")
      BY <1>5, <2>1 DEF AppendMessage, Start, Author
    <3> QED
      BY <1>0, <3>1, BotAnswerFits DEF Role
  <2>2. CASE author = "customer"
    <3>1. "append" \in Ops /\ "customer" \in Author
          /\ Start(r, "append", "key", t, None, VisitorWrites(ticket[t]), "customer")
      BY <1>5, <2>2 DEF AppendMessage, Start, Author
    <3> QED
      BY <1>0, <3>1, VisitorFits DEF Role
  <2> QED
    BY <2>1, <2>2
<1>6. ASSUME NEW reason \in BOOLEAN, Handoff(r, t, reason) PROVE Begun
  <2> DEFINE says == IF reason THEN "note" ELSE None
  <2>1. says \in Author \cup {None} /\ says # "agent"
    BY Nulls DEF Author
  <2>2. "handoff" \in Ops /\ Start(r, "handoff", "key", t, None, HandoffSet(ticket[t]), says)
    BY <1>6 DEF Handoff, Start
  <2> HIDE DEF says
  <2> QED
    BY <1>0, <2>1, <2>2, HandoffFits DEF Role
<1>7. ASSUME Resolve(r, t) PROVE Begun
  <2> DEFINE set == [Leave EXCEPT !.status = "resolved", !.resolvedAt = TRUE]
  <2>1. "resolve" \in Ops /\ Start(r, "resolve", "key", t, None, set, None)
    BY <1>7 DEF Resolve, Start
  <2>2. Sound("resolve", "key", set, None)
    BY <2>1, ResolveFits
  <2> HIDE DEF set
  <2> QED
    BY <1>0, <2>1, <2>2 DEF Role
<1> QED
  BY <1>1, <1>2, <1>3, <1>4, <1>5, <1>6, <1>7 DEF Console, Chatbot

LEMMA WaitedTyped ==
  ASSUME IInv, NEW r \in Requests, Commit(r) \/ CommitMerge(r)
  PROVE  waited' \in [Tickets \ BotTickets -> [since : Time, mins : Int]]
<1> DEFINE q == req[r]
           W == [since : Time, mins : Int]
<1>1. waited \in [Tickets \ BotTickets -> W]
  BY DEF IInv, TypeOK
<1>2. CASE waited' = waited
  BY <1>1, <1>2
<1>3. CASE q # Idle /\ q.on \notin BotTickets /\ waited' = [waited EXCEPT ![q.on] = Waits(@, q)]
  <2>1. q.at \in Nat /\ q.on \in Tickets
    BY <1>3 DEF IInv, TypeOK, Request
  <2>2. ASSUME NEW w \in W PROVE Waits(w, q) \in W
    <3>1. w.since \in Time /\ w.mins \in Int /\ None \in Time /\ q.at \in Time
      BY <2>1 DEF Time
    <3>2. [w EXCEPT !.since = IF @ = None THEN q.at ELSE @] \in W
      BY <3>1
    <3>3. w.since # None => w.mins + (q.at - w.since) \in Int
      BY <2>1, <3>1 DEF Time
    <3> HIDE DEF q
    <3>4. w.since # None => [since |-> None, mins |-> w.mins + (q.at - w.since)] \in W
      BY <3>1, <3>3
    <3> QED
      BY <3>2, <3>4 DEF Waits
  <2>3. q.on \in Tickets \ BotTickets
    BY <1>3, <2>1
  <2> HIDE DEF q, W
  <2>4. Waits(waited[q.on], q) \in W
    BY <1>1, <2>2, <2>3
  <2>5. waited' = [waited EXCEPT ![q.on] = Waits(waited[q.on], q)]
    BY <1>3
  <2>6. waited' \in [Tickets \ BotTickets -> W]
    BY <1>1, <2>3, <2>4, <2>5
  <2> QED
    BY <2>6 DEF W
<1> QED
  BY <1>2, <1>3 DEF Commit, CommitMerge

\* What a commit does, merge or not.
LEMMA CommitIs ==
  ASSUME IInv, NEW r \in Requests, Commit(r) \/ CommitMerge(r)
  PROVE  LET q == req[r] IN
         /\ q \in Request /\ Fits(q) /\ q.on \in Tickets
         /\ ticket' = [ticket EXCEPT ![q.on] = Over(q.set, @)]
         /\ req' = [req EXCEPT ![r] = Idle] /\ now' = now
         /\ thread' \in [Tickets -> Seq(Author)]
         /\ waited' \in [Tickets \ BotTickets -> [since : Time, mins : Int]]
<1> DEFINE q == req[r]
<1>w. waited' \in [Tickets \ BotTickets -> [since : Time, mins : Int]]
  BY WaitedTyped
<1>1. q # Idle
  <2>1. Idle.op # "merge"
    BY DEF Idle
  <2> QED
    BY <2>1 DEF Commit, CommitMerge
<1>2. q \in Request /\ Fits(q) /\ q.on \in Tickets /\ q.set \in Data
      /\ q.into \in Tickets \cup {None} /\ q.says \in Author \cup {None}
  BY <1>1 DEF IInv, TypeOK, InFlightFits, Request
<1>3. ticket' = [ticket EXCEPT ![q.on] = Over(q.set, @)] /\ now' = now
      /\ req' = [req EXCEPT ![r] = Idle]
  BY DEF Commit, CommitMerge, Write
<1>4. thread \in [Tickets -> Seq(Author)]
  BY DEF IInv, TypeOK
<1> HIDE DEF q
<1>5. CASE Commit(r)
  <2>1. thread' = IF q.says = None THEN thread ELSE [thread EXCEPT ![q.on] = Append(@, q.says)]
    BY <1>5 DEF Commit, q
  <2>2. q.says # None => Append(thread[q.on], q.says) \in Seq(Author)
    BY <1>2, <1>4
  <2>3. thread' \in [Tickets -> Seq(Author)]
    BY <1>2, <1>4, <2>1, <2>2
  <2> QED
    BY <1>2, <1>3, <1>w, <2>3 DEF q
<1>6. CASE CommitMerge(r)
  <2>1. ASSUME NEW t \in Tickets PROVE Append(thread[t] \o thread[q.on], "note") \in Seq(Author)
    <3>1. thread[t] \o thread[q.on] \in Seq(Author)
      BY <1>2, <1>4
    <3> QED
      BY <3>1 DEF Author
  <2>2. <<>> \in Seq(Author)
    OBVIOUS
  <2>3. thread' \in [Tickets -> Seq(Author)]
    BY <1>4, <1>6, <2>1, <2>2 DEF CommitMerge, q
  <2> QED
    BY <1>2, <1>3, <1>w, <2>3 DEF q
<1> QED
  BY <1>5, <1>6

\* Only a commit writes the tables.
LEMMA OnlyCommitWrites ==
  ASSUME IInv, Next
  PROVE  \/ UNCHANGED <<ticket, thread, waited>>
         \/ \E r \in Requests : Commit(r) \/ CommitMerge(r)
<1>1. ASSUME NEW r \in Requests, NEW t \in Tickets, Console(r, t) \/ Chatbot(r, t)
      PROVE  UNCHANGED <<ticket, thread, waited>>
  BY <1>1, BeginIs DEF Start
<1> QED
  BY <1>1 DEF Next, Rollback, Tick

LEMMA InitIInv == Init => IInv
<1> SUFFICES ASSUME Init PROVE IInv
  OBVIOUS
<1>1. TypeOK
  BY TicketAssumption DEF Init, TypeOK, Created, Row, Status, Time
<1>2. PausesPast /\ FinishedMeansStamped
  BY DEF Init, PausesPast, FinishedMeansStamped, Created
<1> QED
  BY <1>1, <1>2 DEF Init, IInv, InFlightFits

LEMMA StepIInv == ASSUME IInv, [Next]_vars PROVE IInv'
<1>1. CASE UNCHANGED vars
  BY <1>1 DEF vars, IInv, TypeOK, PausesPast, InFlightFits, Fits, FinishedMeansStamped
<1>2. ASSUME NEW r \in Requests, NEW t \in Tickets, Console(r, t) \/ Chatbot(r, t) PROVE IInv'
  <2>1. PICK op \in Ops, by \in Role, into \in Tickets \cup {None}, set \in Data, says \in Author \cup {None} :
          Start(r, op, by, t, into, set, says) /\ Sound(op, by, set, says)
    BY <1>2, BeginIs
  <2> DEFINE q == [op |-> op, by |-> by, on |-> t, into |-> into, at |-> now, set |-> set, says |-> says]
  <2>2. UNCHANGED <<ticket, thread, now, waited>> /\ req' = [req EXCEPT ![r] = q]
    BY <2>1 DEF Start
  <2>3. q \in Request
    BY TicketAssumption DEF Request, IInv, TypeOK
  <2>4. Fits(q)
    BY <2>1 DEF Sound, Fits
  <2> HIDE DEF q
  <2>5. TypeOK'
    BY <2>2, <2>3 DEF IInv, TypeOK
  <2>6. InFlightFits'
    BY <2>2, <2>4 DEF IInv, TypeOK, InFlightFits, Fits
  <2> QED
    BY <2>2, <2>5, <2>6 DEF IInv, PausesPast, FinishedMeansStamped
<1>3. ASSUME NEW r \in Requests, Commit(r) \/ CommitMerge(r) PROVE IInv'
  <2> DEFINE q == req[r]
             t == q.on
             new == Over(q.set, ticket[t])
  <2>1. /\ q \in Request /\ Fits(q) /\ t \in Tickets /\ q.set \in Data /\ ticket[t] \in Row
        /\ ticket' = [ticket EXCEPT ![t] = new]
        /\ req' = [req EXCEPT ![r] = Idle] /\ now' = now
        /\ thread' \in [Tickets -> Seq(Author)]
        /\ waited' \in [Tickets \ BotTickets -> [since : Time, mins : Int]]
    BY <1>3, CommitIs DEF IInv, TypeOK, Request
  <2>2. /\ new \in Row
        /\ \A c \in {"status", "resolvedAt", "closedAt", "pausedAt"} :
             new[c] = IF q.set[c] = Same THEN ticket[t][c] ELSE q.set[c]
    BY <2>1, OverColumns
  <2>3. new.status = "resolved" => new.resolvedAt
    BY <2>1, <2>2, Nulls DEF Fits, IInv, FinishedMeansStamped, Row, Data, Flag
  <2>4. new.status = "closed" => new.closedAt
    BY <2>1, <2>2, Nulls DEF Fits, IInv, FinishedMeansStamped, Row, Data, Flag
  <2>5. new.pausedAt # None => new.pausedAt <= now
    BY <2>1, <2>2, Nulls DEF Fits, IInv, PausesPast
  <2> HIDE DEF q, t, new
  <2>6. TypeOK'
    BY <2>1, <2>2 DEF IInv, TypeOK
  <2>7. InFlightFits'
    BY <2>1 DEF IInv, TypeOK, InFlightFits, Fits
  <2>8. PausesPast' /\ FinishedMeansStamped'
    BY <2>1, <2>3, <2>4, <2>5 DEF IInv, TypeOK, PausesPast, FinishedMeansStamped
  <2> QED
    BY <2>6, <2>7, <2>8 DEF IInv
<1>4. ASSUME NEW r \in Requests, Rollback(r) PROVE IInv'
  BY <1>4 DEF Rollback, IInv, TypeOK, PausesPast, InFlightFits, Fits, FinishedMeansStamped
<1>5. CASE Tick
  <2>1. now \in Nat /\ now' = now + 1 /\ UNCHANGED <<ticket, thread, req, waited>>
    BY <1>5 DEF Tick, IInv, TypeOK
  <2>2. \A n \in Nat : n <= now => n <= now'
    BY <2>1
  <2>3. InFlightFits'
    <3> SUFFICES ASSUME NEW r \in Requests, req[r] # Idle PROVE Fits(req[r])'
      BY <2>1 DEF InFlightFits
    <3>1. Fits(req[r]) /\ req[r].set \in Data
      BY DEF IInv, InFlightFits, TypeOK, Request
    <3>2. req[r].set.pausedAt \notin {None, Same} => req[r].set.pausedAt <= now'
      BY <2>2, <3>1 DEF Fits, Data, Time
    <3> QED
      BY <2>1, <3>1, <3>2 DEF Fits
  <2>4. PausesPast'
    BY <2>1, <2>2 DEF IInv, TypeOK, PausesPast, Row, Time
  <2> QED
    BY <2>1, <2>3, <2>4 DEF IInv, TypeOK, FinishedMeansStamped
<1> QED
  BY <1>1, <1>2, <1>3, <1>4, <1>5 DEF Next

\* Every row, message, request and time keeps its type, whatever lands on
\* whatever (tickets.service, messages.service, chat.module).
THEOREM Typed == Spec => []TypeOK
<1>1. IInv => TypeOK
  BY DEF IInv
<1> QED
  BY InitIInv, StepIInv, <1>1, PTL DEF Spec

\* However requests interleave, a resolved ticket carries resolvedAt and a
\* closed one closedAt (applyTransition, appendMessage, handoff, resolve, merge).
THEOREM StampsFollowStatus == Spec => []FinishedMeansStamped
<1>1. IInv => FinishedMeansStamped
  BY DEF IInv
<1> QED
  BY InitIInv, StepIInv, <1>1, PTL DEF Spec

\* The floor changes hands in one commit: hand-over and silence together,
\* never undone, and back to the bot only by a person's switch.
THEOREM FloorPasses == Spec => FloorPassesAtomically
<1> DEFINE Passes(t) ==
      /\ ticket[t].handedOff => ticket'[t].handedOff
      /\ ~ticket[t].handedOff /\ ticket'[t].handedOff => ~ticket'[t].bot
      /\ ~ticket[t].bot /\ ticket'[t].bot =>
           \E r \in Requests : Commits(r) /\ req[r].op = "bot-enabled" /\ req[r].by # "key"
<1>1. IInv /\ [Next]_vars => [\A t \in Tickets : Passes(t)]_vars
  <2> SUFFICES ASSUME IInv, Next, NEW t \in Tickets PROVE Passes(t)
    OBVIOUS
  <2>1. CASE ticket' = ticket
    BY <2>1
  <2>2. ASSUME NEW r \in Requests, Commit(r) \/ CommitMerge(r) PROVE Passes(t)
    <3> DEFINE q == req[r]
               new == Over(q.set, ticket[t])
    <3>1. /\ q \in Request /\ Fits(q) /\ q.set \in Data /\ ticket[t] \in Row
          /\ ticket' = [ticket EXCEPT ![q.on] = Over(q.set, @)]
          /\ req' = [req EXCEPT ![r] = Idle] /\ q # Idle
      BY <2>2, CommitIs DEF IInv, TypeOK, Request, Idle, Endpoint
    <3>2. \A c \in {"handedOff", "bot"} :
             new[c] = IF q.set[c] = Same THEN ticket[t][c] ELSE q.set[c]
      BY <3>1, OverColumns
    <3>3. ticket[t].handedOff \in BOOLEAN /\ ticket[t].bot \in BOOLEAN
      BY <3>1 DEF Row
    <3>4. CASE q.on = t
      <4>1. ticket'[t] = new
        BY <3>1, <3>4 DEF IInv, TypeOK
      <4>2. ticket[t].handedOff => new.handedOff
        BY <3>1, <3>2, <3>3 DEF Fits
      <4>3. ~ticket[t].handedOff /\ new.handedOff => ~new.bot
        BY <3>1, <3>2, <3>3, Nulls DEF Fits
      <4>4. ~ticket[t].bot /\ new.bot => q.op = "bot-enabled" /\ q.by # "key"
        BY <3>1, <3>2, <3>3 DEF Fits, Data, Flag
      <4>5. ~ticket[t].bot /\ new.bot => Commits(r)
        BY <3>1, <4>1 DEF Commits, IInv, TypeOK
      <4> QED
        BY <4>1, <4>2, <4>3, <4>4, <4>5
    <3>5. CASE q.on # t
      BY <3>1, <3>5 DEF IInv, TypeOK
    <3> QED
      BY <3>4, <3>5
  <2> QED
    BY <2>1, <2>2, OnlyCommitWrites
<1> QED
  BY InitIInv, StepIInv, <1>1, PTL DEF Spec, FloorPassesAtomically

-----------------------------------------------------------------------------
(* Where nothing is merged, the thread and the stamps agree. *)

Answered(t) == \E i \in 1..Len(thread[t]) : thread[t][i] = "agent"

ThreadInv == /\ \A t \in Tickets : Answered(t) => ticket[t].handedOff
             /\ FirstResponseIsHuman

LEMMA StepThreadInv ==
  ASSUME "merge" \notin Ops, IInv, ThreadInv, [Next]_vars
  PROVE  ThreadInv'
<1>1. CASE UNCHANGED <<ticket, thread>>
  BY <1>1 DEF ThreadInv, Answered, FirstResponseIsHuman
<1>2. ASSUME NEW r \in Requests, Commit(r) \/ CommitMerge(r) PROVE ThreadInv'
  <2> DEFINE q == req[r]
             old == ticket[q.on]
             new == Over(q.set, old)
  <2>1. /\ q \in Request /\ Fits(q) /\ q.on \in Tickets /\ q.set \in Data /\ old \in Row
        /\ ticket' = [ticket EXCEPT ![q.on] = new]
    BY <1>2, CommitIs DEF IInv, TypeOK, Request
  <2>2. thread' = IF q.says = None THEN thread ELSE [thread EXCEPT ![q.on] = Append(@, q.says)]
    BY <1>2, <2>1 DEF Fits, Commit, CommitMerge
  <2>3. q.says \in Author \cup {None} /\ thread \in [Tickets -> Seq(Author)]
    BY <2>1 DEF Request, IInv, TypeOK
  <2>4. \A c \in {"handedOff", "firstResponded"} :
           new[c] = IF q.set[c] = Same THEN old[c] ELSE q.set[c]
    BY <2>1, OverColumns
  <2>5. old.handedOff \in BOOLEAN /\ old.firstResponded \in BOOLEAN
    BY <2>1 DEF Row
  <2>6. /\ old.handedOff \/ q.says = "agent" => new.handedOff
        /\ new.firstResponded => old.firstResponded \/ q.says = "agent"
    BY <2>1, <2>4, <2>5, Nulls DEF Fits
  <2> HIDE DEF q, new, old
  <2>7. ASSUME NEW t \in Tickets
        PROVE  Answered(t)' <=> Answered(t) \/ (t = q.on /\ q.says = "agent")
    <3>1. CASE q.says = None \/ t # q.on
      BY <2>1, <2>2, <2>3, <3>1, Nulls DEF Answered
    <3>2. CASE q.says # None /\ t = q.on
      <4> DEFINE s == thread[t]
      <4>1. s \in Seq(Author) /\ thread'[t] = Append(s, q.says) /\ q.says \in Author
        BY <2>1, <2>2, <2>3, <3>2
      <4>2. /\ Len(Append(s, q.says)) = Len(s) + 1 /\ Len(s) \in Nat
            /\ Append(s, q.says)[Len(s) + 1] = q.says
            /\ \A i \in 1..Len(s) : Append(s, q.says)[i] = s[i]
        BY <4>1
      <4> QED
        BY <3>2, <4>1, <4>2 DEF Answered
    <3> QED
      BY <3>1, <3>2
  <2>8. ASSUME NEW t \in Tickets
        PROVE  /\ Answered(t)' => ticket'[t].handedOff
               /\ ticket'[t].firstResponded => Answered(t)'
    <3>1. /\ Answered(t) => ticket[t].handedOff
          /\ ticket[t].firstResponded => Answered(t)
      BY DEF ThreadInv, FirstResponseIsHuman, Answered
    <3>2. CASE t = q.on
      <4>1. ticket'[t] = new /\ ticket[t] = old
        BY <2>1, <3>2 DEF IInv, TypeOK, old
      <4> QED
        BY <2>6, <2>7, <3>1, <3>2, <4>1
    <3>3. CASE t # q.on
      <4>1. ticket'[t] = ticket[t]
        BY <2>1, <3>3 DEF IInv, TypeOK
      <4> QED
        BY <2>7, <3>1, <3>3, <4>1
    <3> QED
      BY <3>2, <3>3
  <2> QED
    BY <2>8 DEF ThreadInv, FirstResponseIsHuman, Answered
<1> QED
  BY <1>1, <1>2, OnlyCommitWrites DEF vars

LEMMA InitThreadInv == Init => ThreadInv
<1> QED
  BY DEF Init, ThreadInv, Answered, FirstResponseIsHuman, Created

\* Where nothing is merged, a conversation the console shows as the bot's is
\* one no person has answered in public (handlingOf, messages.service add).
THEOREM AiUnanswered ==
  ASSUME "merge" \notin Ops
  PROVE  Spec => []AiMeansNobodyAnswered
<1>1. TypeOK /\ ThreadInv => AiMeansNobodyAnswered
  BY DEF TypeOK, ThreadInv, Answered, AiMeansNobodyAnswered, handlingOf, Row
<1>2. IInv => TypeOK
  BY DEF IInv
<1>3. IInv /\ ThreadInv /\ [Next]_vars => ThreadInv'
  BY StepThreadInv
<1> QED
  BY InitIInv, StepIInv, InitThreadInv, <1>1, <1>2, <1>3, PTL DEF Spec

\* Where nothing is merged, only a person's public reply stamps the first
\* response (messages.service add, chat.module appendMessage).
THEOREM FirstResponseByPerson ==
  ASSUME "merge" \notin Ops
  PROVE  Spec => []FirstResponseIsHuman
<1>1. ThreadInv => FirstResponseIsHuman
  BY DEF ThreadInv
<1>2. IInv /\ ThreadInv /\ [Next]_vars => ThreadInv'
  BY StepThreadInv
<1> QED
  BY InitIInv, StepIInv, InitThreadInv, <1>1, <1>2, PTL DEF Spec

-----------------------------------------------------------------------------
(* One request at a time.  The row an UPDATE lands on is then the row its     *)
(* request read, so what was decided on it still holds of it.                 *)

OneAtATime == \A r, y \in Requests : r = y

\* Stamps and pauses agree with the status; a chatbot's ticket may be paused anyhow.
Kempt(t, row) ==
  /\ row.status \notin Finished => ~row.resolvedAt /\ ~row.closedAt
  /\ t \notin BotTickets => /\ row.status \in Pausing => row.pausedAt # None
                            /\ row.status \in {"new", "open"} => row.pausedAt = None

\* The columns of the clock are left alone, or say of it what the status says: it stands
\* still from the first waiting status on, and by as much moves the due time.
Still(set) == set.pausedAt = Same /\ set.due = Same

Tells(set, row, at) ==
  \/ set.status = Same /\ Still(set)
  \/ set.status \in Pausing /\ set.due = Same /\ set.pausedAt = IF row.pausedAt = None THEN at ELSE Same
  \/ set.status \in Status \ Pausing /\ row.pausedAt = None /\ Still(set)
  \/ /\ set.status \in Status \ Pausing /\ row.pausedAt # None /\ set.pausedAt = None
     /\ row.due # None => set.due = row.due + (at - row.pausedAt)

\* The clock of a console ticket has counted what the ticket has waited.
Clocked(row, w) == w.since = row.pausedAt /\ w.mins \in Nat /\ row.due = SlaMins + w.mins

\* What a request leaves of the row it has read.
Lands(q, row) ==
  /\ q.into # q.on
  /\ Kempt(q.on, Over(q.set, row))
  /\ q.says = "customer" => Over(q.set, row).status \notin Finished
  /\ row.pausedAt # None => row.pausedAt <= q.at
  /\ q.on \notin BotTickets => IF q.op = "merge" THEN Still(q.set) ELSE Tells(q.set, row, q.at)

SerialInv == /\ \A t \in Tickets : Kempt(t, ticket[t])
             /\ \A r \in Requests : req[r] # Idle => Lands(req[r], ticket[req[r].on])
             /\ \A t \in Tickets \ BotTickets : Clocked(ticket[t], waited[t])

\* The columns Kempt looks at.
LEMMA KemptColumns ==
  ASSUME NEW set \in Data, NEW row \in Row
  PROVE  LET new == Over(set, row)
         IN  /\ new.status = IF set.status = Same THEN row.status ELSE set.status
             /\ new.resolvedAt = IF set.resolvedAt = Same THEN row.resolvedAt ELSE set.resolvedAt
             /\ new.closedAt = IF set.closedAt = Same THEN row.closedAt ELSE set.closedAt
             /\ new.pausedAt = IF set.pausedAt = Same THEN row.pausedAt ELSE set.pausedAt
             /\ new.due = IF set.due = Same THEN row.due ELSE set.due
  BY OverColumns

\* A set that leaves these columns alone.
LEMMA LeavesKempt ==
  ASSUME NEW t \in Tickets, NEW set \in Data, NEW row \in Row, Kempt(t, row),
         set.status = Same, set.resolvedAt = Same, set.closedAt = Same, set.pausedAt = Same
  PROVE  Kempt(t, Over(set, row))
<1> QED BY KemptColumns DEF Kempt

LEMMA PatchColumns ==
  ASSUME NEW row \in Row, NEW to, NEW who, PatchSet(row, to, who) \in Data
  PROVE  LET set == PatchSet(row, to, who)
             resumes == ~Pauses(to) /\ row.pausedAt # None
             reopens == IsReopen(row.status, to)
         IN  IF Moves(row, to)
             THEN /\ set.status = to
                  /\ set.pausedAt = IF resumes THEN None
                                    ELSE IF Pauses(to) /\ row.pausedAt = None THEN now ELSE Same
                  /\ set.due = IF resumes THEN Extended(row) ELSE Same
                  /\ set.resolvedAt = IF reopens THEN FALSE ELSE IF to = "resolved" THEN TRUE ELSE Same
                  /\ set.closedAt = IF reopens THEN FALSE ELSE IF to = "closed" THEN TRUE ELSE Same
             ELSE set.status = Same /\ set.resolvedAt = Same /\ set.closedAt = Same /\ Still(set)
<1>1. CASE Moves(row, to)
  BY <1>1 DEF PatchSet, applyTransition, timerPatchForTransition, PauseBegins, Leave, When, Stamps
<1>2. CASE ~Moves(row, to)
  BY <1>2 DEF PatchSet, Leave, Still
<1> QED BY <1>1, <1>2

LEMMA PatchLands ==
  ASSUME IInv, NEW t \in Tickets, Kempt(t, ticket[t]), NEW by, "patch" \in Ops,
         NEW to \in Status \cup {None}, NEW who \in Assigns \cup {None},
         Moves(ticket[t], to) => MayMove(ticket[t], to, by)
  PROVE  LET set == PatchSet(ticket[t], to, who)
         IN  Kempt(t, Over(set, ticket[t])) /\ Tells(set, ticket[t], now)
<1> DEFINE row == ticket[t]
           set == PatchSet(row, to, who)
           new == Over(set, row)
<1>1. /\ row \in Row /\ set \in Data /\ now \in Nat /\ row.pausedAt \in Time /\ row.due \in Time
      /\ row.pausedAt # None => row.pausedAt <= now
      /\ row.status \in Status /\ row.resolvedAt \in BOOLEAN /\ row.closedAt \in BOOLEAN
  BY PatchFits DEF IInv, TypeOK, PausesPast, Sound, Row
<1>2. now # None /\ now # Same /\ None # Same /\ to # Same /\ TRUE # Same /\ FALSE # Same
  BY <1>1, TicketAssumption
<1>3. CASE ~Moves(row, to)
  <2>1. set.status = Same /\ set.resolvedAt = Same /\ set.closedAt = Same /\ Still(set)
    BY <1>1, <1>3, PatchColumns
  <2> HIDE DEF set, row
  <2>2. Kempt(t, new) /\ Tells(set, row, now)
    BY <1>1, <2>1, LeavesKempt DEF row, Tells, Still
  <2> QED BY <2>2 DEF set, row
<1>4. CASE Moves(row, to)
  <2>1. to \in Status
    BY <1>4 DEF Moves
  <2>2. /\ set.status = to
        /\ set.pausedAt = IF ~Pauses(to) /\ row.pausedAt # None THEN None
                          ELSE IF Pauses(to) /\ row.pausedAt = None THEN now ELSE Same
        /\ set.due = IF ~Pauses(to) /\ row.pausedAt # None THEN Extended(row) ELSE Same
        /\ set.resolvedAt = IF IsReopen(row.status, to) THEN FALSE ELSE IF to = "resolved" THEN TRUE ELSE Same
        /\ set.closedAt = IF IsReopen(row.status, to) THEN FALSE ELSE IF to = "closed" THEN TRUE ELSE Same
    BY <1>1, <1>4, PatchColumns
  <2>3. /\ new.status = IF set.status = Same THEN row.status ELSE set.status
        /\ new.resolvedAt = IF set.resolvedAt = Same THEN row.resolvedAt ELSE set.resolvedAt
        /\ new.closedAt = IF set.closedAt = Same THEN row.closedAt ELSE set.closedAt
        /\ new.pausedAt = IF set.pausedAt = Same THEN row.pausedAt ELSE set.pausedAt
    BY <1>1, KemptColumns
  <2>4. to \notin Finished /\ row.status \in Finished => IsReopen(row.status, to)
    BY <1>1, <1>4, <2>1 DEF MayMove, TRANSITIONS, Finished, IsReopen
  <2>5. row.status \notin Finished => ~row.resolvedAt /\ ~row.closedAt
    BY DEF Kempt
  <2> HIDE DEF set, new, row
  <2>6. new.status = to
    BY <1>2, <2>2, <2>3
  <2>7. to \notin Finished => ~new.resolvedAt /\ ~new.closedAt
    BY <1>2, <2>2, <2>3, <2>4, <2>5 DEF Finished
  <2>8. /\ to \in Pausing => new.pausedAt # None
        /\ to \in {"new", "open"} => new.pausedAt = None
    BY <1>2, <2>2, <2>3 DEF Pauses, Pausing
  <2>9. Tells(set, row, now)
    <3>1. CASE Pauses(to)
      BY <1>2, <2>1, <2>2, <3>1 DEF Tells, Pauses
    <3>2. CASE ~Pauses(to) /\ row.pausedAt = None
      BY <1>2, <2>1, <2>2, <3>2 DEF Tells, Still, Pauses
    <3>3. CASE ~Pauses(to) /\ row.pausedAt # None
      BY <1>2, <2>1, <2>2, <3>3 DEF Tells, Extended, When, Pauses
    <3> QED BY <3>1, <3>2, <3>3
  <2>10. Kempt(t, new)
    BY <2>6, <2>7, <2>8 DEF Kempt
  <2> QED BY <2>9, <2>10 DEF set, new, row
<1> QED BY <1>3, <1>4

\* What the chatbot's endpoints leave of its ticket, and a merge of its source.
LEMMA OthersLand ==
  ASSUME IInv, NEW t \in Tickets, Kempt(t, ticket[t])
  PROVE  LET row == ticket[t] IN
         /\ t \in BotTickets /\ VisitorWrites(row) \in Data =>
              Kempt(t, Over(VisitorWrites(row), row)) /\ Over(VisitorWrites(row), row).status \notin Finished
         /\ t \in BotTickets /\ HandoffSet(row) \in Data => Kempt(t, Over(HandoffSet(row), row))
         /\ \A set \in Data :
              \/ set = [Leave EXCEPT !.status = "resolved", !.resolvedAt = TRUE]
              \/ set = [Leave EXCEPT !.status = "closed", !.closedAt = TRUE]
              => Kempt(t, Over(set, row)) /\ Still(set)
         /\ \A set \in Data :
              \/ set = PublicReply(row)
              => Kempt(t, Over(set, row)) /\ (t \notin BotTickets => \A at : Tells(set, row, at))
<1> DEFINE row == ticket[t]
<1>1. row \in Row /\ row.status \in Status /\ row.resolvedAt \in BOOLEAN /\ row.closedAt \in BOOLEAN
  BY DEF IInv, TypeOK, Row
<1>2. Same # None /\ Same # TRUE /\ Same # FALSE /\ Same # "resolved" /\ Same # "closed" /\ Same # "open"
  BY Nulls
<1>3. row.status \notin Finished => ~row.resolvedAt /\ ~row.closedAt
  BY DEF Kempt
<1>4. t \notin BotTickets => /\ row.status \in Pausing => row.pausedAt # None
                             /\ row.status \in {"new", "open"} => row.pausedAt = None
  BY DEF Kempt
<1> HIDE DEF row
<1>5. ASSUME t \in BotTickets, VisitorWrites(row) \in Data
      PROVE  Kempt(t, Over(VisitorWrites(row), row)) /\ Over(VisitorWrites(row), row).status \notin Finished
  <2> DEFINE set == VisitorWrites(row)
             finished == row.status \in Finished
             waits == row.handedOff /\ row.status = "pending"
  <2>1. /\ set.status = IF finished \/ waits THEN "open" ELSE Same
        /\ set.resolvedAt = IF finished THEN FALSE ELSE Same
        /\ set.closedAt = IF finished THEN FALSE ELSE Same
    BY DEF VisitorWrites, Leave, When
  <2> HIDE DEF set
  <2>2. /\ Over(set, row).status = IF set.status = Same THEN row.status ELSE set.status
        /\ Over(set, row).resolvedAt = IF set.resolvedAt = Same THEN row.resolvedAt ELSE set.resolvedAt
        /\ Over(set, row).closedAt = IF set.closedAt = Same THEN row.closedAt ELSE set.closedAt
    BY <1>1, <1>5, KemptColumns DEF set
  <2>3. Over(set, row).status \notin Finished
    BY <1>2, <2>1, <2>2 DEF Finished
  <2>4. ~Over(set, row).resolvedAt /\ ~Over(set, row).closedAt
    BY <1>2, <1>3, <2>1, <2>2
  <2> QED BY <1>5, <2>3, <2>4 DEF Kempt, set
<1>6. ASSUME t \in BotTickets, HandoffSet(row) \in Data
      PROVE  Kempt(t, Over(HandoffSet(row), row))
  <2> DEFINE set == HandoffSet(row)
             finished == row.status \in Finished
  <2>1. /\ set.status = "open"
        /\ set.resolvedAt = IF finished THEN FALSE ELSE Same
        /\ set.closedAt = IF finished THEN FALSE ELSE Same
    BY DEF HandoffSet, Leave, When
  <2> HIDE DEF set
  <2>2. /\ Over(set, row).resolvedAt = IF set.resolvedAt = Same THEN row.resolvedAt ELSE set.resolvedAt
        /\ Over(set, row).closedAt = IF set.closedAt = Same THEN row.closedAt ELSE set.closedAt
    BY <1>1, <1>6, KemptColumns DEF set
  <2>3. ~Over(set, row).resolvedAt /\ ~Over(set, row).closedAt
    BY <1>2, <1>3, <2>1, <2>2
  <2> QED BY <1>6, <2>3 DEF Kempt, set
<1>7. ASSUME NEW set \in Data,
             \/ set = [Leave EXCEPT !.status = "resolved", !.resolvedAt = TRUE]
             \/ set = [Leave EXCEPT !.status = "closed", !.closedAt = TRUE]
      PROVE  Kempt(t, Over(set, row)) /\ Still(set)
  <2>1. set.status \in {"resolved", "closed"} /\ Still(set)
    BY <1>7 DEF Leave, Still
  <2>2. Over(set, row).status \in {"resolved", "closed"}
    BY <1>1, <1>2, <2>1, KemptColumns
  <2> QED BY <1>2, <2>1, <2>2 DEF Kempt, Finished, Pausing
<1>8. ASSUME NEW set \in Data, set = PublicReply(row)
      PROVE  Kempt(t, Over(set, row)) /\ (t \notin BotTickets => \A at : Tells(set, row, at))
  <2>1. /\ set.status = IF row.status = "new" THEN "open" ELSE Same
        /\ set.resolvedAt = Same /\ set.closedAt = Same /\ Still(set)
    BY <1>8 DEF PublicReply, Leave, When, Still
  <2>2. LET new == Over(set, row)
        IN  /\ new.status = IF row.status = "new" THEN "open" ELSE row.status
            /\ new.resolvedAt = row.resolvedAt /\ new.closedAt = row.closedAt /\ new.pausedAt = row.pausedAt
    BY <1>1, <1>2, <2>1, KemptColumns DEF Still
  <2>3. t \notin BotTickets => \A at : Tells(set, row, at)
    BY <1>4, <2>1 DEF Tells, Status, Pausing
  <2> QED BY <1>2, <1>3, <1>4, <2>1, <2>2, <2>3 DEF Kempt, Finished, Pausing
<1> QED BY <1>5, <1>6, <1>7, <1>8 DEF row

\* The request that begins has decided on the row as it is.
LEMMA BeginLands ==
  ASSUME IInv, SerialInv, NEW r \in Requests, NEW t \in Tickets, Console(r, t) \/ Chatbot(r, t)
  PROVE  /\ UNCHANGED <<ticket, thread, now, waited>> /\ \A y \in Requests \ {r} : req'[y] = req[y]
         /\ req'[r].on = t /\ Lands(req'[r], ticket[t])
<1> DEFINE row == ticket[t]
           q == req'[r]
<1>1. PICK op \in Ops, by \in Role, into \in Tickets \cup {None}, set \in Data, says \in Author \cup {None} :
        Start(r, op, by, t, into, set, says)
  BY BeginIs
<1>2. /\ UNCHANGED <<ticket, thread, now, waited>> /\ \A y \in Requests \ {r} : req'[y] = req[y]
      /\ q.on = t /\ q.at = now /\ q.set \in Data /\ q.op \in Ops
  BY <1>1 DEF Start, IInv, TypeOK
<1>3. row \in Row /\ Kempt(t, row) /\ None # "customer" /\ (row.pausedAt # None => row.pausedAt <= now)
  BY Nulls DEF IInv, TypeOK, PausesPast, SerialInv
<1>4. ASSUME NEW o, NEW b, NEW i, NEW d, NEW w, Start(r, o, b, t, i, d, w)
      PROVE  q.op = o /\ q.set = d /\ q.says = w /\ q.into = i
  BY <1>4 DEF Start, IInv, TypeOK
<1>t. None # t
  BY TicketAssumption
<1>5. Lands(q, row) <=> /\ q.into # t
                        /\ Kempt(t, Over(q.set, row))
                        /\ q.says = "customer" => Over(q.set, row).status \notin Finished
                        /\ t \notin BotTickets => IF q.op = "merge" THEN Still(q.set) ELSE Tells(q.set, row, now)
  BY <1>2, <1>3 DEF Lands
<1> HIDE DEF q, row
<1>6. ASSUME q.set.status = Same, q.set.resolvedAt = Same, q.set.closedAt = Same, Still(q.set)
      PROVE  Kempt(t, Over(q.set, row)) /\ Still(q.set) /\ Tells(q.set, row, now)
  BY <1>2, <1>3, <1>6, LeavesKempt DEF Still, Tells
<1>7. ASSUME NEW by_ \in Roles, NEW to \in Status \cup {None}, NEW who \in Assigns \cup {None},
             Patch(r, t, by_, to, who) PROVE Lands(q, row)
  <2>1. /\ q.op = "patch" /\ q.set = PatchSet(row, to, who) /\ q.says = None /\ q.into # t
        /\ Moves(row, to) => MayMove(row, to, by_)
    BY <1>4, <1>t, <1>7 DEF Patch, row
  <2>2. Kempt(t, Over(PatchSet(row, to, who), row)) /\ Tells(PatchSet(row, to, who), row, now)
    BY <1>2, <1>3, <2>1, PatchLands DEF row
  <2> QED BY <1>3, <1>5, <2>1, <2>2
<1>8. ASSUME NEW by_ \in Roles, NEW note \in BOOLEAN, Reply(r, t, by_, note) PROVE Lands(q, row)
  <2>1. /\ q.set = PublicReply(row) \/ q.set = Leave
        /\ q.op = "reply" /\ q.says \in {"note", "system", "agent"} /\ q.into # t
    BY <1>4, <1>t, <1>8 DEF Reply, row
  <2>2. CASE q.set = PublicReply(row)
    BY <1>2, <1>3, <1>5, <2>1, <2>2, OthersLand DEF row
  <2>3. CASE q.set = Leave
    BY <1>5, <1>6, <2>1, <2>3 DEF Leave, Still
  <2> QED BY <2>1, <2>2, <2>3
<1>9. ASSUME NEW by_ \in Roles, NEW enabled \in BOOLEAN, SetBotEnabled(r, t, by_, enabled) PROVE Lands(q, row)
  <2>1. q.set = [Leave EXCEPT !.bot = enabled] /\ q.says = None /\ q.into # t
    BY <1>4, <1>t, <1>9 DEF SetBotEnabled
  <2> QED BY <1>3, <1>5, <1>6, <2>1 DEF Leave, Still
<1>10. ASSUME NEW target \in Tickets, Merge(r, t, target) PROVE Lands(q, row)
  <2>1. /\ q.set = [Leave EXCEPT !.status = "closed", !.closedAt = TRUE]
        /\ q.op = "merge" /\ q.says = None /\ q.into # t
    BY <1>4, <1>t, <1>10 DEF Merge
  <2> QED BY <1>2, <1>3, <1>5, <2>1, OthersLand DEF row
<1>11. ASSUME AppendMessage(r, t, "customer") PROVE Lands(q, row)
  <2>1. q.set = VisitorWrites(row) /\ q.says = "customer" /\ t \in BotTickets /\ q.into # t
    BY <1>4, <1>t, <1>11 DEF AppendMessage, row
  <2> QED BY <1>2, <1>3, <1>5, <2>1, OthersLand DEF row
<1>12. ASSUME AppendMessage(r, t, "bot") PROVE Lands(q, row)
  <2>1. q.set = BotAnswers(row) /\ q.says = "bot" /\ q.into # t
    BY <1>4, <1>t, <1>12 DEF AppendMessage, row
  <2> QED BY <1>5, <1>6, <2>1 DEF BotAnswers, Leave, Still
<1>13. ASSUME NEW reason \in BOOLEAN, Handoff(r, t, reason) PROVE Lands(q, row)
  <2>1. q.set = HandoffSet(row) /\ q.says \in {"note", None} /\ t \in BotTickets /\ q.into # t
    BY <1>4, <1>t, <1>13 DEF Handoff, row
  <2> QED BY <1>2, <1>3, <1>5, <2>1, OthersLand DEF row
<1>14. ASSUME Resolve(r, t) PROVE Lands(q, row)
  <2>1. /\ q.set = [Leave EXCEPT !.status = "resolved", !.resolvedAt = TRUE] /\ q.says = None /\ q.into # t
        /\ t \in BotTickets
    BY <1>4, <1>t, <1>14 DEF Resolve
  <2> QED BY <1>2, <1>3, <1>5, <2>1, OthersLand DEF row
<1>15. Lands(q, row)
  BY <1>7, <1>8, <1>9, <1>10, <1>11, <1>12, <1>13, <1>14 DEF Console, Chatbot
<1> QED BY <1>2, <1>15 DEF q, row

\* The row that a commit leaves and what its ticket has waited by then.
LEMMA StaysClocked ==
  ASSUME NEW q, NEW row \in Row, NEW w \in [since : Time, mins : Int], q.set \in Data, q.at \in Nat,
         Clocked(row, w), Tells(q.set, row, q.at), row.pausedAt # None => row.pausedAt <= q.at
  PROVE  Clocked(Over(q.set, row), Waits(w, q))
<1> DEFINE set == q.set
           new == Over(set, row)
           w2 == Waits(w, q)
<1>1. /\ new.pausedAt = IF set.pausedAt = Same THEN row.pausedAt ELSE set.pausedAt
      /\ new.due = IF set.due = Same THEN row.due ELSE set.due
  BY KemptColumns
<1>2. /\ row.pausedAt \in Nat \cup {None} /\ row.due \in Nat /\ w.since = row.pausedAt /\ w.mins \in Nat
      /\ row.due = SlaMins + w.mins /\ SlaMins \in Nat
  BY TicketAssumption DEF Clocked, Row, Time
<1>3. None # Same /\ None \notin Nat /\ Same \notin Nat /\ Same \notin Status
  BY TicketAssumption
<1>4. CASE set.status = Same /\ Still(set)
  BY <1>1, <1>2, <1>4 DEF Still, Waits, Clocked
<1>5. CASE set.status \in Pausing /\ set.due = Same /\ set.pausedAt = IF row.pausedAt = None THEN q.at ELSE Same
  <2>1. set.status # Same
    BY <1>3, <1>5 DEF Pausing, Status
  <2>2. new.due = row.due /\ new.pausedAt = IF row.pausedAt = None THEN q.at ELSE row.pausedAt
    BY <1>1, <1>3, <1>5
  <2>3. w2 = [w EXCEPT !.since = IF @ = None THEN q.at ELSE @]
    BY <1>5, <2>1 DEF Waits
  <2>4. w2.mins = w.mins /\ w2.since = IF w.since = None THEN q.at ELSE w.since
    BY <2>3
  <2> QED BY <1>2, <2>2, <2>4 DEF Clocked
<1>6. CASE set.status \in Status \ Pausing /\ row.pausedAt = None /\ Still(set)
  BY <1>1, <1>2, <1>3, <1>6 DEF Still, Waits, Clocked
<1>7. CASE set.status \in Status \ Pausing /\ row.pausedAt # None /\ set.pausedAt = None
           /\ set.due = row.due + (q.at - row.pausedAt)
  <2>1. w2 = [since |-> None, mins |-> w.mins + (q.at - w.since)]
    BY <1>2, <1>3, <1>7 DEF Waits
  <2>2. set.due \in Nat /\ w2.mins \in Nat /\ set.due = SlaMins + w2.mins
    <3>1. row.pausedAt \in Nat /\ row.pausedAt <= q.at /\ w2.mins = w.mins + (q.at - row.pausedAt)
      BY <1>2, <1>7, <2>1
    <3> HIDE DEF set, w2
    <3> QED BY <1>2, <1>7, <3>1
  <2>3. new.pausedAt = None /\ new.due = set.due
    BY <1>1, <1>3, <1>7, <2>2
  <2> QED BY <2>1, <2>2, <2>3 DEF Clocked
<1>8. row.due # None
  BY <1>2, <1>3
<1> QED BY <1>4, <1>5, <1>6, <1>7, <1>8 DEF Tells

LEMMA SerialStep ==
  ASSUME OneAtATime, IInv, SerialInv, [Next]_vars
  PROVE  SerialInv'
<1>1. CASE UNCHANGED <<ticket, req, waited>>
  BY <1>1 DEF SerialInv
<1>2. ASSUME NEW r \in Requests, NEW t \in Tickets, Console(r, t) \/ Chatbot(r, t) PROVE SerialInv'
  <2>1. ticket' = ticket /\ waited' = waited /\ req'[r].on = t /\ Lands(req'[r], ticket[t])
    BY <1>2, BeginLands
  <2>2. \A y \in Requests : y = r
    BY DEF OneAtATime
  <2> QED BY <2>1, <2>2 DEF SerialInv
<1>3. ASSUME NEW r \in Requests, Commit(r) \/ CommitMerge(r) PROVE SerialInv'
  <2> DEFINE q == req[r]
  <2>1. /\ q.on \in Tickets /\ ticket' = [ticket EXCEPT ![q.on] = Over(q.set, @)]
        /\ req' = [req EXCEPT ![r] = Idle] /\ q # Idle
    <3>1. q # Idle
      <4>1. Idle.op # "merge"
        BY DEF Idle
      <4> QED BY <1>3, <4>1 DEF Commit, CommitMerge
    <3>2. /\ q.on \in Tickets /\ ticket' = [ticket EXCEPT ![q.on] = Over(q.set, @)]
          /\ req' = [req EXCEPT ![r] = Idle]
      BY <1>3, CommitIs
    <3> QED BY <3>1, <3>2
  <2>2. Kempt(q.on, Over(q.set, ticket[q.on]))
    BY <2>1 DEF SerialInv, Lands
  <2>3. \A y \in Requests : req'[y] = Idle
    BY <2>1 DEF OneAtATime, IInv, TypeOK
  <2>4. /\ ticket'[q.on] = Over(q.set, ticket[q.on])
        /\ \A t \in Tickets \ {q.on} : ticket'[t] = ticket[t]
    BY <2>1 DEF IInv, TypeOK
  <2>5. \A t \in Tickets \ BotTickets : Clocked(ticket[t], waited[t])
    BY DEF SerialInv
  <2>6. waited \in [Tickets \ BotTickets -> [since : Time, mins : Int]]
    BY DEF IInv, TypeOK
  <2>7. ASSUME q.on \notin BotTickets PROVE Clocked(ticket'[q.on], waited'[q.on])
    <3>1. /\ ticket[q.on] \in Row /\ q.set \in Data /\ q.at \in Nat /\ Lands(q, ticket[q.on])
          /\ waited[q.on] \in [since : Time, mins : Int] /\ Clocked(ticket[q.on], waited[q.on])
      BY <2>1, <2>5, <2>6, <2>7 DEF SerialInv, IInv, TypeOK, Request
    <3>2. CASE CommitMerge(r)
      <4>1. waited' = waited /\ Still(q.set)
        BY <2>7, <3>1, <3>2 DEF CommitMerge, Lands
      <4>2. /\ ticket'[q.on].pausedAt = ticket[q.on].pausedAt
            /\ ticket'[q.on].due = ticket[q.on].due
        BY <2>4, <3>1, <4>1, KemptColumns DEF Still
      <4> QED BY <3>1, <4>1, <4>2 DEF Clocked
    <3>3. CASE Commit(r)
      <4>1. q.op # "merge" /\ waited' = [waited EXCEPT ![q.on] = Waits(@, q)]
        BY <2>7, <3>3 DEF Commit
      <4>2. waited'[q.on] = Waits(waited[q.on], q)
        BY <2>1, <2>6, <2>7, <4>1
      <4>3. Clocked(Over(q.set, ticket[q.on]), Waits(waited[q.on], q))
        BY <2>7, <3>1, <4>1, StaysClocked DEF Lands
      <4> QED BY <2>4, <4>2, <4>3
    <3> QED BY <1>3, <3>2, <3>3
  <2>8. \A t \in (Tickets \ BotTickets) \ {q.on} : waited'[t] = waited[t]
    BY <1>3, <2>1, <2>6 DEF Commit, CommitMerge
  <2> HIDE DEF q
  <2>9. \A t \in Tickets \ BotTickets : Clocked(ticket'[t], waited'[t])
    BY <2>4, <2>5, <2>7, <2>8
  <2> QED BY <2>2, <2>3, <2>4, <2>9 DEF SerialInv
<1>4. ASSUME NEW r \in Requests, Rollback(r) PROVE SerialInv'
  <2>1. ticket' = ticket /\ waited' = waited /\ \A y \in Requests : req'[y] = Idle
    BY <1>4 DEF Rollback, OneAtATime, IInv, TypeOK
  <2> QED BY <2>1 DEF SerialInv
<1> QED BY <1>1, <1>2, <1>3, <1>4 DEF Next, Tick, vars

LEMMA SerialInit == Init => SerialInv
<1> SUFFICES ASSUME Init PROVE SerialInv
  OBVIOUS
<1>1. \A t \in Tickets : Kempt(t, ticket[t])
  BY DEF Init, Kempt, Created, Pausing
<1>2. \A t \in Tickets \ BotTickets : Clocked(ticket[t], waited[t])
  <2> SUFFICES ASSUME NEW t \in Tickets \ BotTickets PROVE Clocked(ticket[t], waited[t])
    OBVIOUS
  <2>1. ticket[t].pausedAt = None /\ ticket[t].due = SlaMins
    BY DEF Init, Created
  <2>2. waited[t] = [since |-> None, mins |-> 0]
    BY DEF Init
  <2>3. waited[t].since = None /\ waited[t].mins = 0 /\ SlaMins \in Nat
    BY <2>2, TicketAssumption
  <2> QED BY <2>1, <2>3 DEF Clocked
<1> QED BY <1>1, <1>2 DEF Init, SerialInv

LEMMA SerialAlways == ASSUME OneAtATime PROVE Spec => []IInv /\ []SerialInv
<1>1. IInv /\ SerialInv /\ [Next]_vars => SerialInv'
  BY SerialStep
<1> QED BY InitIInv, StepIInv, SerialInit, <1>1, PTL DEF Spec

\* Requests one at a time: an unfinished ticket carries no resolution stamp
\* (applyTransition, appendMessage, handoff).
THEOREM SerialStamps == ASSUME OneAtATime PROVE Spec => []UnfinishedMeansUnstamped
<1>1. SerialInv => UnfinishedMeansUnstamped
  BY DEF SerialInv, Kempt, UnfinishedMeansUnstamped
<1> QED BY <1>1, SerialAlways, PTL

\* Requests one at a time: a console ticket's clock stands still while it waits,
\* and only then (timerPatchForTransition).
THEOREM SerialPauses == ASSUME OneAtATime PROVE Spec => []PausedWhileWaiting
<1>1. SerialInv => PausedWhileWaiting
  BY DEF SerialInv, Kempt, PausedWhileWaiting
<1> QED BY <1>1, SerialAlways, PTL

\* The request that stores a visitor's message, and what it leaves of the ticket.
LEMMA SaysIs ==
  ASSUME IInv, SerialInv, Next, NEW t \in Tickets, Says(t, "customer")
  PROVE  \E r \in Requests : req[r] # Idle /\ req[r].on = t /\ req[r].says = "customer"
                             /\ ticket'[t] = Over(req[r].set, ticket[t])
<1>0. thread[t] \in Seq(Author) /\ thread \in [Tickets -> Seq(Author)] /\ Len(thread[t]) \in Nat
  BY DEF IInv, TypeOK
<1>1. thread' # thread
  BY <1>0 DEF Says
<1>2. PICK r \in Requests : Commit(r) \/ CommitMerge(r)
  BY <1>1, OnlyCommitWrites
<1> DEFINE q == req[r]
<1>3. /\ q \in Request /\ q.on \in Tickets /\ ticket' = [ticket EXCEPT ![q.on] = Over(q.set, @)]
      /\ q.says \in Author \cup {None} /\ q # Idle /\ q.into # q.on
  BY <1>2, CommitIs DEF Request, Idle, Endpoint, SerialInv, Lands
<1> HIDE DEF q
<1>4. CASE Commit(r)
  <2>1. thread' = IF q.says = None THEN thread ELSE [thread EXCEPT ![q.on] = Append(@, q.says)]
    BY <1>4 DEF Commit, q
  <2>2. q.says # None /\ q.on = t
    BY <1>0, <1>1, <1>3, <2>1 DEF Says
  <2>3. thread'[t] = Append(thread[t], q.says)
    BY <1>0, <2>1, <2>2
  <2>4. q.says = "customer"
    BY <1>0, <1>3, <2>2, <2>3 DEF Says
  <2>5. ticket'[t] = Over(q.set, ticket[t])
    BY <1>3, <2>2 DEF IInv, TypeOK
  <2> QED BY <1>3, <2>2, <2>4, <2>5 DEF q
<1>5. CASE CommitMerge(r)
  <2>1. CASE t = q.on
    <3>1. thread'[t] = <<>>
      BY <1>3, <1>5, <2>1 DEF CommitMerge, q
    <3> QED BY <1>0, <3>1 DEF Says
  <2>2. CASE t # q.on /\ t = q.into
    <3> DEFINE both == thread[t] \o thread[q.on]
    <3>1. thread'[t] = Append(both, "note") /\ thread[q.on] \in Seq(Author)
      BY <1>0, <1>3, <1>5, <2>2 DEF CommitMerge, q
    <3>2. both \in Seq(Author)
      BY <1>0, <3>1
    <3> HIDE DEF both
    <3>3. thread'[t][Len(thread'[t])] = "note"
      <4>1. Len(Append(both, "note")) = Len(both) + 1 /\ Append(both, "note")[Len(both) + 1] = "note"
        BY <3>2
      <4> QED BY <3>1, <4>1
    <3> QED BY <3>3 DEF Says
  <2>3. CASE t # q.on /\ t # q.into
    <3>1. thread'[t] = thread[t]
      BY <1>5, <2>3 DEF CommitMerge, q
    <3> QED BY <1>0, <3>1 DEF Says
  <2> QED BY <2>1, <2>2, <2>3
<1> QED BY <1>2, <1>4, <1>5

\* Requests one at a time: no visitor's message lands on a ticket and leaves it
\* finished (chat.module appendMessage).
THEOREM SerialVisitor == ASSUME OneAtATime PROVE Spec => VisitorReplyIsSeen
<1>1. IInv /\ SerialInv /\ [Next]_vars =>
        [\A t \in Tickets : Says(t, "customer") => ticket'[t].status \notin Finished]_vars
  <2> SUFFICES ASSUME IInv, SerialInv, Next, NEW t \in Tickets, Says(t, "customer")
               PROVE  ticket'[t].status \notin Finished
    OBVIOUS
  <2> QED BY SaysIs DEF SerialInv, Lands
<1> QED BY <1>1, SerialAlways, PTL DEF Spec, VisitorReplyIsSeen

\* Requests one at a time: however often a console ticket waits, and in whichever of the
\* two states, it is due when its target and all it has waited are over
\* (timerPatchForTransition, merge).
THEOREM SerialDue == ASSUME OneAtATime PROVE Spec => []DueFollowsWaiting
<1>1. SerialInv => DueFollowsWaiting
  BY DEF SerialInv, Clocked, DueFollowsWaiting
<1> QED BY <1>1, SerialAlways, PTL

-----------------------------------------------------------------------------
(* Working time. *)

\* What the code is called with: a calendar and one of the two questions about it.
Asked == calendar.weekly \in [0 .. Week - 1 -> Schedules] /\ task \in Task

\* While it walks, the cursor is in the day it looks at, no window of which that it has
\* left behind reaches past it; and what it has counted is what was worked up to there.
OnTheWay ==
  /\ walk.date = walk.at[1] /\ walk.date = task.from[1] + walk.days
  /\ ~Before(walk.at, task.from)
  /\ \A j \in DOMAIN Windows(walk.date) : j < walk.i => Windows(walk.date)[j][2] <= walk.at[2]
  /\ task.op = "add" => walk.n > 0 /\ Cardinality(Worked(task.from, walk.at)) + walk.n = task.minutes
  /\ task.op = "between" => /\ Before(walk.at, task.to)
                            /\ Cardinality(Worked(task.from, walk.at)) = walk.n

\* The cursor keeps its type, and a walk that goes on has days left.
Walking ==
  /\ walk \in [at : Instant, date : Nat, i : Nat \ {0}, days : 0 .. Guard, n : Nat,
               st : {"walks", "done", "gave up"}]
  /\ Asked
  /\ walk.st = "walks" => walk.days < Guard

\* The walk is on its way, or is over and has the answer.
WalkInv ==
  /\ walk.st = "walks" /\ ~OpenAtMidnight => OnTheWay
  /\ DueIsReached /\ PauseIsCounted

LEMMA DayIs == Day \in Nat /\ Day > 0 /\ Week \in Nat /\ Week > 0 /\ Guard \in Nat /\ Guard > 0 /\ Span \in Nat
  BY BusinessHoursAssumption

\* The windows of any date are in order, and end before midnight if the weekly ones do.
LEMMA WindowsAre ==
  ASSUME Asked, NEW date \in Nat
  PROVE  /\ Windows(date) \in Seq((0 .. Day) \X (0 .. Day)) /\ Ordered(Windows(date))
         /\ ~OpenAtMidnight => \A i \in DOMAIN Windows(date) : Windows(date)[i][2] < Day
<1>1. date % Week \in 0 .. Week - 1
  BY DayIs
<1>2. calendar.weekly[date % Week] \in Schedules
  BY <1>1 DEF Asked
<1>3. CASE date \in calendar.holidays
  <2>1. Windows(date) = << >>
    BY <1>3 DEF Windows
  <2> QED BY <2>1 DEF Ordered
<1>4. CASE date \notin calendar.holidays
  <2>1. Windows(date) = calendar.weekly[date % Week]
    BY <1>4 DEF Windows
  <2>2. Windows(date) \in Seq((0 .. Day) \X (0 .. Day)) /\ Ordered(Windows(date))
    BY <1>2, <2>1, BusinessHoursAssumption
  <2>3. ASSUME ~OpenAtMidnight, NEW i \in DOMAIN Windows(date) PROVE Windows(date)[i][2] < Day
    <3>1. Windows(date)[i][2] # Day
      BY <1>1, <2>1, <2>3 DEF OpenAtMidnight
    <3>2. Windows(date)[i][2] \in 0 .. Day
      BY <2>2
    <3> QED BY <3>1, <3>2, DayIs
  <2> QED BY <2>2, <2>3
<1> QED BY <1>3, <1>4

\* Where the window at the cursor begins to count, and where it ends.
LEMMA WindowIs ==
  ASSUME HoursTypeOK, Asked, InWindow
  PROVE  /\ walk.i \in DOMAIN Windows(walk.date) /\ Window = Windows(walk.date)[walk.i]
         /\ walk.at[1] \in Nat /\ walk.at[2] \in 0 .. Day - 1 /\ walk.at = <<walk.at[1], walk.at[2]>>
         /\ Window[1] \in Nat /\ Window[2] \in Nat /\ Window[1] < Window[2] /\ Window[2] <= Day
         /\ Window[2] > walk.at[2] =>
              /\ CountsFrom \in Nat /\ walk.at[2] <= CountsFrom /\ CountsFrom < Window[2]
              /\ Window[1] <= CountsFrom /\ (CountsFrom = Window[1] \/ CountsFrom = walk.at[2])
              /\ Opens(CountsFrom) = <<walk.at[1], CountsFrom>>
<1>1. /\ walk.at[1] \in Nat /\ walk.at[2] \in 0 .. Day - 1 /\ walk.at = <<walk.at[1], walk.at[2]>>
      /\ walk.date \in Nat /\ walk.i \in Nat \ {0}
  <2>1. walk.at \in Nat \X (0 .. Day - 1) /\ walk.date \in Nat /\ walk.i \in Nat \ {0}
    BY DEF HoursTypeOK, Instant
  <2> DEFINE at == walk.at
  <2>2. at \in Nat \X (0 .. Day - 1)
    BY <2>1
  <2> HIDE DEF at
  <2>3. at[1] \in Nat /\ at[2] \in 0 .. Day - 1 /\ at = <<at[1], at[2]>>
    BY <2>2
  <2> QED BY <2>1, <2>3 DEF at
<1>2. Windows(walk.date) \in Seq((0 .. Day) \X (0 .. Day)) /\ Ordered(Windows(walk.date))
  BY <1>1, WindowsAre
<1>3. walk.i \in DOMAIN Windows(walk.date)
  BY <1>1, <1>2 DEF InWindow
<1>4. Window = Windows(walk.date)[walk.i]
  BY DEF Window
<1>5. /\ Window[1] \in Nat /\ Window[2] \in Nat /\ Window[1] < Window[2] /\ Window[2] <= Day
  <2>1. Window \in (0 .. Day) \X (0 .. Day)
    BY <1>2, <1>3, <1>4
  <2>2. Window[1] < Window[2]
    BY <1>2, <1>3, <1>4 DEF Ordered
  <2> QED BY <2>1, <2>2, DayIs
<1>6. ASSUME Window[2] > walk.at[2]
      PROVE  /\ CountsFrom \in Nat /\ walk.at[2] <= CountsFrom /\ CountsFrom < Window[2]
             /\ Window[1] <= CountsFrom /\ (CountsFrom = Window[1] \/ CountsFrom = walk.at[2])
             /\ Opens(CountsFrom) = <<walk.at[1], CountsFrom>>
  <2>1. /\ CountsFrom \in Nat /\ walk.at[2] <= CountsFrom /\ CountsFrom < Window[2]
        /\ Window[1] <= CountsFrom /\ (CountsFrom = Window[1] \/ CountsFrom = walk.at[2])
    BY <1>1, <1>5, <1>6, DayIs DEF CountsFrom, Larger
  <2>2. Opens(CountsFrom) = <<walk.at[1], CountsFrom>>
    <3> DEFINE s == CountsFrom
    <3>1. s \in Nat /\ walk.at[2] <= s /\ s < Day
      BY <1>5, <2>1, DayIs
    <3> HIDE DEF s
    <3>2. Opens(s) = <<walk.at[1], s>>
      BY <1>1, <3>1, DayIs DEF Opens, Plus
    <3> QED BY <3>2 DEF s
  <2> QED BY <2>1, <2>2
<1> QED BY <1>1, <1>3, <1>4, <1>5, <1>6

\* Nothing is worked between the cursor and where its window begins to count; all of it
\* is from there to the window's end; nothing is after the last window.
LEMMA Between ==
  ASSUME HoursTypeOK, Asked, InWindow, Window[2] > walk.at[2], walk.date = walk.at[1],
         \A j \in DOMAIN Windows(walk.date) : j < walk.i => Windows(walk.date)[j][2] <= walk.at[2],
         NEW m \in Nat
  PROVE  /\ walk.at[2] <= m /\ m < CountsFrom => ~Works(<<walk.date, m>>)
         /\ CountsFrom <= m /\ m < Window[2] => Works(<<walk.date, m>>)
<1> DEFINE ws == Windows(walk.date)
<1>1. /\ walk.i \in DOMAIN ws /\ Window = ws[walk.i]
      /\ walk.at[2] \in Nat /\ Window[1] \in Nat /\ Window[2] \in Nat
      /\ CountsFrom \in Nat /\ walk.at[2] <= CountsFrom /\ CountsFrom < Window[2]
      /\ Window[1] <= CountsFrom /\ (CountsFrom = Window[1] \/ CountsFrom = walk.at[2])
  BY WindowIs
<1>2. ws \in Seq((0 .. Day) \X (0 .. Day)) /\ Ordered(ws) /\ walk.i \in Nat
  BY WindowsAre DEF HoursTypeOK
<1>3. ASSUME walk.at[2] <= m, m < CountsFrom, Works(<<walk.date, m>>) PROVE FALSE
  <2>1. PICK j \in DOMAIN ws : ws[j][1] <= m /\ m < ws[j][2]
    BY <1>3 DEF Works
  <2>2. ws[j] \in (0 .. Day) \X (0 .. Day) /\ j \in Nat
    BY <1>2
  <2>3. CASE j < walk.i
    <3>1. ws[j][2] <= walk.at[2]
      BY <2>3
    <3> HIDE DEF ws
    <3> QED BY <1>1, <1>3, <2>1, <2>2, <3>1
  <2>4. CASE j = walk.i
    <3> HIDE DEF ws
    <3> QED BY <1>1, <1>3, <2>1, <2>4
  <2>5. CASE j > walk.i
    <3>1. ws[walk.i][2] <= ws[j][1]
      BY <1>1, <1>2, <2>2, <2>5 DEF Ordered
    <3> HIDE DEF ws
    <3> QED BY <1>1, <1>3, <2>1, <2>2, <3>1
  <2> QED BY <1>2, <2>2, <2>3, <2>4, <2>5
<1>4. ASSUME CountsFrom <= m, m < Window[2] PROVE Works(<<walk.date, m>>)
  <2>1. ws[walk.i][1] <= m /\ m < ws[walk.i][2]
    <3> HIDE DEF ws
    <3> QED BY <1>1, <1>4
  <2> QED BY <1>1, <2>1 DEF Works
<1> QED BY <1>3, <1>4

\* Once the windows of the day are behind, nothing more is worked that day.
LEMMA Evening ==
  ASSUME HoursTypeOK, Asked, walk.i > Len(Windows(walk.date)),
         \A j \in DOMAIN Windows(walk.date) : j < walk.i => Windows(walk.date)[j][2] <= walk.at[2],
         NEW m \in Nat, walk.at[2] <= m
  PROVE  ~Works(<<walk.date, m>>)
<1> DEFINE ws == Windows(walk.date)
<1> SUFFICES ASSUME Works(<<walk.date, m>>) PROVE FALSE
  OBVIOUS
<1>1. PICK j \in DOMAIN ws : m < ws[j][2]
  BY DEF Works
<1>2. ws \in Seq((0 .. Day) \X (0 .. Day)) /\ walk.i \in Nat /\ walk.at[2] \in Nat
  <2>1. walk.at \in Nat \X (0 .. Day - 1) /\ walk.date \in Nat /\ walk.i \in Nat \ {0}
    BY DEF HoursTypeOK, Instant
  <2>2. walk.at[2] \in 0 .. Day - 1
    BY <2>1
  <2>3. ws \in Seq((0 .. Day) \X (0 .. Day))
    BY <2>1, WindowsAre
  <2> QED BY <2>1, <2>2, <2>3, DayIs
<1>3. ws[j] \in (0 .. Day) \X (0 .. Day) /\ j < walk.i
  BY <1>2
<1>4. ws[j][2] <= walk.at[2]
  BY <1>3
<1> HIDE DEF ws
<1> QED BY <1>1, <1>2, <1>3, <1>4

-----------------------------------------------------------------------------
\* Worked minutes are counted stretch by stretch.
LEMMA WorkedFinite ==
  ASSUME NEW s \in Instant, NEW t \in Instant
  PROVE  IsFiniteSet(Worked(s, t)) /\ Cardinality(Worked(s, t)) \in Nat
<1>1. s[1] \in Int /\ t[1] \in Int /\ 0 \in Int /\ Day - 1 \in Int
  BY DayIs DEF Instant
<1>2. IsFiniteSet(s[1] .. t[1]) /\ IsFiniteSet(0 .. Day - 1)
  BY <1>1, FS_Interval
<1>3. IsFiniteSet((s[1] .. t[1]) \X (0 .. Day - 1))
  BY <1>2, FS_Product
<1>4. Worked(s, t) \subseteq (s[1] .. t[1]) \X (0 .. Day - 1)
  BY DEF Worked
<1> QED BY <1>3, <1>4, FS_Subset, FS_CardinalityType

\* A stretch that is worked throughout adds all its minutes.
LEMMA Stretch ==
  ASSUME NEW s \in Instant, NEW d \in Nat, NEW a \in 0 .. Day - 1, NEW b \in 0 .. Day - 1, a <= b,
         ~Before(<<d, a>>, s), \A m \in Nat : a <= m /\ m < b => Works(<<d, m>>)
  PROVE  Cardinality(Worked(s, <<d, b>>)) = Cardinality(Worked(s, <<d, a>>)) + (b - a)
<1> DEFINE More == {d} \X (a .. b - 1)
           Old == Worked(s, <<d, a>>)
<1>1. s = <<s[1], s[2]>> /\ s[1] \in Nat /\ s[2] \in 0 .. Day - 1 /\ s[1] <= d
  BY DayIs DEF Instant, Before
<1>2. Worked(s, <<d, b>>) = Old \cup More
  <2>1. ASSUME NEW u \in Worked(s, <<d, b>>) PROVE u \in Old \cup More
    <3>1. u \in (s[1] .. d) \X (0 .. Day - 1) /\ ~Before(u, s) /\ Before(u, <<d, b>>) /\ Works(u)
      BY DEF Worked
    <3>2. u = <<u[1], u[2]>> /\ u[1] \in Int /\ u[2] \in Int
      BY <3>1
    <3>3. CASE u[1] = d /\ a <= u[2]
      <4>1. u[2] \in a .. b - 1
        BY <3>1, <3>2, <3>3, DayIs DEF Before
      <4>2. <<u[1], u[2]>> \in More
        BY <3>3, <4>1
      <4> QED BY <3>2, <4>2
    <3>4. CASE ~(u[1] = d /\ a <= u[2])
      <4>1. Before(u, <<d, a>>)
        BY <3>1, <3>2, <3>4, DayIs DEF Before
      <4> QED BY <3>1, <4>1 DEF Worked
    <3> QED BY <3>3, <3>4
  <2>2. ASSUME NEW u \in Old PROVE u \in Worked(s, <<d, b>>)
    <3>1. u \in (s[1] .. d) \X (0 .. Day - 1) /\ ~Before(u, s) /\ Before(u, <<d, a>>) /\ Works(u)
      BY DEF Worked
    <3>2. Before(u, <<d, b>>)
      BY <3>1, DayIs DEF Before
    <3> QED BY <3>1, <3>2 DEF Worked
  <2>3. ASSUME NEW u \in More PROVE u \in Worked(s, <<d, b>>)
    <3>1. u = <<d, u[2]>> /\ u[1] = d /\ u[2] \in a .. b - 1
      OBVIOUS
    <3>2. u[2] \in Nat /\ u[2] \in 0 .. Day - 1 /\ a <= u[2] /\ u[2] < b
      BY <3>1, DayIs
    <3>3. Works(u)
      BY <3>1, <3>2
    <3>4. ~Before(u, s) /\ Before(u, <<d, b>>)
      BY <1>1, <3>1, <3>2, DayIs DEF Before
    <3>5. <<d, u[2]>> \in (s[1] .. d) \X (0 .. Day - 1)
      BY <1>1, <3>2
    <3> QED BY <3>1, <3>3, <3>4, <3>5 DEF Worked
  <2> QED BY <2>1, <2>2, <2>3
<1>3. Old \cap More = {}
  BY DayIs DEF Worked, Before
<1>4. IsFiniteSet(Old) /\ Cardinality(Old) \in Nat
  <2>1. <<d, a>> \in Instant
    BY DEF Instant
  <2> QED BY <2>1, WorkedFinite
<1>5. IsFiniteSet(More) /\ Cardinality(More) = b - a
  <2>1. IsFiniteSet({d}) /\ Cardinality({d}) = 1
    BY FS_Singleton
  <2>2. IsFiniteSet(a .. b - 1) /\ Cardinality(a .. b - 1) = b - a
    <3>1. a \in Int /\ b \in Int /\ b - 1 \in Int /\ a <= b
      BY DayIs
    <3>2. /\ IsFiniteSet(a .. b - 1)
          /\ Cardinality(a .. b - 1) = IF a > b - 1 THEN 0 ELSE (b - 1) - a + 1
      BY <3>1, FS_Interval
    <3> QED BY <3>1, <3>2
  <2>3. IsFiniteSet(More) /\ Cardinality(More) = 1 * (b - a)
    BY <2>1, <2>2, FS_Product
  <2> QED BY <2>3, DayIs
<1>6. Cardinality(Old \cup More) = Cardinality(Old) + Cardinality(More)
  <2>1. Cardinality(Old \cup More) = Cardinality(Old) + Cardinality(More) - Cardinality(Old \cap More)
    <3> HIDE DEF Old, More
    <3> QED BY <1>4, <1>5, FS_Union
  <2>2. Cardinality(Old \cap More) = 0
    BY <1>3, FS_EmptySet
  <2> HIDE DEF Old, More
  <2> QED BY <1>4, <1>5, <2>1, <2>2, DayIs
<1> QED BY <1>2, <1>5, <1>6

\* A stretch in which nothing is worked adds none.
LEMMA Rest ==
  ASSUME NEW s \in Instant, NEW d \in Nat, NEW a \in 0 .. Day - 1, NEW t \in Instant,
         ~Before(t, <<d, a>>), t[1] = d \/ t = <<d + 1, 0>>, s[1] <= d,
         \A m \in Nat : a <= m /\ Before(<<d, m>>, t) /\ m < Day => ~Works(<<d, m>>)
  PROVE  Worked(s, t) = Worked(s, <<d, a>>)
<1>1. t = <<t[1], t[2]>> /\ t[1] \in Nat /\ t[2] \in Nat /\ s[1] \in Nat /\ a \in Nat
  BY DayIs DEF Instant
<1>2. ASSUME NEW u \in Worked(s, t) PROVE u \in Worked(s, <<d, a>>)
  <2>1. u \in (s[1] .. t[1]) \X (0 .. Day - 1) /\ ~Before(u, s) /\ Before(u, t) /\ Works(u)
    BY DEF Worked
  <2>2. u = <<u[1], u[2]>> /\ u[1] \in Int /\ u[2] \in Nat /\ u[2] < Day /\ s[1] <= u[1]
    BY <1>1, <2>1, DayIs
  <2>3. u[1] <= d
    BY <1>1, <2>1, <2>2 DEF Before
  <2>4. ~(u[1] = d /\ a <= u[2])
    <3> SUFFICES ASSUME u[1] = d, a <= u[2] PROVE FALSE
      OBVIOUS
    <3>1. u = <<d, u[2]>>
      BY <2>2
    <3> QED BY <2>1, <2>2, <3>1
  <2>5. Before(u, <<d, a>>)
    BY <1>1, <2>2, <2>3, <2>4 DEF Before
  <2>6. <<u[1], u[2]>> \in (s[1] .. d) \X (0 .. Day - 1)
    BY <1>1, <2>2, <2>3, DayIs
  <2> QED BY <2>1, <2>2, <2>5, <2>6 DEF Worked
<1>3. ASSUME NEW u \in Worked(s, <<d, a>>) PROVE u \in Worked(s, t)
  <2>1. u \in (s[1] .. d) \X (0 .. Day - 1) /\ ~Before(u, s) /\ Before(u, <<d, a>>) /\ Works(u)
    BY DEF Worked
  <2>2. u = <<u[1], u[2]>> /\ u[1] \in Int /\ u[2] \in 0 .. Day - 1 /\ s[1] <= u[1] /\ u[1] <= d
    BY <1>1, <2>1
  <2>3. Before(u, t)
    BY <1>1, <2>1, <2>2, DayIs DEF Before
  <2>4. <<u[1], u[2]>> \in (s[1] .. t[1]) \X (0 .. Day - 1)
    BY <1>1, <2>2
  <2> QED BY <2>1, <2>2, <2>3, <2>4 DEF Worked
<1> QED BY <1>2, <1>3

LEMMA TaskIs ==
  ASSUME Asked
  PROVE  /\ task.from \in Instant /\ task.from[1] \in Nat
         /\ task.op \in {"add", "between"}
         /\ task.op = "add" => task.minutes \in Nat \ {0}
         /\ task.op = "between" => task.to \in Instant
<1>1. ASSUME NEW t \in Instants PROVE t \in Instant /\ t[1] \in Nat
  <2>1. 0 .. Span \subseteq Nat
    BY DayIs
  <2> QED BY <2>1 DEF Instants, Instant
<1>2. CASE task \in [op : {"add"}, from : Instants, minutes : Minutes]
  <2>1. task.op = "add" /\ task.from \in Instants /\ task.minutes \in Minutes
    BY <1>2
  <2> QED BY <1>1, <2>1, BusinessHoursAssumption
<1>3. CASE task \in [op : {"between"}, from : Instants, to : Instants]
  <2>1. task.op = "between" /\ task.from \in Instants /\ task.to \in Instants
    BY <1>3
  <2> QED BY <1>1, <2>1
<1> QED BY <1>2, <1>3 DEF Asked, Task

LEMMA Types == Walking => HoursTypeOK
  BY DEF Walking, HoursTypeOK

LEMMA PlusIs ==
  ASSUME NEW t \in Instant, NEW n \in 0 .. Day
  PROVE  Plus(t, n) \in Instant
<1>1. t[1] \in Nat /\ t[2] \in 0 .. Day - 1
  BY DEF Instant
<1> QED BY <1>1, DayIs DEF Plus, Instant

LEMMA BeforeIs ==
  ASSUME NEW s \in Instant, NEW t \in Instant
  PROVE  /\ s = <<s[1], s[2]>> /\ s[1] \in Nat /\ s[2] \in Nat /\ s[2] < Day
         /\ Before(s, t) <=> (s[1] < t[1] \/ (s[1] = t[1] /\ s[2] < t[2]))
  BY DayIs DEF Instant, Before

\* What a window adds to a pause: up to its end, or up to the end of the pause in it.
LEMMA SliceIs ==
  ASSUME Walking, InWindow, Window[2] > walk.at[2], task.op = "between", NEW opens, NEW slice,
         opens = Opens(CountsFrom), Before(opens, task.to),
         slice = SliceEnd(Plus(walk.at, Window[2] - walk.at[2]), task.to)
  PROVE  /\ slice \in Instant /\ Minus(slice, opens) \in Nat
         /\ Window[2] < Day =>
              /\ slice = <<walk.at[1], slice[2]>> /\ CountsFrom <= slice[2] /\ slice[2] <= Window[2]
              /\ Minus(slice, opens) = slice[2] - CountsFrom
              /\ Before(slice, task.to) => slice[2] = Window[2]
              /\ ~Before(slice, task.to) => slice = task.to
<1> DEFINE d == walk.at[1]
           p == walk.at[2]
           w == Window[2]
           c == CountsFrom
           to == task.to
<1>1. /\ d \in Nat /\ p \in Nat /\ p < Day /\ w \in Nat /\ w <= Day /\ p < w
      /\ c \in Nat /\ p <= c /\ c < w /\ opens = <<d, c>>
  <2>1. HoursTypeOK /\ Asked
    BY Types DEF Walking
  <2>2. /\ walk.at[1] \in Nat /\ walk.at[2] \in 0 .. Day - 1
        /\ Window[2] \in Nat /\ Window[2] <= Day
        /\ CountsFrom \in Nat /\ walk.at[2] <= CountsFrom /\ CountsFrom < Window[2]
        /\ Opens(CountsFrom) = <<walk.at[1], CountsFrom>>
    BY <2>1, WindowIs
  <2> QED BY <2>2, DayIs
<1>2. to \in Instant /\ to = <<to[1], to[2]>> /\ to[1] \in Nat /\ to[2] \in Nat /\ to[2] < Day
  BY TaskIs, BeforeIs DEF Walking
<1>3. Plus(walk.at, Window[2] - walk.at[2]) = IF w < Day THEN <<d, w>> ELSE <<d + 1, 0>>
  BY <1>1, DayIs DEF Plus
<1>4. d < to[1] \/ (d = to[1] /\ c < to[2])
  BY <1>1 DEF Before
<1>5. slice = SliceEnd(IF w < Day THEN <<d, w>> ELSE <<d + 1, 0>>, to)
  BY <1>3
<1> HIDE DEF d, p, w, c, to
<1>6. CASE w < Day
  <2>1. slice = IF Before(<<d, w>>, to) THEN <<d, w>> ELSE to
    BY <1>5, <1>6 DEF SliceEnd
  <2>2. Before(<<d, w>>, to) <=> d < to[1] \/ (d = to[1] /\ w < to[2])
    BY DEF Before
  <2>3. CASE Before(<<d, w>>, to)
    <3>1. slice = <<d, w>> /\ slice[1] = d /\ slice[2] = w
      BY <2>1, <2>3
    <3>2. slice \in Instant
      BY <1>1, <1>6, <3>1, DayIs DEF Instant
    <3>3. Minus(slice, opens) = w - c
      BY <1>1, <3>1, DayIs DEF Minus
    <3>4. w - c \in Nat /\ c <= w /\ w <= w
      BY <1>1
    <3> QED BY <2>3, <3>1, <3>2, <3>3, <3>4 DEF d, p, w, c, to
  <2>4. CASE ~Before(<<d, w>>, to)
    <3>1. slice = to /\ to[1] = d /\ c < to[2] /\ to[2] <= w /\ slice = <<d, to[2]>> /\ slice[2] = to[2]
      BY <1>1, <1>2, <1>4, <2>1, <2>2, <2>4
    <3>2. Minus(slice, opens) = to[2] - c
      BY <1>1, <1>2, <3>1, DayIs DEF Minus
    <3>3. to[2] - c \in Nat /\ ~Before(slice, to)
      BY <1>1, <1>2, <3>1 DEF Before
    <3> QED BY <1>1, <1>2, <3>1, <3>2, <3>3 DEF d, p, w, c, to
  <2> QED BY <2>3, <2>4
<1>7. CASE ~(w < Day)
  <2>1. w = Day /\ slice = IF Before(<<d + 1, 0>>, to) THEN <<d + 1, 0>> ELSE to
    BY <1>1, <1>5, <1>7, DayIs DEF SliceEnd
  <2>2. slice \in Instant
    BY <1>1, <1>2, <2>1, DayIs DEF Instant
  <2>3. slice = <<d + 1, 0>> \/ (slice = to /\ to[1] = d /\ c < to[2])
    <3>1. Before(<<d + 1, 0>>, to) <=> d + 1 < to[1] \/ (d + 1 = to[1] /\ 0 < to[2])
      BY DEF Before
    <3> QED BY <1>1, <1>2, <1>4, <2>1, <3>1
  <2>4. CASE slice = <<d + 1, 0>>
    <3>1. Minus(slice, opens) = Day * ((d + 1) - d) + 0 - c
      BY <1>1, <2>4 DEF Minus
    <3>2. (d + 1) - d = 1 /\ Day * 1 = Day
      BY <1>1, DayIs
    <3>3. Minus(slice, opens) = Day - c
      BY <1>1, <3>1, <3>2, DayIs
    <3>4. Day - c \in Nat
      BY <1>1, DayIs
    <3> QED BY <1>7, <2>2, <3>3, <3>4 DEF w
  <2>5. CASE slice = to /\ to[1] = d /\ c < to[2]
    <3>1. Minus(slice, opens) = to[2] - c
      BY <1>1, <1>2, <2>5, DayIs DEF Minus
    <3>2. to[2] - c \in Nat
      BY <1>1, <1>2, <2>5
    <3> QED BY <1>7, <2>2, <3>1, <3>2 DEF w
  <2> QED BY <2>3, <2>4, <2>5
<1> QED BY <1>6, <1>7

\* Every step keeps the cursor in its type, a window that ends at midnight included.
LEMMA WalkingStep == Walking /\ [HoursNext]_hoursVars => Walking'
<1> SUFFICES ASSUME Walking, [HoursNext]_hoursVars PROVE Walking'
  OBVIOUS
<1>0. /\ walk.at \in Instant /\ walk.date \in Nat /\ walk.i \in Nat \ {0} /\ walk.days \in 0 .. Guard
      /\ walk.n \in Nat /\ (walk.st = "walks" => walk.days < Guard)
      /\ walk.at[1] \in Nat
  BY DEF Walking, Instant
<1>1. calendar' = calendar /\ task' = task => Asked'
  BY DEF Walking, Asked
<1>2. CASE Past
  <2>1. walk' = [walk EXCEPT !.i = @ + 1] /\ calendar' = calendar /\ task' = task
    BY <1>2 DEF Past
  <2>2. walk.i + 1 \in Nat \ {0}
    BY <1>0
  <2> QED BY <1>0, <1>1, <2>1, <2>2 DEF Walking
<1>3. CASE Consume
  <2> DEFINE available == Window[2] - CountsFrom
             opens == Opens(CountsFrom)
  <2>1. available \in 0 .. Day /\ opens \in Instant
    <3>1. /\ walk.at[1] \in Nat /\ CountsFrom \in Nat /\ CountsFrom < Window[2]
          /\ Window[2] \in Nat /\ Window[2] <= Day
          /\ opens = <<walk.at[1], CountsFrom>>
      BY <1>3, Types, WindowIs DEF Walking, Consume
    <3> HIDE DEF opens
    <3> QED BY <3>1, DayIs DEF Instant
  <2>2. walk' = IF walk.n <= available
                THEN [walk EXCEPT !.at = Plus(opens, walk.n), !.n = 0, !.st = "done"]
                ELSE [walk EXCEPT !.at = Plus(opens, available), !.n = @ - available, !.i = @ + 1]
    BY <1>3 DEF Consume
  <2> HIDE DEF available, opens
  <2>3. CASE walk.n <= available
    <3>1. Plus(opens, walk.n) \in Instant
      BY <1>0, <2>1, <2>3, DayIs, PlusIs
    <3>2. walk' = [walk EXCEPT !.at = Plus(opens, walk.n), !.n = 0, !.st = "done"]
      BY <2>2, <2>3
    <3>3. calendar' = calendar /\ task' = task
      BY <1>3 DEF Consume
    <3> QED BY <1>0, <1>1, <3>1, <3>2, <3>3 DEF Walking
  <2>4. CASE ~(walk.n <= available)
    <3>1. Plus(opens, available) \in Instant /\ walk.n - available \in Nat /\ walk.i + 1 \in Nat \ {0}
      BY <1>0, <2>1, <2>4, DayIs, PlusIs
    <3> QED BY <1>0, <1>1, <1>3, <2>2, <2>4, <3>1 DEF Consume, Walking
  <2> QED BY <2>3, <2>4
<1>4. CASE Count
  <2>0. PICK opens, slice : /\ opens = Opens(CountsFrom)
                            /\ slice = SliceEnd(Plus(walk.at, Window[2] - walk.at[2]), task.to)
    OBVIOUS
  <2>1. walk' = IF ~Before(opens, task.to) THEN [walk EXCEPT !.st = "done"]
                ELSE [walk EXCEPT !.at = slice, !.n = @ + Minus(slice, opens), !.i = @ + 1,
                                  !.st = IF Before(slice, task.to) THEN "walks" ELSE "done"]
    BY <1>4, <2>0 DEF Count
  <2>2. CASE ~Before(opens, task.to)
    BY <1>0, <1>1, <1>4, <2>1, <2>2 DEF Count, Walking
  <2>3. CASE Before(opens, task.to)
    <3>1. slice \in Instant /\ Minus(slice, opens) \in Nat
      BY <1>4, <2>0, <2>3, SliceIs DEF Count
    <3>2. walk.n + Minus(slice, opens) \in Nat /\ walk.i + 1 \in Nat \ {0}
      BY <1>0, <3>1
    <3>3. walk.st = "walks"
      BY <1>4 DEF Count, InWindow
    <3> QED BY <1>0, <1>1, <1>4, <2>1, <2>3, <3>1, <3>2, <3>3 DEF Count, Walking
  <2> QED BY <2>2, <2>3
<1>5. CASE Turn
  <2>0. PICK morning, st : /\ morning = <<walk.at[1] + 1, 0>>
                           /\ st = IF task.op = "between" /\ ~Before(morning, task.to) THEN "done"
                                   ELSE IF walk.days + 1 = Guard THEN "gave up" ELSE "walks"
    OBVIOUS
  <2>1. walk' = [walk EXCEPT !.at = morning, !.date = morning[1], !.i = 1, !.days = @ + 1, !.st = st]
    BY <1>5, <2>0 DEF Turn
  <2>2. morning \in Instant /\ morning[1] \in Nat
    <3>1. walk.at[1] + 1 \in Nat /\ 0 \in 0 .. Day - 1
      BY <1>0, DayIs
    <3> QED BY <2>0, <3>1 DEF Instant
  <2>3. walk.days + 1 \in 0 .. Guard /\ st \in {"walks", "done", "gave up"}
        /\ (st = "walks" => walk.days + 1 < Guard)
    <3>1. walk.days < Guard /\ walk.days \in Nat
      BY <1>0, <1>5, DayIs DEF Turn
    <3>2. walk.days + 1 \in 0 .. Guard /\ (walk.days + 1 # Guard => walk.days + 1 < Guard)
      BY <3>1, DayIs
    <3>3. \/ st = "done"
          \/ st = "gave up"
          \/ st = "walks" /\ walk.days + 1 # Guard
      BY <2>0
    <3> QED BY <3>2, <3>3
  <2>4. calendar' = calendar /\ task' = task
    BY <1>5 DEF Turn
  <2>5. walk' \in [at : Instant, date : Nat, i : Nat \ {0}, days : 0 .. Guard, n : Nat,
                   st : {"walks", "done", "gave up"}]
    <3>1. walk \in [at : Instant, date : Nat, i : Nat \ {0}, days : 0 .. Guard, n : Nat,
                    st : {"walks", "done", "gave up"}]
      BY DEF Walking
    <3>2. walk' = [at |-> morning, date |-> morning[1], i |-> 1, days |-> walk.days + 1, n |-> walk.n, st |-> st]
      BY <2>1, <3>1
    <3>3. /\ morning \in Instant /\ morning[1] \in Nat /\ 1 \in Nat \ {0} /\ walk.days + 1 \in 0 .. Guard
          /\ walk.n \in Nat /\ st \in {"walks", "done", "gave up"}
      <4>1. 1 \in Nat \ {0}
        OBVIOUS
      <4>2. walk.n \in Nat
        BY <1>0
      <4>3. walk.days + 1 \in 0 .. Guard
        BY <2>3
      <4>4. st \in {"walks", "done", "gave up"}
        BY <2>3
      <4>5. morning \in Instant /\ morning[1] \in Nat
        BY <2>2
      <4> QED BY <4>1, <4>2, <4>3, <4>4, <4>5
    <3> QED BY ONLY <3>2, <3>3
  <2>6. walk'.st = "walks" => walk'.days < Guard
    BY <2>1, <2>3 DEF Walking
  <2> QED BY <1>1, <2>4, <2>5, <2>6 DEF Walking
<1>6. CASE UNCHANGED hoursVars
  BY <1>1, <1>6 DEF hoursVars, Walking
<1> QED BY <1>2, <1>3, <1>4, <1>5, <1>6 DEF HoursNext

LEMMA WalkingInit == HoursInit => Walking
<1> SUFFICES ASSUME HoursInit PROVE Walking
  OBVIOUS
<1>1. Asked
  BY DEF HoursInit, Asked
<1>2. task.from \in Instant /\ task.from[1] \in Nat /\ (task.op = "add" => task.minutes \in Nat \ {0})
  BY <1>1, TaskIs
<1>3. Begins(task.from) \in [at : Instant, date : Nat, i : Nat \ {0}, days : 0 .. Guard, n : Nat,
                             st : {"walks", "done", "gave up"}]
      /\ Begins(task.from).days = 0
  BY <1>2, DayIs DEF Begins
<1>4. walk = IF task.op = "add" THEN [Begins(task.from) EXCEPT !.n = task.minutes]
             ELSE IF Before(task.from, task.to) THEN Begins(task.from)
             ELSE [Begins(task.from) EXCEPT !.st = "done"]
  BY DEF HoursInit
<1> QED BY <1>1, <1>2, <1>3, <1>4, DayIs DEF Walking

\* The calendar does not change under a walk.
LEMMA Unmoved ==
  ASSUME calendar' = calendar, task' = task
  PROVE  /\ \A s, t : Worked(s, t)' = Worked(s, t)
         /\ \A t : Works(t)' <=> Works(t)
         /\ \A date : Windows(date)' = Windows(date)
         /\ OpenAtMidnight' <=> OpenAtMidnight
         /\ Limit' = Limit
<1>1. \A date : Windows(date)' = Windows(date)
  BY DEF Windows
<1>2. ASSUME NEW t PROVE Works(t)' <=> Works(t)
  BY DEF Works, Windows
<1>3. ASSUME NEW s, NEW t PROVE Worked(s, t)' = Worked(s, t)
  BY DEF Worked, Works, Windows
<1>4. OpenAtMidnight' <=> OpenAtMidnight
  BY DEF OpenAtMidnight
<1>5. Limit' = Limit
  BY DEF Limit
<1> QED BY <1>1, <1>2, <1>3, <1>4, <1>5

LEMMA NoneWorked ==
  ASSUME NEW s \in Instant, NEW t \in Instant, ~Before(s, t)
  PROVE  Worked(s, t) = {} /\ Cardinality(Worked(s, t)) = 0
<1>1. ASSUME NEW u \in Worked(s, t) PROVE FALSE
  <2>1. u \in (s[1] .. t[1]) \X (0 .. Day - 1) /\ ~Before(u, s) /\ Before(u, t)
    BY DEF Worked
  <2>2. s[1] \in Nat /\ t[1] \in Nat /\ s[2] \in Nat /\ t[2] \in Nat
    BY BeforeIs
  <2>3. u[1] \in Int /\ u[2] \in Int
    BY <2>1, <2>2, DayIs
  <2> QED BY <2>1, <2>2, <2>3 DEF Before
<1>2. Worked(s, t) = {}
  BY <1>1
<1> QED BY <1>2, FS_EmptySet

\* What is worked up to a minute of the window at the cursor.
LEMMA InTheWindow ==
  ASSUME Walking, OnTheWay, ~OpenAtMidnight, InWindow, Window[2] > walk.at[2],
         NEW b \in Nat, CountsFrom <= b, b <= Window[2]
  PROVE  /\ Window[2] < Day /\ <<walk.at[1], b>> \in Instant /\ ~Before(<<walk.at[1], b>>, task.from)
         /\ Cardinality(Worked(task.from, <<walk.at[1], b>>))
              = Cardinality(Worked(task.from, walk.at)) + (b - CountsFrom)
         /\ CountsFrom < b => Works(<<walk.at[1], b - 1>>)
<1> DEFINE d == walk.at[1]
           p == walk.at[2]
           w == Window[2]
           c == CountsFrom
           from == task.from
<1>0. HoursTypeOK /\ Asked
  BY Types DEF Walking
<1>1. /\ d \in Nat /\ p \in Nat /\ p < Day /\ walk.at = <<d, p>> /\ w \in Nat
      /\ c \in Nat /\ p <= c /\ c < w
  BY <1>0, WindowIs, DayIs
<1>2. from \in Instant /\ from[1] \in Nat /\ from[2] \in Nat /\ walk.date = d
  <2>1. from \in Instant
    BY <1>0, TaskIs
  <2> QED BY <2>1, BeforeIs DEF OnTheWay
<1>3. w < Day
  <2>1. walk.i \in DOMAIN Windows(walk.date) /\ Window = Windows(walk.date)[walk.i] /\ walk.date \in Nat
    BY <1>0, WindowIs DEF HoursTypeOK
  <2> QED BY <1>0, <2>1, WindowsAre
<1>4. ASSUME NEW m \in Nat
      PROVE  (p <= m /\ m < c => ~Works(<<d, m>>)) /\ (c <= m /\ m < w => Works(<<d, m>>))
  <2>1. \A j \in DOMAIN Windows(walk.date) : j < walk.i => Windows(walk.date)[j][2] <= walk.at[2]
    BY DEF OnTheWay
  <2>2. /\ walk.at[2] <= m /\ m < CountsFrom => ~Works(<<walk.date, m>>)
        /\ CountsFrom <= m /\ m < Window[2] => Works(<<walk.date, m>>)
    BY <1>0, <1>2, <2>1, Between
  <2> QED BY <1>2, <2>2
<1>5. ~Before(<<d, p>>, from)
  BY <1>1 DEF OnTheWay
<1>6. CountsFrom <= b /\ b <= Window[2]
  OBVIOUS
<1>7. c <= b /\ b <= w
  BY <1>6
<1>8. Worked(from, walk.at) = Worked(from, <<d, p>>)
  BY <1>1
<1> HIDE DEF d, p, w, c, from
<1>9. p \in 0 .. Day - 1 /\ c \in 0 .. Day - 1 /\ b \in 0 .. Day - 1 /\ <<d, c>> \in Instant /\ <<d, b>> \in Instant
  BY <1>1, <1>3, <1>7, DayIs DEF Instant
<1>10. ~Before(<<d, c>>, from) /\ ~Before(<<d, b>>, from) /\ from[1] <= d
  BY <1>1, <1>2, <1>5, <1>7 DEF Before
<1>11. Worked(from, <<d, c>>) = Worked(from, <<d, p>>)
  <2>1. \A m \in Nat : p <= m /\ Before(<<d, m>>, <<d, c>>) /\ m < Day => ~Works(<<d, m>>)
    BY <1>1, <1>4 DEF Before
  <2>2. ~Before(<<d, c>>, <<d, p>>) /\ <<d, c>>[1] = d
    BY <1>1 DEF Before
  <2> QED BY <1>1, <1>2, <1>9, <1>10, <2>1, <2>2, Rest
<1>12. Cardinality(Worked(from, <<d, b>>)) = Cardinality(Worked(from, <<d, c>>)) + (b - c)
  <2>1. \A m \in Nat : c <= m /\ m < b => Works(<<d, m>>)
    BY <1>1, <1>4, <1>7
  <2> QED BY <1>1, <1>2, <1>7, <1>9, <1>10, <2>1, Stretch
<1>13. c < b => Works(<<d, b - 1>>)
  <2>1. c < b => b - 1 \in Nat /\ c <= b - 1 /\ b - 1 < w
    BY <1>1, <1>7
  <2> QED BY <1>4, <2>1
<1>14. w < Day /\ <<d, b>> \in Instant /\ ~Before(<<d, b>>, from)
  BY <1>3, <1>9, <1>10
<1>15. Cardinality(Worked(from, <<d, b>>)) = Cardinality(Worked(from, walk.at)) + (b - c)
  BY <1>8, <1>11, <1>12
<1> QED BY <1>13, <1>14, <1>15 DEF d, p, w, c, from

\* A walk begins with nothing counted.
LEMMA WalkInit == HoursInit => WalkInv
<1> SUFFICES ASSUME HoursInit PROVE WalkInv
  OBVIOUS
<1> DEFINE from == task.from
<1>1. Asked
  BY WalkingInit DEF Walking
<1>2. /\ from \in Instant /\ from[1] \in Nat /\ task.op \in {"add", "between"}
      /\ (task.op = "add" => task.minutes \in Nat \ {0})
      /\ (task.op = "between" => task.to \in Instant)
  BY <1>1, TaskIs
<1>3. ~Before(from, from)
  BY <1>2, BeforeIs
<1>4. Cardinality(Worked(from, from)) = 0
  BY <1>2, <1>3, NoneWorked
<1>5. walk = IF task.op = "add" THEN [Begins(from) EXCEPT !.n = task.minutes]
             ELSE IF Before(from, task.to) THEN Begins(from)
             ELSE [Begins(from) EXCEPT !.st = "done"]
  BY DEF HoursInit
<1>6. /\ Begins(from) = [at |-> from, date |-> from[1], i |-> 1, days |-> 0, n |-> 0, st |-> "walks"]
  BY DEF Begins
<1>7. Windows(from[1]) \in Seq((0 .. Day) \X (0 .. Day))
  BY <1>1, <1>2, WindowsAre
<1>8. \A j \in DOMAIN Windows(from[1]) : ~(j < 1)
  BY <1>7
<1> HIDE DEF from
<1>9. CASE task.op = "add"
  <2>1. /\ walk.at = from /\ walk.date = from[1] /\ walk.i = 1 /\ walk.days = 0
        /\ walk.n = task.minutes /\ walk.st = "walks"
    BY <1>5, <1>6, <1>9
  <2>2. OnTheWay
    BY <1>2, <1>3, <1>4, <1>8, <1>9, <2>1 DEF OnTheWay, from
  <2> QED BY <1>9, <2>1, <2>2 DEF WalkInv, DueIsReached, PauseIsCounted
<1>10. CASE task.op = "between" /\ Before(from, task.to)
  <2>1. /\ walk.at = from /\ walk.date = from[1] /\ walk.i = 1 /\ walk.days = 0
        /\ walk.n = 0 /\ walk.st = "walks"
    BY <1>5, <1>6, <1>10
  <2>2. OnTheWay
    BY <1>2, <1>3, <1>4, <1>8, <1>10, <2>1 DEF OnTheWay, from
  <2> QED BY <1>10, <2>1, <2>2 DEF WalkInv, DueIsReached, PauseIsCounted
<1>11. CASE task.op = "between" /\ ~Before(from, task.to)
  <2>1. walk.n = 0 /\ walk.st = "done"
    BY <1>5, <1>6, <1>11
  <2>2. Cardinality(Worked(from, task.to)) = 0
    BY <1>2, <1>11, NoneWorked
  <2> QED BY <1>11, <2>1, <2>2 DEF WalkInv, DueIsReached, PauseIsCounted, from
<1> QED BY <1>2, <1>9, <1>10, <1>11

\* A window left out, taken whole or in part, or a night: the count stays right.
LEMMA WalkStep == Walking /\ WalkInv /\ [HoursNext]_hoursVars => WalkInv'
<1> SUFFICES ASSUME Walking, WalkInv, [HoursNext]_hoursVars PROVE WalkInv'
  OBVIOUS
<1> PICK d, p, w, c, from : /\ d = walk.at[1] /\ p = walk.at[2] /\ w = Window[2] /\ c = CountsFrom
                            /\ from = task.from
  OBVIOUS
<1>0. /\ walk \in [at : Instant, date : Nat, i : Nat \ {0}, days : 0 .. Guard, n : Nat,
                   st : {"walks", "done", "gave up"}]
      /\ walk.at \in Instant /\ walk.i \in Nat \ {0} /\ walk.n \in Nat
      /\ Asked /\ HoursTypeOK
  BY Types DEF Walking
<1>1. CASE UNCHANGED hoursVars
  <2>1. calendar' = calendar /\ task' = task /\ walk' = walk
    BY <1>1 DEF hoursVars
  <2>2. /\ \A s, t : Worked(s, t)' = Worked(s, t)
        /\ \A t : Works(t)' <=> Works(t)
        /\ \A date : Windows(date)' = Windows(date)
        /\ (OpenAtMidnight' <=> OpenAtMidnight) /\ Limit' = Limit
    BY <2>1, Unmoved
  <2>3. OnTheWay' <=> OnTheWay
    BY <2>1, <2>2 DEF OnTheWay, Before
  <2>4. DueIsReached' <=> DueIsReached
    BY <2>1, <2>2 DEF DueIsReached
  <2>5. PauseIsCounted' <=> PauseIsCounted
    BY <2>1, <2>2 DEF PauseIsCounted
  <2> QED BY <2>1, <2>2, <2>3, <2>4, <2>5 DEF WalkInv
<1>2. CASE HoursNext /\ OpenAtMidnight
  <2>1. calendar' = calendar /\ task' = task
    BY <1>2 DEF HoursNext, Past, Consume, Count, Turn
  <2>2. OpenAtMidnight'
    BY <1>2, <2>1, Unmoved
  <2> QED BY <2>2 DEF WalkInv, DueIsReached, PauseIsCounted
<1>3. CASE HoursNext /\ ~OpenAtMidnight
  <2>1. /\ calendar' = calendar /\ task' = task /\ walk.st = "walks"
    BY <1>3 DEF HoursNext, Past, Consume, Count, Turn, InWindow
  <2>2. OnTheWay
    BY <1>3, <2>1 DEF WalkInv
  <2>3. /\ \A s, t : Worked(s, t)' = Worked(s, t)
        /\ \A t : Works(t)' <=> Works(t)
        /\ \A date : Windows(date)' = Windows(date)
        /\ ~OpenAtMidnight' /\ Limit' = Limit
    BY <1>3, <2>1, Unmoved
  <2>4. /\ from \in Instant /\ from[1] \in Nat /\ from[2] \in Nat /\ task.op \in {"add", "between"}
        /\ (task.op = "add" => task.minutes \in Nat \ {0})
        /\ (task.op = "between" => task.to \in Instant)
    BY <1>0, TaskIs, BeforeIs
  <2>5. /\ d \in Nat /\ p \in Nat /\ p < Day /\ walk.at = <<d, p>>
        /\ walk.date = d /\ d = from[1] + walk.days /\ ~Before(walk.at, from)
        /\ Cardinality(Worked(from, walk.at)) \in Nat
    BY <1>0, <2>2, <2>4, BeforeIs, WorkedFinite DEF OnTheWay
  <2> PICK days : days = walk.days
    OBVIOUS
  <2>13. /\ d \in Nat /\ d + 1 \in Nat /\ p \in Nat /\ p < Day /\ p \in 0 .. Day - 1 /\ days \in Nat
         /\ d = from[1] + days /\ from[1] \in Nat /\ from[2] \in Nat /\ from[1] <= d
    <3>1. d \in Nat /\ p \in Nat /\ p < Day /\ from[1] \in Nat /\ from[2] \in Nat /\ d = from[1] + days
      BY <2>4, <2>5
    <3>2. days \in 0 .. Guard
      BY <1>0
    <3> QED BY <3>1, <3>2, DayIs
  <2>6. \A j \in DOMAIN Windows(d) : j < walk.i => Windows(d)[j][2] <= p
    BY <2>2, <2>5 DEF OnTheWay
  <2>7. ASSUME walk'.st = "walks", OnTheWay' PROVE WalkInv'
    BY <2>7 DEF WalkInv, DueIsReached, PauseIsCounted
  \* The windows left behind stay behind, with the one the step takes.
  <2>8. ASSUME NEW q \in Nat, p <= q, InWindow, w <= q, walk'.at = <<d, q>>, walk'.i = walk.i + 1, walk'.date = walk.date
        PROVE  \A j \in DOMAIN Windows(walk.date)' : j < walk'.i => Windows(walk.date)'[j][2] <= walk'.at[2]
    <3>1. Windows(walk.date)' = Windows(d)
      BY <2>3, <2>5, <2>8
    <3>2. Windows(d) \in Seq((0 .. Day) \X (0 .. Day)) /\ Window = Windows(d)[walk.i]
      BY <1>0, <2>5, WindowsAre DEF Window
    <3>3. ASSUME NEW j \in DOMAIN Windows(d), j < walk.i + 1 PROVE Windows(d)[j][2] <= q
      <4>1. j \in Nat /\ Windows(d)[j][2] \in Nat
        BY <3>2
      <4>2. CASE j < walk.i
        BY <2>5, <2>6, <2>8, <4>1, <4>2
      <4>3. CASE j = walk.i
        BY <2>8, <3>2, <4>3
      <4>4. walk.i \in Nat
        BY <1>0
      <4> QED BY <3>3, <4>1, <4>2, <4>3, <4>4
    <3>4. walk'.at[2] = q
      BY <2>8
    <3> QED BY <2>8, <3>1, <3>3, <3>4
  <2>9. CASE Past
    <3>1. walk' = [walk EXCEPT !.i = @ + 1] /\ InWindow /\ w <= p
      BY <2>9 DEF Past
    <3>2. walk'.at = walk.at /\ walk'.date = walk.date /\ walk'.i = walk.i + 1 /\ walk'.days = walk.days
          /\ walk'.n = walk.n /\ walk'.st = walk.st
      BY <1>0, <3>1
    <3>3. \A j \in DOMAIN Windows(walk.date)' : j < walk'.i => Windows(walk.date)'[j][2] <= walk'.at[2]
      BY <2>5, <2>8, <3>1, <3>2
    <3>4. Worked(task.from, walk.at)' = Worked(from, walk.at)
      BY <2>1, <2>3, <3>2
    <3>5. OnTheWay'
      BY <2>1, <2>2, <3>2, <3>3, <3>4 DEF OnTheWay, Before
    <3> QED BY <2>1, <2>7, <3>2, <3>5
  <2>10. CASE Consume
    <3>1. task.op = "add" /\ InWindow /\ w > p
      BY <2>10 DEF Consume
    <3>2. /\ c \in Nat /\ w \in Nat /\ w <= Day /\ p <= c /\ c < w /\ Opens(c) = <<d, c>>
      BY <1>0, <3>1, WindowIs
    <3> PICK n : n = walk.n
      OBVIOUS
    <3>0. n \in Nat /\ n > 0 /\ c \in Nat /\ w \in Nat /\ p <= c /\ c < w
      <4>1. n \in Nat
        BY <1>0
      <4>2. n > 0
        BY <2>2, <3>1 DEF OnTheWay
      <4> QED BY <3>2, <4>1, <4>2
    <3>3. ASSUME NEW b \in Nat, c <= b, b <= w
          PROVE  /\ w < Day /\ <<d, b>> \in Instant /\ ~Before(<<d, b>>, from)
                 /\ Cardinality(Worked(from, <<d, b>>)) = Cardinality(Worked(from, walk.at)) + (b - c)
                 /\ c < b => Works(<<d, b - 1>>)
      BY <1>3, <2>2, <3>1, <3>3, InTheWindow
    <3>4. walk.n > 0 /\ Cardinality(Worked(from, walk.at)) + walk.n = task.minutes
      BY <2>2, <3>1 DEF OnTheWay
    <3>5. walk' = IF walk.n <= w - c
                  THEN [walk EXCEPT !.at = Plus(Opens(c), walk.n), !.n = 0, !.st = "done"]
                  ELSE [walk EXCEPT !.at = Plus(Opens(c), w - c), !.n = @ - (w - c), !.i = @ + 1]
      BY <2>10 DEF Consume
    <3>6. ASSUME NEW m \in Nat, c + m <= w PROVE Plus(Opens(c), m) = <<d, c + m>>
      <4>1. c + m < Day
        <5>1. c + m \in Nat /\ c <= c + m
          BY <3>2
        <5>2. w < Day
          BY <3>3, <3>6, <5>1
        <5> QED BY <3>2, <3>6, <5>2, DayIs
      <4>2. Opens(c)[1] = d /\ Opens(c)[2] = c
        BY <3>2
      <4> QED BY <4>1, <4>2 DEF Plus
    <3>7. CASE n <= w - c
      <4>1. PICK b \in Nat : b = c + n
        BY <3>0
      <4>2. c < b /\ c <= b /\ b <= w /\ b - c = n
        BY <3>0, <3>7, <4>1
      <4>3. Plus(Opens(c), walk.n) = <<d, b>>
        BY <1>0, <3>6, <4>1, <4>2
      <4>4. walk'.at = <<d, b>> /\ walk'.st = "done"
        BY <1>0, <3>5, <3>7, <4>3
      <4>5. Cardinality(Worked(from, <<d, b>>)) = task.minutes /\ Works(<<d, b - 1>>)
        BY <3>3, <3>4, <4>2
      <4>6. Worked(task.from, walk.at)' = Worked(from, <<d, b>>)
        BY <2>1, <2>3, <4>4
      <4>7. walk'.at[1] = d /\ walk'.at[2] = b /\ b > 0
        BY <3>2, <4>2, <4>4
      <4>8. Works(<<walk.at[1], walk.at[2] - 1>>)'
        BY <2>3, <4>5, <4>7
      <4>9. DueIsReached'
        BY <2>1, <4>4, <4>5, <4>6, <4>7, <4>8 DEF DueIsReached
      <4> QED BY <2>1, <3>1, <4>4, <4>9 DEF WalkInv, PauseIsCounted
    <3>8. CASE ~(n <= w - c)
      <4>1. w - c \in Nat /\ c + (w - c) = w /\ w <= w /\ c <= w /\ n - (w - c) > 0
        BY <3>0, <3>8
      <4>2. Plus(Opens(c), w - c) = <<d, w>>
        BY <3>6, <4>1
      <4>3. walk'.at = <<d, w>> /\ walk'.n = walk.n - (w - c) /\ walk'.i = walk.i + 1
            /\ walk'.st = "walks" /\ walk'.date = walk.date /\ walk'.days = walk.days
        BY <1>0, <2>1, <3>5, <3>8, <4>2
      <4>4. Cardinality(Worked(from, <<d, w>>)) = Cardinality(Worked(from, walk.at)) + (w - c)
            /\ ~Before(<<d, w>>, from)
        BY <3>2, <3>3, <4>1
      <4>5. Cardinality(Worked(from, <<d, w>>)) + walk'.n = task.minutes
        <5>1. PICK k \in Nat : k = Cardinality(Worked(from, walk.at))
          BY <2>5
        <5>2. Cardinality(Worked(from, <<d, w>>)) = k + (w - c) /\ k + n = task.minutes /\ walk'.n = n - (w - c)
          BY <3>4, <4>3, <4>4, <5>1
        <5>3. (k + (w - c)) + (n - (w - c)) = k + n
          BY <3>0, <5>1
        <5> QED BY <5>2, <5>3
      <4>6. Worked(task.from, walk.at)' = Worked(from, <<d, w>>)
        BY <2>1, <2>3, <4>3
      <4>7. \A j \in DOMAIN Windows(walk.date)' : j < walk'.i => Windows(walk.date)'[j][2] <= walk'.at[2]
        <5>1. p <= w
          BY <2>5, <3>2
        <5> QED BY <2>8, <3>1, <3>2, <4>1, <4>3, <5>1
      <4>8. walk'.at[1] = d
        BY <4>3
      <4>9. ~Before(walk'.at, task'.from)
        BY <2>1, <4>3, <4>4
      <4>10. walk'.n > 0
        BY <4>1, <4>3
      <4>11. task'.op = "add" /\ Cardinality(Worked(task.from, walk.at)') + walk'.n = task'.minutes
        BY <2>1, <3>1, <4>5, <4>6
      <4>12. walk'.date = walk'.at[1] /\ walk'.date = task'.from[1] + walk'.days
        BY <2>1, <2>5, <4>3, <4>8
      <4>13. OnTheWay'
        BY <4>7, <4>9, <4>10, <4>11, <4>12 DEF OnTheWay, Before
      <4> QED BY <2>7, <4>3, <4>13
    <3> QED BY <3>7, <3>8
  <2>11. CASE Count
    <3>1. task.op = "between" /\ InWindow /\ w > p
      BY <2>11 DEF Count
    <3>2. /\ c \in Nat /\ w \in Nat /\ w <= Day /\ p <= c /\ c < w /\ Opens(c) = <<d, c>>
      BY <1>0, <3>1, WindowIs
    <3>3. ASSUME NEW b \in Nat, c <= b, b <= w
          PROVE  /\ w < Day /\ <<d, b>> \in Instant /\ ~Before(<<d, b>>, from)
                 /\ Cardinality(Worked(from, <<d, b>>)) = Cardinality(Worked(from, walk.at)) + (b - c)
      BY <1>3, <2>2, <3>1, <3>3, InTheWindow
    <3> PICK to, opens, slice : /\ to = task.to /\ opens = Opens(CountsFrom)
                                /\ slice = SliceEnd(Plus(walk.at, Window[2] - walk.at[2]), task.to)
      OBVIOUS
    <3>4. /\ Cardinality(Worked(from, walk.at)) = walk.n /\ Before(walk.at, to)
          /\ to \in Instant /\ to[1] \in Nat /\ to[2] \in Nat /\ to[2] < Day /\ to = <<to[1], to[2]>>
          /\ opens = <<d, c>>
      BY <2>2, <2>4, <3>1, <3>2, BeforeIs DEF OnTheWay
    <3>5. walk' = IF ~Before(opens, to) THEN [walk EXCEPT !.st = "done"]
                  ELSE [walk EXCEPT !.at = slice, !.n = @ + Minus(slice, opens), !.i = @ + 1,
                                    !.st = IF Before(slice, to) THEN "walks" ELSE "done"]
      BY <2>11 DEF Count
    <3>6. CASE ~Before(opens, to)
      <4>1. walk'.st = "done" /\ walk'.n = walk.n
        BY <1>0, <3>5, <3>6
      <4>2. to[1] = d /\ p < to[2] /\ to[2] <= c
        BY <2>5, <3>2, <3>4, <3>6 DEF Before
      <4>3. \A m \in Nat : p <= m /\ Before(<<d, m>>, to) /\ m < Day => ~Works(<<d, m>>)
        <5>1. ASSUME NEW m \in Nat, p <= m, m < c PROVE ~Works(<<d, m>>)
          <6>1. \A j \in DOMAIN Windows(walk.date) : j < walk.i => Windows(walk.date)[j][2] <= walk.at[2]
            BY <2>2 DEF OnTheWay
          <6> QED BY <1>0, <2>5, <3>1, <5>1, <6>1, Between
        <5> QED BY <3>2, <3>4, <4>2, <5>1 DEF Before
      <4>4. Worked(from, to) = Worked(from, <<d, p>>)
        <5>1. ~Before(to, <<d, p>>) /\ from[1] <= d /\ p \in 0 .. Day - 1
          BY <2>4, <2>5, <3>4, <4>2, DayIs DEF Before
        <5> QED BY <2>4, <2>5, <3>4, <4>2, <4>3, <5>1, Rest
      <4>5. Cardinality(Worked(from, to)) = walk'.n
        BY <2>5, <3>4, <4>1, <4>4
      <4>6. Worked(task.from, task.to)' = Worked(from, to)
        BY <2>1, <2>3
      <4>7. PauseIsCounted'
        BY <4>1, <4>5, <4>6 DEF PauseIsCounted
      <4> QED BY <2>1, <3>1, <4>1, <4>7 DEF WalkInv, DueIsReached
    <3>7. CASE Before(opens, to)
      <4>1. w < Day
        BY <3>2, <3>3
      <4>2. /\ slice \in Instant
            /\ slice = <<d, slice[2]>> /\ c <= slice[2] /\ slice[2] <= w
            /\ Minus(slice, opens) = slice[2] - c
            /\ (Before(slice, to) => slice[2] = w)
            /\ (~Before(slice, to) => slice = to)
        BY <3>1, <3>7, <4>1, SliceIs
      <4> PICK b : b = slice[2]
        OBVIOUS
      <4>3. b \in Nat /\ slice = <<d, b>> /\ c <= b /\ b <= w /\ Minus(slice, opens) = b - c
        BY <4>2, BeforeIs
      <4>4. walk'.at = <<d, b>> /\ walk'.n = walk.n + (b - c) /\ walk'.i = walk.i + 1 /\ walk'.date = walk.date
            /\ walk'.days = walk.days /\ walk'.st = IF Before(slice, to) THEN "walks" ELSE "done"
        BY <1>0, <3>5, <3>7, <4>3
      <4>5. Cardinality(Worked(from, <<d, b>>)) = walk'.n /\ ~Before(<<d, b>>, from)
        BY <3>3, <3>4, <4>3, <4>4
      <4>6. CASE Before(slice, to)
        <5>1. b = w /\ walk'.st = "walks" /\ p <= b
          <6>1. b = w /\ walk'.st = "walks"
            BY <4>2, <4>4, <4>6
          <6>2. p <= w
            BY <2>13, <3>2
          <6> QED BY <6>1, <6>2
        <5>2. Worked(task.from, walk.at)' = Worked(from, <<d, b>>)
          BY <2>1, <2>3, <4>4
        <5>3. \A j \in DOMAIN Windows(walk.date)' : j < walk'.i => Windows(walk.date)'[j][2] <= walk'.at[2]
          BY <2>8, <3>1, <3>2, <4>3, <4>4, <5>1
        <5>4. walk'.at[1] = d
          BY <4>4
        <5>5. ~Before(walk'.at, task'.from) /\ Before(walk'.at, task'.to)
          BY <2>1, <4>3, <4>4, <4>5, <4>6
        <5>6. task'.op = "between" /\ Cardinality(Worked(task.from, walk.at)') = walk'.n
          BY <2>1, <3>1, <4>5, <5>2
        <5>7. walk'.date = walk'.at[1] /\ walk'.date = task'.from[1] + walk'.days
          BY <2>1, <2>5, <4>4, <5>4
        <5>8. OnTheWay'
          BY <5>3, <5>5, <5>6, <5>7 DEF OnTheWay, Before
        <5> QED BY <2>7, <5>1, <5>8
      <4>7. CASE ~Before(slice, to)
        <5>1. <<d, b>> = to /\ walk'.st = "done"
          BY <4>2, <4>3, <4>4, <4>7
        <5>2. Worked(task.from, task.to)' = Worked(from, to)
          BY <2>1, <2>3
        <5>3. PauseIsCounted'
          BY <4>5, <5>1, <5>2 DEF PauseIsCounted
        <5> QED BY <2>1, <3>1, <5>1, <5>3 DEF WalkInv, DueIsReached
      <4> QED BY <4>6, <4>7
    <3> QED BY <3>6, <3>7
  <2>12. CASE Turn
    <3>0. PICK morning, st : /\ morning = <<walk.at[1] + 1, 0>>
                             /\ st = IF task.op = "between" /\ ~Before(morning, task.to) THEN "done"
                                   ELSE IF days + 1 = Guard THEN "gave up" ELSE "walks"
      OBVIOUS
    <3>1. walk' = [walk EXCEPT !.at = morning, !.date = morning[1], !.i = 1, !.days = @ + 1, !.st = st]
      BY <2>12, <3>0 DEF Turn
    <3>2. /\ morning = <<d + 1, 0>> /\ morning[1] = d + 1 /\ morning \in Instant
          /\ ~Before(morning, from) /\ ~Before(morning, <<d, p>>) /\ from[1] <= d /\ p \in 0 .. Day - 1
      <4>1. morning = <<d + 1, 0>> /\ d + 1 \in Nat /\ 0 \in 0 .. Day - 1 /\ p \in 0 .. Day - 1
        <5>1. morning = <<d + 1, 0>>
          BY <3>0
        <5>2. d + 1 \in Nat /\ 0 \in 0 .. Day - 1 /\ p \in 0 .. Day - 1
          BY <2>13, DayIs
        <5> QED BY <5>1, <5>2
      <4>2. from[1] <= d
        BY <2>13
      <4>3. ~Before(morning, from) /\ ~Before(morning, <<d, p>>)
        BY <2>13, <4>1, <4>2 DEF Before
      <4> QED BY <2>13, <4>1, <4>2, <4>3 DEF Instant
    <3>3. /\ walk'.at = morning /\ walk'.date = d + 1 /\ walk'.i = 1 /\ walk'.days = days + 1
          /\ walk'.n = walk.n /\ walk'.st = st
      BY <1>0, <3>1, <3>2
    <3>4. ASSUME NEW m \in Nat, p <= m PROVE ~Works(<<d, m>>)
      <4>1. \A j \in DOMAIN Windows(walk.date) : j < walk.i => Windows(walk.date)[j][2] <= walk.at[2]
        BY <2>2 DEF OnTheWay
      <4>2. walk.i > Len(Windows(walk.date))
        BY <2>12 DEF Turn
      <4> QED BY <1>0, <2>5, <3>4, <4>1, <4>2, Evening
    <3>5. Worked(from, morning) = Worked(from, walk.at)
      <4>1. Worked(from, morning) = Worked(from, <<d, p>>)
        BY <2>4, <2>13, <3>2, <3>4, Rest
      <4> QED BY <2>5, <4>1
    <3>6. Worked(task.from, walk.at)' = Worked(from, walk.at)
      BY <2>1, <2>3, <3>3, <3>5
    <3>7. CASE st = "done"
      <4> PICK to : to = task.to
        OBVIOUS
      <4>1. task.op = "between" /\ ~Before(morning, to)
        BY <3>0, <3>7
      <4>2. /\ Cardinality(Worked(from, walk.at)) = walk.n /\ Before(walk.at, to)
            /\ to \in Instant /\ to[1] \in Nat /\ to[2] \in Nat /\ to = <<to[1], to[2]>>
        BY <2>2, <2>4, <4>1, BeforeIs DEF OnTheWay
      <4>3. (to[1] = d \/ to = <<d + 1, 0>>) /\ ~Before(to, <<d, p>>)
        BY <2>5, <3>2, <4>1, <4>2 DEF Before
      <4>4. Worked(from, to) = Worked(from, <<d, p>>)
        BY <2>4, <2>13, <3>2, <3>4, <4>2, <4>3, Rest
      <4>5. Cardinality(Worked(from, to)) = walk'.n
        BY <2>5, <3>3, <4>2, <4>4
      <4>6. Worked(task.from, task.to)' = Worked(from, to)
        BY <2>1, <2>3
      <4>7. PauseIsCounted'
        BY <3>3, <3>7, <4>5, <4>6 DEF PauseIsCounted
      <4> QED BY <2>1, <3>3, <3>7, <4>1, <4>7 DEF WalkInv, DueIsReached
    <3>8. CASE st = "gave up"
      <4>1. days + 1 = Guard
        BY <3>0, <3>8
      <4>2. morning = Limit
        <5>1. d + 1 = from[1] + Guard
          BY <2>13, <4>1, DayIs
        <5> QED BY <3>2, <5>1 DEF Limit
      <4>3. Worked(task.from, Limit)' = Worked(from, walk.at)
        BY <2>1, <2>3, <3>5, <4>2
      <4>4. task.op = "add" => Cardinality(Worked(from, walk.at)) < task.minutes
        <5> SUFFICES ASSUME task.op = "add" PROVE Cardinality(Worked(from, walk.at)) < task.minutes
          OBVIOUS
        <5>1. PICK k \in Nat, n \in Nat : k = Cardinality(Worked(from, walk.at)) /\ n = walk.n
          BY <1>0, <2>5
        <5>2. n > 0 /\ k + n = task.minutes
          BY <2>2, <5>1 DEF OnTheWay
        <5> QED BY <5>1, <5>2
      <4>5. task.op = "between" => Cardinality(Worked(from, walk.at)) = walk'.n
        BY <2>2, <3>3 DEF OnTheWay
      <4>6. DueIsReached'
        BY <2>1, <3>3, <3>8, <4>3, <4>4 DEF DueIsReached
      <4>7. PauseIsCounted'
        BY <2>1, <3>3, <3>8, <4>3, <4>5 DEF PauseIsCounted
      <4> QED BY <3>3, <3>8, <4>6, <4>7 DEF WalkInv
    <3>9. CASE st = "walks"
      <4>1. task.op = "between" => Before(morning, task.to)
        BY <3>0, <3>9
      <4>2. ~(\E j \in DOMAIN Windows(d + 1) : j < 1)
        <5>1. d + 1 \in Nat
          BY <2>13
        <5>2. Windows(d + 1) \in Seq((0 .. Day) \X (0 .. Day))
          BY <1>0, <5>1, WindowsAre
        <5> QED BY <5>2
      <4>3. \A j \in DOMAIN Windows(walk.date)' : j < walk'.i => Windows(walk.date)'[j][2] <= walk'.at[2]
        <5>1. Windows(walk.date)' = Windows(d + 1)
          BY <2>3, <3>3
        <5> QED BY <3>3, <4>2, <5>1
      <4>4. walk'.date = walk'.at[1] /\ walk'.date = task'.from[1] + walk'.days
        <5>1. d + 1 = from[1] + (days + 1)
          BY <2>13
        <5> QED BY <2>1, <3>2, <3>3, <5>1
      <4>5. ~Before(walk'.at, task'.from) /\ (task'.op = "between" => Before(walk'.at, task'.to))
        BY <2>1, <3>2, <3>3, <4>1
      <4>6. /\ task.op = "add" => walk.n > 0 /\ Cardinality(Worked(from, walk.at)) + walk.n = task.minutes
            /\ task.op = "between" => Cardinality(Worked(from, walk.at)) = walk.n
        BY <2>2 DEF OnTheWay
      <4>7. OnTheWay'
        BY <2>1, <3>3, <3>6, <4>3, <4>4, <4>5, <4>6 DEF OnTheWay, Before
      <4> QED BY <2>7, <3>3, <3>9, <4>7
    <3>10. st \in {"done", "gave up", "walks"}
      BY <3>0
    <3> QED BY <3>7, <3>8, <3>9, <3>10
  <2> QED BY <1>3, <2>9, <2>10, <2>11, <2>12 DEF HoursNext
<1> QED BY <1>1, <1>2, <1>3

\* Both walks of business-hours.util.ts keep their cursor a minute of a day, whatever
\* the calendar.
THEOREM HoursTyped == HoursSpec => []HoursTypeOK
<1>1. HoursSpec => []Walking
  BY WalkingInit, WalkingStep, PTL DEF HoursSpec
<1> QED BY <1>1, Types, PTL

\* addBusinessMinutes answers the earliest instant by which the minutes have been
\* worked, for any calendar whose windows end before midnight and any number of minutes.
THEOREM DueReached == HoursSpec => []DueIsReached
<1>1. HoursSpec => [](Walking /\ WalkInv)
  BY WalkingInit, WalkingStep, WalkInit, WalkStep, PTL DEF HoursSpec
<1>2. WalkInv => DueIsReached
  BY DEF WalkInv
<1> QED BY <1>1, <1>2, PTL

\* businessMinutesBetween answers how many minutes of the pause were worked, for any
\* calendar whose windows end before midnight and any two instants.
THEOREM PauseCounted == HoursSpec => []PauseIsCounted
<1>1. HoursSpec => [](Walking /\ WalkInv)
  BY WalkingInit, WalkingStep, WalkInit, WalkStep, PTL DEF HoursSpec
<1>2. WalkInv => PauseIsCounted
  BY DEF WalkInv
<1> QED BY <1>1, <1>2, PTL
=============================================================================
