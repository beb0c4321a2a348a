--------------------------- MODULE ChatUpdates ---------------------------
(***************************************************************************)
(* How an agent's replies reach a chatbot's visitors: GET /chat/updates    *)
(* (chat.module, updates-cursor).  The partner polls with the cursor the   *)
(* last answer gave it; the server reads a page of the replies stamped     *)
(* after it and answers with the next cursor.                              *)
(*                                                                         *)
(* A reply is stamped when its transaction starts and seen when it         *)
(* commits, so commits do not follow the stamps.  A poll reads its page at *)
(* one instant and takes its own clock, which may run ahead of the         *)
(* database's, at a later one.  Both run in a request's transaction, which *)
(* the interceptor's timeout ends.                                         *)
(*                                                                         *)
(* One chatbot's feed, one poll at a time.  A stamp is in milliseconds,    *)
(* the precision of the Date the cursor is made of, so two may be equal.   *)
(* Left out: merges, which move replies in and out of a feed with their    *)
(* stamps, and a partner that starts from a cursor of its own.             *)
(***************************************************************************)
EXTENDS Integers, FiniteSets

CONSTANTS
  Replies,      \* ids of the replies that may be written; ties are paged by id
  Limits,       \* page sizes a partner may ask for
  Lag,          \* CURSOR_SAFETY_LAG_MS
  TxTimeout,    \* a request's transaction is undone before it is this old
  PollTimeout,  \* and so is a poll's
  Skew,         \* how far an API server's clock may be ahead of the database's
  LastReply,    \* bound: no reply is begun later
  MaxNow        \* bound: the clock stops here

ASSUME UpdatesAssumption ==
  /\ Replies \subseteq Nat
  /\ Limits \subseteq Nat \ {0}
  /\ TxTimeout \in Nat \ {0} /\ PollTimeout \in Nat \ {0}
  /\ Skew \in Nat /\ LastReply \in Nat /\ MaxNow \in Nat
  /\ Lag \in Nat /\ Lag >= TxTimeout + PollTimeout + Skew

VARIABLES
  now,      \* the database's clock
  status,   \* of each reply's transaction
  stamp,    \* created_at of each reply
  poll,     \* the poll in flight: when it read its page, and the page
  cursor,   \* the partner's cursor
  more,     \* hasMore of the last answer: the partner polls again at once
  got       \* the replies the partner has, deduplicated by messageId

vars == <<now, status, stamp, poll, cursor, more, got>>

Idle == [at |-> 0, page |-> {}, full |-> FALSE]
Poll == [at : Nat, page : SUBSET Replies, full : BOOLEAN]

TypeOK ==
  /\ now \in Nat
  /\ status \in [Replies -> {"none", "open", "committed", "undone"}]
  /\ stamp \in [Replies -> Nat]
  /\ poll \in Poll
  /\ cursor \in Nat
  /\ more \in BOOLEAN
  /\ got \subseteq Replies

Init ==
  /\ now = 1
  /\ status = [m \in Replies |-> "none"]
  /\ stamp = [m \in Replies |-> 0]
  /\ poll = Idle
  /\ cursor = 0 /\ more = FALSE
  /\ got = {}

-----------------------------------------------------------------------------
(* The desk writes replies. *)

Begin(m) ==
  /\ status[m] = "none" /\ now <= LastReply
  /\ status' = [status EXCEPT ![m] = "open"]
  /\ stamp' = [stamp EXCEPT ![m] = now]
  /\ UNCHANGED <<now, poll, cursor, more, got>>

End(m, outcome) ==
  /\ status[m] = "open"
  /\ status' = [status EXCEPT ![m] = outcome]
  /\ UNCHANGED <<now, stamp, poll, cursor, more, got>>

-----------------------------------------------------------------------------
(* The partner polls. *)

Before(m, n) == stamp[m] < stamp[n] \/ (stamp[m] = stamp[n] /\ m < n)

Visible == {m \in Replies : status[m] = "committed" /\ stamp[m] > cursor}

\* ORDER BY created_at, id LIMIT limit
IsPage(page, limit) ==
  /\ \A m \in page, n \in Visible \ page : Before(m, n)
  /\ Cardinality(page) <= limit
  /\ page # Visible => Cardinality(page) = limit

Read ==
  /\ poll = Idle
  /\ \E limit \in Limits, page \in SUBSET Visible :
       /\ IsPage(page, limit)
       /\ poll' = [at |-> now, page |-> page, full |-> Cardinality(page) = limit]
  /\ UNCHANGED <<now, status, stamp, cursor, more, got>>

(* nextUpdatesCursor *)

Unheld(skew) == now + skew                                     \* mutant: no lag

Watermark(skew) == now + skew - Lag

Earlier(s, t) == IF s < t THEN s ELSE t
Later(s, t) == IF s < t THEN t ELSE s

PinnedWhenFull(target, watermark) ==  \* mutant: a full page is asked for again
  IF poll.full THEN cursor ELSE Later(cursor, Earlier(target, watermark))

NextCursor(target, watermark) == Later(cursor, Earlier(target, watermark))

MoreWhenFull(full, next) == full                               \* mutant

HasMore(full, next) == full /\ next > cursor

\* The stamp of the last row, or the watermark of an empty page.
IsTarget(target, watermark) ==
  IF poll.page = {} THEN target = watermark
  ELSE \E last \in poll.page : /\ \A m \in poll.page : stamp[m] <= stamp[last]
                               /\ target = stamp[last]

Targets(watermark) == {t \in {stamp[m] : m \in poll.page} \cup {watermark} : IsTarget(t, watermark)}

Answer ==
  /\ poll # Idle
  /\ \E skew \in 0..Skew : \E target \in Targets(Watermark(skew)) :
       LET next == NextCursor(target, Watermark(skew))
       IN  /\ cursor' = next
           /\ more' = HasMore(poll.full, next)
  /\ got' = got \cup poll.page
  /\ poll' = Idle
  /\ UNCHANGED <<now, status, stamp>>

\* The request fails or times out, or its answer never arrives: the partner
\* asks again from the same cursor.
Lose ==
  /\ poll # Idle
  /\ poll' = Idle
  /\ UNCHANGED <<now, status, stamp, cursor, more, got>>

-----------------------------------------------------------------------------
\* No transaction reaches its timeout.
Tick ==
  /\ now < MaxNow
  /\ \A m \in Replies : status[m] = "open" => now + 1 - stamp[m] < TxTimeout
  /\ poll # Idle => now + 1 - poll.at < PollTimeout
  /\ now' = now + 1
  /\ UNCHANGED <<status, stamp, poll, cursor, more, got>>

Next ==
  \/ \E m \in Replies : Begin(m) \/ End(m, "committed") \/ End(m, "undone")
  \/ Read \/ Answer \/ Lose
  \/ Tick

Spec == Init /\ [][Next]_vars

\* The partner keeps polling, and not every answer is lost.  Nothing makes the
\* clock advance.
FairSpec == Spec /\ WF_vars(Read) /\ SF_vars(Answer)

-----------------------------------------------------------------------------
Shared(m) == \E n \in Replies \ {m} : n \in got /\ stamp[n] = stamp[m]

\* "The cursor never advances past a reply whose transaction is still open": a
\* reply, committed or about to be, was delivered or is still ahead of the
\* cursor, unless it shares its millisecond with one that was delivered.
OnlyTiesAreLost ==
  \A m \in Replies :
    status[m] \in {"open", "committed"} => m \in got \/ stamp[m] > cursor \/ Shared(m)

\* A partner that polls again while hasMore says so comes to the end of it,
\* even if the clock stands still.
DrainEnds == []<>~more

\* Once the clock has left the last reply behind by the lag, every committed
\* reply reaches the partner, whatever was lost on the way.
EventuallyDelivered ==
  <>(now = MaxNow) =>
    \A m \in Replies : [](status[m] = "committed" => <>(m \in got \/ Shared(m)))
==========================================================================
