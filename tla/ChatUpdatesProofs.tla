------------------------ MODULE ChatUpdatesProofs ------------------------
(***************************************************************************)
(* No reply is lost but in a tie, for any number of replies, any page      *)
(* sizes and any timeouts the lag covers.  OnlyTiesAreLost is not          *)
(* inductive: a poll in flight has read its page and not moved the cursor, *)
(* and what it did not read must stay ahead of where the cursor goes.      *)
(* Such a reply either sorts behind the page, or its transaction was still *)
(* open when the page was read; then its stamp is younger than that        *)
(* instant less TxTimeout, and the watermark, taken within PollTimeout of  *)
(* the instant, is Lag behind it.                                          *)
(***************************************************************************)
EXTENDS ChatUpdates, FiniteSetTheorems, TLAPS

Written(m) == status[m] \in {"open", "committed"}

\* Every open transaction is younger than its timeout.
Young ==
  /\ \A m \in Replies : status[m] = "open" => stamp[m] <= now /\ now - stamp[m] < TxTimeout
  /\ poll # Idle => poll.at <= now /\ now - poll.at < PollTimeout

\* The cursor is where it began, before the first stamp, or the lag behind.
Held ==
  /\ now >= 1
  /\ \A m \in Replies : Written(m) => stamp[m] >= 1
  /\ cursor = 0 \/ cursor + Lag <= now + Skew

Late(m) == stamp[m] + TxTimeout > poll.at

Behind(m) == poll.page # {} /\ \A n \in poll.page : stamp[n] <= stamp[m]

\* What the poll in flight did not read.
Unread ==
  poll # Idle =>
    \A m \in Replies : Written(m) /\ stamp[m] > cursor /\ m \notin poll.page => Late(m) \/ Behind(m)

\* What was read has committed, and a commit is for good.
Settled == \A m \in poll.page \cup got : status[m] = "committed"

IInv == TypeOK /\ Settled /\ Young /\ Held /\ Unread /\ OnlyTiesAreLost

-----------------------------------------------------------------------------
LEMMA InitHolds == Init => IInv
<1> SUFFICES ASSUME Init PROVE IInv
  OBVIOUS
<1>1. TypeOK
  BY DEF Init, TypeOK, Idle, Poll
<1>2. \A m \in Replies : status[m] = "none"
  BY DEF Init
<1>3. Settled /\ Young /\ Unread
  BY <1>2 DEF Init, Settled, Young, Unread, Idle
<1>4. Held /\ OnlyTiesAreLost
  BY <1>2 DEF Init, Held, OnlyTiesAreLost, Written
<1> QED BY <1>1, <1>3, <1>4 DEF IInv

\* The types survive every step.
LEMMA TypesHold == TypeOK /\ [Next]_vars => TypeOK'
<1> SUFFICES ASSUME TypeOK, [Next]_vars PROVE TypeOK'
  OBVIOUS
<1> USE UpdatesAssumption DEF TypeOK
<1>1. ASSUME NEW m \in Replies, Begin(m) PROVE TypeOK'
  BY <1>1 DEF Begin
<1>2. ASSUME NEW m \in Replies, NEW outcome \in {"committed", "undone"}, End(m, outcome) PROVE TypeOK'
  BY <1>2 DEF End
<1>3. ASSUME Read PROVE TypeOK'
  BY <1>3 DEF Read, Visible, Poll
<1>4. ASSUME Answer PROVE TypeOK'
  <2>1. PICK skew \in 0..Skew : \E target \in Targets(Watermark(skew)) :
          cursor' = NextCursor(target, Watermark(skew)) /\ more' = HasMore(poll.full, NextCursor(target, Watermark(skew)))
    BY <1>4 DEF Answer
  <2>2. PICK target \in Targets(Watermark(skew)) :
          cursor' = NextCursor(target, Watermark(skew)) /\ more' = HasMore(poll.full, NextCursor(target, Watermark(skew)))
    BY <2>1
  <2>3. Watermark(skew) \in Int
    BY DEF Watermark
  <2>4. target \in Int
    BY <2>3 DEF Targets, Poll
  <2>5. cursor' \in Nat
    BY <2>2, <2>3, <2>4 DEF NextCursor, Later, Earlier
  <2>6. more' \in BOOLEAN
    BY <2>2 DEF HasMore, Poll
  <2> QED BY <1>4, <2>5, <2>6 DEF Answer, Idle, Poll
<1>5. ASSUME Lose PROVE TypeOK'
  BY <1>5 DEF Lose, Idle, Poll
<1>6. ASSUME Tick PROVE TypeOK'
  BY <1>6 DEF Tick
<1>7. CASE UNCHANGED vars
  BY <1>7 DEF vars
<1> QED BY <1>1, <1>2, <1>3, <1>4, <1>5, <1>6, <1>7 DEF Next

\* A poll's answer: what it leaves undelivered is ahead of the new cursor or
\* shares the stamp of a row of the page.
LEMMA AnswerKeeps ==
  ASSUME IInv, Answer
  PROVE  /\ cursor' = 0 \/ cursor' + Lag <= now + Skew
         /\ \A m \in Replies : Written(m) /\ stamp[m] > cursor =>
              m \in poll.page \/ stamp[m] > cursor' \/ \E n \in poll.page : stamp[n] = stamp[m]
<1> USE UpdatesAssumption DEF IInv
<1>1. PICK skew \in 0..Skew : \E t \in Targets(Watermark(skew)) : cursor' = NextCursor(t, Watermark(skew))
  BY DEF Answer
<1> DEFINE held == Watermark(skew)
<1>2. PICK target \in Targets(held) : cursor' = NextCursor(target, held)
  BY <1>1
<1>3. held \in Int /\ held = now + skew - Lag
  BY DEF Watermark, TypeOK
<1>4. IsTarget(target, held) /\ target \in Int
  BY <1>2, <1>3 DEF Targets, TypeOK, Poll
<1> HIDE DEF held
<1>5. cursor' = Later(cursor, Earlier(target, held))
  BY <1>2 DEF NextCursor
<1>6. cursor' = 0 \/ cursor' + Lag <= now + Skew
  <2>1. cursor' = cursor \/ cursor' <= held
    BY <1>3, <1>4, <1>5 DEF Later, Earlier, TypeOK
  <2>2. cursor' \in Int
    BY <1>3, <1>4, <1>5 DEF Later, Earlier, TypeOK
  <2>3. now \in Nat /\ Lag \in Nat /\ Skew \in Nat /\ skew \in Int /\ skew <= Skew
    BY DEF TypeOK
  <2>4. CASE cursor' <= held
    <3>1. cursor' <= now + skew - Lag
      BY <1>3, <2>4
    <3> HIDE DEF IInv
    <3>2. ASSUME NEW c \in Int, NEW n \in Nat, NEW l \in Nat, NEW a \in Int, NEW b \in Nat,
                 c <= n + a - l, a <= b
          PROVE  c + l <= n + b
      BY <3>2, SMT
    <3> QED BY <2>2, <2>3, <3>1, <3>2
  <2>5. CASE cursor' = cursor
    BY <2>5 DEF Held
  <2> QED BY <2>1, <2>4, <2>5
<1>7. ASSUME NEW m \in Replies, Written(m), stamp[m] > cursor, m \notin poll.page
      PROVE  stamp[m] > cursor' \/ \E n \in poll.page : stamp[n] = stamp[m]
  <2>1. stamp[m] \in Nat /\ cursor \in Nat /\ poll.at \in Nat /\ now \in Nat
    BY DEF TypeOK, Poll
  <2>2. Late(m) \/ Behind(m)
    BY <1>7 DEF Unread, Answer
  <2>3. CASE Late(m)
    <3>1. now - poll.at < PollTimeout
      BY DEF Young, Answer
    <3>2. held < stamp[m]
      BY <2>1, <2>3, <3>1, <1>3 DEF Late
    <3> QED BY <1>3, <1>4, <1>5, <1>7, <2>1, <3>2 DEF Later, Earlier
  <2>4. CASE Behind(m)
    <3>1. PICK last \in poll.page : target = stamp[last]
      BY <2>4, <1>4 DEF IsTarget, Behind
    <3>2. target <= stamp[m]
      BY <2>4, <3>1 DEF Behind
    <3>3. cursor' <= target \/ cursor' = cursor
      BY <1>3, <1>4, <1>5, <2>1 DEF Later, Earlier
    <3>4. cursor' \in Int
      BY <1>3, <1>4, <1>5, <2>1 DEF Later, Earlier
    <3> QED BY <1>4, <1>7, <2>1, <3>1, <3>2, <3>3, <3>4
  <2> QED BY <2>2, <2>3, <2>4
<1> QED BY <1>6, <1>7

\* What a poll reads is a page: the rest of what is visible sorts behind it,
\* and what is not visible belongs to an open transaction.
LEMMA ReadKeeps == ASSUME IInv, Read PROVE Unread'
<1> USE UpdatesAssumption DEF IInv
<1>1. PICK limit \in Limits, page \in SUBSET Visible :
        IsPage(page, limit) /\ poll' = [at |-> now, page |-> page, full |-> Cardinality(page) = limit]
  BY DEF Read
<1>2. SUFFICES ASSUME NEW m \in Replies, Written(m), stamp[m] > cursor, m \notin page
               PROVE  (Late(m) \/ Behind(m))'
  BY <1>1 DEF Unread, Read, Written
<1>3. CASE status[m] = "open"
  <2>1. now - stamp[m] < TxTimeout /\ stamp[m] \in Nat /\ now \in Nat
    BY <1>3 DEF Young, TypeOK
  <2> QED BY <1>1, <2>1 DEF Late, Read
<1>4. CASE status[m] = "committed"
  <2>1. m \in Visible
    BY <1>2, <1>4 DEF Visible
  <2>2. \A n \in page : stamp[n] <= stamp[m]
    <3>1. \A n \in page : Before(n, m)
      BY <1>1, <1>2, <2>1 DEF IsPage
    <3>2. \A n \in page : stamp[n] \in Nat /\ stamp[m] \in Nat
      BY DEF Visible, TypeOK
    <3> QED BY <3>1, <3>2 DEF Before
  <2>3. page # {}
    <3>1. SUFFICES ASSUME page = {} PROVE FALSE
      OBVIOUS
    <3>2. Cardinality(page) = limit
      BY <1>1, <1>2, <2>1 DEF IsPage
    <3>3. Cardinality({}) = 0
      BY FS_EmptySet
    <3> QED BY <3>1, <3>2, <3>3
  <2> QED BY <1>1, <2>2, <2>3 DEF Behind, Read
<1> QED BY <1>2, <1>3, <1>4 DEF Written

LEMMA StepHolds == IInv /\ [Next]_vars => IInv'
<1> SUFFICES ASSUME IInv, [Next]_vars PROVE IInv'
  OBVIOUS
<1> USE UpdatesAssumption DEF IInv
<1>t. TypeOK'
  BY TypesHold
<1>n. /\ now \in Nat /\ cursor \in Nat /\ poll.at \in Nat /\ stamp \in [Replies -> Nat]
      /\ status \in [Replies -> {"none", "open", "committed", "undone"}]
  BY DEF TypeOK, Poll
<1>1. ASSUME NEW r \in Replies, Begin(r) PROVE IInv'
  <2>1. \A m \in Replies : m # r => stamp'[m] = stamp[m] /\ status'[m] = status[m]
    BY <1>1, <1>n DEF Begin
  <2>2. stamp'[r] = now /\ status[r] = "none" /\ status'[r] = "open"
    BY <1>1, <1>n DEF Begin
  <2>3. UNCHANGED <<now, poll, cursor, more, got>>
    BY <1>1 DEF Begin
  <2>4. now > cursor
    BY <1>n DEF Held
  <2>5. Young'
    BY <2>1, <2>2, <2>3, <1>n DEF Young
  <2>6. Held'
    BY <2>1, <2>2, <2>3, <1>n DEF Held, Written
  <2>7. r \notin poll.page \cup got
    BY <2>2 DEF Settled
  <2>8. Settled'
    BY <2>1, <2>3, <2>7, <1>n DEF Settled, TypeOK, Poll
  <2>9. Unread'
    <3> SUFFICES ASSUME poll # Idle, NEW m \in Replies, Written(m)', stamp'[m] > cursor, m \notin poll.page
                 PROVE  (Late(m) \/ Behind(m))'
      BY <2>3 DEF Unread
    <3>1. CASE m = r
      BY <3>1, <2>2, <2>3, <1>n DEF Young, Late
    <3>2. CASE m # r
      <4>1. Late(m) \/ Behind(m)
        BY <3>2, <2>1, <2>3 DEF Unread, Written
      <4>2. \A n \in poll.page : n # r /\ n \in Replies
        BY <2>7 DEF TypeOK, Poll
      <4> QED BY <4>1, <4>2, <3>2, <2>1, <2>3 DEF Late, Behind
    <3> QED BY <3>1, <3>2
  <2>10. OnlyTiesAreLost'
    <3> SUFFICES ASSUME NEW m \in Replies, Written(m)', m \notin got, ~(stamp'[m] > cursor)
                 PROVE  Shared(m)'
      BY <2>3 DEF OnlyTiesAreLost, Written
    <3>1. m # r
      BY <2>2, <2>4, <1>n
    <3>2. Shared(m)
      BY <3>1, <2>1 DEF OnlyTiesAreLost, Written
    <3> QED BY <3>1, <3>2, <2>1, <2>3, <2>7 DEF Shared
  <2> QED BY <1>t, <2>5, <2>6, <2>8, <2>9, <2>10
<1>2. ASSUME NEW r \in Replies, NEW outcome \in {"committed", "undone"}, End(r, outcome) PROVE IInv'
  <2>1. status[r] = "open" /\ status'[r] = outcome
    BY <1>2, <1>n DEF End
  <2>2. \A m \in Replies : status'[m] = "open" \/ Written(m)' => Written(m)
    BY <1>2, <1>n DEF End, Written
  <2>3. \A m \in Replies : status'[m] = "open" => status[m] = "open"
    BY <1>2, <1>n DEF End
  <2>4. UNCHANGED <<now, stamp, poll, cursor, more, got>>
    BY <1>2 DEF End
  <2>5. Settled'
    BY <1>2, <2>1, <2>4, <1>n DEF Settled, End, TypeOK, Poll
  <2>6. Young'
    BY <2>3, <2>4 DEF Young
  <2>7. Held'
    BY <2>2, <2>4 DEF Held
  <2>8. Unread'
    BY <2>2, <2>4 DEF Unread, Late, Behind
  <2>9. OnlyTiesAreLost'
    BY <2>2, <2>4 DEF OnlyTiesAreLost, Shared, Written
  <2> QED BY <1>t, <2>5, <2>6, <2>7, <2>8, <2>9
<1>3. ASSUME Read PROVE IInv'
  <2>1. UNCHANGED <<now, status, stamp, cursor, more, got>>
    BY <1>3 DEF Read
  <2>2. poll'.at = now /\ poll'.page \subseteq Visible
    BY <1>3 DEF Read
  <2>3. Settled'
    BY <2>1, <2>2 DEF Settled, Visible
  <2>4. Young'
    <3>1. now - now < PollTimeout
      BY <1>n
    <3>2. \A m \in Replies : status[m] = "open" => stamp[m] <= now /\ now - stamp[m] < TxTimeout
      BY DEF Young
    <3> QED BY <2>1, <2>2, <3>1, <3>2, <1>n DEF Young
  <2>5. Held'
    BY <2>1 DEF Held, Written
  <2>6. Unread'
    BY <1>3, ReadKeeps
  <2>7. OnlyTiesAreLost'
    BY <2>1 DEF OnlyTiesAreLost, Shared
  <2> QED BY <1>t, <2>3, <2>4, <2>5, <2>6, <2>7
<1>4. ASSUME Answer PROVE IInv'
  <2>1. poll' = Idle /\ got' = got \cup poll.page /\ UNCHANGED <<now, status, stamp>>
    BY <1>4 DEF Answer
  <2>2. Settled'
    BY <2>1 DEF Settled, Idle
  <2>3. Young'
    BY <2>1 DEF Young
  <2>4. Held'
    BY <1>4, <2>1, AnswerKeeps DEF Held, Written
  <2>5. Unread'
    BY <2>1 DEF Unread
  <2>6. OnlyTiesAreLost'
    <3> SUFFICES ASSUME NEW m \in Replies, Written(m), m \notin got', ~(stamp[m] > cursor')
                 PROVE  Shared(m)'
      BY <2>1 DEF OnlyTiesAreLost, Written
    <3>1. CASE stamp[m] > cursor
      <4>1. PICK n \in poll.page : stamp[n] = stamp[m]
        BY <1>4, <2>1, <3>1, AnswerKeeps
      <4> QED BY <2>1, <4>1 DEF Shared, TypeOK, Poll
    <3>2. CASE ~(stamp[m] > cursor)
      <4>1. Shared(m)
        BY <2>1, <3>2 DEF OnlyTiesAreLost, Written
      <4> QED BY <2>1, <4>1 DEF Shared
    <3> QED BY <3>1, <3>2
  <2> QED BY <1>t, <2>2, <2>3, <2>4, <2>5, <2>6
<1>5. ASSUME Lose PROVE IInv'
  <2>1. poll' = Idle /\ UNCHANGED <<now, status, stamp, cursor, more, got>>
    BY <1>5 DEF Lose
  <2> QED BY <1>t, <2>1 DEF Settled, Young, Held, Unread, OnlyTiesAreLost, Shared, Written, Idle
<1>6. ASSUME Tick PROVE IInv'
  <2>1. now' = now + 1 /\ UNCHANGED <<status, stamp, poll, cursor, more, got>>
    BY <1>6 DEF Tick
  <2>2. Young'
    BY <1>6, <2>1, <1>n DEF Young, Tick
  <2>3. Held'
    BY <2>1, <1>n DEF Held, Written
  <2>4. Settled' /\ Unread' /\ OnlyTiesAreLost'
    BY <2>1 DEF Settled, Unread, Late, Behind, Written, OnlyTiesAreLost, Shared
  <2> QED BY <1>t, <2>2, <2>3, <2>4
<1>7. CASE UNCHANGED vars
  BY <1>t, <1>7 DEF vars, Settled, Young, Held, Unread, Late, Behind, Written, OnlyTiesAreLost, Shared
<1> QED BY <1>1, <1>2, <1>3, <1>4, <1>5, <1>6, <1>7 DEF Next

-----------------------------------------------------------------------------
\* Replies, stamps, the poll in flight and the cursor keep their types, for any
\* page sizes and timeouts.
THEOREM Typed == Spec => []TypeOK
<1>1. Init => TypeOK
  BY InitHolds DEF IInv
<1> QED BY <1>1, TypesHold, PTL DEF Spec

\* However long replies take to commit and polls to answer within their
\* timeouts, no reply falls behind the cursor undelivered, unless it shares its
\* millisecond with a delivered one (chat.module updates, updates-cursor).
THEOREM NoneLostButTies == Spec => []OnlyTiesAreLost
<1>1. IInv => OnlyTiesAreLost
  BY DEF IInv
<1> QED BY <1>1, InitHolds, StepHolds, PTL DEF Spec

=============================================================================
