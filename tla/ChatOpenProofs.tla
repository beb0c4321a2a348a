-------------------------- MODULE ChatOpenProofs --------------------------
(***************************************************************************)
(* For any number of sessions, texts, concurrent requests and failures:    *)
(* one ticket for a session, what the partner was told is stored, is, and  *)
(* it is stored once, or twice if it opened the ticket.                    *)
(*                                                                         *)
(* A request about to answer has found or inserted its message (Carried);  *)
(* rows are never deleted.  And a session row inserted by a request is its *)
(* own and in no other transaction (Apart), so that committing it creates  *)
(* the session's one ticket.  A text keeps the call it was first sent by,  *)
(* and each call has keys of its own (Calls).                              *)
(***************************************************************************)
EXTENDS ChatOpen, FiniteSetTheorems, TLAPS

Stored(rows, s, text) == \E ref \in Ref : Message(s, text, ref) \in rows

\* Every session row in flight is one request's own, and new.
Apart ==
  \A x \in Tx, s \in Sessions : Session(s) \in tx[x].adds =>
    /\ s = tx[x].on /\ Session(s) \notin db
    /\ \A y \in Tx \ {x} : Session(s) \notin tx[y].adds

\* A request that is about to answer has its text in the tables.
Carried ==
  \A x \in Tx : tx[x].pc = "done" /\ tx[x].text # None =>
    Stored(db \cup tx[x].adds, tx[x].on, tx[x].text)

Told == \A s \in Sessions, text \in Texts : <<s, text>> \in told => Stored(db, s, text)

\* Only a message is looked up or inserted.
Worded == \A x \in Tx : tx[x].pc \in {"lookup", "insert"} => tx[x].text # None

IInv == TypeOK /\ Worded /\ Apart /\ Carried /\ Told /\ OneTicket

-----------------------------------------------------------------------------
(* Rows. *)

LEMMA Rows ==
  /\ \A s, t : Session(s) = Session(t) => s = t
  /\ \A s : Session(s) # Customer
  /\ \A s, t, text, ref : Session(s) # Message(t, text, ref)
<1>1. \A s : Session(s)[1] = "session" /\ Session(s)[2] = s
  BY DEF Session
<1>2. \A t, text, ref : Message(t, text, ref)[1] = "message"
  BY DEF Message
<1>3. Customer[1] = "customer"
  BY DEF Customer
<1> QED BY <1>1, <1>2, <1>3

LEMMA RowsAreRows ==
  /\ Customer \in Row
  /\ \A s \in Sessions : Session(s) \in Row
  /\ \A s \in Sessions, text \in Texts, ref \in Ref : Message(s, text, ref) \in Row
BY DEF Row

\* A request in flight is one, and the idle slot has nothing in flight.
LEMMA SlotIs ==
  ASSUME TypeOK, NEW x \in Tx
  PROVE  /\ tx[x].pc # "idle" => tx[x] \in Request
         /\ tx[x].adds \subseteq Row
         /\ tx[x] = Idle => tx[x].adds = {} /\ tx[x].pc = "idle"
BY DEF TypeOK, Request, Idle

-----------------------------------------------------------------------------
LEMMA InitHolds == Init => IInv
<1> SUFFICES ASSUME Init PROVE IInv
  OBVIOUS
<1>1. TypeOK
  BY DEF Init, TypeOK
<1>2. Worded /\ Apart /\ Carried /\ Told /\ OneTicket
  BY DEF Init, Worded, Apart, Carried, Told, OneTicket, Idle
<1> QED BY <1>1, <1>2 DEF IInv

\* Steps within a transaction: one slot changes its program counter and may
\* insert rows.
LEMMA Within ==
  ASSUME IInv, NEW x \in Tx, tx[x].pc # "idle",
         NEW pc \in {"customer", "enlist", "file", "lookup", "insert", "done", "failed"},
         NEW rows \in SUBSET Row,
         tx' = [tx EXCEPT ![x].pc = pc, ![x].adds = @ \cup rows],
         UNCHANGED <<db, filed, via, known, told, failed>>,
         \A s \in Sessions : Session(s) \in rows =>
            /\ s = tx[x].on /\ Session(s) \notin db
            /\ \A y \in Tx \ {x} : Session(s) \notin tx[y].adds,
         pc = "done" /\ tx[x].text # None =>
            Stored(db \cup tx[x].adds \cup rows, tx[x].on, tx[x].text),
         pc \in {"lookup", "insert"} => tx[x].text # None
  PROVE  IInv'
<1> USE DEF IInv
<1>1. tx[x] \in Request /\ tx \in [Tx -> Request \cup {Idle}]
  BY SlotIs DEF TypeOK
<1>2. /\ tx'[x] = [tx[x] EXCEPT !.pc = pc, !.adds = @ \cup rows]
      /\ \A y \in Tx \ {x} : tx'[y] = tx[y]
  BY <1>1
<1>3. tx'[x].pc = pc /\ tx'[x].adds = tx[x].adds \cup rows /\ tx'[x].on = tx[x].on /\ tx'[x].text = tx[x].text
  BY <1>1, <1>2 DEF Request
<1>4. TypeOK'
  <2>1. tx'[x] \in Request
    BY <1>1, <1>2 DEF Request
  <2> QED BY <1>1, <2>1 DEF TypeOK
<1>5. Apart'
  <2> SUFFICES ASSUME NEW y \in Tx, NEW s \in Sessions, Session(s) \in tx'[y].adds
               PROVE  /\ s = tx'[y].on /\ Session(s) \notin db
                      /\ \A z \in Tx \ {y} : Session(s) \notin tx'[z].adds
    BY DEF Apart
  <2>1. CASE y = x
    BY <1>2, <1>3, <2>1 DEF Apart
  <2>2. CASE y # x
    <3>1. Session(s) \in tx[y].adds /\ tx'[y].on = tx[y].on
      BY <1>2, <2>2
    <3>2. /\ s = tx[y].on /\ Session(s) \notin db
          /\ \A z \in Tx \ {y} : Session(s) \notin tx[z].adds
      BY <3>1 DEF Apart
    <3>3. Session(s) \notin rows
      BY <2>2, <3>1
    <3>4. \A z \in Tx \ {y} : Session(s) \notin tx'[z].adds
      BY <1>2, <1>3, <3>2, <3>3
    <3> QED BY <3>1, <3>2, <3>4
  <2> QED BY <2>1, <2>2
<1>6. Worded'
  BY <1>2, <1>3 DEF Worded
<1>7. Carried'
  <2> SUFFICES ASSUME NEW y \in Tx, tx'[y].pc = "done", tx'[y].text # None
               PROVE  Stored(db' \cup tx'[y].adds, tx'[y].on, tx'[y].text)
    BY DEF Carried
  <2>1. db' = db
    OBVIOUS
  <2>2. CASE y = x
    <3>1. db' \cup tx'[y].adds = db \cup tx[x].adds \cup rows
      BY <1>3, <2>1, <2>2
    <3> QED BY <1>3, <2>2, <3>1
  <2>3. CASE y # x
    BY <1>2, <2>1, <2>3 DEF Carried
  <2> QED BY <2>2, <2>3
<1> QED BY <1>4, <1>5, <1>6, <1>7 DEF Told, OneTicket

\* A committed transaction's rows join the tables, and its slot is free.
LEMMA CommitKeeps ==
  ASSUME IInv, NEW x \in Tx, Commit(x)
  PROVE  /\ db' \subseteq Row /\ filed' \in [Sessions -> Nat] /\ tx' \in [Tx -> Request \cup {Idle}]
         /\ Worded' /\ Apart' /\ Carried' /\ OneTicket'
         /\ db \subseteq db'
         /\ tx[x].on \in Sessions
         /\ tx[x].text # None => tx[x].text \in Texts /\ Stored(db', tx[x].on, tx[x].text)
<1> USE DEF IInv
<1> DEFINE q == tx[x]
<1>1. q \in Request /\ q.pc = "done" /\ tx \in [Tx -> Request \cup {Idle}]
  BY SlotIs DEF Commit, TypeOK
<1>2. /\ q.on \in Sessions /\ q.adds \subseteq Row /\ q.text \in Texts \cup {None}
      /\ db' = db \cup q.adds
      /\ filed' = [filed EXCEPT ![q.on] = @ + Files(q)]
      /\ tx'[x] = Idle /\ \A y \in Tx \ {x} : tx'[y] = tx[y]
  BY <1>1 DEF Commit, Request
<1>3. Files(q) = IF Session(q.on) \in q.adds THEN 1 ELSE 0
  BY DEF Files
<1> HIDE DEF q
<1>4. db' \subseteq Row /\ filed' \in [Sessions -> Nat] /\ tx' \in [Tx -> Request \cup {Idle}] /\ db \subseteq db'
  <2>1. tx' \in [Tx -> Request \cup {Idle}]
    BY <1>1 DEF Commit
  <2> QED BY <1>2, <1>3, <2>1 DEF TypeOK
<1>5. \A s \in Sessions : Session(s) \in q.adds =>
         s = q.on /\ Session(s) \notin db /\ \A y \in Tx \ {x} : Session(s) \notin tx[y].adds
  BY DEF Apart, q
<1>6. Idle.adds = {} /\ Idle.pc = "idle"
  BY DEF Idle
<1>7. Apart'
  <2> SUFFICES ASSUME NEW y \in Tx, NEW s \in Sessions, Session(s) \in tx'[y].adds
               PROVE  /\ s = tx'[y].on /\ Session(s) \notin db'
                      /\ \A z \in Tx \ {y} : Session(s) \notin tx'[z].adds
    BY DEF Apart
  <2>1. y # x /\ tx'[y] = tx[y]
    BY <1>2, <1>6
  <2>2. s = tx[y].on /\ Session(s) \notin db /\ \A z \in Tx \ {y} : Session(s) \notin tx[z].adds
    BY <2>1 DEF Apart
  <2>3. Session(s) \notin q.adds
    BY <2>1, <2>2 DEF q
  <2> QED BY <1>2, <1>6, <2>1, <2>2, <2>3
<1>8. Carried'
  <2> SUFFICES ASSUME NEW y \in Tx, tx'[y].pc = "done", tx'[y].text # None
               PROVE  Stored(db' \cup tx'[y].adds, tx'[y].on, tx'[y].text)
    BY DEF Carried
  <2>1. y # x /\ tx'[y] = tx[y]
    BY <1>2, <1>6
  <2> QED BY <1>4, <2>1 DEF Carried, Stored
<1>9. OneTicket'
  <2> SUFFICES ASSUME NEW s \in Sessions
               PROVE  filed'[s] = IF Session(s) \in db' THEN 1 ELSE 0
    BY DEF OneTicket
  <2>1. filed[s] = IF Session(s) \in db THEN 1 ELSE 0
    BY DEF OneTicket
  <2>2. CASE s = q.on
    BY <1>2, <1>3, <1>5, <2>1, <2>2 DEF TypeOK
  <2>3. CASE s # q.on
    BY <1>2, <1>5, <2>1, <2>3 DEF TypeOK
  <2> QED BY <2>2, <2>3
<1>10. q.text # None => q.text \in Texts /\ Stored(db', q.on, q.text)
  BY <1>1, <1>2 DEF Carried, q
<1>11. Worded'
  BY <1>2, <1>6 DEF Worded
<1> QED BY <1>2, <1>4, <1>7, <1>8, <1>9, <1>10, <1>11 DEF q

\* A transaction rolled back leaves nothing.
LEMMA RollbackKeeps == ASSUME IInv, NEW x \in Tx, Rollback(x), failed' \in Nat PROVE IInv'
<1> USE DEF IInv
<1>1. filed' = filed
  BY SlotIs DEF Rollback, Leftover, TypeOK, Request
<1>2. tx' = [tx EXCEPT ![x] = Idle] /\ UNCHANGED <<db, via, known, told>>
  BY DEF Rollback
<1>3. Idle.adds = {} /\ Idle.pc = "idle"
  BY DEF Idle
<1>4. TypeOK'
  BY <1>1, <1>2 DEF TypeOK
<1>5. tx'[x] = Idle /\ \A y \in Tx \ {x} : tx'[y] = tx[y]
  BY <1>2 DEF TypeOK
<1>6. Worded' /\ Apart' /\ Carried'
  BY <1>2, <1>3, <1>5 DEF Worded, Apart, Carried
<1> QED BY <1>1, <1>2, <1>4, <1>6 DEF Told, OneTicket

\* A new request has inserted nothing.
LEMMA StartKeeps ==
  ASSUME IInv, NEW x \in Tx, NEW s \in Sessions, NEW text \in Texts \cup {None},
         NEW op \in {"open", "append"}, Start(x, op, s, text),
         via' \in [Sessions -> [Texts -> {"open", "append", None}]]
  PROVE  IInv'
<1> USE DEF IInv
<1> DEFINE q == [op |-> op, pc |-> "find", on |-> s, text |-> text, adds |-> {}]
<1>1. q \in Request /\ q.adds = {} /\ q.pc = "find"
  BY DEF Request
<1>2. tx' = [tx EXCEPT ![x] = q] /\ UNCHANGED <<db, filed, known, told, failed>>
  BY DEF Start
<1> HIDE DEF q
<1>3. TypeOK'
  BY <1>1, <1>2 DEF TypeOK
<1>4. tx'[x] = q /\ \A y \in Tx \ {x} : tx'[y] = tx[y]
  BY <1>2 DEF TypeOK
<1>5. Worded' /\ Apart' /\ Carried'
  BY <1>1, <1>2, <1>4 DEF Worded, Apart, Carried
<1> QED BY <1>2, <1>3, <1>5 DEF Told, OneTicket

LEMMA SendKeeps ==
  ASSUME IInv, NEW s \in Sessions, NEW text \in Texts, Send(s, text) PROVE IInv'
<1>1. PICK x \in Tx, op \in {"open", "append"} : SendText(x, s, text, op)
  BY DEF Send
<1>2. Start(x, op, s, text) /\ via' = [via EXCEPT ![s][text] = op]
  BY <1>1 DEF SendText
<1>3. via' \in [Sessions -> [Texts -> {"open", "append", None}]]
  <2>1. via \in [Sessions -> [Texts -> {"open", "append", None}]]
    BY DEF IInv, TypeOK
  <2> QED BY <1>2, <2>1
<1> QED BY <1>2, <1>3, StartKeeps

\* One step per statement of a request.
LEMMA StatementKeeps ==
  ASSUME IInv, NEW x \in Tx,
         \/ FindSession(x) \/ FindCustomer(x) \/ Enlist(x) \/ File(x)
         \/ Lookup(x) \/ InsertMessage(x)
  PROVE  IInv'
<1> DEFINE q == tx[x]
<1>0. q.pc \in {"find", "customer", "enlist", "file", "lookup", "insert"} /\ q \in Request
  BY SlotIs DEF FindSession, FindCustomer, Enlist, File, Lookup, InsertMessage, IInv
<1>1. q.on \in Sessions /\ q.text \in Texts \cup {None} /\ q.adds \subseteq Row
  BY <1>0 DEF Request
<1>2. ASSUME NEW pc \in {"customer", "enlist", "file", "lookup", "insert", "done", "failed"},
             Goto(x, pc),
             pc = "done" /\ q.text # None => Stored(db \cup q.adds, q.on, q.text),
             pc \in {"lookup", "insert"} => q.text # None
      PROVE  IInv'
  <2> DEFINE rows == {}
  <2>1. q = [q EXCEPT !.adds = @ \cup rows]
    BY <1>0 DEF Request
  <2>2. tx' = [tx EXCEPT ![x].pc = pc, ![x].adds = @ \cup rows]
    BY <1>0, <1>2, <2>1 DEF Goto, IInv, TypeOK, Request
  <2>3. UNCHANGED <<db, filed, via, known, told, failed>>
    BY <1>2 DEF Goto
  <2>4. rows \in SUBSET Row /\ db \cup q.adds \cup rows = db \cup q.adds /\ \A s \in Sessions : Session(s) \notin rows
    OBVIOUS
  <2> HIDE DEF rows
  <2> QED BY <1>0, <1>2, <2>2, <2>3, <2>4, Within
<1>3. CASE FindSession(x)
  <2>1. PICK pc \in {"done", "lookup", "customer"} : Goto(x, pc)
        /\ (pc = "done" => q.text = None) /\ (pc = "lookup" => q.text # None)
    BY <1>3 DEF FindSession, Found
  <2> QED BY <1>2, <2>1
<1>4. CASE FindCustomer(x)
  <2>1. PICK pc \in {"file", "enlist"} : Goto(x, pc)
    BY <1>4 DEF FindCustomer
  <2> QED BY <1>2, <2>1
<1>5. CASE Lookup(x)
  <2>1. PICK pc \in {"done", "insert"} : Goto(x, pc) /\ (pc = "done" => Keyed(x) \in db)
    BY <1>5 DEF Lookup, Seen
  <2>2. pc = "done" => Stored(db \cup q.adds, q.on, q.text)
    BY <2>1 DEF Keyed, Stored, Ref
  <2>3. q.text # None
    BY <1>5 DEF Lookup, IInv, Worded
  <2> QED BY <1>2, <2>1, <2>2, <2>3
<1>6. ASSUME NEW row \in Row, NEW next \in {"file", "done"}, Insert(x, row, next),
             \A s \in Sessions : Session(s) # row,
             next = "done" /\ q.text # None => Stored({row}, q.on, q.text)
      PROVE  IInv'
  <2>1. CASE row \in db
    <3>1. Goto(x, "failed")
      BY <1>0, <1>6, <2>1 DEF Insert, Goto, IInv, TypeOK, Request
    <3> QED BY <1>2, <3>1
  <2>2. CASE row \notin db
    <3> DEFINE rows == {row}
    <3>1. tx' = [tx EXCEPT ![x].pc = next, ![x].adds = @ \cup rows]
      BY <1>6, <2>2 DEF Insert
    <3>2. UNCHANGED <<db, filed, via, known, told, failed>>
      BY <1>6 DEF Insert
    <3>3. rows \in SUBSET Row /\ \A s \in Sessions : Session(s) \notin rows
      BY <1>6
    <3>4. next = "done" /\ q.text # None => Stored(db \cup q.adds \cup rows, q.on, q.text)
      BY <1>6 DEF Stored
    <3> HIDE DEF rows
    <3> QED BY <1>0, <1>6, <3>1, <3>2, <3>3, <3>4, Within
  <2> QED BY <2>1, <2>2
<1>7. CASE Enlist(x)
  BY <1>6, <1>7, Rows, RowsAreRows DEF Enlist
<1>8. CASE InsertMessage(x)
  <2>1. q.text \in Texts
    BY <1>1, <1>8 DEF InsertMessage, IInv, Worded
  <2>2. PICK ref \in Ref : Keyed(x) = Message(q.on, q.text, ref)
    BY DEF Keyed, Ref
  <2>3. Keyed(x) \in Row /\ \A s \in Sessions : Session(s) # Keyed(x)
    BY <1>1, <2>1, <2>2, Rows, RowsAreRows
  <2>4. Stored({Keyed(x)}, q.on, q.text)
    BY <2>2 DEF Stored
  <2> QED BY <1>6, <1>8, <2>3, <2>4 DEF InsertMessage
<1>9. CASE File(x)
  <2>1. CASE Session(q.on) \in db
    <3>1. Goto(x, "failed")
      BY <1>0, <1>9, <2>1 DEF File, Goto, IInv, TypeOK, Request
    <3> QED BY <1>2, <3>1
  <2>2. CASE Session(q.on) \notin db
    <3> DEFINE rows == {Session(q.on)} \cup Opener(q)
    <3>1. tx' = [tx EXCEPT ![x].pc = "done", ![x].adds = @ \cup rows]
      BY <1>9, <2>2 DEF File
    <3>2. UNCHANGED <<db, filed, via, known, told, failed>>
      BY <1>9 DEF File
    <3>3. "null" \in Ref /\ (q.text # None => Message(q.on, q.text, "null") \in rows)
      BY DEF Opener, Ref
    <3>4. rows \in SUBSET Row
      BY <1>1, <3>3, RowsAreRows DEF Opener
    <3>5. \A s \in Sessions : Session(s) \in rows => s = q.on
      BY Rows DEF Opener
    <3>6. \A y \in Tx \ {x} : Session(q.on) \notin tx[y].adds
      BY <1>9 DEF File
    <3>7. q.text # None => Stored(db \cup q.adds \cup rows, q.on, q.text)
      BY <3>3 DEF Stored
    <3> HIDE DEF rows
    <3> QED BY <1>0, <2>2, <3>1, <3>2, <3>4, <3>5, <3>6, <3>7, Within
  <2> QED BY <2>1, <2>2
<1> QED BY <1>3, <1>4, <1>5, <1>7, <1>8, <1>9

\* A commit, whether or not its answer arrives.
LEMMA EndKeeps == ASSUME IInv, NEW x \in Tx, Answer(x) \/ LoseAnswer(x) PROVE IInv'
<1> DEFINE q == tx[x]
<1>1. Commit(x) /\ UNCHANGED via
  BY DEF Answer, LoseAnswer
<1>2. /\ db' \subseteq Row /\ filed' \in [Sessions -> Nat] /\ tx' \in [Tx -> Request \cup {Idle}]
      /\ Worded' /\ Apart' /\ Carried' /\ OneTicket'
      /\ db \subseteq db'
      /\ q.on \in Sessions
      /\ q.text # None => q.text \in Texts /\ Stored(db', q.on, q.text)
  BY <1>1, CommitKeeps
<1> HIDE DEF q
<1>3. /\ known' \subseteq known \cup {q.on}
      /\ \A s, text : <<s, text>> \in told' =>
            <<s, text>> \in told \/ (s = q.on /\ text = q.text /\ text # None)
      /\ told' \subseteq told \cup ({q.on} \X ({q.text} \ {None}))
      /\ failed' \in Nat
  BY DEF Answer, LoseAnswer, Fail, IInv, TypeOK, q
<1>4. TypeOK'
  BY <1>1, <1>2, <1>3 DEF IInv, TypeOK
<1>5. Told'
  <2> SUFFICES ASSUME NEW s \in Sessions, NEW text \in Texts, <<s, text>> \in told'
               PROVE  Stored(db', s, text)
    BY DEF Told
  <2>1. CASE <<s, text>> \in told
    BY <1>2, <2>1 DEF IInv, Told, Stored
  <2>2. CASE s = q.on /\ text = q.text /\ text # None
    BY <1>2, <2>2
  <2> QED BY <1>3, <2>1, <2>2
<1> QED BY <1>2, <1>4, <1>5 DEF IInv

LEMMA StepHolds == ASSUME IInv, [Next]_vars PROVE IInv'
<1>1. ASSUME NEW s \in Sessions, NEW text \in Texts, Send(s, text) PROVE IInv'
  BY <1>1, SendKeeps
<1>2. ASSUME NEW x \in Tx, NEW s \in Sessions, Greet(x, s) PROVE IInv'
  <2>1. Start(x, "open", s, None) /\ via' \in [Sessions -> [Texts -> {"open", "append", None}]]
    BY <1>2 DEF Greet, IInv, TypeOK
  <2> QED BY <2>1, StartKeeps
<1>3. ASSUME NEW x \in Tx, Progress(x) PROVE IInv'
  <2>1. CASE Answer(x)
    BY <2>1, EndKeeps
  <2>2. CASE Crash(x)
    <3>1. Rollback(x) /\ failed' \in Nat
      BY <2>2 DEF Crash, IInv, TypeOK
    <3> QED BY <3>1, RollbackKeeps
  <2> QED BY <1>3, <2>1, <2>2, StatementKeeps DEF Progress
<1>4. ASSUME NEW x \in Tx, LoseAnswer(x) PROVE IInv'
  BY <1>4, EndKeeps
<1>5. ASSUME NEW x \in Tx, TimeOut(x) PROVE IInv'
  <2>1. Rollback(x) /\ failed' \in Nat
    BY <1>5 DEF TimeOut, Fail, IInv, TypeOK
  <2> QED BY <2>1, RollbackKeeps
<1>6. CASE UNCHANGED vars
  BY <1>6 DEF vars, IInv, TypeOK, Worded, Apart, Carried, Told, OneTicket
<1> QED BY <1>1, <1>2, <1>3, <1>4, <1>5, <1>6 DEF Next

LEMMA Always == Spec => []IInv
<1> QED BY InitHolds, StepHolds, PTL DEF Spec

-----------------------------------------------------------------------------
(* A text has one call in its session, whatever is retried, and each call its *)
(* own keys; so its copies are those of one call.                             *)

Keys(op) == IF op = "append" THEN {"turn"} ELSE {"null", "digest"}

\* The copies among some rows are those of the call the partner chose.
Sorted(rows) ==
  \A s \in Sessions, text \in Texts, ref \in Ref :
    Message(s, text, ref) \in rows => via[s][text] # None /\ ref \in Keys(via[s][text])

\* A request carries its text by the call chosen for it, and only an open files.
Calls ==
  /\ Sorted(db)
  /\ \A x \in Tx : tx[x] # Idle =>
       /\ Sorted(tx[x].adds)
       /\ tx[x].text # None => via[tx[x].on][tx[x].text] = tx[x].op
       /\ tx[x].pc \in {"customer", "enlist", "file"} => tx[x].op = "open"

LEMMA MessageIs ==
  ASSUME NEW s, NEW text, NEW ref, NEW s2, NEW text2, NEW ref2,
         Message(s, text, ref) = Message(s2, text2, ref2)
  PROVE  s = s2 /\ text = text2 /\ ref = ref2
  BY DEF Message

\* A request goes on, and what it inserts is its own text's.
LEMMA CallsWithin ==
  ASSUME IInv, Calls, NEW x \in Tx, tx[x] # Idle, via' = via, db' = db,
         NEW pc, NEW rows, tx' = [tx EXCEPT ![x].pc = pc, ![x].adds = @ \cup rows],
         Sorted(rows),
         pc \in {"customer", "enlist", "file"} => tx[x].op = "open"
  PROVE  Calls'
<1>1. tx[x] \in Request /\ tx \in [Tx -> Request \cup {Idle}]
  BY DEF IInv, TypeOK
<1>2. /\ tx'[x].pc = pc /\ tx'[x].adds = tx[x].adds \cup rows /\ tx'[x].on = tx[x].on
      /\ tx'[x].text = tx[x].text /\ tx'[x].op = tx[x].op
      /\ \A y \in Tx \ {x} : tx'[y] = tx[y]
  BY <1>1 DEF Request
<1>3. ASSUME NEW y \in Tx, tx'[y] # Idle
      PROVE  /\ Sorted(tx'[y].adds)
             /\ tx'[y].text # None => via[tx'[y].on][tx'[y].text] = tx'[y].op
             /\ tx'[y].pc \in {"customer", "enlist", "file"} => tx'[y].op = "open"
  <2>1. CASE y = x
    <3>1. Sorted(tx[x].adds \cup rows)
      BY DEF Calls, Sorted
    <3> QED BY <1>2, <2>1, <3>1 DEF Calls
  <2>2. CASE y # x
    BY <1>2, <1>3, <2>2 DEF Calls
  <2> QED BY <2>1, <2>2
<1>4. \A y \in Tx : Sorted(tx'[y].adds) => Sorted(tx[y].adds)'
  BY DEF Sorted
<1>5. Sorted(db)'
  BY DEF Calls, Sorted
<1> QED BY <1>3, <1>4, <1>5 DEF Calls

LEMMA CallsStatement ==
  ASSUME IInv, Calls, NEW x \in Tx,
         \/ FindSession(x) \/ FindCustomer(x) \/ Enlist(x) \/ File(x)
         \/ Lookup(x) \/ InsertMessage(x)
  PROVE  Calls'
<1> DEFINE q == tx[x]
<1>0. /\ q.pc \in {"find", "customer", "enlist", "file", "lookup", "insert"} /\ q \in Request /\ q # Idle
      /\ tx \in [Tx -> Request \cup {Idle}]
  BY SlotIs DEF FindSession, FindCustomer, Enlist, File, Lookup, InsertMessage, IInv, TypeOK
<1>1. /\ q.on \in Sessions /\ q.text \in Texts \cup {None} /\ q.op \in {"open", "append"}
      /\ q.text # None => via[q.on][q.text] = q.op
      /\ q.pc \in {"customer", "enlist", "file"} => q.op = "open"
  BY <1>0 DEF Request, Calls
<1>2. ASSUME NEW pc, Goto(x, pc), pc \in {"customer", "enlist", "file"} => q.op = "open" PROVE Calls'
  <2>1. q = [q EXCEPT !.adds = @ \cup {}]
    BY <1>0 DEF Request
  <2>2. tx' = [tx EXCEPT ![x].pc = pc, ![x].adds = @ \cup {}]
    BY <1>0, <1>2, <2>1 DEF Goto, Request
  <2>3. Sorted({}) /\ via' = via /\ db' = db
    BY <1>2 DEF Sorted, Goto
  <2> QED BY <1>0, <1>2, <2>2, <2>3, CallsWithin
<1>3. ASSUME NEW row, NEW next, Insert(x, row, next), Sorted({row}),
             next \in {"customer", "enlist", "file"} => q.op = "open" PROVE Calls'
  <2>1. CASE row \in db
    <3>1. Goto(x, "failed")
      BY <1>0, <1>3, <2>1 DEF Insert, Goto, Request
    <3> QED BY <1>2, <3>1
  <2>2. CASE row \notin db
    <3>1. tx' = [tx EXCEPT ![x].pc = next, ![x].adds = @ \cup {row}] /\ via' = via /\ db' = db
      BY <1>3, <2>2 DEF Insert
    <3> QED BY <1>0, <1>3, <3>1, CallsWithin
  <2> QED BY <2>1, <2>2
<1>4. CASE FindSession(x) \/ FindCustomer(x) \/ Lookup(x)
  <2>1. \E pc : Goto(x, pc) /\ (pc \in {"customer", "enlist", "file"} => q.op = "open")
    BY <1>1, <1>4 DEF FindSession, FindCustomer, Lookup, Found
  <2> QED BY <1>2, <2>1
<1>5. CASE Enlist(x)
  <2>1. Sorted({Customer})
    BY DEF Sorted, Message, Customer
  <2> QED BY <1>1, <1>3, <1>5, <2>1 DEF Enlist
<1>6. CASE InsertMessage(x)
  <2>1. q.text \in Texts /\ q.text # None
    BY <1>1, <1>6 DEF InsertMessage, IInv, Worded
  <2>2. Keyed(x) = Message(q.on, q.text, IF q.op = "open" THEN "digest" ELSE "turn")
    BY DEF Keyed
  <2>3. via[q.on][q.text] = q.op /\ (IF q.op = "open" THEN "digest" ELSE "turn") \in Keys(q.op)
    BY <1>1, <2>1 DEF Keys
  <2>4. q.op # None
    BY <1>1, OpenAssumption
  <2>5. Sorted({Keyed(x)})
    <3> HIDE DEF q
    <3> QED BY <2>2, <2>3, <2>4, MessageIs DEF Sorted
  <2> QED BY <1>3, <1>6, <2>5 DEF InsertMessage
<1>7. CASE File(x)
  <2>1. CASE Session(q.on) \in db
    <3>1. Goto(x, "failed")
      BY <1>0, <1>7, <2>1 DEF File, Goto, Request
    <3> QED BY <1>2, <3>1
  <2>2. CASE Session(q.on) \notin db
    <3> DEFINE rows == {Session(q.on)} \cup Opener(q)
    <3>1. tx' = [tx EXCEPT ![x].pc = "done", ![x].adds = @ \cup rows] /\ via' = via /\ db' = db
      BY <1>7, <2>2 DEF File
    <3>2. q.op = "open" /\ "null" \in Keys(q.op) /\ q.op # None
      BY <1>1, <1>7, OpenAssumption DEF File, Keys
    <3>3. \A row \in rows : row = Session(q.on) \/ (q.text # None /\ row = Message(q.on, q.text, "null"))
      BY DEF Opener
    <3>4. Sorted(rows)
      <4> HIDE DEF q, rows
      <4> SUFFICES ASSUME NEW s \in Sessions, NEW text \in Texts, NEW ref \in Ref, Message(s, text, ref) \in rows
                   PROVE  via[s][text] # None /\ ref \in Keys(via[s][text])
        BY DEF Sorted
      <4>1. q.text # None /\ Message(s, text, ref) = Message(q.on, q.text, "null")
        BY <3>3, Rows
      <4>2. s = q.on /\ text = q.text /\ ref = "null"
        BY <4>1, MessageIs
      <4> QED BY <1>1, <3>2, <4>1, <4>2 DEF q
    <3> HIDE DEF rows
    <3> QED BY <1>0, <3>1, <3>2, <3>4, CallsWithin
  <2> QED BY <2>1, <2>2
<1> QED BY <1>4, <1>5, <1>6, <1>7

LEMMA CallsStep == ASSUME IInv, Calls, [Next]_vars PROVE Calls'
<1>0. tx \in [Tx -> Request \cup {Idle}] /\ via \in [Sessions -> [Texts -> {"open", "append", None}]]
  BY DEF IInv, TypeOK
<1>1. ASSUME NEW s \in Sessions, NEW text \in Texts \cup {None}, NEW x \in Tx, NEW op \in {"open", "append"},
             Start(x, op, s, text), db' = db,
             \A r \in Sessions, w \in Texts : via[r][w] # None => via'[r][w] = via[r][w],
             text # None => via'[s][text] = op
      PROVE  Calls'
  <2> DEFINE q == [op |-> op, pc |-> "find", on |-> s, text |-> text, adds |-> {}]
  <2>1. tx'[x] = q /\ \A y \in Tx \ {x} : tx'[y] = tx[y]
    BY <1>0, <1>1 DEF Start
  <2>2. q.op = op /\ q.pc = "find" /\ q.on = s /\ q.text = text /\ q.adds = {}
    OBVIOUS
  <2> HIDE DEF q
  <2>3. ASSUME NEW y \in Tx \ {x}, tx[y] # Idle, tx[y].text # None
        PROVE  via'[tx[y].on][tx[y].text] = tx[y].op
    <3>1. tx[y].on \in Sessions /\ tx[y].text \in Texts /\ tx[y].op # None
      BY <1>0, <2>3, OpenAssumption DEF Request
    <3> QED BY <1>1, <2>3, <3>1 DEF Calls
  <2>4. ASSUME NEW rows, Sorted(rows), NEW r \in Sessions, NEW w \in Texts, NEW ref \in Ref, Message(r, w, ref) \in rows
        PROVE  via'[r][w] # None /\ ref \in Keys(via'[r][w])
    BY <1>1, <2>4 DEF Sorted
  <2>5. Sorted(db)'
    BY <1>1, <2>4 DEF Calls, Sorted
  <2>6. \A y \in Tx : tx'[y] # Idle => Sorted(tx[y].adds)'
    BY <2>1, <2>2, <2>4 DEF Calls, Sorted
  <2>7. \A y \in Tx : tx'[y] # Idle /\ tx'[y].text # None => via'[tx'[y].on][tx'[y].text] = tx'[y].op
    BY <1>1, <2>1, <2>2, <2>3
  <2>8. \A y \in Tx : tx'[y] # Idle /\ tx'[y].pc \in {"customer", "enlist", "file"} => tx'[y].op = "open"
    BY <2>1, <2>2 DEF Calls
  <2> QED BY <2>5, <2>6, <2>7, <2>8 DEF Calls
<1>2. ASSUME NEW s \in Sessions, NEW text \in Texts, Send(s, text) PROVE Calls'
  <2>1. PICK x \in Tx, op \in {"open", "append"} : SendText(x, s, text, op)
    BY <1>2 DEF Send
  <2>2. Start(x, op, s, text) /\ db' = db /\ via' = [via EXCEPT ![s][text] = op]
        /\ (via[s][text] = op \/ via[s][text] = None)
    BY <2>1 DEF SendText, Start
  <2>3. via'[s][text] = op /\ \A r \in Sessions, w \in Texts : via[r][w] # None => via'[r][w] = via[r][w]
    BY <1>0, <2>2
  <2> QED BY <1>1, <2>2, <2>3
<1>3. ASSUME NEW x \in Tx, NEW s \in Sessions, Greet(x, s) PROVE Calls'
  BY <1>1, <1>3 DEF Greet, Start
<1>4. ASSUME NEW x \in Tx, Answer(x) \/ LoseAnswer(x) PROVE Calls'
  <2>1. Commit(x) /\ via' = via /\ tx[x] # Idle
    BY <1>4 DEF Answer, LoseAnswer, Commit, Idle
  <2>2. db' = db \cup tx[x].adds /\ tx'[x] = Idle /\ \A y \in Tx \ {x} : tx'[y] = tx[y]
    BY <1>0, <2>1 DEF Commit
  <2>3. Sorted(db)'
    BY <2>1, <2>2 DEF Calls, Sorted
  <2> QED BY <2>1, <2>2, <2>3 DEF Calls, Sorted
<1>5. ASSUME NEW x \in Tx, Crash(x) \/ TimeOut(x) PROVE Calls'
  <2>1. via' = via /\ db' = db /\ tx'[x] = Idle /\ \A y \in Tx \ {x} : tx'[y] = tx[y]
    BY <1>0, <1>5 DEF Crash, TimeOut, Rollback
  <2> QED BY <2>1 DEF Calls, Sorted
<1>6. CASE UNCHANGED vars
  BY <1>6 DEF vars, Calls, Sorted
<1> QED BY <1>2, <1>3, <1>4, <1>5, <1>6, CallsStatement DEF Next, Progress

LEMMA CallsInit == Init => Calls
  BY DEF Init, Calls, Sorted

\* The copies of one call are one, or the opener's two.
LEMMA CopiesOfACall ==
  ASSUME TypeOK, Calls
  PROVE  OnlyTheOpenerDoubles
<1> SUFFICES ASSUME NEW s \in Sessions, NEW text \in Texts
             PROVE  \/ Cardinality({row \in db : row[1] = "message" /\ row[2] = s /\ row[3] = text}) <= 1
                    \/ Copies(s, text) = {"null", "digest"}
  BY DEF OnlyTheOpenerDoubles
<1> DEFINE rows == {row \in db : row[1] = "message" /\ row[2] = s /\ row[3] = text}
<1>1. \A row \in rows : \E ref \in Copies(s, text) : row = Message(s, text, ref)
  <2> SUFFICES ASSUME NEW row \in rows PROVE \E ref \in Copies(s, text) : row = Message(s, text, ref)
    OBVIOUS
  <2>1. row \in Row /\ row[1] = "message"
    BY DEF TypeOK
  <2>2. Customer[1] # "message" /\ \A t : Session(t)[1] # "message"
    BY DEF Customer, Session
  <2>3. PICK t \in Sessions, w \in Texts, ref \in Ref : row = Message(t, w, ref)
    BY <2>1, <2>2 DEF Row
  <2>4. t = s /\ w = text
    BY <2>3 DEF Message
  <2> QED BY <2>3, <2>4 DEF Copies
<1>2. Copies(s, text) \subseteq {"turn"} \/ Copies(s, text) \subseteq {"null", "digest"}
  BY DEF Calls, Sorted, Copies, Keys
<1>3. CASE Copies(s, text) = {"null", "digest"}
  BY <1>3
<1>4. CASE Copies(s, text) # {"null", "digest"}
  <2>1. PICK ref : Copies(s, text) \subseteq {ref}
    BY <1>2, <1>4
  <2>2. rows \subseteq {Message(s, text, ref)}
    BY <1>1, <2>1
  <2> HIDE DEF rows
  <2>3. Cardinality({Message(s, text, ref)}) = 1 /\ IsFiniteSet({Message(s, text, ref)})
    BY FS_Singleton
  <2>4. Cardinality(rows) <= Cardinality({Message(s, text, ref)})
    BY <2>2, <2>3, FS_Subset
  <2> QED BY <2>3, <2>4 DEF rows
<1> QED BY <1>3, <1>4

-----------------------------------------------------------------------------
\* Tables, requests and the partner's knowledge keep their types.
THEOREM Typed == Spec => []TypeOK
<1>1. IInv => TypeOK
  BY DEF IInv
<1> QED BY <1>1, Always, PTL

\* No open or append is answered with success and its text dropped
\* (openConversation, appendMessage), whatever races, times out or is retried.
THEOREM ToldIsStored == Spec => []AnsweredIsStored
<1>1. IInv => AnsweredIsStored
  BY DEF IInv, Told, Stored, AnsweredIsStored, Copies
<1> QED BY <1>1, Always, PTL

\* However often and however concurrently a session is opened, it has one
\* ticket, and a ticket has its session (openConversation).
THEOREM OneTicketEach == Spec => []OneTicket
<1>1. IInv => OneTicket
  BY DEF IInv
<1> QED BY <1>1, Always, PTL

\* However a text is raced and retried, it is stored once, or twice if its ticket
\* was opened with it (openConversation, appendMessage).
THEOREM StoredOnceOrOpener == Spec => []OnlyTheOpenerDoubles
<1>1. IInv /\ Calls => OnlyTheOpenerDoubles
  BY CopiesOfACall DEF IInv
<1>2. IInv /\ Calls /\ [Next]_vars => Calls'
  BY CallsStep
<1> QED BY <1>1, <1>2, CallsInit, Always, PTL DEF Spec
===========================================================================
