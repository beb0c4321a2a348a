----------------------------- MODULE ChatOpen -----------------------------
(***************************************************************************)
(* A chatbot files what visitors type: POST /chat/open and                 *)
(* POST /chat/:sessionRef/messages (chat.module), retried by the partner   *)
(* until an answer arrives.                                                *)
(*                                                                         *)
(* Each request is one transaction of several statements, and the partner  *)
(* may repeat a request that is still running.  What arbitrates is unique  *)
(* keys: on customers (visitor), chat_sessions (chatbot, sessionRef) and   *)
(* ticket_messages (ticket, externalRef).  An INSERT of a key that another *)
(* transaction has inserted and not committed waits for it; of one that is *)
(* committed, it fails.  The code catches that and reads again, but inside *)
(* the request's transaction, which PostgreSQL has aborted: every later    *)
(* statement fails too, and the answer is a 500.                           *)
(*                                                                         *)
(* One chatbot and one visitor.  Left out: what a message does to its      *)
(* ticket (TicketLifecycle), bot messages and messages without an          *)
(* externalRef, which may be posted twice by contract.                     *)
(***************************************************************************)
EXTENDS Naturals, FiniteSets

CONSTANTS
  Sessions,   \* the partner's sessionRefs
  Texts,      \* what the visitor types, each once in a session
  Tx,         \* requests that may run at once
  Failures,   \* bound: requests that time out and answers that are lost
  None        \* null

ASSUME OpenAssumption ==
  /\ Failures \in Nat
  /\ None \notin Texts \cup Sessions \cup {"open", "append"}

VARIABLES
  db,      \* the committed rows
  filed,   \* how many tickets were created for each session
  tx,      \* the requests in flight
  via,     \* the call the partner chose for each text
  known,   \* the sessions whose open was answered
  told,    \* the texts whose call was answered
  failed   \* failures so far

vars == <<db, filed, tx, via, known, told, failed>>

\* externalRef of a message: null in the INSERT of its ticket, a digest of the
\* text in an open that finds its session, the partner's id in an append.
Ref == {"null", "digest", "turn"}

\* Rows, by their unique keys.
Customer == <<"customer">>
Session(s) == <<"session", s>>
Message(s, text, ref) == <<"message", s, text, ref>>

Row == {Customer} \cup {Session(s) : s \in Sessions}
         \cup {Message(s, text, ref) : s \in Sessions, text \in Texts, ref \in Ref}

Idle == [op |-> "idle", pc |-> "idle", on |-> None, text |-> None, adds |-> {}]

\* adds: the rows inserted and not committed.
Request == [op : {"open", "append"},
            pc : {"find", "customer", "enlist", "file", "lookup", "insert", "done", "failed"},
            on : Sessions, text : Texts \cup {None}, adds : SUBSET Row]

TypeOK ==
  /\ db \subseteq Row
  /\ filed \in [Sessions -> Nat]
  /\ tx \in [Tx -> Request \cup {Idle}]
  /\ via \in [Sessions -> [Texts -> {"open", "append", None}]]
  /\ known \subseteq Sessions
  /\ told \subseteq Sessions \X Texts
  /\ failed \in Nat

Init ==
  /\ db = {}
  /\ filed = [s \in Sessions |-> 0]
  /\ tx = [x \in Tx |-> Idle]
  /\ via = [s \in Sessions |-> [text \in Texts |-> None]]
  /\ known = {} /\ told = {}
  /\ failed = 0

-----------------------------------------------------------------------------
(* The partner.  It opens until an open is answered, carrying what the      *)
(* visitor typed last, and appends from then on; a text is retried by the   *)
(* call it was first sent by.                                               *)

Start(x, op, s, text) ==
  /\ tx[x] = Idle
  /\ tx' = [tx EXCEPT ![x] = [op |-> op, pc |-> "find", on |-> s, text |-> text, adds |-> {}]]
  /\ UNCHANGED <<db, filed, known, told, failed>>

SendText(x, s, text, op) ==
  /\ <<s, text>> \notin told
  /\ via[s][text] = op \/ (via[s][text] = None /\ (op = "append" <=> s \in known))
  /\ via' = [via EXCEPT ![s][text] = op]
  /\ Start(x, op, s, text)

\* An open without a message, at any time.
Greet(x, s) == Start(x, "open", s, None) /\ UNCHANGED via

-----------------------------------------------------------------------------
(* The statements of a request. *)

Goto(x, pc) ==
  /\ tx' = [tx EXCEPT ![x].pc = pc]
  /\ UNCHANGED <<db, filed, via, known, told, failed>>

\* An INSERT, in the absence of a waiting one.
Insert(x, row, next) ==
  /\ \A y \in Tx \ {x} : row \notin tx[y].adds
  /\ tx' = [tx EXCEPT ![x].pc = IF row \in db THEN "failed" ELSE next,
                      ![x].adds = IF row \in db THEN @ ELSE @ \cup {row}]
  /\ UNCHANGED <<db, filed, via, known, told, failed>>

DropsMessage(q) == "done"                                      \* mutant

\* An open that finds its session appends its message.
Found(q) == IF q.text = None THEN "done" ELSE "lookup"

FindSession(x) ==
  LET q == tx[x] IN
  /\ q.pc = "find"
  /\ IF Session(q.on) \in db THEN Goto(x, Found(q))
     ELSE q.op = "open" /\ Goto(x, "customer")

\* findOrCreateByEmail, findOrCreateVisitor
FindCustomer(x) ==
  /\ tx[x].pc = "customer"
  /\ Goto(x, IF Customer \in db THEN "file" ELSE "enlist")

Enlist(x) == tx[x].pc = "enlist" /\ Insert(x, Customer, "file")

Opener(q) == {Message(q.on, text, "null") : text \in {q.text} \ {None}}

\* The ticket, its first message, and the session.  A ticket has no key.
File(x) ==
  LET q == tx[x] IN
  /\ q.pc = "file"
  /\ \A y \in Tx \ {x} : Session(q.on) \notin tx[y].adds
  /\ tx' = [tx EXCEPT ![x].pc = IF Session(q.on) \in db THEN "failed" ELSE "done",
                      ![x].adds = IF Session(q.on) \in db THEN @
                                  ELSE @ \cup {Session(q.on)} \cup Opener(q)]
  /\ UNCHANGED <<db, filed, via, known, told, failed>>

\* mutant: a key of the request's own
KeyedByRequest(x) == Message(tx[x].on, tx[x].text, x)

Keyed(x) == Message(tx[x].on, tx[x].text, IF tx[x].op = "open" THEN "digest" ELSE "turn")

NeverSeen(x) == FALSE                                          \* mutant

Seen(x) == Keyed(x) \in db

Lookup(x) == tx[x].pc = "lookup" /\ Goto(x, IF Seen(x) THEN "done" ELSE "insert")

InsertMessage(x) == tx[x].pc = "insert" /\ Insert(x, Keyed(x), "done")

-----------------------------------------------------------------------------
(* The end of a request. *)

Files(q) == IF Session(q.on) \in q.adds THEN 1 ELSE 0

Commit(x) ==
  LET q == tx[x] IN
  /\ q.pc = "done"
  /\ db' = db \cup q.adds
  /\ filed' = [filed EXCEPT ![q.on] = @ + Files(q)]
  /\ tx' = [tx EXCEPT ![x] = Idle]

Answer(x) ==
  LET q == tx[x] IN
  /\ Commit(x)
  /\ known' = IF q.op = "open" THEN known \cup {q.on} ELSE known
  /\ told' = told \cup ({q.on} \X ({q.text} \ {None}))
  /\ UNCHANGED <<via, failed>>

Fail == failed < Failures /\ failed' = failed + 1

\* The partner's own timeout, or the network's fault.
LoseAnswer(x) == Commit(x) /\ Fail /\ UNCHANGED <<via, known, told>>

LeavesTicket(x) == IF tx[x].pc = "failed" THEN 1 ELSE 0  \* mutant: two independent writes

\* What survives a rollback.
Leftover(x) == 0

Rollback(x) ==
  /\ tx' = [tx EXCEPT ![x] = Idle]
  /\ filed' = IF tx[x] = Idle THEN filed ELSE [filed EXCEPT ![tx[x].on] = @ + Leftover(x)]
  /\ UNCHANGED <<db, via, known, told>>

\* The 500 after a failed INSERT.
Crash(x) == tx[x].pc = "failed" /\ Rollback(x) /\ UNCHANGED failed

TimeOut(x) == tx[x] # Idle /\ Rollback(x) /\ Fail

Progress(x) ==
  \/ FindSession(x) \/ FindCustomer(x) \/ Enlist(x) \/ File(x)
  \/ Lookup(x) \/ InsertMessage(x)
  \/ Answer(x) \/ Crash(x)

Send(s, text) == \E x \in Tx, op \in {"open", "append"} : SendText(x, s, text, op)

Next ==
  \/ \E s \in Sessions, text \in Texts : Send(s, text)
  \/ \E x \in Tx, s \in Sessions : Greet(x, s)
  \/ \E x \in Tx : Progress(x) \/ LoseAnswer(x) \/ TimeOut(x)

Spec == Init /\ [][Next]_vars

\* The server goes on with what it has begun, the partner retries every text
\* for as long as it has no answer, and failures are bounded.
FairSpec ==
  /\ Spec
  /\ \A x \in Tx : WF_vars(Progress(x))
  /\ \A s \in Sessions, text \in Texts : SF_vars(Send(s, text))

-----------------------------------------------------------------------------
Copies(s, text) == {ref \in Ref : Message(s, text, ref) \in db}

\* "Returning the existing session and dropping message on the floor made that
\* a silent 200" (openConversation): what the partner was told is filed, is.
AnsweredIsStored == \A s \in Sessions, text \in Texts : <<s, text>> \in told => Copies(s, text) # {}

\* "The desk ends up with the question twice and answers into the copy the
\* student cannot see": one ticket for a session, and none without one.
OneTicket == \A s \in Sessions : filed[s] = IF Session(s) \in db THEN 1 ELSE 0

\* Retries store a text once more at most, and only the one its ticket was
\* opened with.
OnlyTheOpenerDoubles ==
  \A s \in Sessions, text \in Texts :
    \/ Cardinality({row \in db : row[1] = "message" /\ row[2] = s /\ row[3] = text}) <= 1
    \/ Copies(s, text) = {"null", "digest"}

\* Whoever goes on retrying is answered: a request that lost a race is not led
\* into the same race again.
EventuallyAnswered ==
  \A s \in Sessions, text \in Texts : via[s][text] # None ~> <<s, text>> \in told

===========================================================================
