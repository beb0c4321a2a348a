------------------------------- MODULE Mail -------------------------------
(***************************************************************************)
(* Replies leave by e-mail and answers come back (messages.service,        *)
(* queue.producer, processors, email.service, email.controller).           *)
(*                                                                         *)
(* Out: a request stores a reply and calls sendEmail without waiting for   *)
(* it.  That call asks the request's own transaction for its workspace and *)
(* adds a job to Redis; the request may commit, or roll back, before,      *)
(* between or after the two.  A worker sends the mail and then stores its  *)
(* Message-ID, in one transaction that may still fail.                     *)
(*                                                                         *)
(* In: a provider posts a letter until it gets an answer.  The desk is     *)
(* decided at the door, by recipient address; a worker threads the letter  *)
(* onto a ticket of that desk, in one transaction.                         *)
(*                                                                         *)
(* Both queues give a job up after Attempts runs.  Left out: merges, the   *)
(* customer's row (ChatOpen has it), bodies and attachments.               *)
(***************************************************************************)
EXTENDS Naturals, Sequences, FiniteSets

CONSTANTS
  Desks,      \* workspaces, each with a ticket number 1
  Active,     \* the desks that are not suspended
  Address,    \* recipient addresses
  BaseOf,     \* an address without its "+tag"
  From,       \* smtp.from, the sender of every mail and so where answers go
  Replies,    \* public replies, each to ticket 1 of its desk
  DeskOf,     \* the desk of a reply
  Letters,    \* what customers write
  Payloads,   \* the recipients letters may carry
  Attempts,   \* DEFAULT_JOB_OPTS.attempts
  Failures,   \* bound: runs, answers and enqueues that fail
  None

\* answers: the reply it answers; id, number: it kept In-Reply-To, the subject;
\* drop: it names no sender, or an auto-responder sent it; desks: where the door
\* let it in; posts: how often.
Letter == [state : {"posting", "over"}, to : Payloads \cup {None}, answers : Replies \cup {None},
           id : BOOLEAN, number : BOOLEAN, drop : BOOLEAN, desks : SUBSET Desks, posts : Nat]

ASSUME MailAssumption ==
  /\ Active \subseteq Desks
  /\ BaseOf \in [Address -> Address]
  /\ From \in Address
  /\ DeskOf \in [Replies -> Desks]
  /\ Payloads \subseteq [delivery : Seq(Address), headers : SUBSET Address]
  /\ Attempts \in Nat \ {0}
  /\ Failures \in Nat
  /\ None \notin Desks \cup Replies \cup Address \cup Letter

VARIABLES
  inbox,    \* workspaces.inbound_email
  mute,     \* the replies to customers without an address, or in a chat
  reply,    \* the transaction of each reply
  job,      \* its job: where it is, whether it names a desk, how often it ran
  mailed,   \* the replies some mail of which has left
  ref,      \* the replies whose Message-ID is stored
  letter,   \* what each letter is and what the provider knows of it
  parse,    \* the inbound jobs
  filed,    \* the tickets a letter's messages are on, one entry per message
  opened,   \* the highest ticket number of each desk
  failed    \* failures so far

outVars == <<mute, reply, job, mailed, ref>>
inVars == <<letter, parse, filed, opened>>
vars == <<inbox, outVars, inVars, failed>>

Ticket == Desks \X Nat

NoJob == [at |-> "none", stamp |-> FALSE, runs |-> 0]

Job == [at : {"none", "asking", "adding", "queued", "sending", "sent", "done", "dead", "lost"},
        stamp : BOOLEAN, runs : 0 .. Attempts]

\* copy: the how many-eth post it came with.
Parse == [letter : Letters, desk : Desks, copy : Nat, runs : 0 .. Attempts]

TypeOK ==
  /\ inbox \in [Desks -> Address \cup {None}]
  /\ mute \subseteq Replies
  /\ reply \in [Replies -> {"none", "open", "stored", "gone"}]
  /\ job \in [Replies -> Job]
  /\ mailed \subseteq Replies
  /\ ref \subseteq mailed
  /\ letter \in [Letters -> Letter \cup {None}]
  /\ parse \subseteq Parse
  /\ filed \in [Letters -> Seq(Ticket)]
  /\ opened \in [Desks -> Nat]
  /\ failed \in Nat

Init ==
  /\ inbox \in [Desks -> Address \cup {None}]
  /\ \A d, e \in Desks : inbox[d] = inbox[e] /\ inbox[d] # None => d = e
  /\ mute \in SUBSET Replies
  /\ reply = [r \in Replies |-> "none"]
  /\ job = [r \in Replies |-> NoJob]
  /\ mailed = {} /\ ref = {}
  /\ letter = [l \in Letters |-> None]
  /\ parse = {}
  /\ filed = [l \in Letters |-> <<>>]
  /\ opened = [d \in Desks |-> 1]
  /\ failed = 0

Fail == failed < Failures /\ failed' = failed + 1

-----------------------------------------------------------------------------
(* An administrator chooses the desk's address; one address, one desk. *)

SetInboundAddress(d, a) ==
  /\ a = None \/ \A e \in Desks \ {d} : inbox[e] # a
  /\ inbox' = [inbox EXCEPT ![d] = a]
  /\ UNCHANGED <<outVars, inVars, failed>>

-----------------------------------------------------------------------------
(* Out: the request. *)

Goto(r, at) == job' = [job EXCEPT ![r].at = at]

Reply(r) ==
  /\ reply[r] = "none"
  /\ reply' = [reply EXCEPT ![r] = "open"]
  /\ Goto(r, "asking")
  /\ UNCHANGED <<inbox, mute, mailed, ref, inVars, failed>>

EndReply(r, state) ==
  /\ reply[r] = "open"
  /\ reply' = [reply EXCEPT ![r] = state]
  /\ UNCHANGED <<inbox, mute, job, mailed, ref, inVars, failed>>

\* currentWorkspaceId: on a transaction that is over the query fails, and the
\* job will name no desk.
Ask(r) ==
  /\ job[r].at = "asking"
  /\ job' = [job EXCEPT ![r] = [@ EXCEPT !.at = "adding", !.stamp = (reply[r] = "open")]]
  /\ UNCHANGED <<inbox, mute, reply, mailed, ref, inVars, failed>>

Add(r) ==
  /\ job[r].at = "adding"
  /\ Goto(r, "queued")
  /\ UNCHANGED <<inbox, mute, reply, mailed, ref, inVars, failed>>

\* safeAdd swallows the error.
LoseJob(r) ==
  /\ job[r].at = "adding"
  /\ Goto(r, "lost")
  /\ Fail
  /\ UNCHANGED <<inbox, mute, reply, mailed, ref, inVars>>

-----------------------------------------------------------------------------
(* Out: the worker. *)

SeesUncommitted(r) == reply[r] \in {"open", "stored"} /\ r \notin mute  \* mutant: as if the job carried the reply

\* The message is found, and its customer reads mail.
Sends(r) == reply[r] = "stored" /\ r \notin mute

OneRun(runs) == Attempts  \* mutant: a job that runs once

NextRun(runs) == runs + 1

\* A run that throws: another one follows, with a delay, or none.
Throw(r) ==
  LET runs == NextRun(job[r].runs) IN
  job' = [job EXCEPT ![r].runs = runs, ![r].at = IF runs = Attempts THEN "dead" ELSE "queued"]

\* requireWorkspace, then sendTicketReply's reads.
BeginSend(r) ==
  /\ job[r].at = "queued"
  /\ IF ~job[r].stamp THEN Throw(r)
     ELSE Goto(r, IF Sends(r) THEN "sending" ELSE "done")
  /\ UNCHANGED <<inbox, mute, reply, mailed, ref, inVars, failed>>

SendMail(r) ==
  /\ job[r].at = "sending"
  /\ mailed' = mailed \cup {r}
  /\ Goto(r, "sent")
  /\ UNCHANGED <<inbox, mute, reply, ref, inVars, failed>>

FinishSend(r) ==
  /\ job[r].at = "sent"
  /\ ref' = ref \cup {r}
  /\ Goto(r, "done")
  /\ UNCHANGED <<inbox, mute, reply, mailed, inVars, failed>>

\* SMTP or the database fails, or the transaction runs out of time: what has
\* left stays sent.
FailSend(r) ==
  /\ job[r].at \in {"sending", "sent"}
  /\ Throw(r)
  /\ Fail
  /\ UNCHANGED <<inbox, mute, reply, mailed, ref, inVars>>

-----------------------------------------------------------------------------
(* In: the door. *)

Owner(a) == {d \in Desks : inbox[d] = a}

\* The desk of one delivery address: its own before its base's.
DeskAt(a) == IF Owner(a) # {} THEN Owner(a) ELSE Owner(BaseOf[a])

HeadersFirst(to) ==    \* mutant: an exact To: before a tagged envelope
  LET exact == UNION {Owner(a) : a \in to.headers}
      hits == {i \in DOMAIN to.delivery : DeskAt(to.delivery[i]) # {}}
  IN  IF exact # {} THEN exact
      ELSE IF hits = {} THEN {}
      ELSE DeskAt(to.delivery[CHOOSE i \in hits : \A j \in hits : i <= j])

\* The delivery path is exhausted before a header is consulted; headers that
\* name two desks name none.
Named(to) ==
  LET hits == {i \in DOMAIN to.delivery : DeskAt(to.delivery[i]) # {}}
      exact == UNION {Owner(a) : a \in to.headers}
      base == UNION {Owner(BaseOf[a]) : a \in to.headers}
  IN  IF hits # {} THEN DeskAt(to.delivery[CHOOSE i \in hits : \A j \in hits : i <= j])
      ELSE IF exact # {} THEN exact ELSE base

RouteInbound(to) == IF Cardinality(Named(to)) = 1 THEN Named(to) \cap Active ELSE {}

\* A customer writes, or answers a mail; the answer goes to its sender.
Write(l, to, r, id, number, drop) ==
  /\ letter[l] = None
  /\ IF r = None THEN ~id /\ ~number ELSE r \in mailed /\ to.delivery = <<From>>
  /\ letter' = [letter EXCEPT ![l] = [state |-> "posting", to |-> to, answers |-> r, id |-> id,
                                      number |-> number, drop |-> drop, desks |-> {}, posts |-> 0]]
  /\ UNCHANGED <<inbox, outVars, parse, filed, opened, failed>>

\* Refused with 422: the provider bounces it.
Refuse(l) ==
  /\ letter[l] # None /\ letter[l].state = "posting"
  /\ RouteInbound(letter[l].to) = {}
  /\ letter' = [letter EXCEPT ![l].state = "over", ![l].to = None]
  /\ UNCHANGED <<inbox, outVars, parse, filed, opened, failed>>

Accept(l, state, to) ==
  /\ letter[l] # None /\ letter[l].state = "posting"
  /\ \E d \in RouteInbound(letter[l].to) :
       /\ letter' = [letter EXCEPT ![l].state = state, ![l].to = to, ![l].desks = @ \cup {d}, ![l].posts = @ + 1]
       /\ parse' = parse \cup {[letter |-> l, desk |-> d, copy |-> letter[l].posts, runs |-> 0]}
  /\ UNCHANGED <<inbox, outVars, filed, opened>>

\* The 202, and one that is lost: the provider posts again.
Post(l) == Accept(l, "over", None) /\ UNCHANGED failed
PostTwice(l) == letter[l] # None /\ Accept(l, "posting", letter[l].to) /\ Fail

-----------------------------------------------------------------------------
(* In: the worker. *)

IdOnly(j) ==          \* mutant: threads by In-Reply-To only
  LET l == letter[j.letter] IN
  {<<DeskOf[r], 1>> : r \in {r \in ref : l.id /\ l.answers = r /\ DeskOf[r] = j.desk}}

\* In-Reply-To, if that mail's id is stored, or else the number in the subject,
\* both within the job's desk.
Threads(j) ==
  LET l == letter[j.letter]
      byId == {r \in ref : l.id /\ l.answers = r /\ DeskOf[r] = j.desk}
  IN  IF byId # {} \/ l.number THEN {<<j.desk, 1>>} ELSE {}

Store(j) ==
  IF Threads(j) # {}
  THEN /\ filed' = [filed EXCEPT ![j.letter] = Append(@, CHOOSE t \in Threads(j) : TRUE)]
       /\ UNCHANGED opened
  ELSE /\ opened' = [opened EXCEPT ![j.desk] = @ + 1]
       /\ filed' = [filed EXCEPT ![j.letter] = Append(@, <<j.desk, opened'[j.desk]>>)]

\* The door does not look at the sender: it is the job that drops the letter, and
\* ends well.
ProcessInbound(j) ==
  IF letter[j.letter].drop THEN UNCHANGED <<filed, opened>> ELSE Store(j)

File(j) ==
  /\ j \in parse
  /\ ProcessInbound(j)
  /\ parse' = parse \ {j}
  /\ UNCHANGED <<inbox, outVars, letter, failed>>

Rerun(j) ==
  parse' = (parse \ {j}) \cup (IF NextRun(j.runs) = Attempts THEN {}
                               ELSE {[j EXCEPT !.runs = NextRun(@)]})

\* The worker dies between the commit and the job's acknowledgement.
Stall(j) ==
  /\ j \in parse
  /\ ProcessInbound(j)
  /\ Rerun(j)
  /\ Fail
  /\ UNCHANGED <<inbox, outVars, letter>>

FailFile(j) ==
  /\ j \in parse
  /\ Rerun(j)
  /\ Fail
  /\ UNCHANGED <<inbox, outVars, letter, filed, opened>>

-----------------------------------------------------------------------------
Out(r) == Ask(r) \/ Add(r) \/ BeginSend(r) \/ SendMail(r) \/ FinishSend(r)

In(l) == Refuse(l) \/ Post(l) \/ \E j \in parse : j.letter = l /\ File(j)

Next ==
  \/ \E d \in Desks, a \in Address \cup {None} : SetInboundAddress(d, a)
  \/ \E r \in Replies :
       \/ Reply(r) \/ EndReply(r, "stored") \/ EndReply(r, "gone")
       \/ Out(r) \/ LoseJob(r) \/ FailSend(r)
  \/ \E l \in Letters :
       \/ \E to \in Payloads, r \in Replies \cup {None}, id, number, drop \in BOOLEAN :
            Write(l, to, r, id, number, drop)
       \/ In(l) \/ PostTwice(l)
  \/ \E j \in parse : Stall(j) \/ FailFile(j)

Spec == Init /\ [][Next]_vars

\* The workers go on, and the provider goes on posting.
FairSpec ==
  /\ Spec
  /\ \A r \in Replies : WF_vars(Out(r))
  /\ \A l \in Letters : WF_vars(In(l))

-----------------------------------------------------------------------------
\* Nothing leaves for a reply that is not stored, though its job may be there
\* before the reply is and outlive its rollback, and nothing to whom mail is
\* not for (sendTicketReply).
OnlyStoredIsMailed == \A r \in mailed : reply[r] = "stored" /\ r \notin mute

\* A letter is stored on desks that let it in and on no other, whatever its
\* subject says ("what must not happen is dropping back to number alone",
\* processInbound), and an answer that reaches the desk it answers joins that
\* conversation as long as it kept the subject, also when the mail left in a
\* transaction that failed and its id was never stored.
AnswerThreads ==
  \A l \in Letters : \A i \in DOMAIN filed[l] :
    LET desk == filed[l][i][1] IN
    /\ desk \in letter[l].desks
    /\ letter[l].number /\ desk = DeskOf[letter[l].answers] => filed[l][i][2] = 1

\* "Letting an exact To: match jump ahead of a +tag envelope match would hand
\* the sender back the choice of desk" (routeInbound): what the sender wrote has
\* no say once the delivery path names a desk.
SenderHasNoSay ==
  \A to \in Payloads : \A h \in SUBSET Address :
    (\E i \in DOMAIN to.delivery : DeskAt(to.delivery[i]) # {})
      => RouteInbound([to EXCEPT !.headers = h]) = RouteInbound(to)

\* A reply that is stored when its job is queued, and the job names the desk,
\* is mailed in the end.
EventuallyMailed ==
  \A r \in Replies :
    r \notin mute /\ reply[r] = "stored" /\ job[r].at = "queued" /\ job[r].stamp ~> r \in mailed

\* Whatever was accepted at the door is on a ticket in the end, unless it is of the
\* kind that processInbound drops ("or null when dropped (auto-responders)").
AcceptedIsFiled ==
  \A l \in Letters :
    letter[l] # None /\ letter[l].desks # {} /\ ~letter[l].drop ~> filed[l] # <<>>

===========================================================================
