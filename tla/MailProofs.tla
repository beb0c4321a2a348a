----------------------------- MODULE MailProofs -----------------------------
(***************************************************************************)
(* The proofs of OnlyStoredIsMailed, AnswerThreads and SenderHasNoSay, for *)
(* any desks, addresses, replies and letters.                              *)
(*                                                                         *)
(* Out: a worker is past its read of the message only for a reply that is  *)
(* stored for good (Outgoing); that the job is added before the commit, or *)
(* outlives a rollback, does not enter.  In: a job carries the desk of the *)
(* door (Incoming), and what the desk threads on is fixed with the letter. *)
(***************************************************************************)
EXTENDS Mail, TLAPS

\* Only a reply that was written has a job.  A job that runs has runs left; one past
\* its read of the message is for a reply that may be mailed, and so was every mail.
Outgoing ==
  \A r \in Replies :
    /\ reply[r] = "none" => job[r].at = "none"
    /\ job[r].at = "dead" \/ job[r].runs < Attempts
    /\ job[r].at \in {"sending", "sent"} => Sends(r)
    /\ job[r].at = "sent" => r \in mailed
    /\ r \in mailed => Sends(r)

\* An inbound job is about a letter that the door let in on the job's desk; what was
\* filed is on such a desk, and on its conversation if the subject names it.
Incoming ==
  /\ \A j \in parse : /\ j.runs < Attempts
                      /\ letter[j.letter] # None
                      /\ j.desk \in letter[j.letter].desks
  /\ \A l \in Letters :
       /\ letter[l] = None => filed[l] = <<>>
       /\ \A i \in DOMAIN filed[l] : /\ filed[l][i][1] \in letter[l].desks
                                     /\ letter[l].number => filed[l][i][2] = 1

Inv == TypeOK /\ Outgoing /\ Incoming

-----------------------------------------------------------------------------
(* Out. *)

\* One job changes, to one that is typed and keeps to the invariant.
LEMMA JobStep ==
  ASSUME TypeOK, Outgoing, NEW r \in Replies, NEW q \in Job,
         job' = [job EXCEPT ![r] = q],
         mute' = mute, mailed \subseteq mailed', mailed' \subseteq mailed \cup {r},
         \A x \in Replies \ {r} : reply'[x] = reply[x],
         reply'[r] # "none",
         q.at = "dead" \/ q.runs < Attempts,
         q.at \in {"sending", "sent"} => Sends(r)',
         q.at = "sent" => r \in mailed',
         r \in mailed' => Sends(r)'
  PROVE  job' \in [Replies -> Job] /\ Outgoing'
<1>1. job' \in [Replies -> Job]
  BY DEF TypeOK
<1>2. job'[r] = q /\ \A x \in Replies \ {r} : job'[x] = job[x]
  BY DEF TypeOK
<1>3. \A x \in Replies \ {r} : Sends(x)' = Sends(x) /\ (x \in mailed' <=> x \in mailed)
  BY DEF Sends
<1>4. ASSUME NEW x \in Replies
      PROVE  /\ reply'[x] = "none" => job'[x].at = "none"
             /\ job'[x].at = "dead" \/ job'[x].runs < Attempts
             /\ job'[x].at \in {"sending", "sent"} => Sends(x)'
             /\ job'[x].at = "sent" => x \in mailed'
             /\ x \in mailed' => Sends(x)'
  <2>1. CASE x = r
    BY <1>2, <2>1
  <2>2. CASE x # r
    BY <1>2, <1>3, <2>2 DEF Outgoing
  <2> QED BY <2>1, <2>2
<1> QED BY <1>1, <1>4 DEF Outgoing

\* Only the job's place changes, and the reply, if it does, is not one that was mailed.
LEMMA GotoStep ==
  ASSUME TypeOK, Outgoing, NEW r \in Replies, NEW at, Goto(r, at),
         at \in {"asking", "adding", "queued", "sending", "sent", "done", "lost"},
         job[r].at # "dead",
         mute' = mute, mailed \subseteq mailed', mailed' \subseteq mailed \cup {r},
         \A x \in Replies \ {r} : reply'[x] = reply[x],
         reply'[r] # "none",
         at \in {"sending", "sent"} => Sends(r)',
         at = "sent" => r \in mailed',
         r \in mailed' => Sends(r)'
  PROVE  job' \in [Replies -> Job] /\ Outgoing'
<1> DEFINE q == [job[r] EXCEPT !.at = at]
<1>1. q \in Job /\ q.at = at /\ q.runs = job[r].runs
  BY DEF TypeOK, Job
<1>2. job' = [job EXCEPT ![r] = q]
  BY DEF Goto
<1>3. q.runs < Attempts
  BY <1>1 DEF Outgoing
<1> HIDE DEF q
<1> QED BY <1>1, <1>2, <1>3, JobStep

\* A run that throws leaves the job waiting with a run left, or dead.
LEMMA ThrowStep ==
  ASSUME TypeOK, Outgoing, NEW r \in Replies, Throw(r), job[r].at \notin {"none", "dead"},
         mute' = mute, mailed' = mailed, reply' = reply
  PROVE  job' \in [Replies -> Job] /\ Outgoing'
<1> DEFINE runs == NextRun(job[r].runs)
           at == IF runs = Attempts THEN "dead" ELSE "queued"
           q == [job[r] EXCEPT !.runs = runs, !.at = at]
<1>1. job[r] \in Job /\ job[r].runs < Attempts
  BY DEF TypeOK, Outgoing
<1>2. runs \in 0 .. Attempts
  BY <1>1, MailAssumption DEF Job, NextRun
<1>3. at \in {"dead", "queued"} /\ (at = "dead" \/ runs < Attempts)
  BY <1>2, MailAssumption
<1>4. job' = [job EXCEPT ![r] = q]
  BY DEF Throw
<1> HIDE DEF runs, at
<1>5. q \in Job /\ q.at = at /\ q.runs = runs
  BY <1>1, <1>2, <1>3 DEF Job
<1> HIDE DEF q
<1>6. reply'[r] # "none" /\ (r \in mailed' => Sends(r)')
  BY DEF Outgoing, Sends
<1> QED BY <1>3, <1>4, <1>5, <1>6, JobStep

\* Where the outgoing side stands still, so does its invariant.
LEMMA OutStill ==
  ASSUME Outgoing, UNCHANGED outVars
  PROVE  Outgoing'
  BY DEF Outgoing, outVars, Sends

\* The steps of a request and of its job.
OutStep(r) ==
  \/ Reply(r) \/ EndReply(r, "stored") \/ EndReply(r, "gone")
  \/ Out(r) \/ LoseJob(r) \/ FailSend(r)

LEMMA OutTyped ==
  ASSUME TypeOK, Outgoing, NEW r \in Replies, OutStep(r)
  PROVE  job' \in [Replies -> Job] /\ Outgoing'
<1>1. CASE Reply(r)
  <2>1. r \notin mailed /\ job[r].at = "none"
    BY <1>1 DEF Reply, Outgoing, Sends
  <2>2. reply'[r] = "open" /\ \A x \in Replies \ {r} : reply'[x] = reply[x]
    BY <1>1 DEF Reply, TypeOK
  <2> QED BY <1>1, <2>1, <2>2, GotoStep DEF Reply
<1>2. ASSUME NEW state, EndReply(r, state), state # "none"
      PROVE  job' \in [Replies -> Job] /\ Outgoing'
  <2>1. ~Sends(r)
    BY <1>2 DEF EndReply, Sends
  <2>2. \A x \in Replies \ {r} : Sends(x)' = Sends(x) /\ reply'[x] = reply[x]
    BY <1>2 DEF EndReply, Sends, TypeOK
  <2>3. job' = job /\ mailed' = mailed /\ reply'[r] # "none"
    BY <1>2 DEF EndReply, TypeOK
  <2>4. job' \in [Replies -> Job]
    BY <2>3 DEF TypeOK
  <2> QED BY <2>1, <2>2, <2>3, <2>4 DEF Outgoing
<1>3. CASE Ask(r)
  <2> DEFINE q == [job[r] EXCEPT !.at = "adding", !.stamp = (reply[r] = "open")]
  <2>1. job[r] \in Job /\ job[r].runs < Attempts
    BY <1>3 DEF TypeOK, Outgoing, Ask
  <2>2. q \in Job /\ q.at = "adding" /\ q.runs = job[r].runs
    BY <2>1 DEF Job
  <2>3. job' = [job EXCEPT ![r] = q]
    BY <1>3 DEF Ask
  <2> HIDE DEF q
  <2>4. r \in mailed' => Sends(r)'
    BY <1>3 DEF Ask, Outgoing, Sends
  <2>5. mute' = mute /\ mailed' = mailed /\ reply' = reply /\ reply[r] # "none"
    BY <1>3 DEF Ask, Outgoing
  <2> QED BY <2>1, <2>2, <2>3, <2>4, <2>5, JobStep
<1>4. CASE Add(r) \/ LoseJob(r)
  <2>1. mute' = mute /\ mailed' = mailed /\ reply' = reply /\ job[r].at = "adding" /\ reply[r] # "none"
    BY <1>4 DEF Add, LoseJob, Outgoing
  <2>2. r \in mailed' => Sends(r)'
    BY <2>1 DEF Outgoing, Sends
  <2> QED BY <1>4, <2>1, <2>2, GotoStep DEF Add, LoseJob
<1>5. CASE BeginSend(r)
  <2>1. mute' = mute /\ mailed' = mailed /\ reply' = reply /\ job[r].at = "queued" /\ reply[r] # "none"
    BY <1>5 DEF BeginSend, Outgoing
  <2>2. Sends(r)' = Sends(r) /\ (r \in mailed' => Sends(r)')
    BY <2>1 DEF Outgoing, Sends
  <2>3. CASE ~job[r].stamp
    BY <1>5, <2>1, <2>3, ThrowStep DEF BeginSend
  <2>4. CASE job[r].stamp /\ Sends(r)
    BY <1>5, <2>1, <2>2, <2>4, GotoStep DEF BeginSend
  <2>5. CASE job[r].stamp /\ ~Sends(r)
    BY <1>5, <2>1, <2>2, <2>5, GotoStep DEF BeginSend
  <2> QED BY <2>3, <2>4, <2>5
<1>6. CASE SendMail(r)
  <2>1. mute' = mute /\ mailed' = mailed \cup {r} /\ reply' = reply /\ job[r].at = "sending" /\ reply[r] # "none"
    BY <1>6 DEF SendMail, Outgoing
  <2>2. Sends(r)'
    BY <2>1 DEF Outgoing, Sends
  <2> QED BY <1>6, <2>1, <2>2, GotoStep DEF SendMail
<1>7. CASE FinishSend(r)
  <2>1. mute' = mute /\ mailed' = mailed /\ reply' = reply /\ job[r].at = "sent" /\ reply[r] # "none"
    BY <1>7 DEF FinishSend, Outgoing
  <2>2. Sends(r)'
    BY <2>1 DEF Outgoing, Sends
  <2> QED BY <1>7, <2>1, <2>2, GotoStep DEF FinishSend
<1>8. CASE FailSend(r)
  <2>1. mute' = mute /\ mailed' = mailed /\ reply' = reply /\ job[r].at \in {"sending", "sent"}
    BY <1>8 DEF FailSend
  <2> QED BY <1>8, <2>1, ThrowStep DEF FailSend
<1> QED BY <1>1, <1>2, <1>3, <1>4, <1>5, <1>6, <1>7, <1>8 DEF OutStep, Out

LEMMA OutInv ==
  ASSUME Inv, NEW r \in Replies, OutStep(r)
  PROVE  Inv'
<1>1. job' \in [Replies -> Job] /\ Outgoing'
  BY OutTyped DEF Inv
<1>2. UNCHANGED <<inbox, inVars, mute>>
  BY DEF OutStep, Out, Reply, EndReply, Ask, Add, LoseJob, BeginSend, SendMail, FinishSend, FailSend
<1>3. reply' \in [Replies -> {"none", "open", "stored", "gone"}]
  BY DEF OutStep, Out, Reply, EndReply, Ask, Add, LoseJob, BeginSend, SendMail, FinishSend, FailSend,
         Inv, TypeOK
<1>4. mailed' \subseteq Replies /\ ref' \subseteq mailed'
  BY DEF OutStep, Out, Reply, EndReply, Ask, Add, LoseJob, BeginSend, SendMail, FinishSend, FailSend,
         Inv, TypeOK, Outgoing
<1>5. failed' \in Nat
  BY DEF OutStep, Out, Reply, EndReply, Ask, Add, LoseJob, BeginSend, SendMail, FinishSend, FailSend,
         Fail, Inv, TypeOK
<1>6. TypeOK'
  BY <1>1, <1>2, <1>3, <1>4, <1>5 DEF Inv, TypeOK, inVars
<1>7. Incoming'
  BY <1>2 DEF Inv, Incoming, inVars
<1> QED BY <1>1, <1>6, <1>7 DEF Inv

-----------------------------------------------------------------------------
(* In. *)

\* A job's run that is over leaves jobs that were there, or this one with a run left.
LEMMA RerunStep ==
  ASSUME TypeOK, Incoming, NEW j \in parse, Rerun(j)
  PROVE  /\ parse' \subseteq Parse
         /\ \A q \in parse' : /\ q.runs < Attempts
                              /\ \E p \in parse : q.letter = p.letter /\ q.desk = p.desk
<1> DEFINE q == [j EXCEPT !.runs = NextRun(j.runs)]
<1>1. j \in Parse /\ j.runs < Attempts
  BY DEF TypeOK, Incoming
<1>2. NextRun(j.runs) = Attempts \/ NextRun(j.runs) < Attempts
  BY <1>1, MailAssumption DEF Parse, NextRun
<1>3. NextRun(j.runs) \in 0 .. Attempts
  BY <1>1, <1>2, MailAssumption DEF Parse, NextRun
<1>4. q \in Parse /\ q.letter = j.letter /\ q.desk = j.desk /\ q.runs = NextRun(j.runs)
  BY <1>1, <1>3 DEF Parse
<1>5. parse' = (parse \ {j}) \cup (IF NextRun(j.runs) = Attempts THEN {} ELSE {q})
  BY DEF Rerun
<1> HIDE DEF q
<1> QED BY <1>2, <1>4, <1>5 DEF TypeOK, Incoming

\* A message goes on a ticket of the job's desk; on the one the subject names, if it
\* names one.
LEMMA StoreStep ==
  ASSUME TypeOK, Incoming, NEW j \in parse, Store(j)
  PROVE  /\ opened' \in [Desks -> Nat]
         /\ \E n \in Nat : /\ filed' = [filed EXCEPT ![j.letter] = Append(@, <<j.desk, n>>)]
                           /\ letter[j.letter].number => n = 1
<1>1. j \in Parse
  BY DEF TypeOK
<1>2. CASE Threads(j) # {}
  <2>1. Threads(j) = {<<j.desk, 1>>}
    BY <1>2 DEF Threads
  <2>2. (CHOOSE t \in Threads(j) : TRUE) = <<j.desk, 1>>
    BY <2>1
  <2>3. filed' = [filed EXCEPT ![j.letter] = Append(@, <<j.desk, 1>>)] /\ opened' = opened
    BY <1>2, <2>2 DEF Store
  <2> QED BY <2>3 DEF TypeOK
<1>3. CASE Threads(j) = {}
  <2>1. ~letter[j.letter].number
    BY <1>3 DEF Threads
  <2>2. /\ opened' = [opened EXCEPT ![j.desk] = @ + 1]
        /\ filed' = [filed EXCEPT ![j.letter] = Append(@, <<j.desk, opened'[j.desk]>>)]
    BY <1>3 DEF Store
  <2>3. opened' \in [Desks -> Nat] /\ opened'[j.desk] \in Nat
    BY <1>1, <2>2 DEF TypeOK, Parse
  <2> QED BY <2>1, <2>2, <2>3
<1> QED BY <1>2, <1>3

\* What a job files keeps to the invariant, whichever jobs are left.
LEMMA FileStep ==
  ASSUME Inv, NEW j \in parse, Store(j), letter' = letter,
         parse' \subseteq Parse,
         \A q \in parse' : /\ q.runs < Attempts
                           /\ \E p \in parse : q.letter = p.letter /\ q.desk = p.desk
  PROVE  filed' \in [Letters -> Seq(Ticket)] /\ opened' \in [Desks -> Nat] /\ Incoming'
<1> DEFINE l == j.letter
<1>1. /\ j \in Parse /\ l \in Letters /\ j.desk \in Desks
      /\ letter[l] # None /\ j.desk \in letter[l].desks
  BY DEF Inv, TypeOK, Incoming, Parse
<1>2. opened' \in [Desks -> Nat]
  BY StoreStep DEF Inv
<1>3. PICK n \in Nat : /\ filed' = [filed EXCEPT ![l] = Append(@, <<j.desk, n>>)]
                       /\ letter[l].number => n = 1
  BY StoreStep DEF Inv
<1> HIDE DEF l
<1>4. filed[l] \in Seq(Ticket) /\ <<j.desk, n>> \in Ticket
  BY <1>1 DEF Inv, TypeOK, Ticket
<1>5. filed'[l] = Append(filed[l], <<j.desk, n>>) /\ \A k \in Letters \ {l} : filed'[k] = filed[k]
  BY <1>1, <1>3 DEF Inv, TypeOK
<1>6. filed' \in [Letters -> Seq(Ticket)]
  <2>1. Append(filed[l], <<j.desk, n>>) \in Seq(Ticket)
    BY <1>4
  <2> QED BY <1>3, <2>1 DEF Inv, TypeOK
<1>7. ASSUME NEW i \in DOMAIN filed'[l]
      PROVE  filed'[l][i][1] \in letter[l].desks /\ (letter[l].number => filed'[l][i][2] = 1)
  <2>1. \/ i \in DOMAIN filed[l] /\ filed'[l][i] = filed[l][i]
        \/ filed'[l][i] = <<j.desk, n>>
    BY <1>4, <1>5, <1>7
  <2>2. CASE filed'[l][i] = <<j.desk, n>>
    BY <1>1, <1>3, <2>2
  <2>3. CASE i \in DOMAIN filed[l] /\ filed'[l][i] = filed[l][i]
    BY <1>1, <2>3 DEF Inv, Incoming
  <2> QED BY <2>1, <2>2, <2>3
<1>8. \A k \in Letters :
        /\ letter'[k] = None => filed'[k] = <<>>
        /\ \A i \in DOMAIN filed'[k] : /\ filed'[k][i][1] \in letter'[k].desks
                                       /\ letter'[k].number => filed'[k][i][2] = 1
  <2> SUFFICES ASSUME NEW k \in Letters
               PROVE  /\ letter'[k] = None => filed'[k] = <<>>
                      /\ \A i \in DOMAIN filed'[k] :
                           /\ filed'[k][i][1] \in letter'[k].desks
                           /\ letter'[k].number => filed'[k][i][2] = 1
    OBVIOUS
  <2>1. CASE k = l
    BY <1>1, <1>7, <2>1
  <2>2. CASE k # l
    BY <1>5, <2>2 DEF Inv, Incoming
  <2> QED BY <2>1, <2>2
<1>9. \A q \in parse' : q.runs < Attempts /\ letter'[q.letter] # None /\ q.desk \in letter'[q.letter].desks
  BY DEF Inv, Incoming
<1> QED BY <1>2, <1>6, <1>8, <1>9 DEF Incoming

\* A letter changes to one that was let in wherever it was before, and says the same
\* of the conversation.
LEMMA LetterStep ==
  ASSUME Inv, NEW l \in Letters, NEW x \in Letter,
         letter[l] # None, letter' = [letter EXCEPT ![l] = x],
         letter[l].desks \subseteq x.desks, x.number = letter[l].number,
         parse' \subseteq Parse, filed' = filed,
         \A q \in parse' \ parse : q.runs < Attempts /\ q.letter = l /\ q.desk \in x.desks
  PROVE  letter' \in [Letters -> Letter \cup {None}] /\ Incoming'
<1>1. letter' \in [Letters -> Letter \cup {None}]
  BY DEF Inv, TypeOK
<1>2. letter'[l] = x /\ letter'[l] # None /\ \A k \in Letters \ {l} : letter'[k] = letter[k]
  BY MailAssumption DEF Inv, TypeOK
<1>3. ASSUME NEW q \in parse'
      PROVE  q.runs < Attempts /\ letter'[q.letter] # None /\ q.desk \in letter'[q.letter].desks
  <2>1. CASE q \notin parse
    BY <1>2, <2>1
  <2>2. CASE q \in parse
    <3>1. q.letter \in Letters
      BY DEF Parse
    <3>2. q.runs < Attempts /\ letter[q.letter] # None /\ q.desk \in letter[q.letter].desks
      BY <2>2 DEF Inv, Incoming
    <3> QED BY <1>2, <3>1, <3>2
  <2> QED BY <2>1, <2>2
<1>4. \A k \in Letters :
        /\ letter'[k] = None => filed'[k] = <<>>
        /\ \A i \in DOMAIN filed'[k] : /\ filed'[k][i][1] \in letter'[k].desks
                                       /\ letter'[k].number => filed'[k][i][2] = 1
  BY <1>2 DEF Inv, Incoming
<1> QED BY <1>1, <1>3, <1>4 DEF Incoming

LEMMA AcceptStep ==
  ASSUME Inv, NEW l \in Letters, NEW state \in {"posting", "over"}, NEW to \in Payloads \cup {None},
         Accept(l, state, to)
  PROVE  letter' \in [Letters -> Letter \cup {None}] /\ parse' \subseteq Parse /\ Incoming'
<1>1. PICK d \in RouteInbound(letter[l].to) :
        /\ letter' = [letter EXCEPT ![l].state = state, ![l].to = to, ![l].desks = @ \cup {d}, ![l].posts = @ + 1]
        /\ parse' = parse \cup {[letter |-> l, desk |-> d, copy |-> letter[l].posts, runs |-> 0]}
  BY DEF Accept
<1>2. d \in Desks
  BY MailAssumption DEF RouteInbound
<1>3. letter[l] \in Letter /\ letter[l] # None
  BY DEF Accept, Inv, TypeOK
<1> DEFINE x == [letter[l] EXCEPT !.state = state, !.to = to, !.desks = @ \cup {d}, !.posts = @ + 1]
           q == [letter |-> l, desk |-> d, copy |-> letter[l].posts, runs |-> 0]
<1>4. x \in Letter /\ x.desks = letter[l].desks \cup {d} /\ x.number = letter[l].number
  <2>1. letter[l].desks \cup {d} \in SUBSET Desks /\ letter[l].posts + 1 \in Nat
    BY <1>2, <1>3 DEF Letter
  <2> QED BY <1>3, <2>1 DEF Letter
<1>5. letter' = [letter EXCEPT ![l] = x]
  BY <1>1
<1>6. q \in Parse /\ q.runs < Attempts /\ q.letter = l /\ q.desk = d
  BY <1>2, <1>3, MailAssumption DEF Parse, Letter
<1>7. parse' = parse \cup {q} /\ filed' = filed
  BY <1>1 DEF Accept
<1> HIDE DEF x, q
<1>8. parse' \subseteq Parse
  BY <1>6, <1>7 DEF Inv, TypeOK
<1> QED BY <1>3, <1>4, <1>5, <1>6, <1>7, <1>8, LetterStep

\* A letter that is written has been nowhere.
LEMMA WriteStep ==
  ASSUME Inv, NEW l \in Letters, NEW to \in Payloads, NEW r \in Replies \cup {None},
         NEW id \in BOOLEAN, NEW number \in BOOLEAN, NEW drop \in BOOLEAN,
         Write(l, to, r, id, number, drop)
  PROVE  letter' \in [Letters -> Letter \cup {None}] /\ Incoming'
<1> DEFINE x == [state |-> "posting", to |-> to, answers |-> r, id |-> id,
                 number |-> number, drop |-> drop, desks |-> {}, posts |-> 0]
<1>1. x \in Letter
  BY DEF Letter
<1>2. letter' = [letter EXCEPT ![l] = x] /\ letter[l] = None /\ parse' = parse /\ filed' = filed
  BY DEF Write
<1> HIDE DEF x
<1>3. letter' \in [Letters -> Letter \cup {None}]
  BY <1>1, <1>2 DEF Inv, TypeOK
<1>4. letter'[l] = x /\ letter'[l] # None /\ \A k \in Letters \ {l} : letter'[k] = letter[k]
  BY <1>1, <1>2, MailAssumption DEF Inv, TypeOK
<1>5. filed'[l] = <<>>
  BY <1>2 DEF Inv, Incoming
<1>6. \A q \in parse' : q.runs < Attempts /\ letter'[q.letter] # None /\ q.desk \in letter'[q.letter].desks
  <2> SUFFICES ASSUME NEW q \in parse
               PROVE  q.runs < Attempts /\ letter'[q.letter] # None /\ q.desk \in letter'[q.letter].desks
    BY <1>2
  <2>1. q.letter \in Letters /\ q.letter # l
    BY <1>2 DEF Inv, TypeOK, Incoming, Parse
  <2> QED BY <1>4, <2>1 DEF Inv, Incoming
<1>7. \A k \in Letters :
        /\ letter'[k] = None => filed'[k] = <<>>
        /\ \A i \in DOMAIN filed'[k] : /\ filed'[k][i][1] \in letter'[k].desks
                                       /\ letter'[k].number => filed'[k][i][2] = 1
  BY <1>2, <1>4, <1>5 DEF Inv, Incoming
<1> QED BY <1>3, <1>6, <1>7 DEF Incoming

LEMMA RefuseStep ==
  ASSUME Inv, NEW l \in Letters, Refuse(l)
  PROVE  letter' \in [Letters -> Letter \cup {None}] /\ Incoming'
<1> DEFINE x == [letter[l] EXCEPT !.state = "over", !.to = None]
<1>1. letter[l] \in Letter /\ letter[l] # None
  BY DEF Refuse, Inv, TypeOK
<1>2. x \in Letter /\ x.desks = letter[l].desks /\ x.number = letter[l].number
  BY <1>1 DEF Letter
<1>3. letter' = [letter EXCEPT ![l] = x] /\ parse' = parse /\ filed' = filed
  BY DEF Refuse
<1> HIDE DEF x
<1>4. parse' \subseteq Parse
  BY <1>3 DEF Inv, TypeOK
<1> QED BY <1>1, <1>2, <1>3, <1>4, LetterStep

-----------------------------------------------------------------------------
(* The invariant. *)

LEMMA Initially == Init => Inv
<1> SUFFICES ASSUME Init PROVE Inv
  OBVIOUS
<1>1. NoJob \in Job /\ NoJob.at = "none" /\ NoJob.runs < Attempts
  BY MailAssumption DEF NoJob, Job
<1>2. TypeOK
  BY <1>1 DEF Init, TypeOK
<1>3. Outgoing
  BY <1>1 DEF Init, Outgoing
<1>4. Incoming
  BY DEF Init, Incoming
<1> QED BY <1>2, <1>3, <1>4 DEF Inv

LEMMA Inductive == Inv /\ [Next]_vars => Inv'
<1> SUFFICES ASSUME Inv, [Next]_vars PROVE Inv'
  OBVIOUS
<1>1. ASSUME NEW r \in Replies, OutStep(r) PROVE Inv'
  BY <1>1, OutInv
<1>2. ASSUME UNCHANGED <<inbox, outVars, opened>>, failed' \in Nat, parse' \subseteq Parse,
             letter' \in [Letters -> Letter \cup {None}], filed' \in [Letters -> Seq(Ticket)], Incoming'
      PROVE  Inv'
  <2>1. Outgoing'
    BY <1>2, OutStill DEF Inv
  <2> QED BY <1>2, <2>1 DEF Inv, TypeOK, outVars
<1>3. ASSUME NEW d \in Desks, NEW a \in Address \cup {None}, SetInboundAddress(d, a) PROVE Inv'
  <2>1. inbox' \in [Desks -> Address \cup {None}]
    BY <1>3 DEF SetInboundAddress, Inv, TypeOK
  <2>2. Outgoing' /\ Incoming'
    BY <1>3, OutStill DEF SetInboundAddress, Inv, Incoming, inVars
  <2> QED BY <1>3, <2>1, <2>2 DEF SetInboundAddress, Inv, TypeOK, outVars, inVars
<1>4. ASSUME NEW l \in Letters, NEW to \in Payloads, NEW r \in Replies \cup {None},
             NEW id \in BOOLEAN, NEW number \in BOOLEAN, NEW drop \in BOOLEAN,
             Write(l, to, r, id, number, drop)
      PROVE  Inv'
  <2>1. letter' \in [Letters -> Letter \cup {None}] /\ Incoming'
    BY <1>4, WriteStep
  <2> QED BY <1>2, <1>4, <2>1 DEF Write, Inv, TypeOK
<1>5. ASSUME NEW l \in Letters, Refuse(l) PROVE Inv'
  <2>1. letter' \in [Letters -> Letter \cup {None}] /\ Incoming'
    BY <1>5, RefuseStep
  <2> QED BY <1>2, <1>5, <2>1 DEF Refuse, Inv, TypeOK
<1>6. ASSUME NEW l \in Letters, Post(l) \/ PostTwice(l) PROVE Inv'
  <2>1. PICK state \in {"posting", "over"}, to \in Payloads \cup {None} : Accept(l, state, to)
    BY <1>6 DEF Post, PostTwice, Inv, TypeOK, Letter
  <2>2. letter' \in [Letters -> Letter \cup {None}] /\ parse' \subseteq Parse /\ Incoming'
    BY <2>1, AcceptStep
  <2>3. failed' \in Nat
    BY <1>6 DEF Post, PostTwice, Fail, Inv, TypeOK
  <2> QED BY <1>2, <2>1, <2>2, <2>3 DEF Accept, Inv, TypeOK
<1>7. ASSUME NEW j \in parse, File(j) \/ Stall(j) PROVE Inv'
  <2>1. /\ parse' \subseteq Parse
        /\ \A q \in parse' : /\ q.runs < Attempts
                             /\ \E p \in parse : q.letter = p.letter /\ q.desk = p.desk
    <3>1. CASE File(j)
      BY <3>1 DEF File, Inv, TypeOK, Incoming
    <3>2. CASE Stall(j)
      BY <3>2, RerunStep DEF Stall, Inv
    <3> QED BY <1>7, <3>1, <3>2
  <2>2. ProcessInbound(j) /\ letter' = letter /\ UNCHANGED <<inbox, outVars>>
    BY <1>7 DEF File, Stall
  <2>3. filed' \in [Letters -> Seq(Ticket)] /\ opened' \in [Desks -> Nat] /\ Incoming'
    <3>1. CASE letter[j.letter].drop
      <4>1. filed' = filed /\ opened' = opened
        BY <2>2, <3>1 DEF ProcessInbound
      <4> QED BY <2>1, <2>2, <4>1 DEF Inv, TypeOK, Incoming
    <3>2. CASE ~letter[j.letter].drop
      BY <2>1, <2>2, <3>2, FileStep DEF ProcessInbound
    <3> QED BY <3>1, <3>2
  <2>4. failed' \in Nat
    BY <1>7 DEF File, Stall, Fail, Inv, TypeOK
  <2>5. Outgoing'
    BY <2>2, OutStill DEF Inv
  <2> QED BY <2>1, <2>2, <2>3, <2>4, <2>5 DEF Inv, TypeOK, outVars
<1>8. ASSUME NEW j \in parse, FailFile(j) PROVE Inv'
  <2>1. /\ parse' \subseteq Parse
        /\ \A q \in parse' : /\ q.runs < Attempts
                             /\ \E p \in parse : q.letter = p.letter /\ q.desk = p.desk
    BY <1>8, RerunStep DEF FailFile, Inv
  <2>2. letter' = letter /\ filed' = filed /\ opened' = opened /\ failed' \in Nat
    BY <1>8 DEF FailFile, Fail, Inv, TypeOK
  <2>3. Incoming'
    BY <2>1, <2>2 DEF Inv, Incoming
  <2> QED BY <1>2, <1>8, <2>1, <2>2, <2>3 DEF FailFile, Inv, TypeOK
<1>9. CASE UNCHANGED vars
  BY <1>2, <1>9 DEF vars, inVars, outVars, Inv, TypeOK, Incoming
<1>10. CASE \E r \in Replies :
              \/ Reply(r) \/ EndReply(r, "stored") \/ EndReply(r, "gone")
              \/ Out(r) \/ LoseJob(r) \/ FailSend(r)
  BY <1>1, <1>10 DEF OutStep
<1>11. ASSUME NEW l \in Letters, In(l) \/ PostTwice(l) PROVE Inv'
  BY <1>5, <1>6, <1>7, <1>11 DEF In
<1>12. CASE \E l \in Letters, to \in Payloads, r \in Replies \cup {None}, id, number, drop \in BOOLEAN :
              Write(l, to, r, id, number, drop)
  BY <1>4, <1>12
<1> QED BY <1>3, <1>7, <1>8, <1>9, <1>10, <1>11, <1>12 DEF Next

LEMMA Invariance == Spec => []Inv
  BY Initially, Inductive, PTL DEF Spec

\* Replies, jobs, letters and what was filed keep their types, whatever fails.
THEOREM Typed == Spec => []TypeOK
<1>1. Inv => TypeOK
  BY DEF Inv
<1> QED BY <1>1, Invariance, PTL

\* A mail leaves only for a reply that is stored and meant for mail, wherever its
\* job is by the time the request commits or rolls back (sendTicketReply).
THEOREM StoredIsMailed == Spec => []OnlyStoredIsMailed
<1>1. Inv => OnlyStoredIsMailed
  BY DEF Inv, TypeOK, Outgoing, Sends, OnlyStoredIsMailed
<1> QED BY <1>1, Invariance, PTL

\* A letter is filed on desks that let it in only, and joins the conversation its
\* subject names, whether or not that mail's id was ever stored (processInbound).
THEOREM FiledWhereLetIn == Spec => []AnswerThreads
<1>1. Inv => AnswerThreads
  BY DEF Inv, Incoming, AnswerThreads
<1> QED BY <1>1, Invariance, PTL

\* Once the delivery path names a desk, what else the sender wrote changes nothing,
\* whatever addresses desks have (routeInbound).
THEOREM DeliveryDecides == Spec => []SenderHasNoSay
<1>1. SenderHasNoSay
  <2> SUFFICES ASSUME NEW to \in Payloads, NEW h \in SUBSET Address,
                      \E i \in DOMAIN to.delivery : DeskAt(to.delivery[i]) # {}
               PROVE  RouteInbound([to EXCEPT !.headers = h]) = RouteInbound(to)
    BY DEF SenderHasNoSay
  <2> DEFINE other == [to EXCEPT !.headers = h]
  <2>1. other.delivery = to.delivery
    BY MailAssumption
  <2> HIDE DEF other
  <2>2. Named(other) = Named(to)
    BY <2>1 DEF Named
  <2> QED BY <2>2 DEF RouteInbound, other
<1> QED BY <1>1, PTL
=============================================================================
