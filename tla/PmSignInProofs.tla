--------------------------- MODULE PmSignInProofs ---------------------------
(***************************************************************************)
(* The proofs of OneDeskEach, StateActsOnce and SignInKeepsRows, for any   *)
(* people, tabs, organisations and names.                                  *)
(*                                                                         *)
(* One desk each: a desk that is being made has a name and an organisation *)
(* no desk and no other tab has (Held), and a link only maps desks that    *)
(* exist, to organisations nobody holds.  Once: a callback that acts has   *)
(* spent its state (Spent), and a state is minted again only when no tab   *)
(* holds it.  Kept rows: whoever writes a row without looking is founding  *)
(* a desk, and only desks that exist have seats (Seated).                  *)
(***************************************************************************)
EXTENDS PmSignIn, WellFoundedInduction, TLAPS

Early == {"idle", "away", "claim", "exchange"}
Founding == {"gate", "find", "email", "insert", "place", "sit", "held", "adopt", "resolve", "in"}

\* What a callback knows of the organisations and has tried of their names.
Underway ==
  \A t \in Tabs :
    /\ req[t].pc \in Early => req[t].runs = {} /\ req[t].try = 1
    /\ req[t].pc \in Founding => /\ req[t].runs # {}
                                 /\ req[t].try \in DOMAIN Candidates[Least(req[t].runs)]

Busy(t) == req[t].pc \notin {"idle", "away", "claim"}

Spent ==
  \A t \in Tabs : /\ req[t].pc # "idle" => req[t].st \in Tabs
                  /\ Busy(t) => state[req[t].st].st = "used"
                  /\ req[t].pc = "apply" => ~SignIn(req[t].st)

Real == \A s \in Slugs : desk[s].active \/ desk[s].org # 0 => Exists(s)

LinkIsReal == \A x \in Tabs : ~SignIn(x) => state[x].desk \in Slugs /\ Exists(state[x].desk)

Held ==
  \A t \in Tabs : req[t].pc = "held" =>
    /\ req[t].desk \in Slugs /\ ~Exists(req[t].desk) /\ ~OrgTaken(Least(req[t].runs))
    /\ \A y \in Tabs : req[y].pc = "held" /\ y # t =>
         req[y].desk # req[t].desk /\ Least(req[y].runs) # Least(req[t].runs)

IInv == TypeOK /\ Underway /\ Spent /\ Real /\ LinkIsReal /\ Held /\ OneDeskEach /\ StateActsOnce

-----------------------------------------------------------------------------
(* Types. *)

Desk == [org : Orgs \cup {0}, active : BOOLEAN, teams : Nat]
State == [st : {"none", "open", "used"}, user : Emails \cup {"none"}, desk : Slugs \cup {0}]

LEMMA Put ==
  ASSUME NEW S, NEW R, NEW f \in [S -> R], NEW x, NEW v, x \in S => v \in R
  PROVE  [f EXCEPT ![x] = v] \in [S -> R]
  OBVIOUS

LEMMA Rows ==
  ASSUME TypeOK
  PROVE  /\ \A s \in Slugs : desk[s] \in Desk /\ [desk[s] EXCEPT !.active = FALSE] \in Desk
         /\ \A x \in Tabs : state[x] \in State /\ [state[x] EXCEPT !.st = "used"] \in State
         /\ \A s \in Slugs : seat[s] \in [Emails -> {"none", "admin", "agent", "off"}]
         /\ desk \in [Slugs -> Desk] /\ state \in [Tabs -> State]
<1>1. \A d \in Desk : [d EXCEPT !.active = FALSE] \in Desk
  BY DEF Desk
<1>2. \A r \in State : [r EXCEPT !.st = "used"] \in State
  BY DEF State
<1>3. desk \in [Slugs -> Desk] /\ state \in [Tabs -> State]
  BY DEF TypeOK, Desk, State
<1> QED BY <1>1, <1>2, <1>3 DEF TypeOK

LEMMA LeastIs ==
  ASSUME NEW S \in SUBSET Nat, S # {}
  PROVE  Least(S) \in S
<1> DEFINE Less == {p \in Nat \X Nat : p[1] < p[2]}
<1>1. IsWellFoundedOn(Less, Nat)
  BY NatLessThanWellFounded DEF OpToRel
<1>2. \E n \in S : \A k \in S : <<k, n>> \notin Less
  <2> HIDE DEF Less
  <2> QED BY <1>1, WFMin
<1>3. \E n \in S : \A k \in S : n <= k
  <2>1. PICK n \in S : \A k \in S : <<k, n>> \notin Less
    BY <1>2
  <2>2. \A k \in S : ~(k < n)
    BY <2>1
  <2> QED BY <2>2
<1> QED BY <1>3 DEF Least

\* The organisation a callback would found a desk for, and its next name.
LEMMA Founds ==
  ASSUME TypeOK, Underway, NEW t \in Tabs, req[t].pc \in Founding
  PROVE  /\ Least(req[t].runs) \in Orgs
         /\ req[t].try \in 1 .. Len(Candidates[Least(req[t].runs)])
         /\ Candidates[Least(req[t].runs)][req[t].try] \in Slugs
<1>1. req[t].runs \subseteq Orgs /\ req[t].runs # {}
  BY DEF TypeOK, Req, Underway
<1>2. Least(req[t].runs) \in Orgs
  BY <1>1, LeastIs, PmSignInAssumption
<1>3. Candidates[Least(req[t].runs)] \in Seq(Slugs)
  BY <1>2, PmSignInAssumption
<1>4. req[t].try \in DOMAIN Candidates[Least(req[t].runs)]
  BY DEF Underway
<1> QED BY <1>2, <1>3, <1>4

\* A tab that moves on keeps the shape of its callback.
LEMMA Moves ==
  ASSUME TypeOK, Underway, NEW t \in Tabs, NEW r \in Req, req' = [req EXCEPT ![t] = r],
         r.pc \in Early => r.runs = {} /\ r.try = 1,
         r.pc \in Founding => r.runs # {} /\ r.try \in DOMAIN Candidates[Least(r.runs)]
  PROVE  req' \in [Tabs -> Req] /\ Underway'
<1>1. req' \in [Tabs -> Req] /\ req'[t] = r /\ \A y \in Tabs \ {t} : req'[y] = req[y]
  BY DEF TypeOK
<1> QED BY <1>1 DEF Underway

LEMMA EndMoves ==
  ASSUME TypeOK, Underway, NEW t \in Tabs, End(t)
  PROVE  req' \in [Tabs -> Req] /\ Underway' /\ cookie' \in [People -> Tabs \cup {"none"}]
<1>1. Idle \in Req /\ Idle.pc \in Early /\ Idle.pc \notin Founding /\ Idle.runs = {} /\ Idle.try = 1
  BY DEF Idle, Req, Early, Founding
<1>2. req' \in [Tabs -> Req] /\ Underway'
  BY <1>1, Moves DEF End
<1> QED BY <1>2 DEF End, TypeOK

\* Another step of the same kind, with the same organisations.
LEMMA GotoMoves ==
  ASSUME TypeOK, Underway, NEW t \in Tabs, NEW pc, Goto(t, pc),
         \/ pc \in Early /\ req[t].pc \in Early
         \/ pc \in Founding /\ req[t].pc \in Founding
  PROVE  req' \in [Tabs -> Req] /\ Underway'
<1> DEFINE r == [req[t] EXCEPT !.pc = pc]
<1>1. req[t] \in Req /\ req' = [req EXCEPT ![t] = r]
  BY DEF Goto, TypeOK
<1>2. r \in Req /\ r.pc = pc /\ r.runs = req[t].runs /\ r.try = req[t].try
  BY <1>1 DEF Req, Early, Founding
<1>3. Early \cap Founding = {}
  BY DEF Early, Founding
<1> HIDE DEF r
<1> QED BY <1>1, <1>2, <1>3, Moves DEF Underway

\* Every step keeps the types, and what a callback knows.
LEMMA TypeStep == TypeOK /\ Underway /\ [Next]_vars => TypeOK' /\ Underway'
<1> SUFFICES ASSUME TypeOK, Underway, [Next]_vars PROVE TypeOK' /\ Underway'
  OBVIOUS
<1> USE DEF TypeOK
<1>s. ASSUME UNCHANGED req PROVE Underway'
  BY <1>s DEF Underway
<1>1. ASSUME NEW t \in Tabs, Begin(t) \/ \E e \in Emails, s \in Slugs : BeginLink(t, e, s)
      PROVE  TypeOK' /\ Underway'
  <2> DEFINE r == [req[t] EXCEPT !.pc = "away", !.st = t]
  <2>1. req[t] = Idle /\ req[t] \in Req /\ req' = [req EXCEPT ![t] = r]
    BY <1>1 DEF Begin, BeginLink, Fresh, Mint
  <2>6. left' \in Nat
    BY <1>1 DEF Begin, BeginLink, Change
  <2>2. r \in Req /\ r.pc = "away" /\ r.runs = {} /\ r.try = 1
    <3>1. Idle.runs = {} /\ Idle.try = 1
      BY DEF Idle
    <3>2. r \in Req /\ r.pc = "away" /\ r.runs = req[t].runs /\ r.try = req[t].try
      BY <2>1 DEF Req
    <3> QED BY <2>1, <3>1, <3>2
  <2>3. req' \in [Tabs -> Req] /\ Underway'
    <3> HIDE DEF r
    <3> QED BY <2>1, <2>2, Moves DEF Early, Founding
  <2>4. state' \in [Tabs -> [st : {"none", "open", "used"}, user : Emails \cup {"none"}, desk : Slugs \cup {0}]]
    BY <1>1 DEF Begin, BeginLink, Mint
  <2>5. cookie' \in [People -> Tabs \cup {"none"}]
    BY <1>1 DEF Begin, BeginLink, Bind
  <2> QED BY <1>1, <2>3, <2>4, <2>5, <2>6 DEF Begin, BeginLink, tables
<1>2. ASSUME NEW t \in Tabs, NEW x \in Tabs, Return(t, x) PROVE TypeOK' /\ Underway'
  <2> DEFINE r == [req[t] EXCEPT !.pc = "claim", !.st = x]
  <2>1. left' \in Nat /\ req[t].pc \in Early /\ req[t] \in Req
    BY <1>2 DEF Return, Change, Idle, Early
  <2>2. CASE End(t)
    BY <1>2, <2>1, <2>2, EndMoves DEF Return, tables
  <2>3. CASE req' = [req EXCEPT ![t] = r] /\ UNCHANGED cookie
    <3>0. r \in Req /\ r.pc = "claim" /\ r.runs = req[t].runs /\ r.try = req[t].try
      BY <2>1 DEF Req
    <3>1. r \in Req /\ r.pc = "claim" /\ r.runs = {} /\ r.try = 1
      BY <2>1, <3>0 DEF Underway
    <3>2. req' \in [Tabs -> Req] /\ Underway'
      <4> HIDE DEF r
      <4> QED BY <2>3, <3>1, Moves DEF Early, Founding
    <3> QED BY <1>2, <2>1, <2>3, <3>2 DEF Return, tables
  <2> QED BY <1>2, <2>2, <2>3 DEF Return
<1>3. ASSUME NEW t \in Tabs, Claim(t) PROVE TypeOK' /\ Underway'
  <2>1. state' \in [Tabs -> [st : {"none", "open", "used"}, user : Emails \cup {"none"}, desk : Slugs \cup {0}]]
    <3> DEFINE x == req[t].st
               spent == [state[x] EXCEPT !.st = "used"]
    <3>1. x \in Tabs => spent \in State
      BY Rows
    <3>2. state \in [Tabs -> State] /\ (state' = state \/ state' = [state EXCEPT ![x] = spent])
      BY <1>3 DEF Claim, State
    <3> HIDE DEF spent
    <3> QED BY <3>1, <3>2, Put DEF State
  <2>2. (Goto(t, "exchange") /\ UNCHANGED cookie) \/ End(t)
    BY <1>3 DEF Claim
  <2>3. req' \in [Tabs -> Req] /\ Underway' /\ cookie' \in [People -> Tabs \cup {"none"}]
    BY <1>3, <2>2, GotoMoves, EndMoves DEF Claim, Early
  <2> QED BY <1>3, <2>1, <2>3 DEF Claim, tables, others
<1>4. ASSUME NEW t \in Tabs, Exchange(t) PROVE TypeOK' /\ Underway'
  <2> DEFINE who == pm[Who[t]]
             r == [req[t] EXCEPT !.pc = IF SignIn(req[t].st) THEN "gate" ELSE "apply",
                                 !.runs = who.runs, !.mail = who.mail]
  <2>1. who.runs \in SUBSET Orgs /\ who.mail \in Emails
    BY PmSignInAssumption
  <2>2. CASE End(t)
    BY <1>4, <2>2, EndMoves DEF Exchange, tables, others
  <2>3. CASE ~(SignIn(req[t].st) /\ who.runs = {}) /\ req' = [req EXCEPT ![t] = r] /\ UNCHANGED cookie
    <3>1. req[t].pc = "exchange" /\ req[t] \in Req /\ req[t].try = 1
      BY <1>4 DEF Exchange, Underway, Early
    <3>2. /\ r \in Req /\ r.pc = (IF SignIn(req[t].st) THEN "gate" ELSE "apply")
          /\ r.runs = who.runs /\ r.try = 1
      <4> HIDE DEF who
      <4> QED BY <2>1, <3>1 DEF Req
    <3>3. r.pc \in Founding => r.runs # {} /\ r.try \in DOMAIN Candidates[Least(r.runs)]
      <4> SUFFICES ASSUME r.pc \in Founding PROVE r.runs # {} /\ r.try \in DOMAIN Candidates[Least(r.runs)]
        OBVIOUS
      <4>1. r.runs # {} /\ r.runs \subseteq Orgs
        BY <2>1, <2>3, <3>2 DEF Founding
      <4>2. Least(r.runs) \in Orgs
        <5> HIDE DEF r
        <5> QED BY <4>1, LeastIs, PmSignInAssumption
      <4>3. Candidates[Least(r.runs)] \in Seq(Slugs) \ {<<>>}
        BY <4>2, PmSignInAssumption
      <4>4. 1 \in DOMAIN Candidates[Least(r.runs)]
        BY <4>3
      <4> QED BY <3>2, <4>1, <4>4
    <3>4. r.pc \notin Early
      BY <3>2 DEF Early
    <3>5. req' \in [Tabs -> Req] /\ Underway'
      <4> HIDE DEF r
      <4> QED BY <2>3, <3>2, <3>3, <3>4, Moves
    <3> QED BY <1>4, <2>3, <3>5 DEF Exchange, tables, others
  <2> QED BY <1>4, <2>2, <2>3 DEF Exchange
<1>5. ASSUME NEW t \in Tabs, Apply(t) PROVE TypeOK' /\ Underway'
  <2>1. req' \in [Tabs -> Req] /\ Underway' /\ cookie' \in [People -> Tabs \cup {"none"}]
    BY <1>5, EndMoves DEF Apply
  <2>2. user' \in [Emails -> People \cup {"none", "absent"}]
    BY <1>5, PmSignInAssumption DEF Apply
  <2>3. desk' \in [Slugs -> [org : Orgs \cup {0}, active : BOOLEAN, teams : Nat]]
    <3> DEFINE s == state[req[t].st].desk
               match == {o \in Belongs[Who[t]] : Candidates[o][1] = s}
    <3>1. match \subseteq Orgs
      BY PmSignInAssumption
    <3>2. match # {} => Least(match) \in Orgs
      <4> HIDE DEF match
      <4> QED BY <3>1, LeastIs, PmSignInAssumption
    <3>3. desk' = desk \/ (match # {} /\ desk' = [desk EXCEPT ![s].org = Least(match)])
      BY <1>5 DEF Apply
    <3> HIDE DEF s, match
    <3> QED BY <3>2, <3>3
  <2> QED BY <1>5, <2>1, <2>2, <2>3 DEF Apply, others
<1>6. ASSUME NEW t \in Tabs, Gate(t) PROVE TypeOK' /\ Underway'
  <2> DEFINE s == IF Open(req[t].runs) = {} THEN 0 ELSE Least(Open(req[t].runs))
             r == [req[t] EXCEPT !.pc = "find", !.desk = s]
  <2>1. CASE End(t)
    BY <1>6, <2>1, EndMoves DEF Gate, tables, others
  <2>2. CASE req' = [req EXCEPT ![t] = r] /\ UNCHANGED cookie
    <3>1. Open(req[t].runs) \subseteq Slugs
      BY DEF Open, Linked
    <3>2. s \in Slugs \cup {0}
      BY <3>1, LeastIs, PmSignInAssumption
    <3>3. req[t].pc \in Founding /\ req[t] \in Req
      BY <1>6 DEF Gate, Founding
    <3>4. r \in Req /\ r.pc = "find" /\ r.runs = req[t].runs /\ r.try = req[t].try
      <4> HIDE DEF s
      <4> QED BY <3>2, <3>3 DEF Req
    <3>5. req' \in [Tabs -> Req] /\ Underway'
      <4> HIDE DEF r
      <4> QED BY <2>2, <3>3, <3>4, Moves DEF Underway, Early
    <3> QED BY <1>6, <2>2, <3>5 DEF Gate, tables, others
  <2> QED BY <1>6, <2>1, <2>2 DEF Gate
<1>7. ASSUME NEW t \in Tabs, FindUser(t) PROVE TypeOK' /\ Underway'
  <2>1. CASE Goto(t, "email")
    <3>1. req' \in [Tabs -> Req] /\ Underway'
      BY <1>7, <2>1, GotoMoves DEF FindUser, Founding
    <3> QED BY <1>7, <3>1 DEF FindUser, tables, others
  <2>2. ASSUME NEW e \in Emails, req' = [req EXCEPT ![t].pc = "place", ![t].user = e] PROVE TypeOK' /\ Underway'
    <3> DEFINE r == [req[t] EXCEPT !.pc = "place", !.user = e]
    <3>1. req[t].pc \in Founding /\ req[t] \in Req
      BY <1>7 DEF FindUser, Founding
    <3>2. r \in Req /\ r.pc = "place" /\ r.runs = req[t].runs /\ r.try = req[t].try
      BY <3>1 DEF Req
    <3>3. req' \in [Tabs -> Req] /\ Underway'
      <4>1. req' = [req EXCEPT ![t] = r]
        BY <2>2
      <4> HIDE DEF r
      <4> QED BY <4>1, <3>1, <3>2, Moves DEF Underway, Early
    <3> QED BY <1>7, <3>3 DEF FindUser, tables, others
  <2> QED BY <1>7, <2>1, <2>2 DEF FindUser
<1>8. ASSUME NEW t \in Tabs, InsertUser(t) PROVE TypeOK' /\ Underway'
  <2> DEFINE e == req[t].mail
             r == [req[t] EXCEPT !.pc = "place", !.user = e]
  <2>1. CASE End(t) /\ UNCHANGED user
    BY <1>8, <2>1, EndMoves DEF InsertUser, others
  <2>2. CASE user' = [user EXCEPT ![e] = Who[t]] /\ req' = [req EXCEPT ![t] = r] /\ UNCHANGED cookie
    <3>1. req[t].pc \in Founding /\ req[t] \in Req
      BY <1>8 DEF InsertUser, Founding
    <3>2. r \in Req /\ r.pc = "place" /\ r.runs = req[t].runs /\ r.try = req[t].try
      BY <3>1 DEF Req
    <3>3. req' \in [Tabs -> Req] /\ Underway'
      <4> HIDE DEF r
      <4> QED BY <2>2, <3>1, <3>2, Moves DEF Underway, Early
    <3>4. user' \in [Emails -> People \cup {"none", "absent"}]
      BY <2>2, PmSignInAssumption
    <3> QED BY <1>8, <2>2, <3>3, <3>4 DEF InsertUser, others
  <2> QED BY <1>8, <2>1, <2>2 DEF InsertUser
<1>9. ASSUME NEW t \in Tabs, FindEmail(t) \/ NotProvisioned(t) \/ Adopt(t) \/ Resolve(t) PROVE TypeOK' /\ Underway'
  <2>1. /\ req[t].pc \in Founding
        /\ End(t) \/ (Goto(t, "insert") /\ UNCHANGED cookie)
                  \/ (Goto(t, "in") /\ cookie' = [cookie EXCEPT ![Who[t]] = "none"])
    BY <1>9 DEF FindEmail, NotProvisioned, Adopt, Resolve, Founding
  <2>2. req' \in [Tabs -> Req] /\ Underway' /\ cookie' \in [People -> Tabs \cup {"none"}]
    BY <2>1, EndMoves, GotoMoves DEF Founding
  <2> QED BY <1>9, <2>2 DEF FindEmail, NotProvisioned, Adopt, Resolve, tables, others
<1>10. ASSUME NEW t \in Tabs, ReadSeat(t) PROVE TypeOK' /\ Underway'
  <2>1. req[t].pc \in Founding /\ (Goto(t, "sit") \/ Goto(t, "resolve"))
    BY <1>10 DEF ReadSeat, Founding
  <2>2. req' \in [Tabs -> Req] /\ Underway'
    BY <2>1, GotoMoves DEF Founding
  <2> QED BY <1>10, <2>2 DEF ReadSeat, tables, others
<1>11. ASSUME NEW t \in Tabs, InsertSeat(t) PROVE TypeOK' /\ Underway'
  <2>1. req[t].pc \in Founding /\ (End(t) \/ (Goto(t, "resolve") /\ UNCHANGED cookie))
    BY <1>11 DEF InsertSeat, Founding
  <2>2. req' \in [Tabs -> Req] /\ Underway' /\ cookie' \in [People -> Tabs \cup {"none"}]
    BY <2>1, EndMoves, GotoMoves DEF Founding
  <2>3. seat' \in [Slugs -> [Emails -> {"none", "admin", "agent", "off"}]]
    <3> DEFINE s == req[t].desk
               sat == [seat[s] EXCEPT ![req[t].user] = "admin"]
    <3>1. s \in Slugs => sat \in [Emails -> {"none", "admin", "agent", "off"}]
      BY Rows, Put
    <3>2. seat' = seat \/ seat' = [seat EXCEPT ![s] = sat]
      BY <1>11 DEF InsertSeat
    <3> HIDE DEF sat
    <3> QED BY <3>1, <3>2, Put
  <2> QED BY <1>11, <2>2, <2>3 DEF InsertSeat, others
<1>12. ASSUME NEW t \in Tabs, InsertDesk(t) PROVE TypeOK' /\ Underway'
  <2> DEFINE names == Candidates[Least(req[t].runs)]
             s == names[req[t].try]
             next == [req[t] EXCEPT !.try = @ + 1]
             hold == [req[t] EXCEPT !.pc = "held", !.desk = s]
  <2>1. req[t].pc = "place" /\ req[t].pc \in Founding /\ req[t] \in Req
    BY <1>12 DEF InsertDesk, Founding
  <2>2. req[t].try \in 1 .. Len(names) /\ s \in Slugs /\ req[t].runs # {} /\ names \in Seq(Slugs)
    BY <2>1, Founds, PmSignInAssumption DEF Underway
  <2>3. CASE (Goto(t, "adopt") /\ UNCHANGED cookie) \/ End(t)
    <3>1. req' \in [Tabs -> Req] /\ Underway' /\ cookie' \in [People -> Tabs \cup {"none"}]
      BY <2>1, <2>3, EndMoves, GotoMoves DEF Founding
    <3> QED BY <1>12, <3>1 DEF InsertDesk, tables, others
  <2>4. CASE req[t].try < Len(names) /\ req' = [req EXCEPT ![t] = next] /\ UNCHANGED cookie
    <3>1. next \in Req /\ next.pc = "place" /\ next.runs = req[t].runs /\ next.try = req[t].try + 1
      <4>1. req[t].try + 1 \in Nat
        BY <2>1 DEF Req
      <4> QED BY <2>1, <4>1 DEF Req
    <3>2. next.try \in DOMAIN names
      BY <2>2, <2>4, <3>1
    <3>3. req' \in [Tabs -> Req] /\ Underway'
      <4> HIDE DEF next
      <4> QED BY <2>2, <2>4, <3>1, <3>2, Moves DEF Early
    <3> QED BY <1>12, <2>4, <3>3 DEF InsertDesk, tables, others
  <2>5. CASE req' = [req EXCEPT ![t] = hold] /\ UNCHANGED cookie
    <3>1. hold \in Req /\ hold.pc = "held" /\ hold.runs = req[t].runs /\ hold.try = req[t].try
      <4> HIDE DEF s
      <4> QED BY <2>1, <2>2 DEF Req
    <3>2. req' \in [Tabs -> Req] /\ Underway'
      <4> HIDE DEF hold
      <4> QED BY <2>1, <2>5, <3>1, Moves DEF Early, Underway
    <3> QED BY <1>12, <2>5, <3>2 DEF InsertDesk, tables, others
  <2> QED BY <1>12, <2>3, <2>4, <2>5 DEF InsertDesk
<1>13. ASSUME NEW t \in Tabs, CommitDesk(t) PROVE TypeOK' /\ Underway'
  <2>1. req[t].pc \in Founding /\ Least(req[t].runs) \in Orgs
    BY <1>13, Founds DEF CommitDesk, Founding
  <2>2. req' \in [Tabs -> Req] /\ Underway'
    BY <1>13, <2>1, GotoMoves DEF CommitDesk, Founding
  <2>3. desk' \in [Slugs -> [org : Orgs \cup {0}, active : BOOLEAN, teams : Nat]]
    <3> DEFINE s == req[t].desk
               made == [org |-> Least(req[t].runs), active |-> TRUE, teams |-> desk[s].teams + 1]
    <3>1. s \in Slugs => made \in Desk
      BY <2>1 DEF Desk
    <3>2. desk \in [Slugs -> Desk] /\ desk' = [desk EXCEPT ![s] = made]
      BY <1>13 DEF CommitDesk, Desk
    <3>3. [desk EXCEPT ![s] = made] \in [Slugs -> Desk]
      <4> HIDE DEF made
      <4> QED BY <3>1, <3>2, Put
    <3> QED BY <3>2, <3>3 DEF Desk
  <2>4. seat' \in [Slugs -> [Emails -> {"none", "admin", "agent", "off"}]]
    BY <1>13 DEF CommitDesk
  <2> QED BY <1>13, <2>2, <2>3, <2>4 DEF CommitDesk, others
<1>14. ASSUME NEW t \in Tabs, Leave(t) \/ Fail(t) PROVE TypeOK' /\ Underway'
  <2>1. Idle \in Req /\ Idle.pc \in Early /\ Idle.pc \notin Founding /\ Idle.runs = {} /\ Idle.try = 1
    BY DEF Idle, Req, Early, Founding
  <2>2. CASE Leave(t)
    <3>1. req' \in [Tabs -> Req] /\ Underway'
      BY <2>1, <2>2, Moves DEF Leave
    <3> QED BY <2>2, <3>1 DEF Leave, tables, others
  <2>3. CASE Fail(t)
    <3>1. left' \in Nat
      BY <2>3 DEF Fail, Change
    <3> QED BY <2>3, <3>1, EndMoves DEF Fail, tables
  <2> QED BY <1>14, <2>2, <2>3
<1>15. ASSUME NEW x \in Tabs, Expire(x) PROVE TypeOK' /\ Underway'
  <2>1. state' \in [Tabs -> [st : {"none", "open", "used"}, user : Emails \cup {"none"}, desk : Slugs \cup {0}]]
    BY <1>15 DEF Expire
  <2> QED BY <1>s, <1>15, <2>1 DEF Expire, Change, tables
<1>16. ASSUME NEW s \in Slugs, NEW e \in Emails, NEW role \in {"admin", "agent", "off"}, Staff(s, e, role)
       PROVE  TypeOK' /\ Underway'
  <2>1. user' \in [Emails -> People \cup {"none", "absent"}]
    BY <1>16 DEF Staff
  <2>2. seat' \in [Slugs -> [Emails -> {"none", "admin", "agent", "off"}]]
    BY <1>16 DEF Staff
  <2> QED BY <1>s, <1>16, <2>1, <2>2 DEF Staff, Change
<1>17. ASSUME NEW e \in Emails, Unlink(e) PROVE TypeOK' /\ Underway'
  BY <1>s, <1>17 DEF Unlink, Change
<1>18. ASSUME NEW s \in Slugs, Suspend(s) PROVE TypeOK' /\ Underway'
  <2>1. desk' \in [Slugs -> [org : Orgs \cup {0}, active : BOOLEAN, teams : Nat]]
    <3>1. desk \in [Slugs -> Desk] /\ [desk[s] EXCEPT !.active = FALSE] \in Desk
      BY Rows
    <3>2. desk' = [desk EXCEPT ![s] = [desk[s] EXCEPT !.active = FALSE]]
      BY <1>18 DEF Suspend
    <3> QED BY <3>1, <3>2, Put DEF Desk
  <2> QED BY <1>s, <1>18, <2>1 DEF Suspend, Change
<1>19. ASSUME NEW p \in People, NEW mail \in Emails, NEW runs \in SUBSET Belongs[p], PmChanges(p, runs, mail)
       PROVE  TypeOK' /\ Underway'
  <2>1. runs \subseteq Orgs
    BY PmSignInAssumption
  <2> QED BY <1>s, <1>19, <2>1 DEF PmChanges, Change, tables
<1>20. CASE UNCHANGED vars
  BY <1>s, <1>20 DEF vars
<1> QED
  BY <1>1, <1>2, <1>3, <1>4, <1>5, <1>6, <1>7, <1>8, <1>9, <1>10, <1>11, <1>12, <1>13, <1>14, <1>15,
     <1>16, <1>17, <1>18, <1>19, <1>20 DEF Next, Serve
-----------------------------------------------------------------------------
(* States act once. *)

\* A tab that goes on, or ends, and a state row that is left alone.
LEMMA SpentKept ==
  ASSUME TypeOK, Spent, StateActsOnce, NEW t \in Tabs, state' = state,
         \A y \in Tabs \ {t} : req'[y] = req[y],
         \/ req'[t] = Idle
         \/ Busy(t) /\ Busy(t)' /\ req'[t].st = req[t].st /\ (req'[t].pc = "apply" => ~SignIn(req[t].st))
         \/ req'[t].pc \in {"away", "claim"} /\ req'[t].st \in Tabs
  PROVE  Spent' /\ StateActsOnce'
<1>1. Idle.pc = "idle"
  BY DEF Idle
<1>2. \A y \in Tabs : Busy(y)' => Busy(y) /\ req'[y].st = req[y].st
  BY <1>1 DEF Busy
<1>3. \A y \in Tabs : req'[y].pc # "idle" => req'[y].st \in Tabs
  BY <1>1 DEF Spent, Busy
<1>4. \A y \in Tabs : req'[y].pc = "apply" => Busy(y)' /\ ~SignIn(req'[y].st)
  BY <1>1 DEF Spent, Busy
<1>5. \A y \in Tabs : Busy(y) <=> req[y].pc \notin {"idle", "away", "claim"}
  BY DEF Busy
<1>6. Spent'
  BY <1>2, <1>3, <1>4 DEF Spent, SignIn
<1>7. StateActsOnce'
  BY <1>2 DEF StateActsOnce, Busy
<1> QED BY <1>6, <1>7

\* What a tab's step does to its own callback and to nobody else's.
LEMMA Own ==
  ASSUME TypeOK, NEW t \in Tabs
  PROVE  /\ End(t) => req'[t] = Idle /\ \A y \in Tabs \ {t} : req'[y] = req[y]
         /\ \A pc \in STRING : Goto(t, pc) => /\ req'[t] = [req[t] EXCEPT !.pc = pc]
                                 /\ req'[t].pc = pc /\ req'[t].st = req[t].st
                                 /\ req'[t].desk = req[t].desk /\ req'[t].runs = req[t].runs
                                 /\ \A y \in Tabs \ {t} : req'[y] = req[y]
<1>1. req[t] \in Req /\ req \in [Tabs -> Req]
  BY DEF TypeOK
<1> QED BY <1>1 DEF End, Goto, Req

\* The steps of a sign-in under way, once PM has answered.
GoesOn(t) ==
  \/ Gate(t) \/ FindUser(t) \/ FindEmail(t) \/ InsertUser(t) \/ ReadSeat(t) \/ InsertSeat(t)
  \/ NotProvisioned(t) \/ InsertDesk(t) \/ CommitDesk(t) \/ Adopt(t) \/ Resolve(t)

LEMMA FoundingGoesOn ==
  ASSUME TypeOK, NEW t \in Tabs, GoesOn(t)
  PROVE  /\ state' = state /\ req[t].pc \in Founding /\ \A y \in Tabs \ {t} : req'[y] = req[y]
         /\ \/ req'[t] = Idle
            \/ req'[t].pc \in Founding /\ req'[t].st = req[t].st
<1>1. req[t] \in Req /\ req \in [Tabs -> Req]
  BY DEF TypeOK
<1>2. state' = state /\ req[t].pc \in Founding
  BY DEF GoesOn, Gate, FindUser, FindEmail, InsertUser, ReadSeat, InsertSeat, NotProvisioned, InsertDesk,
         CommitDesk, Adopt, Resolve, Founding, others
<1>3. \/ End(t)
      \/ \E pc \in Founding : Goto(t, pc)
      \/ \E s : req' = [req EXCEPT ![t].pc = "find", ![t].desk = s]
      \/ \E e : req' = [req EXCEPT ![t].pc = "place", ![t].user = e]
      \/ req[t].pc = "place" /\ req' = [req EXCEPT ![t].try = @ + 1]
      \/ \E s : req' = [req EXCEPT ![t].pc = "held", ![t].desk = s]
  BY DEF GoesOn, Gate, FindUser, FindEmail, InsertUser, ReadSeat, InsertSeat, NotProvisioned, InsertDesk,
         CommitDesk, Adopt, Resolve, Founding
<1>4. CASE End(t)
  BY <1>2, <1>4, Own
<1>5. ASSUME NEW pc \in Founding, Goto(t, pc) PROVE req'[t].pc \in Founding /\ req'[t].st = req[t].st /\ \A y \in Tabs \ {t} : req'[y] = req[y]
  BY <1>1, <1>5 DEF Goto, Req
<1>6. ASSUME NEW s, req' = [req EXCEPT ![t].pc = "find", ![t].desk = s] \/ req' = [req EXCEPT ![t].pc = "held", ![t].desk = s]
      PROVE  req'[t].pc \in Founding /\ req'[t].st = req[t].st /\ \A y \in Tabs \ {t} : req'[y] = req[y]
  BY <1>1, <1>6 DEF Req, Founding
<1>7. ASSUME NEW e, req' = [req EXCEPT ![t].pc = "place", ![t].user = e]
      PROVE  req'[t].pc \in Founding /\ req'[t].st = req[t].st /\ \A y \in Tabs \ {t} : req'[y] = req[y]
  BY <1>1, <1>7 DEF Req, Founding
<1>8. CASE req[t].pc = "place" /\ req' = [req EXCEPT ![t].try = @ + 1]
  BY <1>1, <1>2, <1>8 DEF Req, Founding
<1> QED BY <1>2, <1>3, <1>4, <1>5, <1>6, <1>7, <1>8

LEMMA SpentStep == TypeOK /\ Spent /\ StateActsOnce /\ [Next]_vars => Spent' /\ StateActsOnce'
<1> SUFFICES ASSUME TypeOK, Spent, StateActsOnce, [Next]_vars PROVE Spent' /\ StateActsOnce'
  OBVIOUS
<1>0. req \in [Tabs -> Req] /\ state \in [Tabs -> State] /\ Idle.pc = "idle"
  BY Rows DEF TypeOK, Idle
<1>1. ASSUME NEW t \in Tabs, Begin(t) \/ \E e \in Emails, s \in Slugs : BeginLink(t, e, s) PROVE Spent' /\ StateActsOnce'
  <2>1. /\ req[t] = Idle /\ \A y \in Tabs : req[y].st # t
        /\ \A x \in Tabs \ {t} : state'[x] = state[x]
        /\ req'[t].pc = "away" /\ req'[t].st = t /\ \A y \in Tabs \ {t} : req'[y] = req[y]
    BY <1>0, <1>1 DEF Begin, BeginLink, Fresh, Mint, Req
  <2>2. \A y \in Tabs : Busy(y)' => y # t /\ Busy(y) /\ req'[y] = req[y] /\ req[y].st \in Tabs \ {t}
    BY <2>1 DEF Busy, Spent
  <2>3. Spent'
    BY <2>1, <2>2 DEF Spent, Busy, SignIn
  <2>4. StateActsOnce'
    BY <2>2 DEF StateActsOnce, Busy
  <2> QED BY <2>3, <2>4
<1>2. ASSUME NEW t \in Tabs, NEW x \in Tabs, Return(t, x) PROVE Spent' /\ StateActsOnce'
  <2>1. state' = state /\ (End(t) \/ req' = [req EXCEPT ![t].pc = "claim", ![t].st = x])
    BY <1>2 DEF Return
  <2>2. CASE End(t)
    BY <2>1, <2>2, Own, SpentKept
  <2>3. CASE req' = [req EXCEPT ![t].pc = "claim", ![t].st = x]
    <3>1. req'[t].pc = "claim" /\ req'[t].st = x /\ \A y \in Tabs \ {t} : req'[y] = req[y]
      BY <1>0, <2>3 DEF Req
    <3> QED BY <2>1, <3>1, SpentKept
  <2> QED BY <2>1, <2>2, <2>3
<1>3. ASSUME NEW t \in Tabs, Claim(t) PROVE Spent' /\ StateActsOnce'
  <2> DEFINE x == req[t].st
  <2>1. CASE ~Unspent(x)
    <3>1. End(t) /\ state' = state
      BY <1>3, <2>1 DEF Claim
    <3> QED BY <3>1, Own, SpentKept
  <2>2. CASE Unspent(x)
    <3>1. x \in Tabs /\ state[x].st = "open" /\ req[t].pc = "claim"
      BY <1>3, <2>2 DEF Claim, Spent, Unspent
    <3>2. /\ Goto(t, "exchange") /\ state'[x].st = "used" /\ state'[x].user = state[x].user
          /\ \A z \in Tabs \ {x} : state'[z] = state[z]
      BY <1>0, <1>3, <2>2, <3>1 DEF Claim, State
    <3>3. req'[t].pc = "exchange" /\ req'[t].st = x /\ \A y \in Tabs \ {t} : req'[y] = req[y]
      BY <1>0, <3>2 DEF Goto, Req
    <3>4. \A y \in Tabs \ {t} : Busy(y)' => Busy(y) /\ req'[y].st = req[y].st /\ req[y].st # x
      BY <3>1, <3>3 DEF Busy, Spent
    <3>5. Spent'
      BY <3>1, <3>2, <3>3, <3>4 DEF Spent, Busy, SignIn
    <3>6. StateActsOnce'
      BY <3>3, <3>4 DEF StateActsOnce, Busy
    <3> QED BY <3>5, <3>6
  <2> QED BY <2>1, <2>2
<1>4. ASSUME NEW t \in Tabs, Exchange(t) PROVE Spent' /\ StateActsOnce'
  <2>1. state' = state /\ Busy(t)
    BY <1>4 DEF Exchange, others, Busy
  <2>2. CASE End(t)
    BY <2>1, <2>2, Own, SpentKept
  <2>3. CASE ~End(t)
    <3>1. PICK a, b : req' = [req EXCEPT ![t].pc = IF SignIn(req[t].st) THEN "gate" ELSE "apply", ![t].runs = a, ![t].mail = b]
      BY <1>4, <2>3 DEF Exchange
    <3>2. /\ req'[t].pc = IF SignIn(req[t].st) THEN "gate" ELSE "apply"
          /\ req'[t].st = req[t].st /\ \A y \in Tabs \ {t} : req'[y] = req[y]
      BY <1>0, <3>1 DEF Req
    <3>3. Busy(t)'
      BY <3>2 DEF Busy
    <3> QED BY <2>1, <3>2, <3>3, SpentKept
  <2> QED BY <2>2, <2>3
<1>5. ASSUME NEW t \in Tabs, Apply(t) \/ Fail(t) PROVE Spent' /\ StateActsOnce'
  BY <1>5, Own, SpentKept DEF Apply, Fail, others
<1>6. ASSUME NEW t \in Tabs, GoesOn(t) PROVE Spent' /\ StateActsOnce'
  <2>1. \A pc \in Founding : pc \notin {"idle", "away", "claim", "apply"}
    BY DEF Founding
  <2> QED BY <1>6, <2>1, FoundingGoesOn, SpentKept DEF Busy
<1>7. ASSUME NEW t \in Tabs, Leave(t) PROVE Spent' /\ StateActsOnce'
  <2>1. state' = state /\ req'[t] = Idle /\ \A y \in Tabs \ {t} : req'[y] = req[y]
    BY <1>0, <1>7 DEF Leave, others
  <2> QED BY <2>1, SpentKept
<1>8. ASSUME NEW x \in Tabs, Expire(x) PROVE Spent' /\ StateActsOnce'
  <2>1. /\ req' = req /\ state'[x].st = "used" /\ state'[x].user = state[x].user
        /\ \A z \in Tabs \ {x} : state'[z] = state[z]
    BY <1>0, <1>8 DEF Expire, State
  <2> QED BY <2>1 DEF Spent, StateActsOnce, Busy, SignIn
<1>9. ASSUME UNCHANGED <<state, req>> PROVE Spent' /\ StateActsOnce'
  BY <1>9 DEF Spent, StateActsOnce, Busy, SignIn
<1> QED
  BY <1>1, <1>2, <1>3, <1>4, <1>5, <1>6, <1>7, <1>8, <1>9
  DEF Next, Serve, GoesOn, Staff, Unlink, Suspend, PmChanges, vars
-----------------------------------------------------------------------------
(* One desk each. *)

DeskInv == Real /\ LinkIsReal /\ Held /\ OneDeskEach

LEMMA HeldNext ==
  ASSUME \A y \in Tabs : req'[y].pc = "held" =>
           /\ req'[y].desk \in Slugs /\ ~(desk'[req'[y].desk].teams > 0)
           /\ \A r \in Slugs : desk'[r].org # Least(req'[y].runs),
         \A y, z \in Tabs : req'[y].pc = "held" /\ req'[z].pc = "held" /\ z # y =>
           req'[z].desk # req'[y].desk /\ Least(req'[z].runs) # Least(req'[y].runs)
  PROVE  Held'
  BY DEF Held, Exists, OrgTaken

\* The steps that leave a tab not making a desk.
LEMMA Elsewhere ==
  ASSUME TypeOK, NEW t \in Tabs,
         \/ End(t)
         \/ \E pc : pc # "held" /\ Goto(t, pc)
         \/ \E r : r.pc # "held" /\ req' = [req EXCEPT ![t] = r]
  PROVE  req'[t].pc # "held" /\ \A y \in Tabs \ {t} : req'[y] = req[y]
<1>1. req[t] \in Req /\ req \in [Tabs -> Req]
  BY DEF TypeOK
<1>2. CASE End(t)
  BY <1>1, <1>2 DEF End, Idle
<1>3. ASSUME NEW pc, pc # "held", Goto(t, pc)
      PROVE  req'[t].pc # "held" /\ \A y \in Tabs \ {t} : req'[y] = req[y]
  BY <1>1, <1>3 DEF Goto, Req
<1>4. ASSUME NEW r, r.pc # "held", req' = [req EXCEPT ![t] = r]
      PROVE  req'[t].pc # "held" /\ \A y \in Tabs \ {t} : req'[y] = req[y]
  BY <1>1, <1>4
<1> QED BY <1>2, <1>3, <1>4

\* No desk is made or mapped, no tab begins to make one, and no link begins.
LEMMA DesksKept ==
  ASSUME DeskInv, desk' = desk,
         \A x \in Tabs : state'[x].user = state[x].user /\ state'[x].desk = state[x].desk,
         \A y \in Tabs : req'[y].pc = "held" =>
            req[y].pc = "held" /\ req'[y].desk = req[y].desk /\ req'[y].runs = req[y].runs
  PROVE  DeskInv'
<1>1. Real' /\ OneDeskEach'
  BY DEF DeskInv, Real, OneDeskEach, Exists
<1>2. LinkIsReal'
  BY DEF DeskInv, LinkIsReal, Exists, SignIn
<1>3. \A y \in Tabs : req'[y].pc = "held" =>
        /\ req'[y].desk \in Slugs /\ ~(desk'[req'[y].desk].teams > 0)
        /\ \A r \in Slugs : desk'[r].org # Least(req'[y].runs)
  BY DEF DeskInv, Held, Exists, OrgTaken
<1>4. \A y, z \in Tabs : req'[y].pc = "held" /\ req'[z].pc = "held" /\ z # y =>
        req'[z].desk # req'[y].desk /\ Least(req'[z].runs) # Least(req'[y].runs)
  BY DEF DeskInv, Held
<1>5. Held'
  BY <1>3, <1>4, HeldNext
<1> QED BY <1>1, <1>2, <1>5 DEF DeskInv

\* One tab moves, and not into making a desk.
LEMMA OthersMove ==
  ASSUME TypeOK, DeskInv, desk' = desk,
         \A x \in Tabs : state'[x].user = state[x].user /\ state'[x].desk = state[x].desk,
         NEW t \in Tabs, req'[t].pc # "held", \A y \in Tabs \ {t} : req'[y] = req[y]
  PROVE  DeskInv'
  BY DesksKept

LEMMA CommitDeskStep ==
  ASSUME TypeOK, Underway, DeskInv, NEW t \in Tabs, CommitDesk(t)
  PROVE  DeskInv'
<1> DEFINE s == req[t].desk
           o == Least(req[t].runs)
<1>1. /\ req[t].pc = "held" /\ s \in Slugs /\ ~Exists(s) /\ ~OrgTaken(o) /\ state' = state
      /\ desk[s] \in Desk /\ desk[s].teams = 0
  <2>1. req[t].pc = "held" /\ state' = state
    BY DEF CommitDesk, others
  <2>2. s \in Slugs /\ ~Exists(s) /\ ~OrgTaken(o)
    BY <2>1 DEF DeskInv, Held
  <2> QED BY <2>1, <2>2, Rows DEF Exists, Desk
<1>2. /\ desk'[s].org = o /\ desk'[s].teams = 1 /\ \A r \in Slugs \ {s} : desk'[r] = desk[r]
  BY <1>1 DEF CommitDesk, TypeOK
<1>3. o \in Orgs /\ o # 0
  BY <1>1, Founds, PmSignInAssumption DEF Founding
<1>4. req'[t].pc # "held" /\ \A y \in Tabs \ {t} : req'[y] = req[y]
  <2>1. \E pc : pc # "held" /\ Goto(t, pc)
    BY DEF CommitDesk
  <2> QED BY <2>1, Elsewhere
<1>5. Real'
  BY <1>2 DEF DeskInv, Real, Exists
<1>6. LinkIsReal'
  BY <1>1, <1>2 DEF DeskInv, LinkIsReal, Exists, SignIn
<1>7. OneDeskEach'
  <2>1. \A r \in Slugs : desk[r].org # o
    BY <1>1 DEF OrgTaken
  <2> QED BY <1>2, <2>1 DEF DeskInv, OneDeskEach
<1>8. Held'
  <2> HIDE DEF s, o
  <2>1. \A y \in Tabs : req'[y].pc = "held" => y # t /\ req'[y] = req[y] /\ req[y].pc = "held"
    BY <1>4
  <2>2. \A y \in Tabs : y # t /\ req[y].pc = "held" =>
          /\ req[y].desk \in Slugs \ {s} /\ ~Exists(req[y].desk)
          /\ Least(req[y].runs) # o /\ ~OrgTaken(Least(req[y].runs))
    BY <1>1 DEF DeskInv, Held, s, o
  <2>3. \A y \in Tabs : req'[y].pc = "held" =>
          /\ req'[y].desk \in Slugs /\ ~(desk'[req'[y].desk].teams > 0)
          /\ \A r \in Slugs : desk'[r].org # Least(req'[y].runs)
    BY <1>2, <2>1, <2>2 DEF Exists, OrgTaken
  <2>4. \A y, z \in Tabs : req'[y].pc = "held" /\ req'[z].pc = "held" /\ z # y =>
          req'[z].desk # req'[y].desk /\ Least(req'[z].runs) # Least(req'[y].runs)
    BY <2>1 DEF DeskInv, Held
  <2> QED BY <2>3, <2>4, HeldNext
<1> QED BY <1>5, <1>6, <1>7, <1>8 DEF DeskInv

LEMMA InsertDeskStep ==
  ASSUME TypeOK, Underway, DeskInv, NEW t \in Tabs, InsertDesk(t)
  PROVE  DeskInv'
<1> DEFINE o == Least(req[t].runs)
           s == Candidates[o][req[t].try]
<1>1. /\ desk' = desk /\ state' = state /\ req[t].pc = "place" /\ ~OrgHeld(o) /\ ~SlugHeld(s)
      /\ s \in Slugs
  BY Founds DEF InsertDesk, tables, others, Founding
<1>2. CASE Goto(t, "adopt") \/ End(t)
  <2>1. req'[t].pc # "held" /\ \A y \in Tabs \ {t} : req'[y] = req[y]
    BY <1>2, Elsewhere
  <2> QED BY <1>1, <2>1, OthersMove
<1>3. CASE req' = [req EXCEPT ![t].try = @ + 1]
  <2>1. req'[t].pc # "held" /\ \A y \in Tabs \ {t} : req'[y] = req[y]
    BY <1>1, <1>3 DEF TypeOK, Req
  <2> QED BY <1>1, <2>1, OthersMove
<1>4. CASE ~OrgTaken(o) /\ ~Exists(s) /\ req' = [req EXCEPT ![t].pc = "held", ![t].desk = s]
  <2>1. /\ req'[t].pc = "held" /\ req'[t].desk = s /\ req'[t].runs = req[t].runs
        /\ \A y \in Tabs \ {t} : req'[y] = req[y]
    <3> HIDE DEF s
    <3> QED BY <1>1, <1>4 DEF TypeOK, Req
  <2>2. \A y \in Tabs : req[y].pc = "held" => req[y].desk # s /\ Least(req[y].runs) # o
    BY <1>1 DEF OrgHeld, SlugHeld
  <2>3. \A y \in Tabs : req'[y].pc = "held" =>
          req'[y].desk \in Slugs /\ ~Exists(req'[y].desk) /\ ~OrgTaken(Least(req'[y].runs))
    <3> HIDE DEF s
    <3> QED BY <1>1, <1>4, <2>1 DEF DeskInv, Held
  <2>4. \A y, z \in Tabs : req'[y].pc = "held" /\ req'[z].pc = "held" /\ z # y =>
          req'[z].desk # req'[y].desk /\ Least(req'[z].runs) # Least(req'[y].runs)
    <3> HIDE DEF s
    <3> QED BY <2>1, <2>2 DEF DeskInv, Held
  <2>5. Held'
    BY <1>1, <2>3, <2>4 DEF Held, Exists, OrgTaken
  <2>6. Real' /\ LinkIsReal' /\ OneDeskEach'
    BY <1>1 DEF DeskInv, Real, LinkIsReal, OneDeskEach, Exists, SignIn
  <2> QED BY <2>5, <2>6 DEF DeskInv
<1> QED BY <1>2, <1>3, <1>4 DEF InsertDesk

\* A link maps a desk that exists to an organisation no desk has and no tab holds.
LEMMA ApplyStep ==
  ASSUME TypeOK, Spent, DeskInv, NEW t \in Tabs, Apply(t)
  PROVE  DeskInv'
<1> DEFINE s == state[req[t].st].desk
           match == {o \in Belongs[Who[t]] : Candidates[o][1] = s}
           org == Least(match)
<1>1. /\ state' = state /\ req'[t].pc # "held" /\ \A y \in Tabs \ {t} : req'[y] = req[y]
      /\ s \in Slugs /\ Exists(s)
  <2>1. state' = state /\ req[t].pc = "apply" /\ End(t)
    BY DEF Apply, others
  <2>2. req[t].st \in Tabs /\ ~SignIn(req[t].st)
    BY <2>1 DEF Spent
  <2>3. s \in Slugs /\ Exists(s)
    BY <2>2 DEF DeskInv, LinkIsReal
  <2> QED BY <2>1, <2>3, Elsewhere
<1>2. CASE desk' = desk
  BY <1>1, <1>2, OthersMove
<1>3. CASE ~OrgTaken(org) /\ ~OrgHeld(org) /\ desk' = [desk EXCEPT ![s].org = org]
  <2>1. desk'[s].org = org /\ desk'[s].teams = desk[s].teams /\ \A r \in Slugs \ {s} : desk'[r] = desk[r]
    <3> HIDE DEF org, s
    <3> QED BY <1>1, <1>3 DEF TypeOK
  <2> HIDE DEF org, s
  <2>2. \A r \in Slugs : Exists(r)' <=> Exists(r)
    BY <1>1, <2>1 DEF Exists
  <2>3. Real' /\ LinkIsReal'
    BY <1>1, <2>1, <2>2 DEF DeskInv, Real, LinkIsReal, SignIn
  <2>4. OneDeskEach'
    BY <1>1, <1>3, <2>1 DEF DeskInv, OneDeskEach, OrgTaken
  <2>5. \A y \in Tabs : req'[y].pc = "held" => y # t /\ req'[y] = req[y] /\ Least(req[y].runs) # org
    BY <1>1, <1>3 DEF OrgHeld
  <2>6. \A y \in Tabs : req'[y].pc = "held" =>
          /\ req'[y].desk \in Slugs /\ ~(desk'[req'[y].desk].teams > 0)
          /\ \A r \in Slugs : desk'[r].org # Least(req'[y].runs)
    BY <1>1, <2>1, <2>5 DEF DeskInv, Held, OrgTaken, Exists
  <2>7. \A y, z \in Tabs : req'[y].pc = "held" /\ req'[z].pc = "held" /\ z # y =>
          req'[z].desk # req'[y].desk /\ Least(req'[z].runs) # Least(req'[y].runs)
    BY <2>5 DEF DeskInv, Held
  <2>8. Held'
    BY <2>6, <2>7, HeldNext
  <2> QED BY <2>3, <2>4, <2>8 DEF DeskInv
<1> QED BY <1>2, <1>3 DEF Apply

LEMMA DeskStep == TypeOK /\ Underway /\ Spent /\ DeskInv /\ [Next]_vars => DeskInv'
<1> SUFFICES ASSUME TypeOK, Underway, Spent, DeskInv, [Next]_vars PROVE DeskInv'
  OBVIOUS
<1>0. req \in [Tabs -> Req] /\ state \in [Tabs -> State] /\ desk \in [Slugs -> Desk] /\ Idle.pc = "idle"
  BY Rows DEF TypeOK, Idle
<1>1. ASSUME NEW t \in Tabs, Begin(t) PROVE DeskInv'
  <2>1. /\ desk' = desk /\ state'[t].user = "none" /\ \A x \in Tabs \ {t} : state'[x] = state[x]
        /\ req'[t].pc = "away" /\ \A y \in Tabs \ {t} : req'[y] = req[y]
    BY <1>0, <1>1 DEF Begin, Mint, tables, Req
  <2>2. LinkIsReal'
    BY <2>1 DEF DeskInv, LinkIsReal, SignIn, Exists
  <2>3. Held'
    BY <2>1 DEF DeskInv, Held, Exists, OrgTaken
  <2> QED BY <2>1, <2>2, <2>3 DEF DeskInv, Real, OneDeskEach, Exists
<1>2. ASSUME NEW t \in Tabs, NEW e \in Emails, NEW s \in Slugs, BeginLink(t, e, s) PROVE DeskInv'
  <2>1. /\ desk' = desk /\ desk[s].active
        /\ state'[t].desk = s /\ \A x \in Tabs \ {t} : state'[x] = state[x]
        /\ req'[t].pc = "away" /\ \A y \in Tabs \ {t} : req'[y] = req[y]
    BY <1>0, <1>2 DEF BeginLink, Mint, tables, Req
  <2>2. LinkIsReal'
    BY <2>1 DEF DeskInv, LinkIsReal, Real, SignIn, Exists
  <2>3. Held'
    BY <2>1 DEF DeskInv, Held, Exists, OrgTaken
  <2> QED BY <2>1, <2>2, <2>3 DEF DeskInv, Real, OneDeskEach, Exists
<1>3. ASSUME NEW t \in Tabs, NEW x \in Tabs, Return(t, x) PROVE DeskInv'
  <2>1. desk' = desk /\ state' = state
    BY <1>3 DEF Return, tables
  <2>2. \/ End(t)
        \/ req' = [req EXCEPT ![t].pc = "claim", ![t].st = x]
    BY <1>3 DEF Return
  <2>3. req'[t].pc # "held" /\ \A y \in Tabs \ {t} : req'[y] = req[y]
    BY <1>0, <2>2, Elsewhere DEF Req
  <2> QED BY <2>1, <2>3, OthersMove
<1>4. ASSUME NEW t \in Tabs, Claim(t) PROVE DeskInv'
  <2>1. /\ desk' = desk
        /\ state' = state \/ state' = [state EXCEPT ![req[t].st].st = "used"]
    BY <1>4 DEF Claim, tables
  <2>2. End(t) \/ \E pc : pc # "held" /\ Goto(t, pc)
    <3>1. End(t) \/ Goto(t, "exchange")
      BY <1>4 DEF Claim
    <3> QED BY <3>1
  <2>3. \A x \in Tabs : state'[x].user = state[x].user /\ state'[x].desk = state[x].desk
    BY <1>0, <2>1 DEF State
  <2>4. req'[t].pc # "held" /\ \A y \in Tabs \ {t} : req'[y] = req[y]
    BY <2>2, Elsewhere
  <2> QED BY <2>1, <2>3, <2>4, OthersMove
<1>5. ASSUME NEW t \in Tabs, Exchange(t) PROVE DeskInv'
  <2>1. desk' = desk /\ state' = state
    BY <1>5 DEF Exchange, tables, others
  <2>2. \/ End(t)
        \/ \E a, b : req' = [req EXCEPT ![t].pc = IF SignIn(req[t].st) THEN "gate" ELSE "apply", ![t].runs = a, ![t].mail = b]
    BY <1>5 DEF Exchange
  <2>3. req'[t].pc # "held" /\ \A y \in Tabs \ {t} : req'[y] = req[y]
    <3>1. CASE End(t)
      BY <3>1, Elsewhere
    <3>2. ASSUME NEW pc, pc # "held", NEW a, NEW b,
                 req' = [req EXCEPT ![t].pc = pc, ![t].runs = a, ![t].mail = b]
          PROVE  req'[t].pc # "held" /\ \A y \in Tabs \ {t} : req'[y] = req[y]
      BY <1>0, <3>2 DEF Req
    <3> QED BY <2>2, <3>1, <3>2
  <2> QED BY <2>1, <2>3, OthersMove
<1>6. ASSUME NEW t \in Tabs,
             \/ Gate(t) \/ FindUser(t) \/ FindEmail(t) \/ InsertUser(t) \/ ReadSeat(t) \/ InsertSeat(t)
             \/ NotProvisioned(t) \/ Adopt(t) \/ Resolve(t)
      PROVE  DeskInv'
  <2>1. desk' = desk /\ state' = state
    BY <1>6 DEF Gate, FindUser, FindEmail, InsertUser, ReadSeat, InsertSeat, NotProvisioned, Adopt, Resolve,
                tables, others
  <2>2. \/ End(t)
        \/ \E pc \in {"email", "insert", "sit", "resolve", "in"} : Goto(t, pc)
        \/ \E s : req' = [req EXCEPT ![t].pc = "find", ![t].desk = s]
        \/ \E e : req' = [req EXCEPT ![t].pc = "place", ![t].user = e]
    BY <1>6 DEF Gate, FindUser, FindEmail, InsertUser, ReadSeat, InsertSeat, NotProvisioned, Adopt, Resolve
  <2>3. req'[t].pc # "held" /\ \A y \in Tabs \ {t} : req'[y] = req[y]
    <3>1. CASE End(t) \/ \E pc \in {"email", "insert", "sit", "resolve", "in"} : Goto(t, pc)
      BY <3>1, Elsewhere
    <3>2. CASE \E s : req' = [req EXCEPT ![t].pc = "find", ![t].desk = s]
      BY <1>0, <3>2 DEF Req
    <3>3. CASE \E e : req' = [req EXCEPT ![t].pc = "place", ![t].user = e]
      BY <1>0, <3>3 DEF Req
    <3> QED BY <2>2, <3>1, <3>2, <3>3
  <2> QED BY <2>1, <2>3, OthersMove
<1>7. ASSUME NEW t \in Tabs, Leave(t) \/ Fail(t) PROVE DeskInv'
  <2>1. desk' = desk /\ state' = state
    BY <1>7 DEF Leave, Fail, tables, others
  <2>2. End(t) \/ req' = [req EXCEPT ![t] = Idle]
    BY <1>7 DEF Leave, Fail
  <2>3. req'[t].pc # "held" /\ \A y \in Tabs \ {t} : req'[y] = req[y]
    BY <1>0, <2>2, Elsewhere
  <2> QED BY <2>1, <2>3, OthersMove
<1>8. ASSUME NEW x \in Tabs, Expire(x) PROVE DeskInv'
  <2>1. /\ desk' = desk /\ req' = req
        /\ \A z \in Tabs : state'[z].user = state[z].user /\ state'[z].desk = state[z].desk
    BY <1>0, <1>8 DEF Expire, tables, State
  <2> QED BY <2>1, DesksKept
<1>9. ASSUME NEW s \in Slugs, Suspend(s) PROVE DeskInv'
  <2>1. /\ req' = req /\ state' = state /\ desk[s].active
        /\ desk'[s].org = desk[s].org /\ desk'[s].teams = desk[s].teams
        /\ \A r \in Slugs \ {s} : desk'[r] = desk[r]
    BY <1>0, <1>9 DEF Suspend, Desk
  <2>2. Real' /\ LinkIsReal' /\ OneDeskEach'
    BY <2>1 DEF DeskInv, Real, LinkIsReal, OneDeskEach, SignIn, Exists
  <2>3. Held'
    <3>1. \A r \in Slugs : desk'[r].org = desk[r].org /\ desk'[r].teams = desk[r].teams
      BY <2>1
    <3>2. \A y \in Tabs : req'[y].pc = "held" =>
            /\ req'[y].desk \in Slugs /\ ~(desk'[req'[y].desk].teams > 0)
            /\ \A r \in Slugs : desk'[r].org # Least(req'[y].runs)
      BY <2>1, <3>1 DEF DeskInv, Held, OrgTaken, Exists
    <3>3. \A y, z \in Tabs : req'[y].pc = "held" /\ req'[z].pc = "held" /\ z # y =>
            req'[z].desk # req'[y].desk /\ Least(req'[z].runs) # Least(req'[y].runs)
      BY <2>1 DEF DeskInv, Held
    <3> QED BY <3>2, <3>3, HeldNext
  <2> QED BY <2>2, <2>3 DEF DeskInv
<1>10. ASSUME UNCHANGED <<desk, state, req>> PROVE DeskInv'
  BY <1>10, DesksKept
<1>11. ASSUME NEW t \in Tabs, Serve(t) PROVE DeskInv'
  BY <1>4, <1>5, <1>6, <1>11, ApplyStep, InsertDeskStep, CommitDeskStep DEF Serve
<1>12. ASSUME NEW s \in Slugs, NEW e \in Emails, NEW role, Staff(s, e, role) PROVE DeskInv'
  BY <1>10, <1>12 DEF Staff
<1>13. ASSUME NEW e \in Emails, Unlink(e) PROVE DeskInv'
  BY <1>10, <1>13 DEF Unlink
<1>14. ASSUME NEW p \in People, NEW runs, NEW mail, PmChanges(p, runs, mail) PROVE DeskInv'
  BY <1>10, <1>14 DEF PmChanges, tables
<1>15. CASE UNCHANGED vars
  BY <1>10, <1>15 DEF vars
<1> QED
  BY <1>1, <1>2, <1>3, <1>7, <1>8, <1>9, <1>11, <1>12, <1>13, <1>14, <1>15 DEF Next

-----------------------------------------------------------------------------
(* What a sign-in leaves alone.  Seats are of desks that exist, so that the   *)
(* founder of a new one overwrites nobody's.                                  *)

Seated == \A s \in Slugs, e \in Emails : seat[s][e] # "none" => Exists(s)

\* The desk a callback is placed on exists, unless it is making it.
Placed == \A t \in Tabs : req[t].pc # "held" /\ req[t].desk # 0 => Exists(req[t].desk)

LEMMA DesksRemain ==
  ASSUME TypeOK, Underway, Spent, DeskInv, [Next]_vars, NEW s \in Slugs, Exists(s)
  PROVE  Exists(s)'
<1>1. desk[s] \in Desk /\ desk \in [Slugs -> Desk]
  BY Rows
<1>2. ASSUME NEW t \in Tabs, Apply(t) PROVE Exists(s)'
  <2>1. PICK r, o : desk' = desk \/ desk' = [desk EXCEPT ![r].org = o]
    BY <1>2 DEF Apply
  <2> QED BY <1>1, <2>1 DEF Exists, Desk
<1>3. ASSUME NEW t \in Tabs, CommitDesk(t) PROVE Exists(s)'
  <2>1. PICK r, o : desk' = [desk EXCEPT ![r] = [org |-> o, active |-> TRUE, teams |-> @.teams + 1]]
    BY <1>3 DEF CommitDesk
  <2> QED BY <1>1, <2>1 DEF Exists, Desk
<1>4. ASSUME NEW r \in Slugs, Suspend(r) PROVE Exists(s)'
  BY <1>1, <1>4 DEF Suspend, Exists, Desk
<1>5. CASE desk' = desk
  BY <1>5 DEF Exists
<1>6. ASSUME NEW t \in Tabs, Serve(t), ~Apply(t), ~CommitDesk(t) PROVE desk' = desk
  BY <1>6 DEF Serve, Claim, Exchange, Gate, FindUser, FindEmail, InsertUser, ReadSeat, InsertSeat,
              NotProvisioned, InsertDesk, Adopt, Resolve, tables
<1>7. ASSUME NEW t \in Tabs,
             \/ Begin(t) \/ Leave(t) \/ Fail(t) \/ Expire(t) \/ \E x \in Tabs : Return(t, x)
             \/ \E e \in Emails, r \in Slugs : BeginLink(t, e, r)
      PROVE  desk' = desk
  BY <1>7 DEF Begin, Leave, Fail, Expire, Return, BeginLink, tables
<1>8. ASSUME \/ \E r \in Slugs, e \in Emails, role \in {"admin", "agent", "off"} : Staff(r, e, role)
             \/ \E e \in Emails : Unlink(e)
             \/ \E p \in People, mail \in Emails : \E runs \in SUBSET Belongs[p] : PmChanges(p, runs, mail)
      PROVE  desk' = desk
  BY <1>8 DEF Staff, Unlink, PmChanges, tables
<1> QED BY <1>2, <1>3, <1>4, <1>5, <1>6, <1>7, <1>8 DEF Next, vars

LEMMA FirstOpen ==
  ASSUME TypeOK, NEW runs, Open(runs) # {}
  PROVE  Least(Open(runs)) \in Slugs /\ Exists(Least(Open(runs)))
<1>1. Open(runs) \in SUBSET Nat
  BY PmSignInAssumption DEF Open, Linked
<1>2. Least(Open(runs)) \in Open(runs)
  BY <1>1, LeastIs
<1> QED BY <1>2 DEF Open, Linked

\* A tab's step keeps its desk, leaves it, finds one that exists, or makes one.
LEMMA PlacedMoves ==
  ASSUME TypeOK, Placed, NEW t \in Tabs, Serve(t) \/ Leave(t) \/ Fail(t)
  PROVE  /\ \A y \in Tabs \ {t} : req'[y] = req[y]
         /\ \/ req'[t].desk = 0 \/ req'[t].pc = "held"
            \/ req'[t].desk = req[t].desk /\ req[t].pc # "held"
            \/ req'[t].desk \in Slugs /\ Exists(req'[t].desk)
            \/ CommitDesk(t) /\ req'[t].desk = req[t].desk
<1> DEFINE Result == /\ \A y \in Tabs \ {t} : req'[y] = req[y]
                     /\ \/ req'[t].desk = 0 \/ req'[t].pc = "held"
                        \/ req'[t].desk = req[t].desk /\ req[t].pc # "held"
                        \/ req'[t].desk \in Slugs /\ Exists(req'[t].desk)
                        \/ CommitDesk(t) /\ req'[t].desk = req[t].desk
<1>0. req[t] \in Req /\ req \in [Tabs -> Req] /\ Idle.desk = 0
  BY DEF TypeOK, Idle
<1>1. CASE End(t) \/ Leave(t)
  <2>1. req'[t] = Idle /\ \A y \in Tabs \ {t} : req'[y] = req[y]
    BY <1>0, <1>1 DEF End, Leave
  <2> QED BY <1>0, <2>1
<1>2. ASSUME NEW pc, Goto(t, pc), req[t].pc # "held" \/ CommitDesk(t) PROVE Result
  <2>1. req'[t].desk = req[t].desk /\ \A y \in Tabs \ {t} : req'[y] = req[y]
    BY <1>0, <1>2 DEF Goto, Req
  <2> QED BY <1>2, <2>1
<1>3. CASE Exchange(t)
  <2>1. CASE End(t)
    BY <1>1, <2>1
  <2>2. CASE ~End(t)
    <3>1. PICK a, b : req' = [req EXCEPT ![t].pc = IF SignIn(req[t].st) THEN "gate" ELSE "apply", ![t].runs = a, ![t].mail = b]
      BY <1>3, <2>2 DEF Exchange
    <3>2. req'[t].desk = req[t].desk /\ req[t].pc # "held" /\ \A y \in Tabs \ {t} : req'[y] = req[y]
      BY <1>0, <1>3, <3>1 DEF Exchange, Req
    <3> QED BY <3>2
  <2> QED BY <2>1, <2>2
<1>4. CASE Gate(t)
  <2> DEFINE s == IF Open(req[t].runs) = {} THEN 0 ELSE Least(Open(req[t].runs))
  <2>1. CASE End(t)
    BY <1>1, <2>1
  <2>2. CASE req' = [req EXCEPT ![t].pc = "find", ![t].desk = s]
    <3>1. s = 0 \/ (s \in Slugs /\ Exists(s))
      BY FirstOpen
    <3>2. req'[t].desk = s /\ \A y \in Tabs \ {t} : req'[y] = req[y]
      <4> HIDE DEF s
      <4> QED BY <1>0, <2>2 DEF Req
    <3> HIDE DEF s
    <3> QED BY <3>1, <3>2
  <2> QED BY <1>4, <2>1, <2>2 DEF Gate
<1>5. ASSUME NEW e, req' = [req EXCEPT ![t].pc = "place", ![t].user = e], req[t].pc # "held" PROVE Result
  <2>1. req'[t].desk = req[t].desk /\ \A y \in Tabs \ {t} : req'[y] = req[y]
    BY <1>0, <1>5 DEF Req
  <2> QED BY <1>5, <2>1
<1>6. CASE FindUser(t) \/ InsertUser(t)
  <2>1. /\ req[t].pc # "held"
        /\ End(t) \/ Goto(t, "email") \/ \E e : req' = [req EXCEPT ![t].pc = "place", ![t].user = e]
    BY <1>6 DEF FindUser, InsertUser
  <2> QED BY <1>1, <1>2, <1>5, <2>1
<1>7. CASE InsertDesk(t)
  <2> DEFINE s == Candidates[Least(req[t].runs)][req[t].try]
  <2>1. \/ End(t) \/ Goto(t, "adopt")
        \/ req' = [req EXCEPT ![t].try = @ + 1]
        \/ req' = [req EXCEPT ![t].pc = "held", ![t].desk = s]
    BY <1>7 DEF InsertDesk
  <2>2. req[t].pc # "held"
    BY <1>7 DEF InsertDesk
  <2>3. CASE req' = [req EXCEPT ![t].try = @ + 1]
    <3>1. req'[t].desk = req[t].desk /\ \A y \in Tabs \ {t} : req'[y] = req[y]
      BY <1>0, <2>3 DEF Req
    <3> QED BY <2>2, <3>1
  <2>4. CASE req' = [req EXCEPT ![t].pc = "held", ![t].desk = s]
    <3>1. req'[t].pc = "held" /\ \A y \in Tabs \ {t} : req'[y] = req[y]
      <4> HIDE DEF s
      <4> QED BY <1>0, <2>4 DEF Req
    <3> QED BY <3>1
  <2> QED BY <1>1, <1>2, <2>1, <2>2, <2>3, <2>4
<1>8. CASE Claim(t) \/ FindEmail(t) \/ ReadSeat(t) \/ InsertSeat(t) \/ NotProvisioned(t) \/ Adopt(t) \/ Resolve(t)
           \/ CommitDesk(t) \/ Apply(t) \/ Fail(t)
  <2>1. End(t) \/ ((req[t].pc # "held" \/ CommitDesk(t)) /\ \E pc : Goto(t, pc))
    BY <1>8 DEF Claim, FindEmail, ReadSeat, InsertSeat, NotProvisioned, Adopt, Resolve, CommitDesk, Apply, Fail
  <2> QED BY <1>1, <1>2, <2>1
<1> QED BY <1>1, <1>3, <1>4, <1>6, <1>7, <1>8 DEF Serve

LEMMA SeatedStep ==
  ASSUME IInv, Seated, Placed, [Next]_vars
  PROVE  Seated' /\ Placed'
<1>0. /\ req \in [Tabs -> Req] /\ desk \in [Slugs -> Desk] /\ Idle.desk = 0
      /\ seat \in [Slugs -> [Emails -> {"none", "admin", "agent", "off"}]]
      /\ TypeOK /\ Underway /\ Spent /\ DeskInv
  BY Rows DEF IInv, DeskInv, TypeOK, Idle
<1>1. \A s \in Slugs : Exists(s) => Exists(s)'
  BY <1>0, DesksRemain
<1>2. ASSUME NEW t \in Tabs, CommitDesk(t) PROVE req[t].desk \in Slugs /\ desk'[req[t].desk].teams > 0
  <2>1. req[t].pc = "held" /\ req[t].desk \in Slugs
    BY <1>2 DEF CommitDesk, IInv, Held
  <2>2. desk[req[t].desk].teams \in Nat
    BY <1>0, <2>1 DEF Desk
  <2>3. desk'[req[t].desk].teams = desk[req[t].desk].teams + 1
    BY <1>0, <1>2, <2>1 DEF CommitDesk
  <2> QED BY <2>1, <2>2, <2>3
<1>3. Placed'
  <2>1. ASSUME NEW t \in Tabs, Serve(t) \/ Leave(t) \/ Fail(t) PROVE Placed'
    <3> SUFFICES ASSUME NEW y \in Tabs, req'[y].pc # "held", req'[y].desk # 0 PROVE desk'[req'[y].desk].teams > 0
      BY DEF Placed, Exists
    <3>1. req[y].desk \in Slugs \cup {0}
      BY <1>0 DEF Req
    <3>2. CASE y # t
      BY <1>0, <1>1, <2>1, <3>1, <3>2, PlacedMoves DEF Placed, Exists
    <3>3. CASE y = t
      <4>1. \/ req'[t].desk = req[t].desk /\ req[t].pc # "held"
            \/ req'[t].desk \in Slugs /\ Exists(req'[t].desk)
            \/ CommitDesk(t) /\ req'[t].desk = req[t].desk
        BY <1>0, <2>1, <3>3, PlacedMoves
      <4>2. req'[t].desk \in Slugs /\ (Exists(req'[t].desk) \/ desk'[req'[t].desk].teams > 0)
        BY <1>2, <3>1, <3>3, <4>1 DEF Placed
      <4> QED BY <1>1, <3>3, <4>2 DEF Exists
    <3> QED BY <3>2, <3>3
  <2>2. ASSUME NEW t \in Tabs, NEW pc, NEW x, req[t].pc # "held",
               req' = [req EXCEPT ![t].pc = pc, ![t].st = x] PROVE Placed'
    <3>1. \A y \in Tabs : req'[y].pc # "held" => req'[y].desk = req[y].desk /\ req[y].pc # "held"
      BY <1>0, <2>2 DEF Req
    <3>2. \A y \in Tabs : req[y].desk \in Slugs \cup {0}
      BY <1>0 DEF Req
    <3> QED BY <1>1, <3>1, <3>2 DEF Placed, Exists
  <2>3. ASSUME NEW t \in Tabs, NEW x \in Tabs, Return(t, x) PROVE Placed'
    <3>1. req[t].pc # "held"
      BY <2>3 DEF Return, Idle
    <3>2. CASE End(t)
      <4>1. req'[t].desk = 0 /\ \A y \in Tabs \ {t} : req'[y] = req[y]
        BY <1>0, <3>2 DEF End
      <4>2. \A y \in Tabs : req[y].desk \in Slugs \cup {0}
        BY <1>0 DEF Req
      <4> QED BY <1>1, <4>1, <4>2 DEF Placed, Exists
    <3> QED BY <2>2, <2>3, <3>1, <3>2 DEF Return
  <2>4. ASSUME NEW t \in Tabs, Begin(t) \/ \E e \in Emails, s \in Slugs : BeginLink(t, e, s) PROVE Placed'
    <3>1. req[t].pc # "held" /\ req' = [req EXCEPT ![t].pc = "away", ![t].st = t]
      BY <2>4 DEF Begin, BeginLink, Fresh, Mint, Idle
    <3> QED BY <2>2, <3>1
  <2>5. CASE req' = req
    <3>1. \A y \in Tabs : req[y].desk \in Slugs \cup {0}
      BY <1>0 DEF Req
    <3> QED BY <1>1, <2>5, <3>1 DEF Placed, Exists
  <2> QED BY <2>1, <2>3, <2>4, <2>5 DEF Next, Expire, Staff, Unlink, Suspend, PmChanges, vars
<1>4. Seated'
  <2>1. CASE seat' = seat
    BY <1>0, <1>1, <2>1 DEF Seated
  <2>2. ASSUME NEW s \in Slugs, NEW e, NEW v, seat' = [seat EXCEPT ![s][e] = v], desk'[s].teams > 0 PROVE Seated'
    BY <1>0, <1>1, <2>2 DEF Seated, Exists
  <2>3. ASSUME NEW t \in Tabs, InsertSeat(t) PROVE Seated'
    <3>1. CASE seat' = [seat EXCEPT ![req[t].desk][req[t].user] = "admin"]
      <4>1. req[t].pc # "held" /\ req[t].desk \in Slugs \cup {0}
        BY <1>0, <2>3 DEF InsertSeat, Req
      <4>2. CASE req[t].desk = 0
        <5>1. 0 \notin Slugs
          BY PmSignInAssumption
        <5>2. seat' = seat
          BY <1>0, <3>1, <4>2, <5>1
        <5> QED BY <2>1, <5>2
      <4>3. CASE req[t].desk # 0
        <5>1. desk'[req[t].desk].teams > 0 /\ req[t].desk \in Slugs
          BY <1>1, <4>1, <4>3 DEF Placed, Exists
        <5> QED BY <2>2, <3>1, <5>1
      <4> QED BY <4>2, <4>3
    <3> QED BY <2>1, <2>3, <3>1 DEF InsertSeat
  <2>4. ASSUME NEW t \in Tabs, CommitDesk(t) PROVE Seated'
    BY <1>2, <2>2, <2>4 DEF CommitDesk
  <2>5. ASSUME NEW s \in Slugs, NEW e \in Emails, NEW role, Staff(s, e, role) PROVE Seated'
    BY <1>1, <2>2, <2>5 DEF Staff, Exists
  <2>6. ASSUME NEW t \in Tabs, Serve(t), ~InsertSeat(t), ~CommitDesk(t) PROVE seat' = seat
    BY <2>6 DEF Serve, Claim, Exchange, Apply, Gate, FindUser, FindEmail, InsertUser, ReadSeat,
                NotProvisioned, InsertDesk, Adopt, Resolve, tables
  <2>7. ASSUME NEW t \in Tabs,
               \/ Begin(t) \/ Leave(t) \/ Fail(t) \/ Expire(t) \/ \E x \in Tabs : Return(t, x)
               \/ \E e \in Emails, r \in Slugs : BeginLink(t, e, r)
        PROVE  seat' = seat
    BY <2>7 DEF Begin, Leave, Fail, Expire, Return, BeginLink, tables
  <2>8. ASSUME \/ \E r \in Slugs : Suspend(r)
               \/ \E e \in Emails : Unlink(e)
               \/ \E p \in People, mail \in Emails : \E runs \in SUBSET Belongs[p] : PmChanges(p, runs, mail)
        PROVE  seat' = seat
    BY <2>8 DEF Suspend, Unlink, PmChanges, tables
  <2> QED BY <2>1, <2>3, <2>4, <2>5, <2>6, <2>7, <2>8 DEF Next, vars
<1> QED BY <1>3, <1>4

-----------------------------------------------------------------------------
(* The theorems. *)

LEMMA Beginning == Init => IInv
<1> SUFFICES ASSUME Init PROVE IInv
  OBVIOUS
<1>1. TypeOK
  <2>1. Idle \in Req
    BY DEF Idle, Req
  <2>2. user \in [Emails -> People \cup {"none", "absent"}]
    BY DEF Init
  <2>3. desk \in [Slugs -> [org : Orgs \cup {0}, active : BOOLEAN, teams : Nat]]
    <3>1. NoDesk \in Desk /\ [org |-> 0, active |-> TRUE, teams |-> 1] \in Desk
      BY DEF NoDesk, Desk
    <3>2. \/ desk = [r \in Slugs |-> NoDesk]
          \/ \E s : desk = [r \in Slugs |-> IF r = s THEN [org |-> 0, active |-> TRUE, teams |-> 1] ELSE NoDesk]
      BY DEF Init
    <3>3. desk \in [Slugs -> Desk]
      BY <3>1, <3>2
    <3> QED BY <3>3 DEF Desk
  <2>4. seat \in [Slugs -> [Emails -> {"none", "admin", "agent", "off"}]]
    BY DEF Init
  <2>5. pm \in [People -> [runs : SUBSET Orgs, mail : Emails]]
    BY PmSignInAssumption DEF Init
  <2>6. state \in [Tabs -> [st : {"none", "open", "used"}, user : Emails \cup {"none"}, desk : Slugs \cup {0}]]
    BY DEF Init
  <2> QED BY <2>1, <2>2, <2>3, <2>4, <2>5, <2>6, PmSignInAssumption DEF Init, TypeOK
<1>2. Underway /\ Spent /\ StateActsOnce /\ Held
  <2>1. \A t \in Tabs : req[t].pc = "idle" /\ req[t].runs = {} /\ req[t].try = 1
    BY DEF Init, Idle
  <2> QED BY <2>1 DEF Underway, Spent, StateActsOnce, Held, Busy, Early, Founding
<1>3. Real /\ LinkIsReal /\ OneDeskEach
  BY DEF Init, Real, LinkIsReal, OneDeskEach, NoDesk, Exists, SignIn
<1> QED BY <1>1, <1>2, <1>3 DEF IInv

LEMMA InvStep == IInv /\ [Next]_vars => IInv'
  BY TypeStep, SpentStep, DeskStep DEF IInv, DeskInv

LEMMA Invariance == Spec => []IInv
  BY Beginning, InvStep, PTL DEF Spec

\* Tables, callbacks and bounds keep their types (PmSignIn.TypeOK).
THEOREM Typed == Spec => []TypeOK
<1>1. IInv => TypeOK
  BY DEF IInv
<1> QED BY <1>1, Invariance, PTL

\* Whoever signs in, links or races, an organisation has one desk, seeded once
\* (createDesk, PmLinkService.apply).
THEOREM OneDeskPerOrganisation == Spec => []OneDeskEach
<1>1. IInv => OneDeskEach
  BY DEF IInv
<1> QED BY <1>1, Invariance, PTL

\* However often a callback is loaded, one acts on its state (completeAuthorization).
THEOREM CallbackActsOnce == Spec => []StateActsOnce
<1>1. IInv => StateActsOnce
  BY DEF IInv
<1> QED BY <1>1, Invariance, PTL

LEMMA SeatedBeginning == Init => Seated /\ Placed
<1> SUFFICES ASSUME Init PROVE Seated /\ Placed
  OBVIOUS
<1>1. Placed
  BY DEF Init, Placed, Idle
<1>2. Seated
  BY DEF Init, Seated, Exists
<1> QED BY <1>1, <1>2

\* No sign-in changes a membership or an account it finds, or one that was made
\* since it looked (resolvePmUser, ensureDeskMembership, createDesk).
THEOREM RowsAreKept == Spec => SignInKeepsRows
<1> DEFINE Keeps(t) ==
      req[t].st \in Tabs /\ Acts(t) =>
        /\ \A s \in Slugs, e \in Emails : seat[s][e] # "none" => seat'[s][e] = seat[s][e]
        /\ \A e \in Emails : user[e] # "absent" => user'[e] = user[e]
<1>1. IInv /\ Seated /\ [Next]_vars => [\A t \in Tabs : Keeps(t)]_vars
  <2> SUFFICES ASSUME IInv, Seated, Next, NEW t \in Tabs, Acts(t), SignIn(req[t].st) PROVE Keeps(t)
    BY DEF Acts
  <2>0. /\ req \in [Tabs -> Req] /\ user \in [Emails -> People \cup {"none", "absent"}] /\ TypeOK
        /\ seat \in [Slugs -> [Emails -> {"none", "admin", "agent", "off"}]]
    BY DEF IInv, TypeOK
  <2>1. req'[t].pc # req[t].pc
    BY DEF Acts
  <2>2. CASE user' = user /\ seat' = seat
    BY <2>2
  <2>3. ASSUME NEW y \in Tabs, InsertUser(y) PROVE Keeps(t)
    <3>1. seat' = seat /\ (user' = user \/ (user[req[y].mail] = "absent" /\ user' = [user EXCEPT ![req[y].mail] = Who[y]]))
      BY <2>3 DEF InsertUser
    <3> QED BY <2>0, <3>1
  <2>4. ASSUME NEW y \in Tabs, InsertSeat(y) PROVE Keeps(t)
    <3>1. user' = user /\ (seat' = seat \/ (seat[req[y].desk][req[y].user] = "none"
                                            /\ seat' = [seat EXCEPT ![req[y].desk][req[y].user] = "admin"]))
      BY <2>4 DEF InsertSeat, Insertable
    <3> QED BY <2>0, <3>1
  <2>5. ASSUME NEW y \in Tabs, CommitDesk(y) PROVE Keeps(t)
    <3>1. /\ req[y].pc = "held" /\ user' = user
          /\ seat' = [seat EXCEPT ![req[y].desk][req[y].user] = "admin"]
      BY <2>5 DEF CommitDesk
    <3>2. req[y].desk \in Slugs /\ ~Exists(req[y].desk)
      BY <3>1 DEF IInv, Held
    <3>3. \A e \in Emails : seat[req[y].desk][e] = "none"
      BY <3>2 DEF Seated
    <3> QED BY <2>0, <3>1, <3>2, <3>3
  <2>6. ASSUME NEW y \in Tabs, Apply(y) PROVE FALSE
    <3>1. req[y].pc = "apply" /\ End(y)
      BY <2>6 DEF Apply
    <3>2. y = t
      BY <2>0, <2>1, <3>1, Own
    <3> QED BY <3>1, <3>2 DEF IInv, Spent
  <2>7. ASSUME NEW y \in Tabs, Serve(y), ~InsertUser(y), ~InsertSeat(y), ~CommitDesk(y), ~Apply(y)
        PROVE  user' = user /\ seat' = seat
    BY <2>7 DEF Serve, Claim, Exchange, Gate, FindUser, FindEmail, ReadSeat,
                NotProvisioned, InsertDesk, Adopt, Resolve, tables
  <2>8. ASSUME NEW y \in Tabs,
               \/ Begin(y) \/ Leave(y) \/ Fail(y) \/ Expire(y) \/ \E x \in Tabs : Return(y, x)
               \/ \E e \in Emails, r \in Slugs : BeginLink(y, e, r)
        PROVE  user' = user /\ seat' = seat
    BY <2>8 DEF Begin, Leave, Fail, Expire, Return, BeginLink, tables
  <2>9. ASSUME \/ \E r \in Slugs : \/ Suspend(r)
                                   \/ \E e \in Emails, role \in {"admin", "agent", "off"} : Staff(r, e, role)
               \/ \E e \in Emails : Unlink(e)
               \/ \E p \in People, mail \in Emails : \E runs \in SUBSET Belongs[p] : PmChanges(p, runs, mail)
        PROVE  req' = req
    BY <2>9 DEF Suspend, Staff, Unlink, PmChanges
  <2> QED BY <2>1, <2>2, <2>3, <2>4, <2>5, <2>6, <2>7, <2>8, <2>9 DEF Next
<1>2. IInv /\ Seated /\ Placed /\ [Next]_vars => Seated' /\ Placed'
  BY SeatedStep
<1> QED BY Invariance, SeatedBeginning, <1>1, <1>2, PTL DEF Spec, SignInKeepsRows
=============================================================================
