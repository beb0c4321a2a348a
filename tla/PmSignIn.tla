------------------------------ MODULE PmSignIn ------------------------------
(***************************************************************************)
(* Signing in with Plumo PM, and linking an account to it (pm-identity,    *)
(* auth.service loginWithPm).                                              *)
(*                                                                         *)
(* A flow begins with a state row, and a cookie if it is a sign-in; comes  *)
(* back from PM; claims the row; and asks PM who this is.  A sign-in then  *)
(* chooses a desk of an organisation the person runs, finds or makes the   *)
(* account, and finds, or makes and seeds, the desk.  The callback is      *)
(* public: no transaction is around it, each statement commits for itself, *)
(* but those that make a desk, which are one transaction.                  *)
(*                                                                         *)
(* Left out: verifiers and tokens, the session (module Sessions), accounts *)
(* that are disabled, the pruning of state rows, which nothing calls.      *)
(* PM's answer is taken as one, though it is two requests.                 *)
(***************************************************************************)
EXTENDS Naturals, Sequences, FiniteSets

CONSTANTS
  People,         \* subjects of PM
  Tabs,           \* browser tabs; each has one state row at a time
  Who,            \* the person at a tab
  Orgs,           \* PM workspaces, in the order of their names
  Belongs,        \* those a person belongs to
  Slugs,          \* names of desks, in their order
  Candidates,     \* slugCandidates: an organisation's, best first
  Emails,
  Address,        \* a person's address in PM, to begin with
  Changes         \* bound: what staff, PM and the network do to a flow

ASSUME PmSignInAssumption ==
  /\ Who \in [Tabs -> People]
  /\ Orgs \subseteq Nat \ {0} /\ Slugs \subseteq Nat \ {0}
  /\ Belongs \in [People -> SUBSET Orgs]
  /\ Candidates \in [Orgs -> Seq(Slugs) \ {<<>>}]
  /\ Address \in [People -> Emails]
  /\ People \cap {"absent", "none"} = {} /\ "none" \notin Emails \cup Tabs
  /\ Changes \in Nat

VARIABLES
  user,     \* users by email: absent, or pm_user_id, which may be none
  desk,     \* workspaces by slug
  seat,     \* workspace_memberships
  pm,       \* what PM says of a person
  state,    \* pm_oauth_states, by the tab they were made for
  cookie,   \* pm_signin_state in each person's browser
  req,      \* each tab: the callback it waits for
  auto,     \* pm.autoProvisionDesks, as deployed
  left      \* changes left

vars == <<user, desk, seat, pm, state, cookie, req, auto, left>>
tables == <<user, desk, seat>>
others == <<pm, auto, left>>

NoDesk == [org |-> 0, active |-> FALSE, teams |-> 0]

Idle == [pc |-> "idle", st |-> "none", runs |-> {}, mail |-> "none", user |-> "none", desk |-> 0, try |-> 1]

Req == [pc : {"idle", "away", "claim", "exchange", "apply", "gate", "find", "email", "insert", "place",
              "sit", "held", "adopt", "resolve", "in"},
        st : Tabs \cup {"none"}, runs : SUBSET Orgs, mail : Emails \cup {"none"},
        user : Emails \cup {"none"}, desk : Slugs \cup {0}, try : Nat]

TypeOK ==
  /\ user \in [Emails -> People \cup {"none", "absent"}]
  /\ desk \in [Slugs -> [org : Orgs \cup {0}, active : BOOLEAN, teams : Nat]]
  /\ seat \in [Slugs -> [Emails -> {"none", "admin", "agent", "off"}]]
  /\ pm \in [People -> [runs : SUBSET Orgs, mail : Emails]]
  /\ state \in [Tabs -> [st : {"none", "open", "used"}, user : Emails \cup {"none"}, desk : Slugs \cup {0}]]
  /\ cookie \in [People -> Tabs \cup {"none"}]
  /\ req \in [Tabs -> Req]
  /\ auto \in BOOLEAN
  /\ left \in Nat

\* desk-<id>: the last resort, a name nobody chooses.
Tails == {Candidates[o][Len(Candidates[o])] : o \in Orgs}

Least(S) == CHOOSE n \in S : \A k \in S : n <= k

\* There is no desk yet, or one that was made by hand, and its administrator.
Init ==
  /\ \/ /\ user = [f \in Emails |-> "absent"]
        /\ desk = [r \in Slugs |-> NoDesk]
        /\ seat = [r \in Slugs |-> [f \in Emails |-> "none"]]
     \/ \E s \in Slugs \ Tails, e \in Emails :
          /\ user = [f \in Emails |-> IF f = e THEN "none" ELSE "absent"]
          /\ desk = [r \in Slugs |-> IF r = s THEN [org |-> 0, active |-> TRUE, teams |-> 1] ELSE NoDesk]
          /\ seat = [r \in Slugs |-> [f \in Emails |-> IF r = s /\ f = e THEN "admin" ELSE "none"]]
  /\ pm = [p \in People |-> [runs |-> Belongs[p], mail |-> Address[p]]]
  /\ state = [t \in Tabs |-> [st |-> "none", user |-> "none", desk |-> 0]]
  /\ cookie = [p \in People |-> "none"]
  /\ req = [t \in Tabs |-> Idle]
  /\ auto \in BOOLEAN
  /\ left = Changes

Exists(s) == desk[s].teams > 0

Goto(t, pc) == req' = [req EXCEPT ![t].pc = pc]

\* Back to the console, with or without a session; the cookie is cleared.
End(t) ==
  /\ req' = [req EXCEPT ![t] = Idle]
  /\ cookie' = [cookie EXCEPT ![Who[t]] = "none"]

\* Something that may happen Changes times.
Change == left > 0 /\ left' = left - 1

-----------------------------------------------------------------------------
(* Beginning. *)

Unbound(t) == cookie' = cookie     \* mutant: a Set-Cookie the browser discards

\* signInBindingCookie
Bind(t) == cookie' = [cookie EXCEPT ![Who[t]] = t]

Fresh(t) == req[t] = Idle /\ \A y \in Tabs : req[y].st # t

Mint(t, e, s) ==
  /\ state' = [state EXCEPT ![t] = [st |-> "open", user |-> e, desk |-> s]]
  /\ req' = [req EXCEPT ![t].pc = "away", ![t].st = t]

\* signin/redirect.  A second flow in another tab counts as a change.
Begin(t) ==
  /\ Fresh(t)
  /\ IF \A y \in Tabs \ {t} : Who[y] = Who[t] => req[y].pc \in {"idle", "in"} THEN left' = left ELSE Change
  /\ Mint(t, "none", 0)
  /\ Bind(t)
  /\ UNCHANGED <<tables, pm, auto>>

\* start: an admin connects their account.
BeginLink(t, e, s) ==
  /\ Fresh(t) /\ seat[s][e] = "admin" /\ desk[s].active
  /\ Change
  /\ Mint(t, e, s)
  /\ UNCHANGED <<tables, pm, auto, cookie>>

-----------------------------------------------------------------------------
(* The callback. *)

SignIn(x) == state[x].user = "none"

\* The browser comes back in tab t with the state made for tab x: once from PM,
\* and again if the page is loaded again.
Return(t, x) ==
  /\ Who[t] = Who[x] /\ state[x].st # "none"
  /\ \/ t = x /\ req[t].pc = "away" /\ left' = left
     \/ req[t] = Idle /\ Change
  /\ IF SignIn(x) /\ cookie[Who[t]] # x
     THEN End(t)
     ELSE req' = [req EXCEPT ![t].pc = "claim", ![t].st = x] /\ UNCHANGED cookie
  /\ UNCHANGED <<tables, pm, auto, state>>

ReadOnArrival(x) == TRUE           \* mutant: checked, then written

Unspent(x) == state[x].st = "open"

\* completeAuthorization: a conditional UPDATE.
Claim(t) ==
  LET x == req[t].st IN
  /\ req[t].pc = "claim"
  /\ IF Unspent(x)
     THEN /\ state' = [state EXCEPT ![x].st = "used"]
          /\ Goto(t, "exchange") /\ UNCHANGED cookie
     ELSE End(t) /\ UNCHANGED state
  /\ UNCHANGED <<tables, others>>

\* The code for a token, and the token for who it is.
Exchange(t) ==
  LET who == pm[Who[t]] IN
  /\ req[t].pc = "exchange"
  /\ IF SignIn(req[t].st) /\ who.runs = {}
     THEN End(t)
     ELSE /\ req' = [req EXCEPT ![t].pc = IF SignIn(req[t].st) THEN "gate" ELSE "apply",
                                ![t].runs = who.runs, ![t].mail = who.mail]
          /\ UNCHANGED cookie
  /\ UNCHANGED <<tables, others, state>>

-----------------------------------------------------------------------------
(* Linking. *)

NeverTaken(o) == FALSE             \* mutant: no ON CONFLICT, no index

\* workspaces_pm_workspace_id_key
OrgTaken(o) == \E s \in Slugs : desk[s].org = o

\* A transaction has inserted this organisation's desk, or one of this name.
OrgHeld(o) == \E y \in Tabs : req[y].pc = "held" /\ Least(req[y].runs) = o
SlugHeld(s) == \E y \in Tabs : req[y].pc = "held" /\ req[y].desk = s

\* apply: the account, and the desk if it has no organisation.  Whichever way it
\* goes, the console reads a failure: the audit row that follows is written with no
\* desk bound, which the row policies refuse.
Apply(t) ==
  LET e == state[req[t].st].user
      s == state[req[t].st].desk
      match == {o \in Belongs[Who[t]] : Candidates[o][1] = s}
      maps == desk[s].org = 0 /\ match # {}
      org == Least(match)
  IN  /\ req[t].pc = "apply"
      /\ maps => ~OrgHeld(org)
      /\ IF (\E f \in Emails \ {e} : user[f] = Who[t]) \/ (maps /\ OrgTaken(org))
         THEN UNCHANGED <<user, desk>>
         ELSE /\ user' = [user EXCEPT ![e] = Who[t]]
              /\ desk' = IF maps THEN [desk EXCEPT ![s].org = org] ELSE desk
      /\ End(t)
      /\ UNCHANGED <<seat, others, state>>

-----------------------------------------------------------------------------
(* Signing in: loginWithPm. *)

Linked(runs) == {s \in Slugs : Exists(s) /\ desk[s].org \in runs}

Open(runs) == {s \in Linked(runs) : desk[s].active}

\* 2. The first of the desks of what they run; suspended ones refuse.
Gate(t) ==
  LET runs == req[t].runs IN
  /\ req[t].pc = "gate"
  /\ IF Linked(runs) # {} /\ Open(runs) = {}
     THEN End(t)
     ELSE /\ req' = [req EXCEPT ![t].pc = "find",
                                ![t].desk = IF Open(runs) = {} THEN 0 ELSE Least(Open(runs))]
          /\ UNCHANGED cookie
  /\ UNCHANGED <<tables, others, state>>

\* 3. resolvePmUser: by subject, never by address.
FindUser(t) ==
  /\ req[t].pc = "find"
  /\ \/ \E e \in Emails : user[e] = Who[t] /\ req' = [req EXCEPT ![t].pc = "place", ![t].user = e]
     \/ (\A e \in Emails : user[e] # Who[t]) /\ Goto(t, "email")
  /\ UNCHANGED <<tables, others, state, cookie>>

FindEmail(t) ==
  /\ req[t].pc = "email"
  /\ IF user[req[t].mail] # "absent" THEN End(t) ELSE Goto(t, "insert") /\ UNCHANGED cookie
  /\ UNCHANGED <<tables, others, state>>

\* Fails on users_email_key or users_pm_user_id_key.
InsertUser(t) ==
  LET e == req[t].mail IN
  /\ req[t].pc = "insert"
  /\ IF user[e] # "absent" \/ \E f \in Emails : user[f] = Who[t]
     THEN End(t) /\ UNCHANGED user
     ELSE /\ user' = [user EXCEPT ![e] = Who[t]]
          /\ req' = [req EXCEPT ![t].pc = "place", ![t].user = e]
          /\ UNCHANGED cookie
  /\ UNCHANGED <<desk, seat, others, state>>

\* ensureDeskMembership
ReadSeat(t) ==
  /\ req[t].pc = "place" /\ req[t].desk # 0
  /\ Goto(t, IF seat[req[t].desk][req[t].user] = "none" THEN "sit" ELSE "resolve")
  /\ UNCHANGED <<tables, others, state, cookie>>

Upserted(s, e) == TRUE             \* mutant: an upsert

\* The INSERT fails on the membership's key.
Insertable(s, e) == seat[s][e] = "none"

InsertSeat(t) ==
  LET s == req[t].desk
      e == req[t].user
  IN  /\ req[t].pc = "sit"
      /\ IF Insertable(s, e)
         THEN seat' = [seat EXCEPT ![s][e] = "admin"] /\ Goto(t, "resolve") /\ UNCHANGED cookie
         ELSE End(t) /\ UNCHANGED seat
      /\ UNCHANGED <<user, desk, others, state>>

\* The account stays, though the sign-in is refused.
NotProvisioned(t) ==
  /\ req[t].pc = "place" /\ req[t].desk = 0 /\ ~auto
  /\ End(t)
  /\ UNCHANGED <<tables, others, state>>

\* provisionDesk, createDesk: an organisation that has a desk is left to it; a name
\* that is taken leads to the next one.
InsertDesk(t) ==
  LET o == Least(req[t].runs)
      names == Candidates[o]
      s == names[req[t].try]
  IN  /\ req[t].pc = "place" /\ req[t].desk = 0 /\ auto
      /\ ~OrgHeld(o) /\ ~SlugHeld(s)
      /\ \/ OrgTaken(o) /\ Goto(t, "adopt") /\ UNCHANGED cookie
         \/ /\ ~OrgTaken(o) /\ Exists(s)
            /\ IF req[t].try < Len(names)
               THEN req' = [req EXCEPT ![t].try = @ + 1] /\ UNCHANGED cookie
               ELSE End(t)
         \/ /\ ~OrgTaken(o) /\ ~Exists(s)
            /\ req' = [req EXCEPT ![t].pc = "held", ![t].desk = s] /\ UNCHANGED cookie
      /\ UNCHANGED <<tables, others, state>>

\* Seeds, seats its founder, and commits.
CommitDesk(t) ==
  LET s == req[t].desk IN
  /\ req[t].pc = "held"
  /\ desk' = [desk EXCEPT ![s] = [org |-> Least(req[t].runs), active |-> TRUE, teams |-> @.teams + 1]]
  /\ seat' = [seat EXCEPT ![s][req[t].user] = "admin"]
  /\ Goto(t, "resolve")
  /\ UNCHANGED <<user, others, state, cookie>>

\* The desk of whoever was first: no workspace is bound, so the row policy refuses
\* the seat, and the sign-in fails.
Adopt(t) ==
  /\ req[t].pc = "adopt"
  /\ End(t)
  /\ UNCHANGED <<tables, others, state>>

\* resolveForUser, and the tokens.
Resolve(t) ==
  LET s == req[t].desk IN
  /\ req[t].pc = "resolve"
  /\ IF desk[s].active /\ seat[s][req[t].user] \in {"admin", "agent"}
     THEN Goto(t, "in") /\ cookie' = [cookie EXCEPT ![Who[t]] = "none"]
     ELSE End(t)
  /\ UNCHANGED <<tables, others, state>>

Leave(t) ==
  /\ req[t].pc = "in"
  /\ req' = [req EXCEPT ![t] = Idle]
  /\ UNCHANGED <<tables, others, state, cookie>>

-----------------------------------------------------------------------------
(* Meanwhile. *)

\* The person denies PM's request, or PM or the network fails, or the transaction
\* that makes the desk.
Fail(t) ==
  /\ req[t].pc \in {"away", "exchange", "held"}
  /\ Change /\ End(t)
  /\ UNCHANGED <<tables, pm, auto, state>>

Expire(x) ==
  /\ state[x].st = "open"
  /\ Change
  /\ state' = [state EXCEPT ![x].st = "used"]
  /\ UNCHANGED <<tables, pm, auto, cookie, req>>

\* users.module and invitations: a new account or a known one, on a desk, or off it.
Staff(s, e, role) ==
  /\ Exists(s) /\ role # seat[s][e]
  /\ Change
  /\ user' = [user EXCEPT ![e] = IF @ = "absent" THEN "none" ELSE @]
  /\ seat' = [seat EXCEPT ![s][e] = role]
  /\ UNCHANGED <<desk, pm, auto, state, cookie, req>>

Unlink(e) ==
  /\ user[e] \in People /\ \E s \in Slugs : seat[s][e] = "admin"
  /\ Change
  /\ user' = [user EXCEPT ![e] = "none"]
  /\ UNCHANGED <<desk, seat, pm, auto, state, cookie, req>>

Suspend(s) ==
  /\ desk[s].active
  /\ Change
  /\ desk' = [desk EXCEPT ![s].active = FALSE]
  /\ UNCHANGED <<user, seat, pm, auto, state, cookie, req>>

\* PM promotes or demotes somebody, or they change their address.
PmChanges(p, runs, mail) ==
  /\ Change
  /\ pm' = [pm EXCEPT ![p] = [runs |-> runs, mail |-> mail]]
  /\ UNCHANGED <<tables, auto, state, cookie, req>>

Serve(t) ==
  \/ Claim(t) \/ Exchange(t) \/ Apply(t) \/ Gate(t) \/ FindUser(t) \/ FindEmail(t) \/ InsertUser(t)
  \/ ReadSeat(t) \/ InsertSeat(t) \/ NotProvisioned(t) \/ InsertDesk(t) \/ CommitDesk(t)
  \/ Adopt(t) \/ Resolve(t)

Next ==
  \/ \E t \in Tabs : \/ Begin(t) \/ Serve(t) \/ Leave(t) \/ Fail(t) \/ Expire(t)
                     \/ \E x \in Tabs : Return(t, x)
                     \/ \E e \in Emails, s \in Slugs : BeginLink(t, e, s)
  \/ \E s \in Slugs : \/ Suspend(s)
                      \/ \E e \in Emails, role \in {"admin", "agent", "off"} : Staff(s, e, role)
  \/ \E e \in Emails : Unlink(e)
  \/ \E p \in People, mail \in Emails : \E runs \in SUBSET Belongs[p] : PmChanges(p, runs, mail)

Spec == Init /\ [][Next]_vars

\* Whoever was refused tries again, a browser follows the redirect, the server goes on.
FairSpec == Spec /\ \A t \in Tabs : WF_vars(Begin(t)) /\ WF_vars(Return(t, t)) /\ WF_vars(Serve(t))

-----------------------------------------------------------------------------
\* An organisation has one desk at most, whoever signs in first and whatever is
\* linked meanwhile, and it is seeded once ("duplicating the seed would give the
\* desk two Support teams", createDesk).
OneDeskEach ==
  /\ \A s, r \in Slugs : desk[s].org # 0 /\ desk[s].org = desk[r].org => s = r
  /\ \A s \in Slugs : desk[s].teams <= 1

\* "A replayed callback updates zero rows and is refused": no two callbacks act on
\* one state at a time.
StateActsOnce ==
  \A t, y \in Tabs : /\ req[t].pc \notin {"idle", "away", "claim"}
                     /\ req[y].pc \notin {"idle", "away", "claim"}
                     /\ req[t].st = req[y].st
                     => t = y

\* "CREATE-IF-MISSING, NEVER UPDATE": no sign-in touches a membership or an account
\* that was there, even one made since it looked.
Acts(t) == req'[t].pc # req[t].pc /\ SignIn(req[t].st)

SignInKeepsRows ==
  [][\A t \in Tabs : req[t].st \in Tabs /\ Acts(t) =>
       /\ \A s \in Slugs, e \in Emails : seat[s][e] # "none" => seat'[s][e] = seat[s][e]
       /\ \A e \in Emails : user[e] # "absent" => user'[e] = user[e]]_vars

\* Whom loginWithPm means to let in: the first desk of the organisations they run
\* is open to them, or there is none and one may be made, and no account that is
\* not connected has their address.
Welcome(p) ==
  LET runs == pm[p].runs
      mine == {e \in Emails : user[e] = p}
  IN  /\ runs # {}
      /\ mine # {} \/ user[pm[p].mail] = "absent"
      /\ \/ auto /\ Linked(runs) = {}
         \/ /\ Open(runs) # {}
            /\ \A e \in mine : seat[Least(Open(runs))][e] # "off"

\* "Trying again works" (callback): whoever is welcome, and goes on being so, gets in,
\* though tabs, races and failures refuse them on the way.
WelcomeGetsIn ==
  \A p \in People : Welcome(p) ~> (~Welcome(p) \/ \E t \in Tabs : Who[t] = p /\ req[t].pc = "in")

=============================================================================
