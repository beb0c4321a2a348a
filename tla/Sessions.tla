------------------------------ MODULE Sessions ------------------------------
(***************************************************************************)
(* One person's sessions: the rotation of refresh tokens (auth.service.ts) *)
(* and the client that keeps them (frontend/lib/api/client.js).            *)
(*                                                                         *)
(* A pair of tokens has one number here.  A call whose access token ran    *)
(* out makes its tab exchange the pair it holds; the tab's other calls     *)
(* wait for the same exchange, and all are sent again with the new pair.   *)
(* The tabs of a browser share a store, which they write with every        *)
(* change and read when they load.  Public routes run without a            *)
(* transaction: each statement of refresh() commits for itself, and goes   *)
(* on when the page it works for is gone.                                  *)
(*                                                                         *)
(* Left out: passwords, desks other than one, the 30 days of a token, and  *)
(* onUnauthorized, which shows the sign-in screen.  A sign-out's request   *)
(* is handled as it is sent, or lost.                                      *)
(***************************************************************************)
EXTENDS Naturals, Sequences, FiniteSets

CONSTANTS
  Browsers, Tabs, Calls,
  Strays,         \* slots for exchanges the server goes on with, nobody waiting for them
  BrowserOf,      \* the browser of a tab
  TabOf,          \* the tab of a call
  Logins,         \* bound: sign-ins
  Expiries,       \* bound: access tokens that run out
  Incidents       \* bound: requests lost with their page, on the network or by the server,
                  \* sign-outs, and what an admin or a new password does to the account

None == 0
NoCall == "none"

ASSUME SessionsAssumption ==
  /\ BrowserOf \in [Tabs -> Browsers]
  /\ TabOf \in [Calls -> Tabs]
  /\ NoCall \notin Calls \cup Tabs
  /\ Calls \cap Strays = {}
  /\ Logins \in Nat /\ Expiries \in Nat /\ Incidents \in Nat

VARIABLES
  row,        \* refresh_tokens, in the order they were made: pending until its hash is stored
  old,        \* the pair each was exchanged for, and the tab that asked; 0 if a sign-in made it
  expired,    \* pairs whose access token ran out
  ended,      \* tokens ended by the person or an admin
  seat,       \* whether the membership is active
  mem,        \* each tab's session, 0 if it has none
  store,      \* each browser's stored session
  call,       \* each call: what it waits for and the pair it is sent with
  lead,       \* each tab's exchange in flight, by the call that began it: refreshing
  exch,       \* those exchanges, and those whose page is gone
  unseen,     \* history: pairs that reach no page
  broken,     \* history: tokens an exchange of which the server broke off
  leaving,    \* tabs whose sign-out is under way
  incidents   \* how many there were so far

vars == <<row, old, expired, ended, seat, mem, store, call, lead, exch, unseen, broken,
          leaving, incidents>>

Token == DOMAIN row
Pair == {None} \cup Token

Exchanges == Calls \cup Strays

Done == [st |-> "done", with |-> None]

Off == [st |-> "off", tab |-> NoCall, from |-> None, to |-> None]

TypeOK ==
  /\ row \in Seq({"pending", "live", "revoked"})
  /\ old \in Seq([pair : Pair, tab : Tabs \cup {NoCall}]) /\ Len(old) = Len(row)
  /\ expired \subseteq Token /\ ended \subseteq Token
  /\ seat \in BOOLEAN
  /\ mem \in [Tabs -> Pair]
  /\ store \in [Browsers -> Pair]
  /\ call \in [Calls -> [st : {"idle", "sent", "waits", "again", "done"}, with : Pair]]
  /\ lead \in [Tabs -> Calls \cup {NoCall}]
  /\ exch \in [Exchanges -> [st : {"off", "sent", "found", "revoked", "made", "answered", "refused"},
                             tab : Tabs \cup {NoCall}, from : Pair, to : Pair]]
  /\ unseen \subseteq Token /\ broken \subseteq Token
  /\ leaving \subseteq Tabs
  /\ incidents \in Nat

Init ==
  /\ row = <<>> /\ old = <<>>
  /\ expired = {} /\ ended = {}
  /\ seat = TRUE
  /\ mem = [t \in Tabs |-> None]
  /\ store = [b \in Browsers |-> None]
  /\ call = [c \in Calls |-> [st |-> "idle", with |-> None]]
  /\ lead = [t \in Tabs |-> NoCall]
  /\ exch = [x \in Exchanges |-> Off]
  /\ unseen = {} /\ broken = {}
  /\ leaving = {}
  /\ incidents = 0

server == <<row, old, ended, seat>>
client == <<mem, store, call, lead>>
history == <<unseen, broken>>

SetSession(t, pair) ==
  /\ mem' = [mem EXCEPT ![t] = pair]
  /\ store' = [store EXCEPT ![BrowserOf[t]] = pair]

-----------------------------------------------------------------------------
(* Signing in and out. *)

Logged == Cardinality({k \in Token : old[k].pair = None})

\* The next row.
Issue(state, pair, tab) ==
  /\ row' = Append(row, state)
  /\ old' = Append(old, [pair |-> pair, tab |-> tab])

Issued == Len(row) + 1

\* In one step: nothing else knows the row before its answer arrives.
Login(t) ==
  /\ mem[t] = None /\ seat
  /\ Logged < Logins
  /\ Issue("live", None, NoCall)
  /\ SetSession(t, Issued)
  /\ UNCHANGED <<expired, ended, seat, call, lead, exch, history, leaving, incidents>>

Happens == incidents < Incidents /\ incidents' = incidents + 1

\* Nobody waits for c's exchange any more: its request never arrived, or its answer comes
\* to nobody, or the server has the request and goes on with it.
Abandon(c) ==
  /\ \/ /\ exch[c].st \in {"sent", "answered", "refused"}
        /\ exch' = [exch EXCEPT ![c] = Off]
     \/ /\ exch[c].st \in {"sent", "found", "revoked", "made"}
        /\ \E s \in Strays : /\ exch[s] = Off
                             /\ exch' = [exch EXCEPT ![s] = exch[c], ![c] = Off]
  /\ unseen' = unseen \cup ({exch[c].to} \ {None})
  /\ Happens
  /\ UNCHANGED broken

\* restoreSession, as the page loads: whatever the tab was at is forgotten.
Load(t) ==
  /\ mem' = [mem EXCEPT ![t] = store[BrowserOf[t]]]
  /\ call' = [c \in Calls |-> IF TabOf[c] = t /\ call[c].st # "idle" THEN Done ELSE call[c]]
  /\ lead' = [lead EXCEPT ![t] = NoCall]
  /\ IF lead[t] = NoCall THEN UNCHANGED <<exch, history, incidents>> ELSE Abandon(lead[t])
  /\ leaving' = leaving \ {t}
  /\ UNCHANGED <<server, expired, store>>

Revoke(ks) ==
  /\ row' = [k \in Token |-> IF k \in ks /\ row[k] \in {"pending", "live"} THEN "revoked" ELSE row[k]]
  /\ ended' = ended \cup {k \in ks : row[k] \in {"pending", "live"}}

\* The token is revoked, or the request is lost and the token outlives the sign-out.
Logout(t) ==
  /\ mem[t] # None /\ t \notin leaving
  /\ \/ Revoke({mem[t]}) /\ Happens
     \/ Happens /\ UNCHANGED <<row, ended>>
  /\ leaving' = leaving \cup {t}
  /\ UNCHANGED <<old, expired, seat, client, exch, history>>

\* Answered or not, the session is dropped.
LoggedOut(t) ==
  /\ t \in leaving
  /\ leaving' = leaving \ {t}
  /\ SetSession(t, None)
  /\ UNCHANGED <<server, expired, call, lead, exch, history, incidents>>

\* changePassword and resetPassword leave the seat; an admin's deactivate takes it, one
\* statement earlier, as SetActive(FALSE) before it has it.
EndAll(on) ==
  /\ seat' = on
  /\ Revoke(Token)
  /\ Happens
  /\ UNCHANGED <<old, expired, client, exch, history, leaving>>

\* isActive in a PATCH of the user: the tokens are left alone.
SetActive(on) ==
  /\ on # seat /\ seat' = on
  /\ Happens
  /\ UNCHANGED <<row, old, ended, expired, client, exch, history, leaving>>

-----------------------------------------------------------------------------
(* Calls: request() and refreshTokens(). *)

Send(c) ==
  /\ call[c].st = "idle" /\ mem[TabOf[c]] # None
  /\ call' = [call EXCEPT ![c] = [st |-> "sent", with |-> mem[TabOf[c]]]]
  /\ UNCHANGED <<server, expired, mem, store, lead, exch, history, leaving, incidents>>

Expire(k) ==
  /\ k \notin expired
  /\ Cardinality(expired) < Expiries
  /\ expired' = expired \cup {k}
  /\ UNCHANGED <<server, client, exch, history, leaving, incidents>>

\* Served; or denied for the second time; or with no session left to refresh.
Answered(c) ==
  /\ \/ call[c].st \in {"sent", "again"} /\ call[c].with \notin expired
     \/ call[c].st = "again" /\ call[c].with \in expired
     \/ call[c].st = "sent" /\ call[c].with \in expired /\ mem[TabOf[c]] = None
  /\ call' = [call EXCEPT ![c] = Done]
  /\ UNCHANGED <<server, expired, mem, store, lead, exch, history, leaving, incidents>>

LeadsAlways(c) == TRUE            \* mutant: no single flight

Leads(c) == lead[TabOf[c]] = NoCall

Denied(c) ==
  LET t == TabOf[c]
  IN  /\ call[c].st = "sent" /\ call[c].with \in expired /\ mem[t] # None
      /\ call' = [call EXCEPT ![c] = [st |-> "waits", with |-> None]]
      /\ IF Leads(c)
         THEN /\ lead' = [lead EXCEPT ![t] = c]
              /\ exch' = [exch EXCEPT ![c] = [st |-> "sent", tab |-> t, from |-> mem[t], to |-> None]]
         ELSE UNCHANGED <<lead, exch>>
      /\ UNCHANGED <<server, expired, mem, store, history, leaving, incidents>>

OnlyLeader(c) == {c}              \* mutant: the others are forgotten

\* Those that wait for c's exchange.
Waiters(c) == {d \in Calls : /\ call[d].st = "waits" /\ TabOf[d] = TabOf[c]
                             /\ d = c \/ exch[d].st = "off"}

\* An exchange that fails takes the session with it.
Told(c, ok) ==
  LET t == TabOf[c]
  IN  /\ SetSession(t, IF ok THEN exch[c].to ELSE None)
      /\ call' = [d \in Calls |->
                    IF d \notin Waiters(c) THEN call[d]
                    ELSE IF ok THEN [st |-> "again", with |-> exch[c].to]
                    ELSE Done]
      /\ lead' = [lead EXCEPT ![t] = NoCall]

Settle(c) ==
  /\ exch[c].st \in {"answered", "refused"}
  /\ Told(c, exch[c].st = "answered")
  /\ exch' = [exch EXCEPT ![c] = Off]
  /\ UNCHANGED <<server, expired, history, leaving, incidents>>

\* fetch throws, whatever the server is at.
Lose(c) ==
  /\ exch[c].st \notin {"off", "refused"}
  /\ Told(c, FALSE)
  /\ Abandon(c)
  /\ UNCHANGED <<server, expired, leaving>>

-----------------------------------------------------------------------------
(* AuthService.refresh and issueTokens, statement by statement. *)

\* Nobody is there to take the answer of a stray.
Reaches(x, to, st) ==
  exch' = [exch EXCEPT ![x] = IF x \in Strays /\ st \in {"answered", "refused"} THEN Off
                              ELSE [@ EXCEPT !.st = st, !.to = to]]

Goes(x, st) == Reaches(x, exch[x].to, st)

Find(x) ==
  /\ exch[x].st = "sent"
  /\ Goes(x, IF row[exch[x].from] = "live" THEN "found" ELSE "refused")
  /\ UNCHANGED <<server, expired, client, history, leaving, incidents>>

RevokeOld(x) ==
  /\ exch[x].st = "found"
  /\ row' = [row EXCEPT ![exch[x].from] = "revoked"]
  /\ Goes(x, "revoked")
  /\ UNCHANGED <<old, expired, ended, seat, client, history, leaving, incidents>>

\* The answer is an error, and what was written stays.
BreaksOff(x) ==
  /\ Goes(x, "refused")
  /\ broken' = broken \cup {exch[x].from}
  /\ unseen' = unseen \cup ({exch[x].to} \ {None})
  /\ UNCHANGED <<server, expired, client, leaving>>

\* 403: the membership is looked up again, after the old token is gone.
NoSeat(x) ==
  /\ exch[x].st = "revoked" /\ ~seat
  /\ BreaksOff(x)
  /\ UNCHANGED incidents

\* 500, between any two statements.
ServerFails(x) ==
  /\ exch[x].st \in {"sent", "found", "revoked", "made"}
  /\ BreaksOff(x)
  /\ Happens

Make(x) ==
  /\ exch[x].st = "revoked" /\ seat
  /\ Issue("pending", exch[x].from, exch[x].tab)
  /\ Reaches(x, Issued, "made")
  /\ unseen' = unseen \cup (IF x \in Strays THEN {Issued} ELSE {})
  /\ UNCHANGED <<expired, ended, seat, client, broken, leaving, incidents>>

HashForgotten(k) == row[k]        \* mutant: answered without its hash

Hashed(k) == IF row[k] = "pending" THEN "live" ELSE row[k]

StoreHash(x) ==
  /\ exch[x].st = "made"
  /\ row' = [row EXCEPT ![exch[x].to] = Hashed(exch[x].to)]
  /\ Goes(x, "answered")
  /\ UNCHANGED <<old, expired, ended, seat, client, history, leaving, incidents>>

-----------------------------------------------------------------------------
Refresh(x) == Find(x) \/ RevokeOld(x) \/ NoSeat(x) \/ Make(x) \/ StoreHash(x)

Next ==
  \/ \E t \in Tabs : Login(t) \/ Load(t) \/ Logout(t) \/ LoggedOut(t)
  \/ \E on \in {seat, FALSE} : EndAll(on)
  \/ \E on \in BOOLEAN : SetActive(on)
  \/ \E c \in Calls : Send(c) \/ Answered(c) \/ Denied(c) \/ Settle(c) \/ Lose(c)
  \/ \E x \in Exchanges : Refresh(x) \/ ServerFails(x)
  \/ \E k \in Token : Expire(k)

Spec == Init /\ [][Next]_vars

\* The server goes on with a request it has, and a tab with an answer.
FairSpec == Spec /\ \A c \in Calls : WF_vars(Refresh(c) \/ Settle(c))

-----------------------------------------------------------------------------
\* However many of a tab's calls are denied at once, and whatever becomes of its page,
\* the tab comes by one pair for a refresh token ("parallel calls must not each burn a
\* refresh token", client.test.js).  A page that is left while the server is at its
\* exchange can have spent the token as well, on a pair that reaches no page.
BurntOnce ==
  \A j, k \in Token \ unseen : j # k /\ old[j].pair # None => old[j] # old[k]

\* A tab is refused only after its token was ended by its person or an admin, or an
\* exchange of it was broken off by the server (an error, or no seat), or when the token
\* was spent, or is being spent, by another tab of its browser or for a page that was
\* left (refresh, refreshTokens).
RefusedForCause ==
  \A c \in Calls : exch[c].st = "refused" =>
    \/ exch[c].from \in ended \cup broken
    \/ \E k \in Token : old[k].pair = exch[c].from /\ (old[k].tab # TabOf[c] \/ k \in unseen)
    \/ \E x \in Exchanges : /\ exch[x].st # "off" /\ exch[x].from = exch[c].from
                            /\ x \in Strays \/ exch[x].tab # TabOf[c]

\* Calls that wait for an exchange are all sent again or told, whatever becomes of it:
\* once tokens have stopped running out, no call waits (request()).
CallsSettle == <>[](\A c \in Calls : call[c].st # "waits")
=============================================================================
