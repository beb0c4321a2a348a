--------------------------- MODULE AccessProofs ----------------------------
(***************************************************************************)
(* Who stays signed in and who stays administrator: the tokens of Sessions *)
(* and the guard of AdminFloor, each proved on its own.                    *)
(*                                                                         *)
(* Sessions.  Until its answer is taken, the pair an exchange made is      *)
(* known to nobody (Fresh).  By then its tab is rid of the pair it gave    *)
(* for it (Moved), so that a tab never exchanges a pair twice (Burns,      *)
(* BurntOnce), unless its page was gone when the answer came.  A token is  *)
(* revoked by its person, an admin or an exchange, whether that is done,   *)
(* under way for a page or for none (a stray), or was broken off by the    *)
(* server (Why); and an exchange goes on only with a live one.  So a tab   *)
(* that is refused has one of those to blame (Refusals).                   *)
(*                                                                         *)
(* AdminFloor.  A request the guard covers only takes its own target out   *)
(* of Admins, so Admins shrinks.  Hence a request's snapshot covers        *)
(* Admins, less what it has already dropped; and a row it has counted is   *)
(* locked, so that nobody else can write it and it still counts.  When the *)
(* request is let pass it holds the lock of an administrator other than    *)
(* its target, or its target is none.                                      *)
(***************************************************************************)
EXTENDS Sessions, AdminFloor, SequenceTheorems, TLAPS

-----------------------------------------------------------------------------
(* Sessions. *)

\* A tab has one exchange in flight, of a call that waits for it; others are strays.
Single ==
  /\ \A x \in Exchanges : exch[x].st # "off" => exch[x].tab \in Tabs /\ exch[x].from # None
  /\ \A c \in Calls : exch[c].st # "off" =>
       lead[TabOf[c]] = c /\ call[c].st = "waits" /\ exch[c].tab = TabOf[c]
  /\ \A t \in Tabs : lead[t] # NoCall => TabOf[lead[t]] = t

\* Pairs a client holds or presents, as opposed to one that is on its way to it.
Holds(m, s, e, k) ==
  \/ \E t \in Tabs : m[t] = k
  \/ \E b \in Browsers : s[b] = k
  \/ \E x \in Exchanges : e[x].st # "off" /\ e[x].from = k

Held(k) == Holds(mem, store, exch, k)

Ready == \A k \in Token : Held(k) => row[k] # "pending"

Coming(x) == exch[x].st \in {"made", "answered"}

\* Until its answer is taken, the pair an exchange made is known to nobody else; the
\* pair of a stray never will be.
Fresh ==
  \A x \in Exchanges : Coming(x) =>
    LET k == exch[x].to IN
    /\ k # None /\ ~Held(k)
    /\ old[k] = [pair |-> exch[x].from, tab |-> exch[x].tab]
    /\ \A j \in Token : old[j].pair # k
    /\ \A y \in Exchanges \ {x} : Coming(y) => exch[y].to # k
    /\ exch[x].st = "answered" => row[k] # "pending"

\* What was exchanged is revoked, and so is what is being exchanged.
Spent ==
  /\ \A j \in Token : old[j].pair # None => old[j].tab \in Tabs /\ row[old[j].pair] = "revoked"
  /\ \A x \in Exchanges : exch[x].st = "revoked" => row[exch[x].from] = "revoked"

\* Nobody revokes a token but its person, an admin or an exchange.
Why ==
  \A k \in Token : row[k] = "revoked" =>
    \/ k \in ended \cup broken
    \/ \E j \in Token : old[j].pair = k
    \/ \E x \in Exchanges : exch[x].st = "revoked" /\ exch[x].from = k

\* A tab is rid of a pair it exchanged, or will be when it takes the answer, unless the
\* pair it was exchanged for reaches no page.
RidOf(m, s, e, t, k) ==
  /\ m[t] # k /\ s[BrowserOf[t]] # k
  /\ \A c \in Calls : TabOf[c] = t /\ e[c].st # "off" => e[c].from # k

Rid(t, k) == RidOf(mem, store, exch, t, k)

Moved ==
  \A j \in Token \ unseen : old[j].pair # None =>
    \/ Rid(old[j].tab, old[j].pair)
    \/ \E c \in Calls : Coming(c) /\ exch[c].to = j /\ TabOf[c] = old[j].tab

\* What a tab is exchanging it has not exchanged before, but for a page that was left.
Burns ==
  \A c \in Calls : exch[c].st \in {"found", "revoked"} =>
    \A j \in Token \ unseen : old[j].pair = exch[c].from => old[j].tab # TabOf[c]

\* The cause of a refusal, but for exchanges that may yet come to nothing.
Refusals ==
  \A c \in Calls : exch[c].st = "refused" =>
    \/ exch[c].from \in ended \cup broken
    \/ \E j \in Token : old[j].pair = exch[c].from /\ (old[j].tab # TabOf[c] \/ j \in unseen)
    \/ \E x \in Exchanges : /\ exch[x].st = "revoked" /\ exch[x].from = exch[c].from
                            /\ x \in Strays \/ exch[x].tab # TabOf[c]

Inv == /\ TypeOK /\ Single /\ Ready /\ Fresh /\ Spent
       /\ Why /\ Moved /\ Burns /\ BurntOnce /\ Refusals

-----------------------------------------------------------------------------
(* What most steps have in common. *)

ExchSt == {"off", "sent", "found", "revoked", "made", "answered", "refused"}

ExchOf(pairs) == [st : ExchSt, tab : Tabs \cup {NoCall}, from : pairs, to : pairs]

CallOf(pairs) == [st : {"idle", "sent", "waits", "again", "done"}, with : pairs]

LEMMA TypesAre ==
  TypeOK <=> /\ row \in Seq({"pending", "live", "revoked"})
             /\ old \in Seq([pair : Pair, tab : Tabs \cup {NoCall}]) /\ Len(old) = Len(row)
             /\ expired \subseteq Token /\ ended \subseteq Token
             /\ seat \in BOOLEAN
             /\ mem \in [Tabs -> Pair] /\ store \in [Browsers -> Pair]
             /\ call \in [Calls -> CallOf(Pair)]
             /\ lead \in [Tabs -> Calls \cup {NoCall}]
             /\ exch \in [Exchanges -> ExchOf(Pair)]
             /\ unseen \subseteq Token /\ broken \subseteq Token
             /\ leaving \subseteq Tabs
             /\ incidents \in Nat
  BY DEF TypeOK, CallOf, ExchOf, ExchSt

LEMMA SeqFacts ==
  ASSUME NEW S, NEW s \in Seq(S)
  PROVE  Len(s) \in Nat /\ DOMAIN s = 1 .. Len(s) /\ \A i \in DOMAIN s : s[i] \in S
  OBVIOUS

LEMMA RowTypes ==
  ASSUME TypeOK
  PROVE  /\ Len(row) \in Nat /\ Token = 1 .. Len(row) /\ Pair = 0 .. Len(row)
         /\ \A k \in Token : row[k] \in {"pending", "live", "revoked"}
         /\ \A k \in Token : old[k] \in [pair : Pair, tab : Tabs \cup {NoCall}]
         /\ DOMAIN old = Token
<1>1. row \in Seq({"pending", "live", "revoked"}) /\ Len(old) = Len(row)
  BY DEF TypeOK
<1>2. Len(row) \in Nat /\ DOMAIN row = 1 .. Len(row)
  BY <1>1
<1>3. \A k \in Token : row[k] \in {"pending", "live", "revoked"}
  BY <1>1, <1>2 DEF Token
<1>4. old \in Seq([pair : Pair, tab : Tabs \cup {NoCall}])
  BY DEF TypeOK
<1>5. DOMAIN old = Token /\ \A k \in DOMAIN old : old[k] \in [pair : Pair, tab : Tabs \cup {NoCall}]
  BY <1>1, <1>2, <1>4, SeqFacts DEF Token
<1>6. Pair = 0 .. Len(row)
  BY <1>2 DEF Pair, Token, None
<1> QED BY <1>2, <1>3, <1>5, <1>6 DEF Token

LEMMA SlotsAre ==
  /\ \A c \in Calls : c \in Exchanges /\ c \notin Strays /\ TabOf[c] \in Tabs /\ c # NoCall
  /\ \A s \in Strays : s \in Exchanges /\ s \notin Calls
  /\ \A x \in Exchanges : x \in Calls \/ x \in Strays
  /\ \A t \in Tabs : BrowserOf[t] \in Browsers /\ t # NoCall
  BY SessionsAssumption DEF Exchanges

\* An exchange in flight, its fields and those of what it made.
LEMMA InFlight ==
  ASSUME Inv, NEW x \in Exchanges
  PROVE  /\ exch[x] \in ExchOf(Pair)
         /\ exch[x].st \in ExchSt /\ exch[x].to \in Pair /\ exch[x].from \in Pair
         /\ exch[x].st # "off" => exch[x].from \in Token /\ exch[x].tab \in Tabs
         /\ Coming(x) => exch[x].to \in Token
<1>1. exch[x] \in ExchOf(Pair)
  BY TypesAre DEF Inv
<1>2. exch[x].st \in ExchSt /\ exch[x].to \in Pair /\ exch[x].from \in Pair
  BY <1>1 DEF ExchOf
<1>3. Coming(x) => exch[x].to # None
  BY DEF Inv, Fresh
<1>4. exch[x].st # "off" => exch[x].tab \in Tabs /\ exch[x].from # None
  BY DEF Inv, Single
<1> QED BY <1>1, <1>2, <1>3, <1>4 DEF Pair

\* What the invariant says of is not touched.
LEMMA Quiet ==
  ASSUME Inv, TypeOK', UNCHANGED <<row, old, ended, mem, store, lead, exch, unseen, broken>>,
         \A c \in Calls : call[c].st = "waits" => call'[c].st = "waits"
  PROVE  Inv'
<1>1. Token' = Token /\ \A k : Held(k)' = Held(k)
  BY DEF Token, Held, Holds
<1>2. \A x \in Exchanges : Coming(x)' = Coming(x)
  BY DEF Coming
<1>3. \A t, k : Rid(t, k)' = Rid(t, k)
  BY DEF Rid, RidOf
<1>4. Single'
  BY DEF Inv, Single
<1>5. Ready' /\ Fresh'
  BY <1>1, <1>2 DEF Inv, Ready, Fresh
<1>6. Moved'
  BY <1>1, <1>2, <1>3, SlotsAre DEF Inv, Moved
<1>7. Spent' /\ Why' /\ Burns' /\ BurntOnce' /\ Refusals'
  BY <1>1 DEF Inv, Spent, Why, Burns, BurntOnce, Refusals
<1> QED BY <1>4, <1>5, <1>6, <1>7 DEF Inv

LEMMA SendStep ==
  ASSUME Inv, NEW c \in Calls, Send(c) \/ Answered(c)
  PROVE  Inv'
<1>1. UNCHANGED <<row, old, ended, seat, expired, mem, store, lead, exch, unseen, broken, leaving, incidents>>
  BY DEF Send, Answered, server, history
<1>2. Token' = Token /\ Pair' = Pair /\ None \in Pair
  BY <1>1 DEF Token, Pair
<1>3. \E w \in Pair : \E st \in {"done", "sent"} : call' = [call EXCEPT ![c] = [st |-> st, with |-> w]]
  BY <1>2, SlotsAre DEF Send, Answered, Done, Inv, TypeOK
<1>4. call' \in [Calls -> CallOf(Pair)]
  BY <1>3, TypesAre DEF Inv, CallOf
<1>5. TypeOK'
  BY <1>1, <1>2, <1>4 DEF Inv, TypeOK, CallOf
<1>6. \A d \in Calls : call[d].st = "waits" => call'[d].st = "waits"
  BY DEF Send, Answered, Inv, TypeOK
<1> QED BY <1>1, <1>5, <1>6, Quiet

LEMMA ExpireStep ==
  ASSUME Inv, NEW k \in Token, Expire(k)
  PROVE  Inv'
<1>1. UNCHANGED <<row, old, ended, seat, mem, store, call, lead, exch, unseen, broken, leaving, incidents>>
  BY DEF Expire, server, client, history
<1>2. Token' = Token /\ Pair' = Pair /\ expired' \subseteq Token
  BY <1>1 DEF Token, Pair, Expire, Inv, TypeOK
<1>3. TypeOK'
  BY <1>1, <1>2 DEF Inv, TypeOK
<1> QED BY <1>1, <1>3, Quiet

\* The membership is switched on or off: no token is touched.
LEMMA SetActiveStep ==
  ASSUME Inv, NEW on \in BOOLEAN, SetActive(on)
  PROVE  Inv'
<1>1. UNCHANGED <<row, old, ended, expired, mem, store, call, lead, exch, unseen, broken, leaving>>
  BY DEF SetActive, client, history
<1>2. Token' = Token /\ Pair' = Pair
  BY <1>1 DEF Token, Pair
<1>3. seat' \in BOOLEAN /\ incidents' \in Nat
  BY DEF SetActive, Happens, Inv, TypeOK
<1>4. TypeOK'
  BY <1>1, <1>2, <1>3 DEF Inv, TypeOK
<1> QED BY <1>1, <1>4, Quiet

-----------------------------------------------------------------------------
(* The server. *)

\* Tokens are revoked and their end is known.
LEMMA RevokeKeeps ==
  ASSUME Inv, NEW ks \in SUBSET Token, Revoke(ks), UNCHANGED <<old, expired, client, exch, history>>,
         seat' \in BOOLEAN, leaving' \subseteq Tabs, incidents' \in Nat
  PROVE  Inv'
<1>1. /\ row' \in Seq({"pending", "live", "revoked"}) /\ Len(row') = Len(row)
      /\ Token' = Token /\ Pair' = Pair
      /\ \A k \in Token : \/ row'[k] = row[k]
                          \/ row'[k] = "revoked" /\ k \in ended'
      /\ ended \subseteq ended' /\ ended' \subseteq Token
  <2>1. row' = [k \in Token |-> IF k \in ks /\ row[k] \in {"pending", "live"} THEN "revoked" ELSE row[k]]
    BY DEF Revoke
  <2>2. Len(row) \in Nat /\ Token = 1 .. Len(row) /\ \A k \in Token : row[k] \in {"pending", "live", "revoked"}
    BY RowTypes DEF Inv
  <2>3. row' \in [1 .. Len(row) -> {"pending", "live", "revoked"}]
    BY <2>1, <2>2
  <2>4. row' \in Seq({"pending", "live", "revoked"}) /\ Len(row') = Len(row)
    BY <2>2, <2>3
  <2>5. \A k \in Token : row'[k] = row[k] \/ (row'[k] = "revoked" /\ k \in ended')
    BY <2>1 DEF Revoke, Inv, TypeOK
  <2>6. ended \subseteq ended' /\ ended' \subseteq Token
    BY <2>2, <2>5 DEF Revoke, Inv, TypeOK
  <2> QED BY <2>2, <2>3, <2>4, <2>5, <2>6 DEF Token, Pair
<1>2. TypeOK'
  BY <1>1 DEF Inv, TypeOK, client, history
<1>3. \A k : Held(k)' = Held(k)
  BY DEF Held, Holds, client
<1>4. \A x \in Exchanges : Coming(x)' = Coming(x)
  BY DEF Coming
<1>5. \A t, k : Rid(t, k)' = Rid(t, k)
  BY DEF Rid, RidOf, client
<1>6. Single' /\ Ready'
  BY <1>1, <1>3 DEF Inv, Single, Ready, client
<1>7. Moved'
  BY <1>1, <1>4, <1>5, SlotsAre DEF Inv, Moved, history
<1>8. Fresh'
  <2>1. \A x \in Exchanges : Coming(x) /\ exch[x].st = "answered" => row'[exch[x].to] # "pending"
    BY <1>1, InFlight DEF Inv, Fresh
  <2>2. exch' = exch /\ old' = old
    OBVIOUS
  <2> QED BY <1>1, <1>3, <1>4, <2>1, <2>2 DEF Inv, Fresh
<1>9. Spent'
  <2>1. \A j \in Token : old[j].pair # None => old[j].pair \in Token
    BY RowTypes DEF Inv, Pair
  <2>2. \A k \in Token : row[k] = "revoked" => row'[k] = "revoked"
    BY <1>1
  <2>3. \A x \in Exchanges : exch[x].st = "revoked" => exch[x].from \in Token
    BY InFlight
  <2> QED BY <1>1, <2>1, <2>2, <2>3 DEF Inv, Spent
<1>10. Why' /\ Burns' /\ BurntOnce' /\ Refusals'
  BY <1>1 DEF Inv, Why, Burns, BurntOnce, Refusals, history
<1> QED BY <1>2, <1>6, <1>7, <1>8, <1>9, <1>10 DEF Inv

LEMMA LogoutStep ==
  ASSUME Inv, NEW t \in Tabs, Logout(t)
  PROVE  Inv'
<1>1. {mem[t]} \in SUBSET Token
  BY DEF Logout, Inv, TypeOK, Pair
<1>2. /\ leaving' \subseteq Tabs /\ seat' = seat /\ seat \in BOOLEAN /\ incidents' \in Nat
      /\ UNCHANGED <<old, expired, client, exch, history>>
  BY DEF Logout, Happens, Inv, TypeOK
<1>3. CASE Revoke({mem[t]})
  BY <1>1, <1>2, <1>3, RevokeKeeps
<1>4. CASE UNCHANGED <<row, ended>>
  <2>1. Token' = Token /\ Pair' = Pair
    BY <1>4 DEF Token, Pair
  <2>2. TypeOK'
    BY <1>2, <1>4, <2>1 DEF Inv, TypeOK, client, history
  <2> QED BY <1>2, <1>4, <2>2, Quiet DEF client, history
<1> QED BY <1>3, <1>4 DEF Logout

LEMMA EndAllStep ==
  ASSUME Inv, NEW on \in BOOLEAN, EndAll(on)
  PROVE  Inv'
<1>1. Token \in SUBSET Token
  OBVIOUS
<1>2. /\ Revoke(Token) /\ leaving' \subseteq Tabs /\ seat' \in BOOLEAN /\ incidents' \in Nat
      /\ UNCHANGED <<old, expired, client, exch, history>>
  BY DEF EndAll, Happens, Inv, TypeOK
<1> QED BY <1>1, <1>2, RevokeKeeps

\* One statement of refresh() after another: the exchange goes on, or is over for a stray.
LEMMA GoesIs ==
  ASSUME TypeOK, NEW x \in Exchanges, NEW st \in ExchSt, NEW to \in Pair', Pair \subseteq Pair',
         exch[x].st # "off", Reaches(x, to, st)
  PROVE  /\ exch' \in [Exchanges -> ExchOf(Pair')]
         /\ \A y \in Exchanges \ {x} : exch'[y] = exch[y]
         /\ IF x \in Strays /\ st \in {"answered", "refused"}
            THEN exch'[x] = Off
            ELSE /\ exch'[x].st = st /\ exch'[x].to = to
                 /\ exch'[x].from = exch[x].from /\ exch'[x].tab = exch[x].tab
<1> DEFINE next == IF x \in Strays /\ st \in {"answered", "refused"} THEN Off
                   ELSE [exch[x] EXCEPT !.st = st, !.to = to]
<1>1. exch \in [Exchanges -> ExchOf(Pair)] /\ ExchOf(Pair) \subseteq ExchOf(Pair')
  <2>1. ExchOf(Pair) \subseteq ExchOf(Pair')
    BY DEF ExchOf
  <2> QED BY <2>1, TypesAre
<1>2. exch[x] \in ExchOf(Pair)
  BY <1>1
<1>3. Off \in ExchOf(Pair')
  BY DEF Off, ExchOf, ExchSt, Pair
<1>4. [exch[x] EXCEPT !.st = st, !.to = to] \in ExchOf(Pair')
  BY <1>1, <1>2 DEF ExchOf
<1>5. next \in ExchOf(Pair')
  BY <1>3, <1>4
<1>6. exch' = [exch EXCEPT ![x] = next]
  BY DEF Reaches
<1>7. \/ x \in Strays /\ st \in {"answered", "refused"} /\ next = Off
      \/ /\ ~(x \in Strays /\ st \in {"answered", "refused"})
         /\ next.st = st /\ next.to = to /\ next.from = exch[x].from /\ next.tab = exch[x].tab
  BY <1>2 DEF ExchOf
<1> HIDE DEF next
<1>8. exch' \in [Exchanges -> ExchOf(Pair')] /\ exch'[x] = next /\ \A y \in Exchanges \ {x} : exch'[y] = exch[y]
  <2> HIDE DEF ExchOf
  <2> QED BY <1>1, <1>5, <1>6
<1> QED BY <1>7, <1>8

\* A statement of refresh() short of the one that makes a row.
LEMMA GoesKeeps ==
  ASSUME Inv, NEW x \in Exchanges, NEW st \in ExchSt, Goes(x, st),
         exch[x].st # "off", st # "off",
         UNCHANGED <<old, ended, seat, expired, client, leaving>>, incidents' \in Nat,
         unseen \subseteq unseen', unseen' \subseteq Token, broken \subseteq broken', broken' \subseteq Token,
         row' \in Seq({"pending", "live", "revoked"}), Len(row') = Len(row),
         \A k \in Token : /\ row[k] = "revoked" => row'[k] = "revoked"
                          /\ row[k] # "pending" => row'[k] # "pending"
                          /\ row'[k] = "revoked" /\ row[k] # "revoked" => k = exch[x].from /\ st = "revoked",
         st \in {"made", "answered"} => Coming(x),
         Coming(x) => st \in {"made", "answered"} \/ exch[x].to \in unseen',
         st = "answered" => row'[exch[x].to] # "pending",
         st = "revoked" => row'[exch[x].from] = "revoked",
         exch[x].st = "revoked" => exch[x].from \in broken',
         x \in Calls /\ st \in {"found", "revoked"} =>
           \A j \in Token \ unseen : old[j].pair = exch[x].from => old[j].tab # TabOf[x],
         x \in Calls /\ st = "refused" =>
           \/ exch[x].from \in ended \cup broken'
           \/ \E j \in Token : old[j].pair = exch[x].from /\ (old[j].tab # TabOf[x] \/ j \in unseen')
           \/ \E y \in Exchanges : /\ exch[y].st = "revoked" /\ exch[y].from = exch[x].from
                                   /\ y \in Strays \/ exch[y].tab # TabOf[x]
  PROVE  Inv'
<1>1. Token' = Token /\ Pair' = Pair
  BY SeqFacts DEF Inv, TypeOK, Token, Pair
<1>2. /\ exch' \in [Exchanges -> ExchOf(Pair)]
      /\ \A y \in Exchanges \ {x} : exch'[y] = exch[y]
      /\ \/ x \in Strays /\ st \in {"answered", "refused"} /\ exch'[x] = Off
         \/ /\ exch'[x].st = st /\ exch'[x].to = exch[x].to
            /\ exch'[x].from = exch[x].from /\ exch'[x].tab = exch[x].tab
  <2>1. exch[x].to \in Pair' /\ Reaches(x, exch[x].to, st) /\ Pair \subseteq Pair' /\ TypeOK
    BY <1>1, InFlight DEF Goes, Inv
  <2> QED BY <1>1, <2>1, GoesIs
<1>3. \A y \in Exchanges : exch'[y].st # "off" =>
        /\ exch[y].st # "off"
        /\ exch'[y].tab = exch[y].tab /\ exch'[y].from = exch[y].from /\ exch'[y].to = exch[y].to
  BY <1>2 DEF Off
<1>4. \A c \in Calls : exch'[c].st # "off" <=> exch[c].st # "off"
  BY <1>2, SlotsAre
<1>5. \A y \in Exchanges : exch'[y].st \in {"made", "answered"} => Coming(y)
  BY <1>2 DEF Coming, Off
<1>6. TypeOK'
  BY <1>1, <1>2, TypesAre DEF Inv, TypeOK, client, ExchOf, ExchSt
<1>7. \A k : Holds(mem', store', exch', k) => Held(k)
  BY <1>3 DEF Held, Holds, client
<1>8. \A t, k : Rid(t, k) => RidOf(mem', store', exch', t, k)
  BY <1>3, <1>4, SlotsAre DEF Rid, RidOf, client
<1>9. Single'
  BY <1>3, <1>4, SlotsAre DEF Inv, Single, client
<1>10. Ready'
  BY <1>1, <1>7 DEF Inv, Ready, Held
<1>11. Moved'
  <2> SUFFICES ASSUME NEW j \in Token \ unseen', old[j].pair # None
               PROVE  \/ RidOf(mem', store', exch', old[j].tab, old[j].pair)
                      \/ \E c \in Calls : exch'[c].st \in {"made", "answered"} /\ exch'[c].to = j /\ TabOf[c] = old[j].tab
    BY <1>1 DEF Moved, Rid, Coming
  <2>1. CASE Rid(old[j].tab, old[j].pair)
    BY <1>8, <2>1
  <2>2. ASSUME NEW c \in Calls, Coming(c), exch[c].to = j PROVE exch'[c].st \in {"made", "answered"} /\ exch'[c].to = j
    <3>1. CASE c = x
      BY <1>2, <2>2, <3>1, SlotsAre
    <3>2. CASE c # x
      BY <1>2, <2>2, <3>2, SlotsAre DEF Coming
    <3> QED BY <3>1, <3>2
  <2> QED BY <2>1, <2>2 DEF Inv, Moved
<1>12. Fresh'
  <2> SUFFICES ASSUME NEW y \in Exchanges, exch'[y].st \in {"made", "answered"}
               PROVE  /\ exch'[y].to # None /\ ~Holds(mem', store', exch', exch'[y].to)
                      /\ old[exch'[y].to] = [pair |-> exch'[y].from, tab |-> exch'[y].tab]
                      /\ \A j \in Token : old[j].pair # exch'[y].to
                      /\ \A z \in Exchanges \ {y} : exch'[z].st \in {"made", "answered"} => exch'[z].to # exch'[y].to
                      /\ exch'[y].st = "answered" => row'[exch'[y].to] # "pending"
    BY <1>1 DEF Fresh, Held, Coming
  <2>1. Coming(y) /\ exch'[y].to = exch[y].to /\ exch'[y].from = exch[y].from /\ exch'[y].tab = exch[y].tab
    BY <1>3, <1>5
  <2>2. /\ exch[y].to # None /\ ~Held(exch[y].to)
        /\ old[exch[y].to] = [pair |-> exch[y].from, tab |-> exch[y].tab]
        /\ \A j \in Token : old[j].pair # exch[y].to
        /\ \A z \in Exchanges \ {y} : Coming(z) => exch[z].to # exch[y].to
        /\ exch[y].st = "answered" => row[exch[y].to] # "pending"
    BY <2>1 DEF Inv, Fresh
  <2>3. \A z \in Exchanges \ {y} : exch'[z].st \in {"made", "answered"} => exch'[z].to # exch[y].to
    BY <1>3, <1>5, <2>2
  <2>4. exch'[y].st = "answered" => row'[exch[y].to] # "pending"
    <3>1. exch[y].to \in Token
      BY <2>1, InFlight
    <3>2. CASE y = x
      BY <1>2, <3>2 DEF Off
    <3>3. CASE y # x
      BY <1>2, <2>2, <3>1, <3>3
    <3> QED BY <3>2, <3>3
  <2> QED BY <1>7, <2>1, <2>2, <2>3, <2>4
<1>13. Spent'
  <2>1. \A j \in Token : old[j].pair # None => old[j].pair \in Token
    BY RowTypes DEF Inv, Pair
  <2>2. ASSUME NEW y \in Exchanges, exch'[y].st = "revoked" PROVE row'[exch'[y].from] = "revoked"
    <3>1. CASE y = x
      BY <1>2, <2>2, <3>1 DEF Off
    <3>2. CASE y # x
      <4>1. exch[y].st = "revoked" /\ exch'[y] = exch[y]
        BY <1>2, <2>2, <3>2
      <4>2. exch[y].from \in Token /\ row[exch[y].from] = "revoked"
        BY <4>1, InFlight DEF Inv, Spent
      <4> QED BY <4>1, <4>2
    <3> QED BY <3>1, <3>2
  <2> QED BY <1>1, <2>1, <2>2 DEF Inv, Spent
<1>14. Why'
  <2> SUFFICES ASSUME NEW k \in Token, row'[k] = "revoked"
               PROVE  \/ k \in ended \cup broken'
                      \/ \E j \in Token : old[j].pair = k
                      \/ \E y \in Exchanges : exch'[y].st = "revoked" /\ exch'[y].from = k
    BY <1>1 DEF Why
  <2>1. CASE row[k] = "revoked"
    <3>1. ASSUME NEW y \in Exchanges, exch[y].st = "revoked", exch[y].from = k
          PROVE  k \in broken' \/ (exch'[y].st = "revoked" /\ exch'[y].from = k)
      BY <1>2, <3>1
    <3> QED BY <2>1, <3>1 DEF Inv, Why
  <2>2. CASE row[k] # "revoked"
    <3>1. k = exch[x].from /\ st = "revoked"
      BY <2>2
    <3> QED BY <1>2, <3>1
  <2> QED BY <2>1, <2>2
<1>15. Burns'
  <2>1. ASSUME NEW c \in Calls, exch'[c].st \in {"found", "revoked"},
               NEW j \in Token \ unseen', old[j].pair = exch'[c].from
        PROVE  old[j].tab # TabOf[c]
    <3>1. exch'[c].from = exch[c].from /\ j \notin unseen
      BY <1>3, <2>1, SlotsAre
    <3>2. CASE c = x
      BY <1>2, <2>1, <3>1, <3>2, SlotsAre
    <3>3. CASE c # x
      BY <1>2, <2>1, <3>1, <3>3, SlotsAre DEF Inv, Burns
    <3> QED BY <3>2, <3>3
  <2> QED BY <1>1, <2>1 DEF Burns
<1>16. BurntOnce'
  BY <1>1 DEF Inv, BurntOnce
<1>17. Refusals'
  <2> SUFFICES ASSUME NEW c \in Calls, exch'[c].st = "refused", exch[c].from \notin ended \cup broken',
                      ~\E j \in Token : old[j].pair = exch[c].from /\ (old[j].tab # TabOf[c] \/ j \in unseen')
               PROVE  \E y \in Exchanges : /\ exch'[y].st = "revoked" /\ exch'[y].from = exch[c].from
                                           /\ y \in Strays \/ exch'[y].tab # TabOf[c]
    BY <1>1, <1>3, SlotsAre DEF Refusals
  <2>1. PICK y \in Exchanges : /\ exch[y].st = "revoked" /\ exch[y].from = exch[c].from
                               /\ y \in Strays \/ exch[y].tab # TabOf[c]
    <3>1. CASE c = x
      BY <1>2, <3>1, SlotsAre
    <3>2. CASE c # x
      BY <1>2, <3>2, SlotsAre DEF Inv, Refusals
    <3> QED BY <3>1, <3>2
  <2>2. y # x
    BY <2>1
  <2> QED BY <1>2, <2>1, <2>2
<1> QED BY <1>6, <1>9, <1>10, <1>11, <1>12, <1>13, <1>14, <1>15, <1>16, <1>17 DEF Inv

\* A refused exchange had nothing to find: its token was revoked for a reason.
LEMMA FindStep ==
  ASSUME Inv, NEW x \in Exchanges, Find(x)
  PROVE  Inv'
<1> DEFINE k == exch[x].from
           st == IF row[k] = "live" THEN "found" ELSE "refused"
<1>1. exch[x].st = "sent" /\ Goes(x, st) /\ st \in ExchSt /\ st \in {"found", "refused"}
  BY DEF Find, ExchSt
<1>2. UNCHANGED <<row, old, ended, seat, expired, client, unseen, broken, leaving, incidents>>
  BY DEF Find, server, history
<1>3. k \in Token /\ Held(k) /\ k # None
  BY <1>1, InFlight DEF Inv, Single, Held, Holds
<1>4. st = "found" => \A j \in Token : old[j].pair # k
  BY <1>3 DEF Inv, Spent
<1>5. x \in Calls /\ st = "refused" =>
        \/ k \in ended \cup broken
        \/ \E j \in Token : old[j].pair = k /\ (old[j].tab # TabOf[x] \/ j \in unseen)
        \/ \E y \in Exchanges : exch[y].st = "revoked" /\ exch[y].from = k /\ (y \in Strays \/ exch[y].tab # TabOf[x])
  <2> SUFFICES ASSUME x \in Calls, st = "refused", k \notin ended \cup broken
               PROVE  \/ \E j \in Token : old[j].pair = k /\ (old[j].tab # TabOf[x] \/ j \in unseen)
                      \/ \E y \in Exchanges : exch[y].st = "revoked" /\ exch[y].from = k /\ (y \in Strays \/ exch[y].tab # TabOf[x])
    OBVIOUS
  <2>1. row[k] = "revoked"
    BY <1>3, RowTypes DEF Inv, Ready
  <2>2. \/ \E j \in Token : old[j].pair = k
        \/ \E y \in Exchanges : exch[y].st = "revoked" /\ exch[y].from = k
    BY <1>3, <2>1 DEF Inv, Why
  <2>3. ASSUME NEW y \in Exchanges, exch[y].st = "revoked" PROVE y \in Strays \/ exch[y].tab # TabOf[x]
    BY <1>1, <2>3, SlotsAre DEF Inv, Single
  <2>4. ASSUME NEW j \in Token, old[j].pair = k, j \notin unseen PROVE old[j].tab # TabOf[x]
    <3>1. CASE Rid(old[j].tab, old[j].pair)
      BY <1>1, <2>4, <3>1 DEF Rid, RidOf
    <3>2. ASSUME NEW d \in Calls, Coming(d), TabOf[d] = old[j].tab PROVE old[j].tab # TabOf[x]
      BY <1>1, <3>2 DEF Inv, Single, Coming
    <3> QED BY <1>3, <2>4, <3>1, <3>2 DEF Inv, Moved
  <2> QED BY <2>2, <2>3, <2>4
<1>6. ~Coming(x) /\ exch[x].st # "off" /\ exch[x].st # "revoked"
  BY <1>1 DEF Coming
<1> HIDE DEF st
<1>7. row \in Seq({"pending", "live", "revoked"}) /\ incidents \in Nat /\ unseen \subseteq Token /\ broken \subseteq Token
  BY DEF Inv, TypeOK
<1> QED BY <1>1, <1>2, <1>4, <1>5, <1>6, <1>7, GoesKeeps

LEMMA RevokeOldStep ==
  ASSUME Inv, NEW x \in Exchanges, RevokeOld(x)
  PROVE  Inv'
<1> DEFINE k == exch[x].from
<1>1. exch[x].st = "found" /\ Goes(x, "revoked") /\ "revoked" \in ExchSt
  BY DEF RevokeOld, ExchSt
<1>2. k \in Token
  BY <1>1, InFlight
<1>3. row' = [row EXCEPT ![k] = "revoked"]
  BY DEF RevokeOld
<1>4. /\ row \in Seq({"pending", "live", "revoked"}) /\ incidents \in Nat
      /\ unseen \subseteq Token /\ broken \subseteq Token
  BY DEF Inv, TypeOK
<1>5. row' \in Seq({"pending", "live", "revoked"}) /\ Len(row') = Len(row)
  BY <1>2, <1>3, <1>4, ExceptSeq, SeqFacts DEF Token
<1>6. row'[k] = "revoked" /\ \A j \in Token \ {k} : row'[j] = row[j]
  BY <1>2, <1>3, <1>4 DEF Token
<1>7. x \in Calls => \A j \in Token \ unseen : old[j].pair = k => old[j].tab # TabOf[x]
  BY <1>1 DEF Inv, Burns
<1>8. UNCHANGED <<old, ended, seat, expired, client, unseen, broken, leaving, incidents>>
  BY DEF RevokeOld, history
<1>9. ~Coming(x) /\ exch[x].st # "off" /\ exch[x].st # "revoked"
  BY <1>1 DEF Coming
<1> QED BY <1>1, <1>4, <1>5, <1>6, <1>7, <1>8, <1>9, GoesKeeps

\* The seat is gone, or the server fails: the token is known to be broken off.
LEMMA BreaksOffStep ==
  ASSUME Inv, NEW x \in Exchanges, NoSeat(x) \/ ServerFails(x)
  PROVE  Inv'
<1>1. /\ exch[x].st \in {"sent", "found", "revoked", "made"} /\ Goes(x, "refused") /\ "refused" \in ExchSt
      /\ broken' = broken \cup {exch[x].from} /\ unseen' = unseen \cup ({exch[x].to} \ {None})
      /\ UNCHANGED <<row, old, ended, seat, expired, client, leaving>>
  BY DEF NoSeat, ServerFails, BreaksOff, ExchSt, server
<1>2. incidents' \in Nat
  BY DEF NoSeat, ServerFails, Happens, Inv, TypeOK
<1>3. exch[x].from \in Token /\ exch[x].to \in Pair /\ exch[x].st # "off"
  BY <1>1, InFlight
<1>4. Coming(x) => exch[x].to # None
  BY DEF Inv, Fresh
<1>5. row \in Seq({"pending", "live", "revoked"}) /\ unseen \subseteq Token /\ broken \subseteq Token
  BY DEF Inv, TypeOK
<1>6. /\ unseen \subseteq unseen' /\ unseen' \subseteq Token /\ broken \subseteq broken' /\ broken' \subseteq Token
      /\ exch[x].from \in broken' /\ (Coming(x) => exch[x].to \in unseen')
  BY <1>1, <1>3, <1>4, <1>5 DEF Pair
<1> QED BY <1>1, <1>2, <1>3, <1>5, <1>6, GoesKeeps

LEMMA StoreHashStep ==
  ASSUME Inv, NEW x \in Exchanges, StoreHash(x)
  PROVE  Inv'
<1> DEFINE k == exch[x].to
<1>1. exch[x].st = "made" /\ Goes(x, "answered") /\ "answered" \in ExchSt
  BY DEF StoreHash, ExchSt
<1>2. k \in Token /\ Coming(x)
  BY <1>1, InFlight DEF Coming
<1>3. row' = [row EXCEPT ![k] = Hashed(k)]
  BY DEF StoreHash
<1>4. /\ row \in Seq({"pending", "live", "revoked"}) /\ incidents \in Nat
      /\ unseen \subseteq Token /\ broken \subseteq Token
  BY DEF Inv, TypeOK
<1>5. Hashed(k) \in {"live", "revoked"} /\ (row[k] # "pending" => Hashed(k) = row[k])
      /\ (row[k] = "pending" => Hashed(k) = "live")
  BY <1>2, RowTypes DEF Hashed, Inv
<1>6. row' \in Seq({"pending", "live", "revoked"}) /\ Len(row') = Len(row)
  BY <1>2, <1>3, <1>4, <1>5, ExceptSeq, SeqFacts DEF Token
<1>7. row'[k] = Hashed(k) /\ \A j \in Token \ {k} : row'[j] = row[j]
  BY <1>2, <1>3, <1>4 DEF Token
<1>8. UNCHANGED <<old, ended, seat, expired, client, unseen, broken, leaving, incidents>>
  BY DEF StoreHash, history
<1>9. exch[x].st # "off" /\ exch[x].st # "revoked"
  BY <1>1
<1> QED BY <1>1, <1>2, <1>4, <1>5, <1>6, <1>7, <1>8, <1>9, GoesKeeps

-----------------------------------------------------------------------------
(* A row is made: by a sign-in, or for an exchange. *)

LEMMA IssueFacts ==
  ASSUME TypeOK, NEW state \in {"pending", "live"}, NEW pair \in Pair, NEW tab \in Tabs \cup {NoCall},
         Issue(state, pair, tab)
  PROVE  /\ row' \in Seq({"pending", "live", "revoked"})
         /\ old' \in Seq([pair : Pair', tab : Tabs \cup {NoCall}]) /\ Len(old') = Len(row')
         /\ Issued \notin Pair /\ Issued # None /\ Token' = Token \cup {Issued} /\ Pair' = Pair \cup {Issued}
         /\ \A k \in Token : row'[k] = row[k] /\ old'[k] = old[k]
         /\ row'[Issued] = state /\ old'[Issued] = [pair |-> pair, tab |-> tab]
<1> DEFINE R == {"pending", "live", "revoked"}
           O == [pair : Pair, tab : Tabs \cup {NoCall}]
           o == [pair |-> pair, tab |-> tab]
<1>1. row \in Seq(R) /\ old \in Seq(O) /\ Len(old) = Len(row) /\ state \in R /\ o \in O
  BY DEF TypeOK
<1>2. row' = Append(row, state) /\ old' = Append(old, o)
  BY DEF Issue
<1> HIDE DEF R, O, o
<1>3. /\ row' \in Seq(R) /\ Len(row') = Len(row) + 1 /\ row'[Len(row) + 1] = state
      /\ \A k \in 1 .. Len(row) : row'[k] = row[k]
  BY <1>1, <1>2, AppendProperties
<1>4. /\ old' \in Seq(O) /\ Len(old') = Len(row) + 1 /\ old'[Len(row) + 1] = o
      /\ \A k \in 1 .. Len(row) : old'[k] = old[k]
  BY <1>1, <1>2, AppendProperties
<1>5. Len(row) \in Nat /\ Token = 1 .. Len(row) /\ Pair = 0 .. Len(row)
  BY RowTypes
<1>6. Token' = 1 .. Len(row) + 1 /\ Pair' = 0 .. Len(row) + 1
  BY <1>3, SeqFacts DEF Token, Pair, None
<1>7. Issued \notin Pair /\ Issued # None /\ Token' = Token \cup {Issued} /\ Pair' = Pair \cup {Issued}
  BY <1>5, <1>6 DEF Issued, None
<1>8. old' \in Seq([pair : Pair', tab : Tabs \cup {NoCall}])
  <2>1. \A i \in 1 .. Len(row) + 1 : old'[i] \in O
    BY <1>4, SeqFacts
  <2>2. O \subseteq [pair : Pair', tab : Tabs \cup {NoCall}]
    BY <1>7 DEF O
  <2>3. \A S : O \subseteq S => Seq(O) \subseteq Seq(S)
    OBVIOUS
  <2> QED BY <1>4, <2>2, <2>3
<1> QED BY <1>3, <1>4, <1>5, <1>7, <1>8 DEF R, o, Issued

\* What was there before keeps its types.
LEMMA IssueTyped ==
  ASSUME TypeOK, Pair \subseteq Pair', Token \subseteq Token'
  PROVE  /\ expired \subseteq Token' /\ ended \subseteq Token' /\ unseen \subseteq Token' /\ broken \subseteq Token'
         /\ mem \in [Tabs -> Pair'] /\ store \in [Browsers -> Pair']
         /\ call \in [Calls -> CallOf(Pair')]
         /\ exch \in [Exchanges -> ExchOf(Pair')]
<1>1. /\ expired \subseteq Token' /\ ended \subseteq Token' /\ unseen \subseteq Token' /\ broken \subseteq Token'
      /\ mem \in [Tabs -> Pair'] /\ store \in [Browsers -> Pair']
  BY DEF TypeOK
<1>2. CallOf(Pair) \subseteq CallOf(Pair') /\ ExchOf(Pair) \subseteq ExchOf(Pair')
  BY DEF CallOf, ExchOf
<1>3. call \in [Calls -> CallOf(Pair)] /\ exch \in [Exchanges -> ExchOf(Pair)]
  BY TypesAre
<1> QED BY <1>1, <1>2, <1>3

\* Nobody holds, and nothing was made from, a row that is not there.
LEMMA NoneYet ==
  ASSUME Inv, NEW n, n \notin Pair
  PROVE  /\ ~Held(n)
         /\ \A j \in Token : old[j].pair # n
         /\ \A x \in Exchanges : exch[x].to # n
<1>1. ~Held(n)
  BY DEF Inv, TypeOK, Held, Holds
<1>2. \A j \in Token : old[j].pair # n
  BY RowTypes DEF Inv
<1>3. \A x \in Exchanges : exch[x].to # n
  BY InFlight
<1> QED BY <1>1, <1>2, <1>3

LEMMA LoginStep ==
  ASSUME Inv, NEW t \in Tabs, Login(t)
  PROVE  Inv'
<1> DEFINE n == Issued
           b == BrowserOf[t]
<1>1. /\ Issue("live", None, NoCall)
      /\ UNCHANGED <<expired, ended, seat, call, lead, exch, unseen, broken, leaving, incidents>>
  BY DEF Login, history
<1>2. /\ row' \in Seq({"pending", "live", "revoked"})
      /\ old' \in Seq([pair : Pair', tab : Tabs \cup {NoCall}]) /\ Len(old') = Len(row')
      /\ n \notin Pair /\ n # None /\ Token' = Token \cup {n} /\ Pair' = Pair \cup {n}
      /\ \A k \in Token : row'[k] = row[k] /\ old'[k] = old[k]
      /\ row'[n] = "live" /\ old'[n] = [pair |-> None, tab |-> NoCall]
  BY <1>1, IssueFacts DEF Inv, Pair
<1> HIDE DEF n
<1>3. b \in Browsers
  BY SlotsAre
<1>4. /\ mem' = [mem EXCEPT ![t] = n] /\ store' = [store EXCEPT ![b] = n]
  BY DEF Login, SetSession, n
<1> HIDE DEF b
<1>5. TypeOK'
  <2>1. /\ mem' \in [Tabs -> Pair'] /\ store' \in [Browsers -> Pair']
        /\ expired \subseteq Token' /\ ended \subseteq Token' /\ unseen \subseteq Token' /\ broken \subseteq Token'
    BY <1>2, <1>3, <1>4, IssueTyped DEF Inv
  <2>2. call \in [Calls -> CallOf(Pair')] /\ exch \in [Exchanges -> ExchOf(Pair')]
    BY <1>2, IssueTyped DEF Inv
  <2> QED BY <1>1, <1>2, <2>1, <2>2 DEF Inv, TypeOK, CallOf, ExchOf, ExchSt
<1>6. \A k \in Pair : Held(k)' => Held(k)
  BY <1>1, <1>2, <1>3, <1>4 DEF Held, Holds, Inv, TypeOK
<1>7. \A x \in Exchanges : Coming(x)' <=> Coming(x)
  BY <1>1 DEF Coming
<1>8. Single'
  BY <1>1 DEF Inv, Single
<1>9. Ready'
  BY <1>2, <1>6 DEF Inv, Ready, Pair
<1>10. \A x \in Exchanges : Coming(x) => exch[x].to \in Token
  BY InFlight
<1>11. Fresh'
  <2>1. \A x \in Exchanges : Coming(x) => n # exch[x].to /\ None # exch[x].to
    BY <1>2, <1>10 DEF Pair, Inv, Fresh
  <2>2. \A j \in Token' : old'[j].pair = None \/ (j \in Token /\ old'[j].pair = old[j].pair)
    BY <1>2
  <2> QED BY <1>1, <1>2, <1>6, <1>7, <1>10, <2>1, <2>2 DEF Inv, Fresh, Pair
<1>12. Spent'
  <2>1. \A j \in Token : old[j].pair # None => old[j].pair \in Token
    BY RowTypes DEF Inv, Pair
  <2>2. \A x \in Exchanges : exch[x].st = "revoked" => exch[x].from \in Token
    BY InFlight
  <2> QED BY <1>1, <1>2, <2>1, <2>2 DEF Inv, Spent
<1>13. Why'
  BY <1>1, <1>2 DEF Inv, Why
<1>14. Moved'
  <2>1. \A j \in Token : old[j].pair # None => old[j].pair # n /\ old[j].tab \in Tabs
    BY <1>2, RowTypes DEF Inv, Spent
  <2>2. \A v \in Tabs : \A k : k # n /\ Rid(v, k) => Rid(v, k)'
    BY <1>1, <1>3, <1>4, SlotsAre DEF Rid, RidOf, Inv, TypeOK
  <2> QED BY <1>1, <1>2, <1>7, <2>1, <2>2, SlotsAre DEF Inv, Moved
<1>15. Burns'
  <2>1. \A c \in Calls : exch[c].st # "off" => exch[c].from # None
    BY SlotsAre DEF Inv, Single
  <2> QED BY <1>1, <1>2, <2>1 DEF Inv, Burns
<1>16. BurntOnce'
  BY <1>1, <1>2 DEF Inv, BurntOnce
<1>17. Refusals'
  BY <1>1, <1>2 DEF Inv, Refusals
<1> QED BY <1>5, <1>8, <1>9, <1>11, <1>12, <1>13, <1>14, <1>15, <1>16, <1>17 DEF Inv

\* The old token is revoked; the new one is nobody's yet, and a stray's never will be.
LEMMA MakeStep ==
  ASSUME Inv, NEW x \in Exchanges, Make(x)
  PROVE  Inv'
<1> DEFINE n == Issued
           k == exch[x].from
           t == exch[x].tab
<1>1. /\ exch[x].st = "revoked" /\ Issue("pending", k, t) /\ Reaches(x, n, "made")
      /\ UNCHANGED <<expired, ended, seat, client, broken, leaving, incidents>>
      /\ unseen' = unseen \cup (IF x \in Strays THEN {n} ELSE {})
  BY DEF Make
<1>2. k \in Token /\ k \in Pair /\ k # None /\ t \in Tabs /\ row[k] = "revoked"
  BY <1>1, InFlight DEF Inv, Single, Pair, Spent
<1>3. /\ row' \in Seq({"pending", "live", "revoked"})
      /\ old' \in Seq([pair : Pair', tab : Tabs \cup {NoCall}]) /\ Len(old') = Len(row')
      /\ n \notin Pair /\ n # None /\ Token' = Token \cup {n} /\ Pair' = Pair \cup {n}
      /\ \A j \in Token : row'[j] = row[j] /\ old'[j] = old[j]
      /\ row'[n] = "pending" /\ old'[n] = [pair |-> k, tab |-> t]
  BY <1>1, <1>2, IssueFacts DEF Inv
<1> HIDE DEF n
<1>4. /\ exch' \in [Exchanges -> ExchOf(Pair')]
      /\ \A y \in Exchanges \ {x} : exch'[y] = exch[y]
      /\ exch'[x].st = "made" /\ exch'[x].to = n /\ exch'[x].from = k /\ exch'[x].tab = t
  <2>1. "made" \in ExchSt /\ n \in Pair' /\ Pair \subseteq Pair' /\ TypeOK /\ exch[x].st # "off"
    BY <1>1, <1>3 DEF ExchSt, Inv
  <2> QED BY <1>1, <2>1, GoesIs
<1> HIDE DEF k, t
<1>5. /\ unseen \subseteq unseen' /\ unseen' \subseteq Token' /\ (\A j \in Token : j \in unseen' <=> j \in unseen)
      /\ n \in unseen' <=> x \in Strays
  <2>1. unseen \subseteq Token /\ n \notin Token
    BY <1>3 DEF Inv, TypeOK, Pair
  <2> QED BY <1>1, <1>3, <2>1
<1>6. TypeOK'
  <2>1. /\ expired \subseteq Token' /\ ended \subseteq Token' /\ broken \subseteq Token'
        /\ mem \in [Tabs -> Pair'] /\ store \in [Browsers -> Pair'] /\ call \in [Calls -> CallOf(Pair')]
    BY <1>3, IssueTyped DEF Inv
  <2> QED BY <1>1, <1>3, <1>4, <1>5, <2>1 DEF Inv, TypeOK, ExchOf, ExchSt, CallOf, client
<1>7. \A j : Holds(mem', store', exch', j) <=> Held(j)
  <2>1. \A y \in Exchanges : /\ exch'[y].st # "off" <=> exch[y].st # "off"
                             /\ exch'[y].from = exch[y].from
    BY <1>1, <1>4 DEF k
  <2> QED BY <1>1, <2>1 DEF Held, Holds, client
<1>8. ~Held(n) /\ (\A j \in Token : old[j].pair # n) /\ \A y \in Exchanges : exch[y].to # n
  BY <1>3, NoneYet
<1>9. \A y \in Exchanges \ {x} : exch'[y].st \in {"made", "answered"} <=> Coming(y)
  BY <1>4 DEF Coming
<1>10. exch'[x].st \in {"made", "answered"} /\ ~Coming(x)
  BY <1>1, <1>4 DEF Coming
<1>11. Single'
  <2>1. \A y \in Exchanges : exch'[y].st # "off" =>
          exch[y].st # "off" /\ exch'[y].from = exch[y].from /\ exch'[y].tab = exch[y].tab
    BY <1>1, <1>4 DEF k, t
  <2> QED BY <1>1, <2>1, SlotsAre DEF Inv, Single, client
<1>12. Ready'
  BY <1>3, <1>7, <1>8 DEF Inv, Ready, Held
<1>13. Fresh'
  <2>1. \A y \in Exchanges \ {x} : Coming(y) =>
          /\ exch[y].to \in Token /\ exch[y].to # None /\ ~Held(exch[y].to) /\ exch[y].to # k
          /\ old[exch[y].to] = [pair |-> exch[y].from, tab |-> exch[y].tab]
          /\ \A j \in Token : old[j].pair # exch[y].to
          /\ \A z \in Exchanges \ {y} : Coming(z) => exch[z].to # exch[y].to
          /\ exch[y].st = "answered" => row[exch[y].to] # "pending"
    <3>1. Held(k)
      BY <1>1 DEF Held, Holds, k
    <3> QED BY <3>1, InFlight DEF Inv, Fresh
  <2>2. ASSUME NEW y \in Exchanges \ {x}, Coming(y)
        PROVE  /\ exch[y].to # None /\ ~Holds(mem', store', exch', exch[y].to)
               /\ old'[exch[y].to] = [pair |-> exch[y].from, tab |-> exch[y].tab]
               /\ \A j \in Token' : old'[j].pair # exch[y].to
               /\ \A z \in Exchanges \ {y} : exch'[z].st \in {"made", "answered"} => exch'[z].to # exch[y].to
               /\ exch[y].st = "answered" => row'[exch[y].to] # "pending"
    <3>1. exch[y].to # None /\ ~Holds(mem', store', exch', exch[y].to)
      BY <1>7, <2>1, <2>2
    <3>2. old'[exch[y].to] = [pair |-> exch[y].from, tab |-> exch[y].tab]
      BY <1>3, <2>1, <2>2
    <3>3. \A j \in Token' : old'[j].pair # exch[y].to
      <4>1. exch[y].to # k /\ \A j \in Token : old[j].pair # exch[y].to
        BY <2>1, <2>2
      <4>2. \A j \in Token : old'[j] = old[j]
        BY <1>3
      <4>3. old'[n].pair = k /\ Token' = Token \cup {n}
        BY <1>3
      <4> QED BY <4>1, <4>2, <4>3
    <3>4. \A z \in Exchanges \ {y} : exch'[z].st \in {"made", "answered"} => exch'[z].to # exch[y].to
      <4>1. exch'[x].to # exch[y].to
        BY <1>4, <1>8
      <4>2. ASSUME NEW z \in Exchanges \ {x, y}, exch'[z].st \in {"made", "answered"}
            PROVE  exch'[z].to # exch[y].to
        <5>1. Coming(z) /\ exch'[z].to = exch[z].to
          BY <1>4, <1>9, <4>2
        <5>2. exch[z].to # exch[y].to
          BY <2>1, <2>2, <5>1
        <5> QED BY <5>1, <5>2
      <4> QED BY <4>1, <4>2
    <3>5. exch[y].st = "answered" => row'[exch[y].to] # "pending"
      BY <1>3, <2>1, <2>2
    <3> QED BY <3>1, <3>2, <3>3, <3>4, <3>5
  <2>3. /\ n # None /\ ~Holds(mem', store', exch', n) /\ old'[n] = [pair |-> k, tab |-> t]
        /\ \A j \in Token' : old'[j].pair # n
        /\ \A y \in Exchanges \ {x} : exch'[y].to # n
    <3>1. n # None /\ old'[n] = [pair |-> k, tab |-> t]
      BY <1>3
    <3>2. ~Holds(mem', store', exch', n)
      BY <1>7, <1>8
    <3>3. k # n
      BY <1>2, <1>3
    <3>4. \A j \in Token' : old'[j].pair # n
      BY <1>3, <1>8, <3>3
    <3>5. \A y \in Exchanges \ {x} : exch'[y].to # n
      BY <1>4, <1>8
    <3> QED BY <3>1, <3>2, <3>4, <3>5
  <2> SUFFICES ASSUME NEW y \in Exchanges, exch'[y].st \in {"made", "answered"}
               PROVE  /\ exch'[y].to # None /\ ~Holds(mem', store', exch', exch'[y].to)
                      /\ old'[exch'[y].to] = [pair |-> exch'[y].from, tab |-> exch'[y].tab]
                      /\ \A j \in Token' : old'[j].pair # exch'[y].to
                      /\ \A z \in Exchanges \ {y} : exch'[z].st \in {"made", "answered"} => exch'[z].to # exch'[y].to
                      /\ exch'[y].st = "answered" => row'[exch'[y].to] # "pending"
    BY DEF Fresh, Held, Coming
  <2>4. CASE y = x
    BY <1>4, <2>3, <2>4
  <2>5. CASE y # x
    BY <1>4, <1>9, <2>2, <2>5
  <2> QED BY <2>4, <2>5
<1>14. Spent'
  <2>1. \A j \in Token : old[j].pair # None => old[j].pair \in Token
    BY RowTypes DEF Inv, Pair
  <2>2. ASSUME NEW j \in Token', old'[j].pair # None
        PROVE  old'[j].tab \in Tabs /\ row'[old'[j].pair] = "revoked"
    <3>1. CASE j = n
      BY <1>2, <1>3, <3>1
    <3>2. CASE j # n
      <4>1. j \in Token /\ old'[j] = old[j]
        BY <1>3, <3>2
      <4> QED BY <1>3, <2>1, <2>2, <4>1 DEF Inv, Spent
    <3> QED BY <3>1, <3>2
  <2>3. ASSUME NEW y \in Exchanges, exch'[y].st = "revoked"
        PROVE  row'[exch'[y].from] = "revoked"
    <3>1. exch'[y] = exch[y] /\ exch[y].from \in Token
      BY <1>4, <2>3, InFlight
    <3> QED BY <1>3, <2>3, <3>1 DEF Inv, Spent
  <2> QED BY <2>2, <2>3 DEF Spent
<1>15. Why'
  <2> SUFFICES ASSUME NEW j \in Token, row[j] = "revoked", j \notin ended \cup broken
               PROVE  \/ \E i \in Token' : old'[i].pair = j
                      \/ \E y \in Exchanges : exch'[y].st = "revoked" /\ exch'[y].from = j
    BY <1>1, <1>3 DEF Why
  <2>1. \/ \E i \in Token : old[i].pair = j
        \/ \E y \in Exchanges : exch[y].st = "revoked" /\ exch[y].from = j
    BY DEF Inv, Why
  <2>2. CASE \E i \in Token : old[i].pair = j
    BY <1>3, <2>2
  <2>3. CASE k = j
    BY <1>3, <2>3
  <2>4. ASSUME NEW y \in Exchanges \ {x}, exch[y].st = "revoked", exch[y].from = j
        PROVE  exch'[y].st = "revoked" /\ exch'[y].from = j
    BY <1>4, <2>4
  <2> QED BY <2>1, <2>2, <2>3, <2>4 DEF k
<1>16. Moved'
  <2>1. \A v, j : Rid(v, j) => RidOf(mem', store', exch', v, j)
    <3>1. \A c \in Calls : exch'[c].st # "off" => exch[c].st # "off" /\ exch'[c].from = exch[c].from
      BY <1>1, <1>4, SlotsAre DEF k
    <3> QED BY <1>1, <3>1 DEF Rid, RidOf, client
  <2> SUFFICES ASSUME NEW j \in Token' \ unseen', old'[j].pair # None
               PROVE  \/ RidOf(mem', store', exch', old'[j].tab, old'[j].pair)
                      \/ \E d \in Calls : exch'[d].st \in {"made", "answered"} /\ exch'[d].to = j /\ TabOf[d] = old'[j].tab
    BY DEF Moved, Rid, Coming
  <2>2. CASE j = n
    <3>1. x \in Calls /\ TabOf[x] = t
      BY <1>1, <1>5, <2>2, SlotsAre DEF Inv, Single, t
    <3> QED BY <1>3, <1>4, <2>2, <3>1
  <2>3. CASE j # n
    <3>1. j \in Token \ unseen /\ old'[j] = old[j]
      BY <1>3, <1>5, <2>3
    <3>2. CASE Rid(old[j].tab, old[j].pair)
      BY <2>1, <3>1, <3>2
    <3>3. ASSUME NEW d \in Calls, Coming(d), exch[d].to = j, TabOf[d] = old[j].tab
          PROVE  exch'[d].st \in {"made", "answered"} /\ exch'[d].to = j
      <4>1. d # x
        BY <1>10, <3>3
      <4> QED BY <1>4, <1>9, <3>3, <4>1, SlotsAre
    <3> QED BY <3>1, <3>2, <3>3 DEF Inv, Moved
  <2> QED BY <2>2, <2>3
<1>17. Burns'
  <2>1. ASSUME NEW d \in Calls, exch'[d].st \in {"found", "revoked"},
               NEW j \in Token' \ unseen', old'[j].pair = exch'[d].from
        PROVE  old'[j].tab # TabOf[d]
    <3>1. d # x /\ exch'[d] = exch[d]
      BY <1>4, <2>1, SlotsAre
    <3>2. CASE j = n
      <4>1. x \in Calls /\ TabOf[x] = t
        BY <1>1, <1>5, <2>1, <3>2, SlotsAre DEF Inv, Single, t
      <4>2. TabOf[d] # TabOf[x]
        BY <1>1, <2>1, <3>1, <4>1 DEF Inv, Single
      <4> QED BY <1>3, <3>2, <4>1, <4>2
    <3>3. CASE j # n
      <4>1. j \in Token \ unseen /\ old'[j] = old[j]
        BY <1>3, <1>5, <3>3
      <4> QED BY <2>1, <3>1, <4>1 DEF Inv, Burns
    <3> QED BY <3>2, <3>3
  <2> QED BY <2>1 DEF Burns
<1>18. BurntOnce'
  <2>1. ASSUME NEW j \in Token \ unseen, n \notin unseen' PROVE old[j] # [pair |-> k, tab |-> t]
    <3>1. x \in Calls /\ TabOf[x] = t
      BY <1>1, <1>5, <2>1, SlotsAre DEF Inv, Single, t
    <3>2. old[j].pair = k => old[j].tab # t
      BY <1>1, <3>1 DEF Inv, Burns, k
    <3> QED BY <3>2
  <2>2. \A j \in Token : old'[j] = old[j] /\ (j \in unseen' <=> j \in unseen)
    BY <1>3, <1>5
  <2> SUFFICES ASSUME NEW i \in Token' \ unseen', NEW j \in Token' \ unseen', i # j, old'[i].pair # None
               PROVE  old'[i] # old'[j]
    BY DEF BurntOnce
  <2>3. CASE i \in Token /\ j \in Token
    BY <2>2, <2>3 DEF Inv, BurntOnce
  <2>4. CASE i = n /\ j \in Token
    BY <1>3, <2>1, <2>2, <2>4
  <2>5. CASE j = n /\ i \in Token
    BY <1>3, <2>1, <2>2, <2>5
  <2> QED BY <1>3, <2>3, <2>4, <2>5
<1>19. Refusals'
  <2> SUFFICES ASSUME NEW d \in Calls, exch'[d].st = "refused", exch'[d].from \notin ended \cup broken
               PROVE  \/ \E j \in Token' : old'[j].pair = exch'[d].from /\ (old'[j].tab # TabOf[d] \/ j \in unseen')
                      \/ \E y \in Exchanges : /\ exch'[y].st = "revoked" /\ exch'[y].from = exch'[d].from
                                              /\ y \in Strays \/ exch'[y].tab # TabOf[d]
    BY <1>1 DEF Refusals
  <2>1. d # x /\ exch'[d] = exch[d] /\ exch[d].st = "refused"
    BY <1>4, SlotsAre
  <2>2. \/ \E j \in Token : old[j].pair = exch[d].from /\ (old[j].tab # TabOf[d] \/ j \in unseen)
        \/ \E y \in Exchanges : /\ exch[y].st = "revoked" /\ exch[y].from = exch[d].from
                                /\ y \in Strays \/ exch[y].tab # TabOf[d]
    BY <2>1 DEF Inv, Refusals
  <2>3. CASE \E j \in Token : old[j].pair = exch[d].from /\ (old[j].tab # TabOf[d] \/ j \in unseen)
    BY <1>3, <1>5, <2>1, <2>3
  <2>4. ASSUME NEW y \in Exchanges \ {x}, exch[y].st = "revoked", exch[y].from = exch[d].from,
               y \in Strays \/ exch[y].tab # TabOf[d]
        PROVE  /\ exch'[y].st = "revoked" /\ exch'[y].from = exch'[d].from
               /\ y \in Strays \/ exch'[y].tab # TabOf[d]
    BY <1>4, <2>1, <2>4
  <2>5. CASE k = exch[d].from /\ (x \in Strays \/ t # TabOf[d])
    BY <1>3, <1>5, <2>1, <2>5
  <2> QED BY <2>2, <2>3, <2>4, <2>5 DEF k, t
<1> QED BY <1>6, <1>11, <1>12, <1>13, <1>14, <1>15, <1>16, <1>17, <1>18, <1>19 DEF Inv


-----------------------------------------------------------------------------
(* The client. *)

\* The first call of a tab that is denied begins an exchange of the pair the tab holds.
LEMMA DeniedStep ==
  ASSUME Inv, NEW c \in Calls, Denied(c)
  PROVE  Inv'
<1> DEFINE t == TabOf[c]
           new == [st |-> "sent", tab |-> t, from |-> mem[t], to |-> None]
<1>1. /\ call[c].st = "sent" /\ mem[t] # None
      /\ call' = [call EXCEPT ![c] = [st |-> "waits", with |-> None]]
      /\ UNCHANGED <<row, old, ended, seat, expired, mem, store, unseen, broken, leaving, incidents>>
  BY DEF Denied, server, history
<1>2. t \in Tabs /\ mem[t] \in Token /\ Token' = Token /\ Pair' = Pair
  BY <1>1, SlotsAre DEF Inv, TypeOK, Pair, Token
<1>3. call' \in [Calls -> CallOf(Pair)]
  BY <1>1, TypesAre DEF Inv, CallOf, Pair
<1>4. /\ \A d \in Calls : call[d].st = "waits" => call'[d].st = "waits"
      /\ call'[c].st = "waits"
  BY <1>1, TypesAre DEF Inv, CallOf
<1>5. CASE UNCHANGED <<lead, exch>>
  <2>1. TypeOK'
    BY <1>1, <1>2, <1>3, <1>5 DEF Inv, TypeOK, CallOf
  <2> QED BY <1>1, <1>4, <1>5, <2>1, Quiet
<1>6. CASE lead[t] = NoCall /\ lead' = [lead EXCEPT ![t] = c] /\ exch' = [exch EXCEPT ![c] = new]
  <2>1. exch[c].st = "off"
    BY <1>6, SlotsAre DEF Inv, Single
  <2>2. new \in ExchOf(Pair) /\ new.st = "sent" /\ new.tab = t /\ new.from = mem[t]
    BY <1>2 DEF ExchOf, ExchSt, Pair
  <2> HIDE DEF new
  <2>3. /\ exch' \in [Exchanges -> ExchOf(Pair)] /\ exch'[c] = new
        /\ \A x \in Exchanges \ {c} : exch'[x] = exch[x]
    <3>1. exch \in [Exchanges -> ExchOf(Pair)] /\ c \in Exchanges
      BY TypesAre, SlotsAre DEF Inv
    <3> HIDE DEF ExchOf
    <3> QED BY <1>6, <2>2, <3>1
  <2>4. /\ lead' \in [Tabs -> Calls \cup {NoCall}] /\ lead'[t] = c
        /\ \A v \in Tabs \ {t} : lead'[v] = lead[v]
    BY <1>2, <1>6 DEF Inv, TypeOK
  <2> HIDE DEF t
  <2>5. TypeOK'
    BY <1>1, <1>2, <1>3, <2>3, <2>4 DEF Inv, TypeOK, CallOf, ExchOf, ExchSt
  <2>6. Single'
    <3>1. \A x \in Exchanges : exch'[x].st # "off" => exch'[x].tab \in Tabs /\ exch'[x].from # None
      BY <1>1, <1>2, <2>2, <2>3 DEF Inv, Single
    <3>2. ASSUME NEW d \in Calls \ {c}, exch'[d].st # "off"
          PROVE  lead'[TabOf[d]] = d /\ call'[d].st = "waits" /\ exch'[d].tab = TabOf[d]
      <4>1. exch'[d] = exch[d] /\ exch[d].st # "off"
        BY <2>3, <3>2, SlotsAre
      <4>2. lead[TabOf[d]] = d /\ call[d].st = "waits" /\ exch[d].tab = TabOf[d]
        BY <4>1 DEF Inv, Single
      <4>3. TabOf[d] # t /\ TabOf[d] \in Tabs
        BY <1>6, <4>2, SlotsAre DEF t
      <4> QED BY <1>4, <2>4, <4>1, <4>2, <4>3
    <3>3. lead'[TabOf[c]] = c /\ call'[c].st = "waits" /\ exch'[c].tab = TabOf[c]
      BY <1>4, <2>2, <2>3, <2>4 DEF t
    <3>4. \A v \in Tabs : lead'[v] # NoCall => TabOf[lead'[v]] = v
      BY <2>4 DEF Inv, Single, t
    <3> QED BY <3>1, <3>2, <3>3, <3>4 DEF Single
  <2>7. \A k : Holds(mem', store', exch', k) => Held(k)
    BY <1>1, <1>2, <2>2, <2>3 DEF Held, Holds
  <2>8. \A x \in Exchanges : exch'[x].st \notin {"off", "sent"} => x # c /\ exch'[x] = exch[x]
    BY <2>2, <2>3
  <2>9. \A x \in Exchanges : exch[x].st # "off" => x # c /\ exch'[x] = exch[x]
    BY <2>1, <2>3
  <2>10. \A v, k : k # None /\ Rid(v, k) => RidOf(mem', store', exch', v, k)
    <3> SUFFICES ASSUME NEW v, NEW k, Rid(v, k),
                        NEW d \in Calls, TabOf[d] = v, exch'[d].st # "off"
                 PROVE  exch'[d].from # k
      BY <1>1 DEF Rid, RidOf
    <3>1. CASE d = c
      BY <2>2, <2>3, <3>1 DEF Rid, RidOf, t
    <3>2. CASE d # c
      BY <2>3, <3>2, SlotsAre DEF Rid, RidOf
    <3> QED BY <3>1, <3>2
  <2>11. Ready'
    BY <1>1, <1>2, <2>7 DEF Inv, Ready, Held
  <2>12. \A x \in Exchanges : exch'[x].st \in {"made", "answered"} <=> Coming(x)
    BY <2>8, <2>9 DEF Coming
  <2>13. Fresh'
    <3> SUFFICES ASSUME NEW x \in Exchanges, Coming(x)
                 PROVE  /\ exch'[x].to # None /\ ~Holds(mem', store', exch', exch'[x].to)
                        /\ old[exch'[x].to] = [pair |-> exch'[x].from, tab |-> exch'[x].tab]
                        /\ \A j \in Token : old[j].pair # exch'[x].to
                        /\ \A y \in Exchanges \ {x} : Coming(y) => exch'[y].to # exch'[x].to
                        /\ exch'[x].st = "answered" => row[exch'[x].to] # "pending"
      BY <1>1, <1>2, <2>12 DEF Fresh, Held, Coming
    <3>1. \A y \in Exchanges : Coming(y) => exch'[y] = exch[y]
      BY <2>9 DEF Coming
    <3> QED BY <2>7, <3>1 DEF Inv, Fresh
  <2>14. Moved'
    <3> SUFFICES ASSUME NEW j \in Token \ unseen, old[j].pair # None
                 PROVE  \/ RidOf(mem', store', exch', old[j].tab, old[j].pair)
                        \/ \E d \in Calls : Coming(d) /\ exch'[d].to = j /\ TabOf[d] = old[j].tab
      BY <1>1, <1>2, <2>12, SlotsAre DEF Moved, Rid, Coming
    <3>1. \A d \in Calls : Coming(d) => exch'[d] = exch[d]
      BY <2>9, SlotsAre DEF Coming
    <3> QED BY <2>10, <3>1 DEF Inv, Moved
  <2>15. Spent'
    BY <1>1, <1>2, <2>8 DEF Inv, Spent
  <2>16. Why'
    BY <1>1, <1>2, <2>9 DEF Inv, Why
  <2>17. Burns' /\ BurntOnce'
    BY <1>1, <1>2, <2>8, SlotsAre DEF Inv, Burns, BurntOnce
  <2>18. Refusals'
    <3>1. \A d \in Calls : exch'[d].st = "refused" => exch'[d] = exch[d]
      BY <2>8, SlotsAre
    <3>2. \A x \in Exchanges : exch[x].st = "revoked" => exch'[x] = exch[x]
      BY <2>9
    <3> QED BY <1>1, <1>2, <3>1, <3>2 DEF Inv, Refusals
  <2> QED BY <2>5, <2>6, <2>11, <2>13, <2>14, <2>15, <2>16, <2>17, <2>18 DEF Inv
<1> QED BY <1>5, <1>6 DEF Denied, Leads

\* A tab's session changes to one it had, or to none, while the exchanges go on.
LEMMA SessionKeeps ==
  ASSUME Inv, TypeOK', Single', UNCHANGED <<row, old, ended, exch, unseen, broken>>,
         \A k : k # None /\ Holds(mem', store', exch, k) => Held(k),
         \A v \in Tabs : \A k : k # None /\ Rid(v, k) => RidOf(mem', store', exch, v, k)
  PROVE  Inv'
<1>1. Token' = Token /\ \A x \in Exchanges : Coming(x)' = Coming(x)
  BY DEF Token, Coming
<1>2. Ready'
  BY <1>1, RowTypes DEF Inv, Ready, Held, None
<1>3. Fresh'
  BY <1>1 DEF Inv, Fresh, Held
<1>4. Moved'
  <2>1. \A j \in Token : old[j].pair # None => old[j].tab \in Tabs
    BY DEF Inv, Spent
  <2> QED BY <1>1, <2>1, SlotsAre DEF Inv, Moved, Rid
<1>5. Spent' /\ Why' /\ Burns' /\ BurntOnce' /\ Refusals'
  BY <1>1 DEF Inv, Spent, Why, Burns, BurntOnce, Refusals
<1> QED BY <1>2, <1>3, <1>4, <1>5 DEF Inv

LEMMA LoggedOutStep ==
  ASSUME Inv, NEW t \in Tabs, LoggedOut(t)
  PROVE  Inv'
<1>1. /\ mem' = [mem EXCEPT ![t] = None] /\ store' = [store EXCEPT ![BrowserOf[t]] = None]
      /\ UNCHANGED <<row, old, ended, seat, expired, call, lead, exch, unseen, broken, incidents>>
      /\ leaving' = leaving \ {t} /\ BrowserOf[t] \in Browsers
  BY SlotsAre DEF LoggedOut, SetSession, server, history
<1>2. Token' = Token /\ Pair' = Pair /\ None \in Pair
  BY <1>1 DEF Token, Pair
<1>3. mem' \in [Tabs -> Pair] /\ store' \in [Browsers -> Pair]
  BY <1>1, <1>2 DEF Inv, TypeOK
<1>4. TypeOK'
  BY <1>1, <1>2, <1>3 DEF Inv, TypeOK
<1>5. Single'
  BY <1>1 DEF Inv, Single
<1>6. \A k : k # None /\ Holds(mem', store', exch, k) => Held(k)
  BY <1>1 DEF Held, Holds, Inv, TypeOK
<1>7. \A v \in Tabs : \A k : k # None /\ Rid(v, k) => RidOf(mem', store', exch, v, k)
  BY <1>1, SlotsAre DEF Rid, RidOf, Inv, TypeOK
<1> QED BY <1>1, <1>4, <1>5, <1>6, <1>7, SessionKeeps

\* Nobody waits for an exchange any more; the server may be going on with it.
LEMMA AbandonIs ==
  ASSUME Inv, NEW c \in Calls, Abandon(c), exch[c].st # "off"
  PROVE  /\ exch' \in [Exchanges -> ExchOf(Pair)] /\ exch'[c].st = "off"
         /\ \A d \in Calls \ {c} : exch'[d] = exch[d]
         /\ \A s \in Strays : exch'[s] = exch[s] \/ (exch[s].st = "off" /\ exch'[s] = exch[c])
         /\ \A r, s \in Strays : r # s => exch'[r] = exch[r] \/ exch'[s] = exch[s]
         /\ exch[c].st = "revoked" => \E s \in Strays : exch'[s] = exch[c]
         /\ unseen \subseteq unseen' /\ unseen' \subseteq Token
         /\ Coming(c) => exch[c].to \in unseen'
         /\ UNCHANGED broken /\ incidents' \in Nat
<1>1. /\ exch[c].to \in Pair /\ exch[c] \in ExchOf(Pair) /\ c \in Exchanges
      /\ (Coming(c) => exch[c].to # None) /\ Off \in ExchOf(Pair) /\ Off.st = "off"
  BY InFlight, SlotsAre DEF Inv, Fresh, Off, ExchOf, ExchSt, Pair
<1>2. /\ unseen' = unseen \cup ({exch[c].to} \ {None}) /\ UNCHANGED broken /\ incidents' \in Nat
      /\ unseen \subseteq Token
  BY DEF Abandon, Happens, Inv, TypeOK
<1>3. unseen \subseteq unseen' /\ unseen' \subseteq Token /\ (Coming(c) => exch[c].to \in unseen')
  BY <1>1, <1>2 DEF Pair
<1>4. exch \in [Exchanges -> ExchOf(Pair)]
  BY TypesAre DEF Inv
<1>5. CASE exch[c].st # "revoked" /\ exch' = [exch EXCEPT ![c] = Off]
  <2>1. exch' \in [Exchanges -> ExchOf(Pair)] /\ exch'[c] = Off /\ \A x \in Exchanges \ {c} : exch'[x] = exch[x]
    <3> HIDE DEF ExchOf, Off
    <3> QED BY <1>1, <1>4, <1>5
  <2> QED BY <1>1, <1>2, <1>3, <1>5, <2>1, SlotsAre
<1>6. ASSUME NEW s \in Strays, exch[s] = Off, exch' = [exch EXCEPT ![s] = exch[c], ![c] = Off]
      PROVE  /\ exch' \in [Exchanges -> ExchOf(Pair)] /\ exch'[c] = Off /\ exch'[s] = exch[c]
             /\ exch[s].st = "off" /\ \A x \in Exchanges \ {c, s} : exch'[x] = exch[x]
  <2>1. s \in Exchanges /\ s # c
    BY SlotsAre
  <2> HIDE DEF ExchOf, Off
  <2> QED BY <1>1, <1>4, <1>6, <2>1
<1>7. CASE \E s \in Strays : exch[s] = Off /\ exch' = [exch EXCEPT ![s] = exch[c], ![c] = Off]
  <2>1. PICK s \in Strays : exch[s] = Off /\ exch' = [exch EXCEPT ![s] = exch[c], ![c] = Off]
    BY <1>7
  <2>2. /\ exch' \in [Exchanges -> ExchOf(Pair)] /\ exch'[c] = Off /\ exch'[s] = exch[c]
        /\ exch[s].st = "off" /\ \A x \in Exchanges \ {c, s} : exch'[x] = exch[x]
    BY <1>6, <2>1
  <2> QED BY <1>1, <1>2, <1>3, <2>2, SlotsAre
<1> QED BY <1>5, <1>7 DEF Abandon

\* An exchange ends for its page: the pair it made is taken, if it takes one, and none
\* else is new to the tab.
LEMMA Leaves ==
  ASSUME Inv, TypeOK', Single', NEW c \in Calls, NEW p \in Pair, exch[c].st # "off",
         UNCHANGED <<row, old, ended, broken>>, unseen \subseteq unseen', exch'[c].st = "off",
         \A d \in Calls \ {c} : exch'[d] = exch[d],
         \A s \in Strays : exch'[s] = exch[s] \/ (p = None /\ exch[s].st = "off" /\ exch'[s] = exch[c]),
         \A r, s \in Strays : r # s => exch'[r] = exch[r] \/ exch'[s] = exch[s],
         exch[c].st = "revoked" => \E s \in Strays : exch'[s] = exch[c],
         \A k : k # None /\ Holds(mem', store', exch', k) => Held(k) \/ k = p,
         \A v \in Tabs : \A k : k # None /\ k # p /\ Rid(v, k) => RidOf(mem', store', exch', v, k),
         p # None => p = exch[c].to /\ exch[c].st = "answered",
         Coming(c) => exch[c].to \in unseen' \/ RidOf(mem', store', exch', TabOf[c], exch[c].from)
  PROVE  Inv'
<1>1. Token' = Token
  BY DEF Token
\* What is in flight afterwards was before: where it was, or where c's was.
<1>2. \A x \in Exchanges : exch'[x].st # "off" =>
        \/ x # c /\ exch'[x] = exch[x]
        \/ x \in Strays /\ p = None /\ exch[x].st = "off" /\ exch'[x] = exch[c]
  BY SlotsAre
\* And what was in flight is, but for c's.
<1>3. \A x \in Exchanges \ {c} : exch[x].st # "off" => exch'[x] = exch[x]
  BY SlotsAre
<1>4. p # None => p \in Token /\ row[p] # "pending" /\ ~Held(p) /\ \A j \in Token : old[j].pair # p
  <2>1. p # None => p = exch[c].to /\ exch[c].st = "answered" /\ Coming(c) /\ c \in Exchanges
    BY SlotsAre DEF Coming
  <2>2. Coming(c) /\ c \in Exchanges =>
          /\ exch[c].to \in Token /\ ~Held(exch[c].to) /\ \A j \in Token : old[j].pair # exch[c].to
          /\ exch[c].st = "answered" => row[exch[c].to] # "pending"
    BY InFlight DEF Inv, Fresh
  <2> QED BY <2>1, <2>2
<1>5. Ready'
  <2>1. \A k \in Token : k # None
    BY RowTypes DEF Inv, None
  <2> QED BY <1>1, <1>4, <2>1 DEF Inv, Ready, Held
<1>6. Fresh'
  <2> SUFFICES ASSUME NEW x \in Exchanges, exch'[x].st \in {"made", "answered"}
               PROVE  /\ exch'[x].to # None /\ ~Holds(mem', store', exch', exch'[x].to)
                      /\ old[exch'[x].to] = [pair |-> exch'[x].from, tab |-> exch'[x].tab]
                      /\ \A j \in Token : old[j].pair # exch'[x].to
                      /\ \A z \in Exchanges \ {x} : exch'[z].st \in {"made", "answered"} => exch'[z].to # exch'[x].to
                      /\ exch'[x].st = "answered" => row[exch'[x].to] # "pending"
    BY <1>1 DEF Fresh, Held, Coming
  <2>1. CASE x # c /\ exch'[x] = exch[x]
    <3>1. /\ Coming(x) /\ exch[x].to # None /\ ~Held(exch[x].to)
          /\ old[exch[x].to] = [pair |-> exch[x].from, tab |-> exch[x].tab]
          /\ \A j \in Token : old[j].pair # exch[x].to
          /\ \A z \in Exchanges \ {x} : Coming(z) => exch[z].to # exch[x].to
          /\ exch[x].st = "answered" => row[exch[x].to] # "pending"
      BY <2>1 DEF Inv, Fresh, Coming
    <3>2. exch[x].to # p
      BY <2>1, <3>1, SlotsAre DEF Coming
    <3>3. ASSUME NEW z \in Exchanges \ {x}, exch'[z].st \in {"made", "answered"} PROVE exch'[z].to # exch[x].to
      <4>1. CASE exch'[z] = exch[z]
        BY <3>1, <3>3, <4>1 DEF Coming
      <4>2. CASE exch'[z] = exch[c]
        <5>1. c \in Exchanges \ {x} /\ Coming(c)
          BY <2>1, <3>3, <4>2, SlotsAre DEF Coming
        <5> QED BY <3>1, <4>2, <5>1
      <4> QED BY <1>2, <3>3, <4>1, <4>2
    <3> QED BY <2>1, <3>1, <3>2, <3>3
  <2>2. CASE x \in Strays /\ p = None /\ exch[x].st = "off" /\ exch'[x] = exch[c]
    <3>1. /\ Coming(c) /\ exch[c].to # None /\ ~Held(exch[c].to)
          /\ old[exch[c].to] = [pair |-> exch[c].from, tab |-> exch[c].tab]
          /\ \A j \in Token : old[j].pair # exch[c].to
          /\ \A z \in Exchanges \ {c} : Coming(z) => exch[z].to # exch[c].to
          /\ exch[c].st = "answered" => row[exch[c].to] # "pending"
      BY <2>2, SlotsAre DEF Inv, Fresh, Coming
    <3>2. ASSUME NEW z \in Exchanges \ {x}, exch'[z].st \in {"made", "answered"} PROVE exch'[z].to # exch[c].to
      <4>1. z # c
        BY <3>2
      <4>2. exch'[x] # exch[x]
        BY <2>2
      <4>3. exch'[z] = exch[z]
        BY <4>1, <4>2, SlotsAre, <2>2
      <4> QED BY <3>1, <3>2, <4>1, <4>3 DEF Coming
    <3> QED BY <2>2, <3>1, <3>2
  <2> QED BY <1>2, <2>1, <2>2
<1>7. Spent'
  <2>1. \A x \in Exchanges : exch'[x].st = "revoked" => \E y \in Exchanges : exch'[x] = exch[y]
    BY <1>2, SlotsAre
  <2> QED BY <1>1, <2>1 DEF Inv, Spent
<1>8. \A x \in Exchanges : exch[x].st = "revoked" =>
        \E y \in Exchanges : exch'[y] = exch[x] /\ (y = x \/ y \in Strays)
  BY <1>3, SlotsAre
<1>9. Why'
  <2> SUFFICES ASSUME NEW k \in Token, row[k] = "revoked", k \notin ended \cup broken,
                      ~\E j \in Token : old[j].pair = k
               PROVE  \E x \in Exchanges : exch'[x].st = "revoked" /\ exch'[x].from = k
    BY <1>1 DEF Why
  <2>1. PICK x \in Exchanges : exch[x].st = "revoked" /\ exch[x].from = k
    BY DEF Inv, Why
  <2> QED BY <1>8, <2>1
<1>10. Moved'
  <2> SUFFICES ASSUME NEW j \in Token \ unseen', old[j].pair # None
               PROVE  \/ RidOf(mem', store', exch', old[j].tab, old[j].pair)
                      \/ \E d \in Calls : exch'[d].st \in {"made", "answered"} /\ exch'[d].to = j /\ TabOf[d] = old[j].tab
    BY <1>1 DEF Moved, Rid, Coming
  <2>1. old[j].tab \in Tabs /\ old[j].pair # p /\ j \in Token \ unseen
    BY <1>4 DEF Inv, Spent
  <2>2. CASE Rid(old[j].tab, old[j].pair)
    BY <2>1, <2>2
  <2>3. ASSUME NEW d \in Calls \ {c}, Coming(d), exch[d].to = j, TabOf[d] = old[j].tab
        PROVE  exch'[d].st \in {"made", "answered"} /\ exch'[d].to = j
    BY <2>3 DEF Coming
  <2>4. CASE Coming(c) /\ exch[c].to = j /\ TabOf[c] = old[j].tab
    <3>1. old[j].pair = exch[c].from
      <4>1. c \in Exchanges /\ Fresh
        BY SlotsAre DEF Inv
      <4>2. old[exch[c].to] = [pair |-> exch[c].from, tab |-> exch[c].tab]
        BY <2>4, <4>1 DEF Fresh
      <4> QED BY <2>4, <4>2
    <3> QED BY <2>4, <3>1
  <2> QED BY <2>1, <2>2, <2>3, <2>4 DEF Inv, Moved
<1>11. \A d \in Calls : exch'[d].st # "off" => exch'[d] = exch[d]
  OBVIOUS
<1>12. Burns' /\ BurntOnce'
  BY <1>1, <1>11 DEF Inv, Burns, BurntOnce
<1>13. Refusals'
  <2> SUFFICES ASSUME NEW d \in Calls, exch[d].st = "refused", exch[d].from \notin ended \cup broken,
                      ~\E j \in Token : old[j].pair = exch[d].from /\ (old[j].tab # TabOf[d] \/ j \in unseen')
               PROVE  \E x \in Exchanges : /\ exch'[x].st = "revoked" /\ exch'[x].from = exch[d].from
                                           /\ x \in Strays \/ exch'[x].tab # TabOf[d]
    BY <1>1, <1>11 DEF Refusals
  <2>1. PICK x \in Exchanges : /\ exch[x].st = "revoked" /\ exch[x].from = exch[d].from
                               /\ x \in Strays \/ exch[x].tab # TabOf[d]
    BY DEF Inv, Refusals
  <2>2. PICK y \in Exchanges : exch'[y] = exch[x] /\ (y = x \/ y \in Strays)
    BY <1>8, <2>1
  <2> QED BY <2>1, <2>2
<1> QED BY <1>5, <1>6, <1>7, <1>9, <1>10, <1>12, <1>13 DEF Inv

\* Only c's tab and the calls that waited for its exchange are told.
LEMMA SingleWithout ==
  ASSUME Inv, NEW c \in Calls, exch[c].st # "off", exch'[c].st = "off",
         \A d \in Calls \ {c} : exch'[d] = exch[d],
         \A s \in Strays : exch'[s] = exch[s] \/ exch'[s] = exch[c],
         lead' = [lead EXCEPT ![TabOf[c]] = NoCall],
         \A d \in Calls : TabOf[d] # TabOf[c] => call'[d] = call[d]
  PROVE  Single'
<1>1. \A x \in Exchanges : exch'[x].st # "off" => \E y \in Exchanges : exch'[x] = exch[y]
  BY SlotsAre
<1>2. \A x \in Exchanges : exch'[x].st # "off" => exch'[x].tab \in Tabs /\ exch'[x].from # None
  BY <1>1 DEF Inv, Single
<1>3. lead[TabOf[c]] = c
  BY DEF Inv, Single
<1>4. ASSUME NEW d \in Calls, exch'[d].st # "off"
      PROVE  lead'[TabOf[d]] = d /\ call'[d].st = "waits" /\ exch'[d].tab = TabOf[d]
  <2>1. d # c /\ exch'[d] = exch[d]
    BY <1>4
  <2>2. lead[TabOf[d]] = d /\ call[d].st = "waits" /\ exch[d].tab = TabOf[d]
    BY <1>4, <2>1 DEF Inv, Single
  <2>3. TabOf[d] # TabOf[c] /\ TabOf[d] \in Tabs
    BY <1>3, <2>1, <2>2, SlotsAre
  <2>4. lead \in [Tabs -> Calls \cup {NoCall}]
    BY DEF Inv, TypeOK
  <2> QED BY <2>1, <2>2, <2>3, <2>4
<1>5. \A v \in Tabs : lead'[v] # NoCall => TabOf[lead'[v]] = v
  BY DEF Inv, Single, TypeOK
<1> QED BY <1>2, <1>4, <1>5 DEF Single

LEMMA LoadStep ==
  ASSUME Inv, NEW t \in Tabs, Load(t)
  PROVE  Inv'
<1> DEFINE b == BrowserOf[t]
           c == lead[t]
<1>1. /\ mem' = [mem EXCEPT ![t] = store[b]] /\ lead' = [lead EXCEPT ![t] = NoCall]
      /\ UNCHANGED <<row, old, ended, seat, expired, store>>
      /\ leaving' = leaving \ {t} /\ b \in Browsers
      /\ \A d \in Calls : TabOf[d] # t => call'[d] = call[d]
  BY SlotsAre, TypesAre DEF Load, server, Inv, CallOf
<1>2. Token' = Token /\ Pair' = Pair /\ None \in Pair
  BY <1>1 DEF Token, Pair
<1>3. mem' \in [Tabs -> Pair] /\ lead' \in [Tabs -> Calls \cup {NoCall}]
  BY <1>1 DEF Inv, TypeOK
<1>4. call' \in [Calls -> CallOf(Pair)]
  <2>1. Done \in CallOf(Pair)
    BY <1>2 DEF Done, CallOf
  <2>2. call \in [Calls -> CallOf(Pair)]
    BY TypesAre DEF Inv
  <2> HIDE DEF CallOf, Done
  <2> QED BY <2>1, <2>2 DEF Load, Done
<1>5. \A v \in Tabs : mem'[v] = mem[v] \/ (v = t /\ mem'[v] = store[b])
  BY <1>1 DEF Inv, TypeOK
<1>6. CASE lead[t] = NoCall /\ UNCHANGED <<exch, unseen, broken, incidents>>
  <2>1. TypeOK'
    BY <1>1, <1>2, <1>3, <1>4, <1>6 DEF Inv, TypeOK, CallOf
  <2>2. Single'
    <3>1. ASSUME NEW d \in Calls, exch[d].st # "off" PROVE lead'[TabOf[d]] = lead[TabOf[d]] /\ call'[d] = call[d]
      <4>1. TabOf[d] # t /\ TabOf[d] \in Tabs
        BY <1>6, <3>1, SlotsAre DEF Inv, Single
      <4> QED BY <1>1, <4>1 DEF Inv, TypeOK
    <3>2. lead' = lead
      BY <1>1, <1>6 DEF Inv, TypeOK
    <3> QED BY <1>6, <3>1, <3>2 DEF Inv, Single
  <2>3. \A k : k # None /\ Holds(mem', store', exch, k) => Held(k)
    BY <1>1, <1>5 DEF Held, Holds
  <2>4. \A v \in Tabs : \A k : k # None /\ Rid(v, k) => RidOf(mem', store', exch, v, k)
    BY <1>1, <1>5 DEF Rid, RidOf
  <2> QED BY <1>1, <1>6, <2>1, <2>2, <2>3, <2>4, SessionKeeps
<1>7. CASE lead[t] # NoCall /\ Abandon(c)
  <2>1. c \in Calls
    BY <1>7 DEF Inv, TypeOK
  <2>2. exch[c].st # "off" /\ TabOf[c] = t
    <3>1. exch[c].st # "off"
      BY <1>7 DEF Abandon
    <3> QED BY <1>7, <3>1 DEF Inv, Single
  <2> HIDE DEF c
  <2>3. /\ exch' \in [Exchanges -> ExchOf(Pair)] /\ exch'[c].st = "off"
        /\ \A d \in Calls \ {c} : exch'[d] = exch[d]
        /\ \A s \in Strays : exch'[s] = exch[s] \/ (exch[s].st = "off" /\ exch'[s] = exch[c])
        /\ \A r, s \in Strays : r # s => exch'[r] = exch[r] \/ exch'[s] = exch[s]
        /\ exch[c].st = "revoked" => \E s \in Strays : exch'[s] = exch[c]
        /\ unseen \subseteq unseen' /\ unseen' \subseteq Token
        /\ Coming(c) => exch[c].to \in unseen'
        /\ UNCHANGED broken /\ incidents' \in Nat
    BY <1>7, <2>1, <2>2, AbandonIs
  <2>4. TypeOK'
    BY <1>1, <1>2, <1>3, <1>4, <2>3 DEF Inv, TypeOK, CallOf, ExchOf, ExchSt
  <2>5. Single'
    BY <1>1, <2>1, <2>2, <2>3, SingleWithout
  <2>6. \A k : Holds(mem', store', exch', k) => Held(k)
    BY <1>1, <1>5, <2>1, <2>2, <2>3, SlotsAre DEF Held, Holds
  <2>7. \A v \in Tabs : \A k : Rid(v, k) => RidOf(mem', store', exch', v, k)
    BY <1>1, <1>5, <2>1, <2>3 DEF Rid, RidOf
  <2> QED BY <1>1, <1>2, <2>1, <2>2, <2>3, <2>4, <2>5, <2>6, <2>7, Leaves
<1> QED BY <1>6, <1>7 DEF Load, history

\* A tab and its calls are told of an exchange: the session is the pair it made, or none.
LEMMA ToldIs ==
  ASSUME Inv, NEW c \in Calls, NEW ok \in BOOLEAN, NEW p \in Pair, exch[c].st # "off",
         p = (IF ok THEN exch[c].to ELSE None), Told(c, ok)
  PROVE  /\ mem' = [mem EXCEPT ![TabOf[c]] = p] /\ mem' \in [Tabs -> Pair]
         /\ store' = [store EXCEPT ![BrowserOf[TabOf[c]]] = p] /\ store' \in [Browsers -> Pair]
         /\ lead' = [lead EXCEPT ![TabOf[c]] = NoCall] /\ lead' \in [Tabs -> Calls \cup {NoCall}]
         /\ call' \in [Calls -> CallOf(Pair)]
         /\ \A d \in Calls : TabOf[d] # TabOf[c] => call'[d] = call[d]
<1>1. TabOf[c] \in Tabs /\ BrowserOf[TabOf[c]] \in Browsers
  BY SlotsAre
<1>2. /\ mem' = [mem EXCEPT ![TabOf[c]] = p] /\ store' = [store EXCEPT ![BrowserOf[TabOf[c]]] = p]
      /\ lead' = [lead EXCEPT ![TabOf[c]] = NoCall]
      /\ call' = [d \in Calls |-> IF d \notin Waiters(c) THEN call[d]
                                  ELSE IF ok THEN [st |-> "again", with |-> p] ELSE Done]
  BY DEF Told, SetSession
<1>3. mem' \in [Tabs -> Pair] /\ store' \in [Browsers -> Pair] /\ lead' \in [Tabs -> Calls \cup {NoCall}]
  BY <1>1, <1>2 DEF Inv, TypeOK
<1>4. call' \in [Calls -> CallOf(Pair)]
  <2>1. Done \in CallOf(Pair) /\ [st |-> "again", with |-> p] \in CallOf(Pair)
    BY DEF Done, CallOf, Pair
  <2>2. call \in [Calls -> CallOf(Pair)]
    BY TypesAre DEF Inv
  <2> HIDE DEF CallOf, Done
  <2> QED BY <1>2, <2>1, <2>2
<1>5. \A d \in Calls : TabOf[d] # TabOf[c] => call'[d] = call[d]
  <2>1. \A d \in Waiters(c) : TabOf[d] = TabOf[c]
    BY DEF Waiters
  <2> QED BY <1>2, <2>1
<1> QED BY <1>2, <1>3, <1>4, <1>5

LEMMA LoseStep ==
  ASSUME Inv, NEW c \in Calls, Lose(c)
  PROVE  Inv'
<1> DEFINE t == TabOf[c]
           b == BrowserOf[t]
<1>1. /\ exch[c].st # "off" /\ Told(c, FALSE) /\ Abandon(c)
      /\ UNCHANGED <<row, old, ended, seat, expired, leaving>>
  BY DEF Lose, server
<1>2. Token' = Token /\ Pair' = Pair /\ None \in Pair
  BY <1>1 DEF Token, Pair
<1>3. /\ mem' = [mem EXCEPT ![t] = None] /\ mem' \in [Tabs -> Pair]
      /\ store' = [store EXCEPT ![b] = None] /\ store' \in [Browsers -> Pair]
      /\ lead' = [lead EXCEPT ![t] = NoCall] /\ lead' \in [Tabs -> Calls \cup {NoCall}]
      /\ call' \in [Calls -> CallOf(Pair)]
      /\ \A d \in Calls : TabOf[d] # t => call'[d] = call[d]
  <2>1. FALSE \in BOOLEAN /\ None = (IF FALSE THEN exch[c].to ELSE None)
    OBVIOUS
  <2> QED BY <1>1, <1>2, <2>1, ToldIs
<1>4. /\ exch' \in [Exchanges -> ExchOf(Pair)] /\ exch'[c].st = "off"
      /\ \A d \in Calls \ {c} : exch'[d] = exch[d]
      /\ \A s \in Strays : exch'[s] = exch[s] \/ (exch[s].st = "off" /\ exch'[s] = exch[c])
      /\ \A r, s \in Strays : r # s => exch'[r] = exch[r] \/ exch'[s] = exch[s]
      /\ exch[c].st = "revoked" => \E s \in Strays : exch'[s] = exch[c]
      /\ unseen \subseteq unseen' /\ unseen' \subseteq Token
      /\ Coming(c) => exch[c].to \in unseen'
      /\ UNCHANGED broken /\ incidents' \in Nat
  BY <1>1, AbandonIs
<1>5. t \in Tabs /\ b \in Browsers
  BY SlotsAre
<1>6. /\ \A v \in Tabs : mem'[v] = mem[v] \/ mem'[v] = None
      /\ \A a \in Browsers : store'[a] = store[a] \/ store'[a] = None
  BY <1>3 DEF Inv, TypeOK
<1>7. TypeOK'
  BY <1>1, <1>2, <1>3, <1>4 DEF Inv, TypeOK, CallOf, ExchOf, ExchSt
<1>8. Single'
  BY <1>1, <1>3, <1>4, SingleWithout
<1>9. \A k : k # None /\ Holds(mem', store', exch', k) => Held(k)
  BY <1>1, <1>4, <1>6, SlotsAre DEF Held, Holds
<1>10. \A v \in Tabs : \A k : k # None /\ Rid(v, k) => RidOf(mem', store', exch', v, k)
  BY <1>4, <1>6, SlotsAre DEF Rid, RidOf
<1> QED BY <1>1, <1>2, <1>4, <1>7, <1>8, <1>9, <1>10, Leaves

\* The answer takes the pair away from everywhere the tab had it.
LEMMA SettleStep ==
  ASSUME Inv, NEW c \in Calls, Settle(c)
  PROVE  Inv'
<1> DEFINE t == TabOf[c]
           b == BrowserOf[t]
           ok == exch[c].st = "answered"
           p == IF ok THEN exch[c].to ELSE None
<1>1. /\ exch[c].st \in {"answered", "refused"} /\ Told(c, ok) /\ exch' = [exch EXCEPT ![c] = Off]
      /\ UNCHANGED <<row, old, ended, seat, expired, unseen, broken, leaving, incidents>>
  BY DEF Settle, server, history
<1>2. Token' = Token /\ Pair' = Pair /\ p \in Pair /\ ok \in BOOLEAN
  BY <1>1, InFlight, SlotsAre DEF Token, Pair
<1>3. p # None => p = exch[c].to /\ exch[c].st = "answered"
  OBVIOUS
<1>4. Coming(c) => /\ p = exch[c].to /\ p # None /\ exch[c].from # p
                   /\ \A s \in Strays : ~(exch[s].st # "off" /\ exch[s].from = p)
  <2>1. Coming(c) => p = exch[c].to
    BY <1>1 DEF Coming
  <2>2. Coming(c) => exch[c].to # None /\ ~Held(exch[c].to)
    BY SlotsAre DEF Inv, Fresh
  <2> QED BY <1>1, <2>1, <2>2, SlotsAre DEF Held, Holds
<1>5. /\ mem' = [mem EXCEPT ![t] = p] /\ mem' \in [Tabs -> Pair]
      /\ store' = [store EXCEPT ![b] = p] /\ store' \in [Browsers -> Pair]
      /\ lead' = [lead EXCEPT ![t] = NoCall] /\ lead' \in [Tabs -> Calls \cup {NoCall}]
      /\ call' \in [Calls -> CallOf(Pair)]
      /\ \A d \in Calls : TabOf[d] # t => call'[d] = call[d]
  BY <1>1, <1>2, ToldIs
<1> HIDE DEF p
<1>6. t \in Tabs /\ b \in Browsers
  BY SlotsAre
<1>7. /\ exch' \in [Exchanges -> ExchOf(Pair)] /\ exch'[c].st = "off"
      /\ \A x \in Exchanges \ {c} : exch'[x] = exch[x]
  <2>1. exch \in [Exchanges -> ExchOf(Pair)] /\ Off \in ExchOf(Pair) /\ Off.st = "off" /\ c \in Exchanges
    BY TypesAre, SlotsAre DEF Inv, Off, ExchOf, ExchSt, Pair
  <2> HIDE DEF ExchOf, Off
  <2> QED BY <1>1, <2>1
<1>8. /\ \A v \in Tabs : mem'[v] = mem[v] \/ mem'[v] = p
      /\ \A a \in Browsers : store'[a] = store[a] \/ store'[a] = p
      /\ mem'[t] = p /\ store'[b] = p
  BY <1>5, <1>6 DEF Inv, TypeOK
<1>9. TypeOK'
  BY <1>1, <1>2, <1>5, <1>7 DEF Inv, TypeOK, CallOf, ExchOf, ExchSt
<1>10. /\ \A d \in Calls \ {c} : exch'[d] = exch[d]
       /\ \A s \in Strays : exch'[s] = exch[s]
  BY <1>7, SlotsAre
<1>11. Single'
  BY <1>1, <1>5, <1>7, <1>10, SingleWithout
<1>12. \A k : k # None /\ Holds(mem', store', exch', k) => Held(k) \/ k = p
  BY <1>7, <1>8 DEF Held, Holds
<1>13. \A v \in Tabs : \A k : k # None /\ k # p /\ Rid(v, k) => RidOf(mem', store', exch', v, k)
  BY <1>7, <1>8, <1>10, SlotsAre DEF Rid, RidOf
<1>14. Coming(c) => RidOf(mem', store', exch', t, exch[c].from)
  <2>1. \A d \in Calls : TabOf[d] = t => exch'[d].st = "off"
    BY <1>1, <1>7, <1>10 DEF Inv, Single
  <2> QED BY <1>4, <1>8, <2>1 DEF RidOf
<1>15. /\ exch[c].st # "off" /\ exch[c].st # "revoked" /\ unseen \subseteq unseen'
       /\ UNCHANGED <<row, old, ended, broken>>
       /\ \A r, s \in Strays : r # s => exch'[r] = exch[r] \/ exch'[s] = exch[s]
       /\ \A s \in Strays : exch'[s] = exch[s] \/ (p = None /\ exch[s].st = "off" /\ exch'[s] = exch[c])
       /\ p # None => p = exch[c].to /\ exch[c].st = "answered"
  BY <1>1, <1>3, <1>10
<1> HIDE DEF ok
<1> QED BY <1>2, <1>7, <1>9, <1>10, <1>11, <1>12, <1>13, <1>14, <1>15, Leaves

-----------------------------------------------------------------------------
LEMMA Inductive ==
  ASSUME Inv, [Next]_vars
  PROVE  Inv'
<1>1. ASSUME NEW t \in Tabs, Login(t) \/ Load(t) \/ Logout(t) \/ LoggedOut(t) PROVE Inv'
  BY <1>1, LoginStep, LoadStep, LogoutStep, LoggedOutStep
<1>2. ASSUME NEW on \in {seat, FALSE}, EndAll(on) PROVE Inv'
  <2>1. on \in BOOLEAN
    BY DEF Inv, TypeOK
  <2> QED BY <1>2, <2>1, EndAllStep
<1>3. ASSUME NEW on \in BOOLEAN, SetActive(on) PROVE Inv'
  BY <1>3, SetActiveStep
<1>4. ASSUME NEW c \in Calls, Send(c) \/ Answered(c) \/ Denied(c) \/ Settle(c) \/ Lose(c) PROVE Inv'
  BY <1>4, SendStep, DeniedStep, SettleStep, LoseStep
<1>5. ASSUME NEW x \in Exchanges, Refresh(x) \/ ServerFails(x) PROVE Inv'
  BY <1>5, FindStep, RevokeOldStep, BreaksOffStep, MakeStep, StoreHashStep DEF Refresh
<1>6. ASSUME NEW k \in Token, Expire(k) PROVE Inv'
  BY <1>6, ExpireStep
<1>7. CASE UNCHANGED vars
  <2>1. UNCHANGED <<row, old, ended, seat, expired, mem, store, call, lead, exch, unseen, broken,
                    leaving, incidents>>
    BY <1>7 DEF vars
  <2>2. Token' = Token /\ Pair' = Pair
    BY <2>1 DEF Token, Pair
  <2>3. TypeOK'
    BY <2>1, <2>2 DEF Inv, TypeOK
  <2> QED BY <2>1, <2>3, Quiet
<1> QED BY <1>1, <1>2, <1>3, <1>4, <1>5, <1>6, <1>7 DEF Next

LEMMA Start ==
  ASSUME Init
  PROVE  Inv
<1>1. row = <<>> /\ old = <<>> /\ Len(row) = 0 /\ Token = {}
  BY DEF Init, Token
<1>2. None \in Pair
  BY DEF Pair
<1>3. \A x \in Exchanges : exch[x] = Off
  BY DEF Init
<1>4. TypeOK
  <2>1. /\ row \in Seq({"pending", "live", "revoked"})
        /\ old \in Seq([pair : Pair, tab : Tabs \cup {NoCall}]) /\ Len(old) = Len(row)
    BY <1>1
  <2>2. Off \in ExchOf(Pair)
    BY <1>2 DEF Off, ExchOf, ExchSt
  <2> QED BY <1>2, <2>1, <2>2 DEF Init, TypeOK, ExchOf, ExchSt
<1>5. Single /\ Fresh /\ Burns /\ Refusals
  BY <1>3, SlotsAre DEF Init, Off, Single, Fresh, Coming, Burns, Refusals
<1>6. Ready /\ Why /\ Moved /\ BurntOnce
  BY <1>1 DEF Ready, Why, Moved, BurntOnce
<1>7. Spent
  BY <1>1, <1>3 DEF Off, Spent
<1> QED BY <1>4, <1>5, <1>6, <1>7 DEF Inv

LEMMA Invariance == Spec => []Inv
<1>1. Init => Inv
  BY Start
<1>2. Inv /\ [Next]_vars => Inv'
  BY Inductive
<1> QED BY <1>1, <1>2, PTL DEF Spec

\* The state of the sessions is always of its type.
THEOREM SessionsTyped == Spec => []TypeOK
<1>1. Inv => TypeOK
  BY DEF Inv
<1> QED BY <1>1, Invariance, PTL

\* For any browsers, tabs, calls, reloads and losses: of the pairs that reach a page, a tab
\* comes by one for a refresh token, however many of its calls are denied at once and
\* whatever the server is at when its page is left (refreshTokens, AuthService.refresh).
THEOREM SpentOnce == Spec => []BurntOnce
<1>1. Inv => BurntOnce
  BY DEF Inv
<1> QED BY <1>1, Invariance, PTL

\* A refused refresh always has its cause: the token was ended, or the server broke off
\* its exchange, or another tab of the browser or a page that was left has spent it or is
\* about to (AuthService.refresh, refreshTokens).
THEOREM RefusalExplained == Spec => []RefusedForCause
<1>1. Inv => RefusedForCause
  <2> SUFFICES ASSUME Inv, NEW c \in Calls, exch[c].st = "refused"
               PROVE  \/ exch[c].from \in ended \cup broken
                      \/ \E k \in Token : old[k].pair = exch[c].from /\ (old[k].tab # TabOf[c] \/ k \in unseen)
                      \/ \E x \in Exchanges : /\ exch[x].st # "off" /\ exch[x].from = exch[c].from
                                              /\ x \in Strays \/ exch[x].tab # TabOf[c]
    BY DEF RefusedForCause
  <2> QED BY DEF Inv, Refusals
<1> QED BY <1>1, Invariance, PTL

-----------------------------------------------------------------------------
(* AdminFloor. *)

\* A counted row is locked and is still an administrator.
CountedIsLocked ==
  \A x \in Tx : \A u \in tx[x].seen : lock[u] = x /\ u \in Admins

\* Nobody is an administrator whom the snapshot missed.
SnapshotCovers ==
  \A x \in Tx : tx[x].pc # "idle" => Admins \subseteq tx[x].scan \cup tx[x].seen

ReadyPassed ==
  \A x \in Tx : tx[x].pc = "ready" => tx[x].scan = {} /\ Passes(tx[x].seen, tx[x].target)

WellFormed ==
  \A x \in Tx : IF tx[x].pc = "idle" THEN tx[x].seen = {}
                ELSE tx[x].target \in Users /\ Guarded(tx[x].dto)

FloorInv == /\ FloorTypeOK /\ AdminRemains
            /\ WellFormed /\ CountedIsLocked /\ SnapshotCovers /\ ReadyPassed

-----------------------------------------------------------------------------
\* Every step keeps the types.
LEMMA TypeStep == ASSUME FloorTypeOK, [GrantNext]_floorVars PROVE FloorTypeOK'
<1> USE AdminAssumption
<1>1. ASSUME NEW x \in Tx, NEW t \in Users, NEW dto \in Dto, StartScan(x, t, dto) PROVE FloorTypeOK'
  BY <1>1 DEF FloorTypeOK, StartScan, Progress, Admins
<1>2. ASSUME NEW x \in Tx, NEW u \in Users, LockRow(x, u) PROVE FloorTypeOK'
  <2>1. tx[x].scan \ {u} \in SUBSET Users /\ Counted(tx[x].seen, u) \in SUBSET Users
    BY DEF FloorTypeOK, Progress, Counted
  <2>2. Taken(tx[x], u) \in Progress
    BY <2>1 DEF FloorTypeOK, Progress, Taken
  <2> QED
    BY <1>2, <2>2 DEF FloorTypeOK, LockRow
<1>3. ASSUME NEW x \in Tx, Pass(x) PROVE FloorTypeOK'
  BY <1>3 DEF FloorTypeOK, Pass, Progress
<1>4. ASSUME NEW x \in Tx, Finish(x) PROVE lock' \in [Users -> Tx \cup {Null}] /\ tx' \in [Tx -> Progress]
  BY <1>4 DEF FloorTypeOK, Finish, Idle, Progress, Dto
<1>5. ASSUME NEW x \in Tx, Refuse(x) \/ Abort(x) PROVE FloorTypeOK'
  BY <1>4, <1>5 DEF FloorTypeOK, Refuse, Abort
<1>6. ASSUME NEW x \in Tx, Commit(x) PROVE FloorTypeOK'
  <2>1. tx[x].dto \in Dto
    BY DEF FloorTypeOK, Progress
  <2>2. /\ \A u \in Users : Updated(role[u], tx[x].dto.role) \in Role
        /\ \A u \in Users : Updated(active[u], tx[x].dto.active) \in BOOLEAN
    BY <2>1 DEF FloorTypeOK, Dto, Updated
  <2> QED
    BY <1>4, <1>6, <2>2 DEF FloorTypeOK, Commit
<1>7. ASSUME NEW x \in Tx, NEW t \in Users, NEW dto \in Dto, StartGrant(x, t, dto) PROVE FloorTypeOK'
  BY <1>7 DEF FloorTypeOK, StartGrant, Idle, Progress, Dto
<1>8. ASSUME UNCHANGED floorVars PROVE FloorTypeOK'
  BY <1>8 DEF FloorTypeOK, floorVars
<1> QED
  BY <1>1, <1>2, <1>3, <1>5, <1>6, <1>7, <1>8 DEF GrantNext, Offboard, Grant

\* The desk's rows and locks keep their types among all requests, guarded or
\* not (users.module update and deactivate).
THEOREM FloorTyped == GrantSpec => []FloorTypeOK
<1>1. FloorInit => FloorTypeOK
  BY AdminAssumption DEF FloorInit, FloorTypeOK, Idle, Progress, Dto
<1> QED
  BY <1>1, TypeStep, PTL DEF GrantSpec

-----------------------------------------------------------------------------
\* A step leaves the other requests as they were, and the rows they locked.
LEMMA OthersKept ==
  ASSUME FloorTypeOK, NEW x \in Tx, Offboard(x)
  PROVE  \A y \in Tx \ {x} : /\ tx'[y] = tx[y]
                             /\ \A u \in Users : lock[u] = y => lock'[u] = y
<1> QED
  BY AdminAssumption
  DEF FloorTypeOK, Offboard, StartScan, LockRow, Pass, Refuse, Commit, Abort, Finish, CanLock

\* Only Commit changes who is an administrator, and it only takes its target
\* out.
LEMMA AdminsShrink ==
  ASSUME FloorInv, NEW x \in Tx, Offboard(x)
  PROVE  /\ Admins' \subseteq Admins
         /\ Admins' # Admins => /\ Commit(x) /\ tx[x].pc = "ready"
                                /\ Admins \ Admins' \subseteq {tx[x].target}
                                /\ CanLock(x, tx[x].target)
<1> USE AdminAssumption
<1>1. CASE UNCHANGED <<role, active>>
  BY <1>1 DEF Admins
<1>2. CASE Commit(x)
  <2>1. tx[x].pc = "ready" /\ tx[x].target \in Users /\ Guarded(tx[x].dto)
    BY <1>2 DEF Commit, FloorInv, WellFormed
  <2>2. \A u \in Users \ {tx[x].target} : role'[u] = role[u] /\ active'[u] = active[u]
    BY <1>2 DEF Commit, FloorInv, FloorTypeOK
  <2>3. tx[x].target \notin Admins'
    BY <1>2, <2>1 DEF Commit, FloorInv, FloorTypeOK, Admins, Guarded, Updated
  <2> QED
    BY <1>2, <2>1, <2>2, <2>3 DEF Admins, Commit
<1> QED
  BY <1>1, <1>2 DEF Offboard, StartScan, LockRow, Pass, Refuse, Abort

\* A request that has passed leaves another administrator behind it.
LEMMA PassedLeavesOne ==
  ASSUME FloorInv, NEW x \in Tx, tx[x].pc = "ready"
  PROVE  \E u \in Admins : u # tx[x].target
<1>1. Admins \subseteq tx[x].seen /\ tx[x].seen \subseteq Admins
  BY DEF FloorInv, SnapshotCovers, CountedIsLocked, ReadyPassed
<1>2. PICK u \in Admins : TRUE
  BY DEF FloorInv, AdminRemains
<1> QED
  BY <1>1, <1>2 DEF FloorInv, ReadyPassed, Passes, AnotherRemains

-----------------------------------------------------------------------------
LEMMA InitFloorInv == FloorInit => FloorInv
<1> QED
  BY AdminAssumption
  DEF FloorInit, FloorInv, FloorTypeOK, Idle, Progress, Dto, AdminRemains, WellFormed, CountedIsLocked,
      SnapshotCovers, ReadyPassed

LEMMA StepFloorInv == ASSUME FloorInv, [FloorNext]_floorVars PROVE FloorInv'
<1> USE AdminAssumption
<1>1. FloorTypeOK'
  BY TypeStep DEF FloorInv, FloorNext, GrantNext
<1>2. CASE UNCHANGED floorVars
  BY <1>1, <1>2
  DEF floorVars, FloorInv, AdminRemains, Admins, WellFormed, CountedIsLocked, SnapshotCovers, ReadyPassed
<1>3. ASSUME NEW x \in Tx, Offboard(x) PROVE FloorInv'
  <2>1. AdminRemains'
    BY <1>3, AdminsShrink, PassedLeavesOne DEF FloorInv, AdminRemains
  <2>2. ASSUME NEW y \in Tx \ {x}
        PROVE  /\ \A u \in tx'[y].seen : lock'[u] = y /\ u \in Admins'
               /\ tx'[y].pc # "idle" => Admins' \subseteq tx'[y].scan \cup tx'[y].seen
               /\ tx'[y].pc = "ready" => tx'[y].scan = {} /\ Passes(tx'[y].seen, tx'[y].target)
               /\ IF tx'[y].pc = "idle" THEN tx'[y].seen = {}
                  ELSE tx'[y].target \in Users /\ Guarded(tx'[y].dto)
    <3>1. tx'[y] = tx[y] /\ tx[y].seen \subseteq Users
      BY <1>3, OthersKept DEF FloorInv, FloorTypeOK, Progress
    <3>2. \A u \in tx[y].seen : lock[u] = y /\ lock'[u] = y /\ u \in Admins
      BY <1>3, <3>1, OthersKept DEF FloorInv, CountedIsLocked
    <3>3. \A u \in tx[y].seen : u \in Admins'
      BY <1>3, <3>2, AdminsShrink DEF CanLock
    <3> QED
      BY <1>3, <3>1, <3>2, <3>3, AdminsShrink
      DEF FloorInv, SnapshotCovers, ReadyPassed, WellFormed
  <2>3. CASE tx'[x] = Idle
    BY <1>1, <2>1, <2>2, <2>3
    DEF FloorInv, CountedIsLocked, SnapshotCovers, ReadyPassed, WellFormed, Idle
  <2>4. ASSUME NEW t \in Users, NEW dto \in Dto, StartScan(x, t, dto) PROVE FloorInv'
    <3>1. /\ tx'[x].pc = "scanning" /\ tx'[x].target = t /\ tx'[x].dto = dto
          /\ tx'[x].scan = Admins /\ tx'[x].seen = {} /\ Guarded(dto) /\ Admins' = Admins
      BY <2>4 DEF StartScan, FloorInv, FloorTypeOK, Admins
    <3> QED
      BY <1>1, <2>1, <2>2, <3>1
      DEF FloorInv, CountedIsLocked, SnapshotCovers, ReadyPassed, WellFormed
  <2>5. ASSUME NEW u \in Users, LockRow(x, u) PROVE FloorInv'
    <3>1. /\ tx'[x].pc = "scanning" /\ tx[x].pc = "scanning"
          /\ tx'[x].target = tx[x].target /\ tx'[x].dto = tx[x].dto
          /\ tx'[x].scan = tx[x].scan \ {u} /\ tx'[x].seen = Counted(tx[x].seen, u)
          /\ lock'[u] = x /\ Admins' = Admins
          /\ \A v \in Users : lock[v] = x => lock'[v] = x
          /\ tx[x].seen \subseteq Users
      BY <2>5 DEF LockRow, Taken, FloorInv, FloorTypeOK, Progress, Admins
    <3>2. \A v \in tx[x].seen : lock'[v] = x /\ v \in Admins'
      BY <3>1 DEF FloorInv, CountedIsLocked
    <3>3. IF u \in Admins' THEN tx'[x].seen = tx[x].seen \cup {u} ELSE tx'[x].seen = tx[x].seen
      BY <3>1, Zenon DEF Counted
    <3>4. Admins' \subseteq tx'[x].scan \cup tx'[x].seen
      BY <3>1 DEF Counted, FloorInv, SnapshotCovers
    <3> QED
      BY <1>1, <2>1, <2>2, <3>1, <3>2, <3>3, <3>4
      DEF FloorInv, CountedIsLocked, SnapshotCovers, ReadyPassed, WellFormed
  <2>6. CASE Pass(x)
    <3>1. /\ tx'[x].pc = "ready" /\ tx[x].pc = "scanning" /\ tx[x].scan = {}
          /\ Passes(tx[x].seen, tx[x].target)
          /\ tx'[x].target = tx[x].target /\ tx'[x].dto = tx[x].dto
          /\ tx'[x].scan = tx[x].scan /\ tx'[x].seen = tx[x].seen
          /\ lock' = lock /\ Admins' = Admins
      BY <2>6 DEF Pass, FloorInv, FloorTypeOK, Progress, Admins
    <3> QED
      BY <1>1, <2>1, <2>2, <3>1
      DEF FloorInv, CountedIsLocked, SnapshotCovers, ReadyPassed, WellFormed
  <2>7. CASE Refuse(x) \/ Commit(x) \/ Abort(x)
    BY <2>3, <2>7 DEF Refuse, Commit, Abort, Finish, FloorInv, FloorTypeOK
  <2> QED
    BY <1>3, <2>4, <2>5, <2>6, <2>7 DEF Offboard
<1> QED
  BY <1>2, <1>3 DEF FloorNext

\* However many requests demote, disable or remove administrators at once,
\* the desk keeps one (users.module assertAdminRemains).
THEOREM AdminAlwaysRemains == FloorSpec => []AdminRemains
<1>1. FloorInv => AdminRemains
  BY DEF FloorInv
<1> QED
  BY InitFloorInv, StepFloorInv, <1>1, PTL DEF FloorSpec

\* And none of them is refused while another administrator is there.
THEOREM RefusedOnlyAsLast == FloorSpec => RefusalIsJust
<1> DEFINE Just(x) ==
      tx[x].pc = "scanning" /\ tx[x].scan = {} /\ tx'[x].pc = "idle"
      /\ ~Passes(tx[x].seen, tx[x].target) => Admins = {tx[x].target}
<1>1. FloorInv /\ [FloorNext]_floorVars => [\A x \in Tx : Just(x)]_floorVars
  <2> SUFFICES ASSUME FloorInv, NEW x \in Tx PROVE Just(x)
    OBVIOUS
  <2> QED
    BY DEF FloorInv, CountedIsLocked, SnapshotCovers, Passes, AnotherRemains
<1> QED
  BY InitFloorInv, StepFloorInv, <1>1, PTL DEF FloorSpec, RefusalIsJust
=============================================================================
