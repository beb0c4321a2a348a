------------------------- MODULE InvitationsProofs -------------------------
(***************************************************************************)
(* The proofs of OneLiveLink, BurntMeansSeated and of the refinement of    *)
(* Seats, for any desks, invitations and transactions in flight.           *)
(*                                                                         *)
(* A create knows every live invitation of its desk until it commits       *)
(* (Renewing), because whoever would take one waits for it; an accept past *)
(* its claim owns its invitation, which is still live (Claiming); and it   *)
(* never writes a seat without an account (Accounted).                     *)
(***************************************************************************)
EXTENDS Invitations, TLAPS

\* What a transaction is at follows from what it is for.
Working ==
  \A x \in Tx :
    /\ tx[x].op = "idle" => tx[x] = Idle
    /\ tx[x].op = "revoke" => tx[x].pc = "opened"
    /\ tx[x].op = "create" => tx[x].pc \in {"mail", "commit"}
    /\ tx[x].op = "accept" => tx[x].pc \in {"opened", "insert", "claim", "seat", "write", "crashed"}
    /\ tx[x].op \in {"idle", "revoke", "accept"} => tx[x].revokes = {}
    /\ tx[x].op # "accept" => ~tx[x].adds

\* A create holds a fresh invitation, and all its desk's live ones, which no other
\* create touches.
Renewing ==
  \A x \in Tx : tx[x].op = "create" =>
    /\ tx[x].inv \in Invites /\ tx[x].desk \in Desks /\ tx[x].role \in Roles
    /\ inv[tx[x].inv] = None
    /\ tx[x].revokes = Replaced(x, tx[x].desk)
    /\ \A y \in Tx \ {x} : tx[y].op = "create" => tx[y].inv # tx[x].inv /\ tx[y].desk # tx[x].desk

\* A revoke and an accept are about an invitation that was sent; past its claim, an
\* accept has it alone.
Claimed(x) == tx[x].op = "accept" /\ tx[x].pc \in {"seat", "write"}

Claiming ==
  \A x \in Tx :
    /\ tx[x].op \in {"revoke", "accept"} => tx[x].inv \in Invites /\ inv[tx[x].inv] # None
    /\ tx[x].op = "accept" => tx[x].desk = inv[tx[x].inv].desk /\ tx[x].role = inv[tx[x].inv].role
    /\ Claimed(x) => /\ Outstanding(tx[x].inv)
                     /\ \A y \in Tx : tx[x].inv \notin tx[y].revokes
                     /\ \A y \in Tx \ {x} : Claimed(y) => tx[y].inv # tx[x].inv

\* There is an account by the time a seat is written.
Accounted ==
  \A x \in Tx : tx[x].op = "accept" /\ tx[x].pc \in {"claim", "seat", "write"} => account \/ tx[x].adds

-----------------------------------------------------------------------------
(* Types. *)

\* A transaction that moves to a typed record keeps all of them typed.
LEMMA MoveTyped ==
  ASSUME TypeOK, NEW x \in Tx, NEW r \in Progress, tx' = [tx EXCEPT ![x] = r]
  PROVE  tx' \in [Tx -> Progress]
  BY DEF TypeOK

LEMMA IdleTyped == Idle \in Progress
  BY DEF Idle, Progress

\* Another step of the same transaction, or its end.
LEMMA GotoTyped ==
  ASSUME TypeOK, NEW x \in Tx,
         NEW pc \in {"idle", "opened", "insert", "claim", "seat", "write", "mail", "commit", "crashed"},
         NEW adds \in BOOLEAN, NEW found \in Membership \cup {None}
  PROVE  /\ [tx[x] EXCEPT !.pc = pc] \in Progress
         /\ [tx[x] EXCEPT !.pc = pc, !.adds = adds] \in Progress
         /\ [tx[x] EXCEPT !.pc = pc, !.found = found] \in Progress
  BY DEF TypeOK, Progress

LEMMA FinishTyped ==
  ASSUME TypeOK, NEW x \in Tx, Finish(x)
  PROVE  tx' \in [Tx -> Progress]
  BY MoveTyped, IdleTyped DEF Finish

LEMMA GoTyped ==
  ASSUME TypeOK, NEW x \in Tx, NEW pc, Goto(x, pc),
         pc \in {"idle", "opened", "insert", "claim", "seat", "write", "mail", "commit", "crashed"}
  PROVE  tx' \in [Tx -> Progress]
<1>1. tx' = [tx EXCEPT ![x] = [tx[x] EXCEPT !.pc = pc]]
  BY DEF Goto
<1>2. [tx[x] EXCEPT !.pc = pc] \in Progress
  BY DEF TypeOK, Progress
<1> QED BY <1>1, <1>2, MoveTyped

LEMMA TypeStep == TypeOK /\ Working /\ Renewing /\ Claiming /\ [Next]_vars => TypeOK'
<1> SUFFICES ASSUME TypeOK, Working, Renewing, Claiming, [Next]_vars PROVE TypeOK'
  OBVIOUS
<1>1. ASSUME NEW x \in Tx, NEW i \in Invites, NEW d \in Desks, NEW role \in Roles, Create(x, i, d, role)
      PROVE  TypeOK'
  <2>1. [Idle EXCEPT !.op = "create", !.pc = "mail", !.inv = i, !.desk = d, !.role = role,
                     !.revokes = Replaced(x, d)] \in Progress
    BY DEF Idle, Progress, Replaced
  <2> QED BY <1>1, <2>1, MoveTyped DEF Create, Tables, TypeOK
<1>2. ASSUME NEW x \in Tx, Mail(x) PROVE TypeOK'
  <2>1. tx' \in [Tx -> Progress]
    BY <1>2, GoTyped DEF Mail
  <2>2. mailed' \subseteq Invites
    BY <1>2 DEF Mail, Sends, TypeOK, Renewing
  <2> QED BY <1>2, <2>1, <2>2 DEF Mail, TypeOK
<1>3. ASSUME NEW x \in Tx, CommitCreate(x) PROVE TypeOK'
  <2>1. tx[x].desk \in Desks /\ tx[x].role \in Roles /\ tx[x].revokes = Replaced(x, tx[x].desk)
    BY <1>3 DEF CommitCreate, Renewing
  <2>2. [desk |-> tx[x].desk, role |-> tx[x].role, accepted |-> FALSE, revoked |-> FALSE,
         expired |-> FALSE] \in Invitation
    BY <2>1 DEF Invitation
  <2>3. \A j \in tx[x].revokes : [inv[j] EXCEPT !.revoked = TRUE] \in Invitation
    BY <2>1 DEF Replaced, Outstanding, TypeOK, Invitation
  <2>4. inv' \in [Invites -> Invitation \cup {None}]
    BY <1>3, <2>2, <2>3 DEF CommitCreate, TypeOK
  <2> QED BY <1>3, <2>4, FinishTyped DEF CommitCreate, TypeOK
<1>4. ASSUME NEW x \in Tx, NEW i \in Invites, Revoke(x, i) PROVE TypeOK'
  <2>1. [Idle EXCEPT !.op = "revoke", !.pc = "opened", !.inv = i] \in Progress
    BY DEF Idle, Progress
  <2> QED BY <1>4, <2>1, MoveTyped DEF Revoke, Tables, TypeOK
<1>5. ASSUME NEW x \in Tx, CommitRevoke(x) PROVE TypeOK'
  <2>1. StillOutstanding(tx[x].inv) =>
          tx[x].inv \in Invites /\ [inv[tx[x].inv] EXCEPT !.revoked = TRUE] \in Invitation
    <3>1. tx[x].inv \in Invites /\ inv[tx[x].inv] # None
      BY <1>5 DEF CommitRevoke, Claiming
    <3>2. inv[tx[x].inv] \in Invitation
      BY <3>1 DEF TypeOK
    <3> QED BY <3>1, <3>2 DEF Invitation
  <2>2. inv' \in [Invites -> Invitation \cup {None}]
    BY <1>5, <2>1 DEF CommitRevoke, TypeOK
  <2> QED BY <1>5, <2>2, FinishTyped DEF CommitRevoke, TypeOK
<1>6. ASSUME NEW x \in Tx, NEW i \in Invites, Accept(x, i) PROVE TypeOK'
  <2>1. inv[i] \in Invitation
    BY <1>6 DEF Accept, Valid, Outstanding, TypeOK
  <2>2. [Idle EXCEPT !.op = "accept", !.pc = "opened", !.inv = i, !.desk = inv[i].desk,
                     !.role = inv[i].role] \in Progress
    BY <2>1 DEF Idle, Progress, Invitation
  <2> QED BY <1>6, <2>2, MoveTyped DEF Accept, Tables, TypeOK
<1>7. ASSUME NEW x \in Tx, ReadAccount(x) PROVE TypeOK'
  <2>1. Goto(x, "claim") \/ Goto(x, "insert")
    BY <1>7 DEF ReadAccount
  <2> QED BY <1>7, <2>1, GoTyped DEF ReadAccount, Tables, TypeOK
<1>8. ASSUME NEW x \in Tx, InsertAccount(x) PROVE TypeOK'
  <2>1. tx' = [tx EXCEPT ![x] = [tx[x] EXCEPT !.pc = IF account THEN "crashed" ELSE "claim",
                                             !.adds = ~account]]
    BY <1>8 DEF InsertAccount
  <2>2. [tx[x] EXCEPT !.pc = IF account THEN "crashed" ELSE "claim", !.adds = ~account] \in Progress
    BY DEF TypeOK, Progress
  <2> QED BY <1>8, <2>1, <2>2, MoveTyped DEF InsertAccount, Tables, TypeOK
<1>9. ASSUME NEW x \in Tx, Claim(x) PROVE TypeOK'
  BY <1>9, GoTyped, FinishTyped DEF Claim, Tables, TypeOK
<1>10. ASSUME NEW x \in Tx, ReadSeat(x) PROVE TypeOK'
  <2>1. CASE Finish(x)
    BY <1>10, <2>1, FinishTyped DEF ReadSeat, Tables, TypeOK
  <2>2. CASE ~Active(tx[x].desk)
    <3>1. tx' = [tx EXCEPT ![x] = [tx[x] EXCEPT !.pc = "write", !.found = member[tx[x].desk]]]
      BY <1>10, <2>2 DEF ReadSeat
    <3>2. tx[x].inv \in Invites /\ inv[tx[x].inv] # None /\ tx[x].desk = inv[tx[x].inv].desk
      BY <1>10 DEF ReadSeat, Claiming, Working, TypeOK, Progress, Idle
    <3>3. member[tx[x].desk] \in Membership \cup {None}
      BY <3>2 DEF TypeOK, Invitation
    <3>4. [tx[x] EXCEPT !.pc = "write", !.found = member[tx[x].desk]] \in Progress
      BY <3>3 DEF TypeOK, Progress
    <3> QED BY <1>10, <3>1, <3>4, MoveTyped DEF ReadSeat, Tables, TypeOK
  <2> QED BY <1>10, <2>1, <2>2 DEF ReadSeat
<1>11. ASSUME NEW x \in Tx, CommitAccept(x) PROVE TypeOK'
  <2>1. tx[x].inv \in Invites /\ inv[tx[x].inv] \in Invitation /\ tx[x].desk = inv[tx[x].inv].desk
        /\ tx[x].role = inv[tx[x].inv].role
    BY <1>11 DEF CommitAccept, Claiming, Working, TypeOK, Progress, Idle
  <2>2. CASE Goto(x, "crashed") /\ UNCHANGED Tables
    BY <2>2, GoTyped DEF Tables, TypeOK
  <2>3. CASE ~(tx[x].found = None /\ member[tx[x].desk] # None)
    <3>1. Seated(tx[x].desk, tx[x].role) \in Membership /\ [inv[tx[x].inv] EXCEPT !.accepted = TRUE] \in Invitation
      BY <2>1 DEF Seated, Membership, Invitation
    <3>2. /\ member' = [member EXCEPT ![tx[x].desk] = Seated(tx[x].desk, tx[x].role)]
          /\ inv' = [inv EXCEPT ![tx[x].inv].accepted = TRUE]
          /\ trail' = [trail EXCEPT ![tx[x].inv] = @ + 1]
          /\ account' = (account \/ tx[x].adds) /\ Finish(x) /\ mailed' = mailed
      BY <1>11, <2>3 DEF CommitAccept
    <3>3. inv' \in [Invites -> Invitation \cup {None}] /\ member' \in [Desks -> Membership \cup {None}]
      BY <3>1, <3>2 DEF TypeOK
    <3>4. trail' \in [Invites -> Nat] /\ mailed' \subseteq Invites
      <4>1. trail \in [Invites -> Nat] /\ mailed \subseteq Invites
        BY DEF TypeOK
      <4>2. trail[tx[x].inv] + 1 \in Nat
        BY <2>1, <4>1
      <4>3. trail' = [trail EXCEPT ![tx[x].inv] = trail[tx[x].inv] + 1]
        BY <3>2
      <4> QED BY <3>2, <4>1, <4>2, <4>3
    <3>5. account' \in BOOLEAN
      BY <3>2, Zenon DEF TypeOK
    <3> QED BY <3>2, <3>3, <3>4, <3>5, FinishTyped DEF TypeOK
  <2> QED BY <1>11, <2>2, <2>3 DEF CommitAccept
<1>12. ASSUME NEW x \in Tx, Abort(x) PROVE TypeOK'
  BY <1>12, FinishTyped DEF Abort, Tables, TypeOK
<1>13. ASSUME NEW i \in Invites, Expire(i) PROVE TypeOK'
  <2>1. [inv[i] EXCEPT !.expired = TRUE] \in Invitation
    BY <1>13 DEF Expire, TypeOK, Invitation
  <2> QED BY <1>13, <2>1 DEF Expire, TypeOK
<1>14. ASSUME NEW d \in Desks, NEW role \in Roles, NEW active \in BOOLEAN,
              CreateByHand(d, role) \/ PatchByHand(d, active, role)
       PROVE  TypeOK'
  <2>1. \A b \in BOOLEAN : [active |-> b, role |-> role] \in Membership
    BY DEF Membership
  <2> QED BY <1>14, <2>1 DEF CreateByHand, PatchByHand, TypeOK
<1>15. CASE UNCHANGED vars
  BY <1>15 DEF vars, TypeOK
<1> QED
  BY <1>1, <1>2, <1>3, <1>4, <1>5, <1>6, <1>7, <1>8, <1>9, <1>10, <1>11, <1>12, <1>13, <1>14, <1>15
  DEF Next, Admin, Invitee
-----------------------------------------------------------------------------
(* Transactions. *)

\* What may be said of a transaction r of x before it commits, were it in tx.
Local(x, r) ==
  /\ r.op = "idle" => r = Idle
  /\ r.op = "revoke" => r.pc = "opened"
  /\ r.op = "create" => r.pc \in {"mail", "commit"}
  /\ r.op = "accept" => r.pc \in {"opened", "insert", "claim", "seat", "write", "crashed"}
  /\ r.op \in {"idle", "revoke", "accept"} => r.revokes = {}
  /\ r.op # "accept" => ~r.adds

Renews(x, r) ==
  r.op = "create" =>
    /\ r.inv \in Invites /\ r.desk \in Desks /\ r.role \in Roles
    /\ inv[r.inv] = None
    /\ r.revokes = Replaced(x, r.desk)
    /\ \A y \in Tx \ {x} : /\ tx[y].op = "create" => tx[y].inv # r.inv /\ tx[y].desk # r.desk
                           /\ Claimed(y) => tx[y].inv \notin r.revokes

Claims(x, r) ==
  /\ r.op \in {"revoke", "accept"} => r.inv \in Invites /\ inv[r.inv] # None
  /\ r.op = "accept" => r.desk = inv[r.inv].desk /\ r.role = inv[r.inv].role
  /\ r.op = "accept" /\ r.pc \in {"seat", "write"} =>
       /\ Outstanding(r.inv)
       /\ \A y \in Tx \ {x} : r.inv \notin tx[y].revokes /\ (Claimed(y) => tx[y].inv # r.inv)

Accounts(r) == r.op = "accept" /\ r.pc \in {"claim", "seat", "write"} => account \/ r.adds

Inv == Working /\ Renewing /\ Claiming /\ Accounted /\ OneLiveLink

\* One transaction moves, the tables do not.
LEMMA Moves ==
  ASSUME TypeOK, Inv, inv' = inv, account' = account, NEW x \in Tx, NEW r \in Progress,
         tx' = [tx EXCEPT ![x] = r],
         Local(x, r), Renews(x, r), Claims(x, r), Accounts(r)
  PROVE  Inv'
<1>1. tx'[x] = r /\ \A y \in Tx \ {x} : tx'[y] = tx[y]
  BY DEF TypeOK
<1>2. Working'
  BY <1>1 DEF Local, Inv, Working
<1>3. \A i : Outstanding(i)' <=> Outstanding(i)
  BY DEF Outstanding
<1>4. \A y, d : Replaced(y, d)' = Replaced(y, d)
  BY <1>3 DEF Replaced
<1>5. \A y \in Tx \ {x} : Claimed(y)' <=> Claimed(y)
  BY <1>1 DEF Claimed
<1>6. Renewing'
  <2>1. ASSUME NEW y \in Tx, tx'[y].op = "create"
        PROVE  /\ tx'[y].inv \in Invites /\ tx'[y].desk \in Desks /\ tx'[y].role \in Roles
               /\ inv[tx'[y].inv] = None
               /\ tx'[y].revokes = Replaced(y, tx'[y].desk)
               /\ \A z \in Tx \ {y} : tx'[z].op = "create" => tx'[z].inv # tx'[y].inv /\ tx'[z].desk # tx'[y].desk
    <3>1. CASE y = x
      BY <1>1, <2>1, <3>1 DEF Renews
    <3>2. CASE y # x
      BY <1>1, <2>1, <3>2 DEF Renews, Inv, Renewing, Replaced
    <3> QED BY <3>1, <3>2
  <2> QED BY <2>1 DEF Renewing, Replaced, Outstanding
<1>7. Claiming'
  <2>1. \A y \in Tx \ {x} : Claimed(y) => tx[y].inv \notin r.revokes
    <3>1. r.op \in {"idle", "create", "revoke", "accept"}
      BY DEF Progress
    <3>2. r.op # "create" => r.revokes = {}
      BY <3>1 DEF Local
    <3> QED BY <3>2 DEF Renews
  <2> QED BY <1>1, <1>3, <1>5, <2>1 DEF Claims, Local, Inv, Claiming, Claimed
<1>8. Accounted'
  BY <1>1 DEF Accounts, Inv, Accounted
<1>9. OneLiveLink'
  BY <1>3 DEF Inv, OneLiveLink
<1> QED BY <1>2, <1>6, <1>7, <1>8, <1>9 DEF Inv

LEMMA Ends ==
  ASSUME TypeOK, Inv, UNCHANGED Tables, NEW x \in Tx, Finish(x)
  PROVE  Inv'
<1>1. Local(x, Idle) /\ Renews(x, Idle) /\ Claims(x, Idle) /\ Accounts(Idle)
  BY DEF Local, Renews, Claims, Accounts, Idle
<1> QED BY <1>1, IdleTyped, Moves DEF Finish, Tables

\* A later step of the same operation that owns nothing more.
LEMMA GoesOn ==
  ASSUME TypeOK, Inv, inv' = inv, account' = account, NEW x \in Tx, NEW pc, Goto(x, pc),
         \/ tx[x].op = "create" /\ pc = "commit"
         \/ tx[x].op = "accept" /\ pc \in {"insert", "crashed"}
         \/ tx[x].op = "accept" /\ pc = "claim" /\ (account \/ tx[x].adds)
  PROVE  Inv'
<1> DEFINE r == [tx[x] EXCEPT !.pc = pc]
<1>1. r \in Progress /\ tx' = [tx EXCEPT ![x] = r]
  BY GotoTyped DEF Goto
<1>2. /\ r.op = tx[x].op /\ r.pc = pc /\ r.inv = tx[x].inv /\ r.desk = tx[x].desk /\ r.role = tx[x].role
      /\ r.adds = tx[x].adds /\ r.revokes = tx[x].revokes
  BY DEF TypeOK, Progress
<1> HIDE DEF r
<1>3. Local(x, r)
  BY <1>2 DEF Local, Inv, Working
<1>4. Renews(x, r)
  <2>1. \A y \in Tx : Claimed(y) => tx[y].inv \notin tx[x].revokes
    BY DEF Inv, Claiming
  <2> QED BY <1>2, <2>1 DEF Renews, Inv, Renewing
<1>5. Claims(x, r)
  BY <1>2 DEF Claims, Inv, Claiming
<1>6. Accounts(r)
  BY <1>2 DEF Accounts
<1> QED BY <1>1, <1>3, <1>4, <1>5, <1>6, Moves

LEMMA CreateStep ==
  ASSUME TypeOK, Inv, NEW x \in Tx, NEW i \in Invites, NEW d \in Desks, NEW role \in Roles,
         Create(x, i, d, role)
  PROVE  Inv'
<1> DEFINE r == [Idle EXCEPT !.op = "create", !.pc = "mail", !.inv = i, !.desk = d, !.role = role,
                             !.revokes = Replaced(x, d)]
<1>1. r \in Progress /\ tx' = [tx EXCEPT ![x] = r] /\ UNCHANGED Tables
  BY DEF Create, Idle, Progress, Replaced
<1>2. /\ r.op = "create" /\ r.pc = "mail" /\ r.inv = i /\ r.desk = d /\ r.role = role
      /\ r.adds = FALSE /\ r.revokes = Replaced(x, d)
  BY DEF Idle
<1> HIDE DEF r
<1>3. \A y \in Tx \ {x} : tx[y].op = "create" => tx[y].inv # i /\ tx[y].desk # d
  BY DEF Create, Creating
<1>4. \A y \in Tx \ {x} : Claimed(y) => tx[y].inv \notin Replaced(x, d)
  BY DEF Create, RowLocked, Claimed
<1>5. inv[i] = None
  BY DEF Create
<1>6. Local(x, r) /\ Claims(x, r) /\ Accounts(r)
  BY <1>2 DEF Local, Claims, Accounts
<1>7. Renews(x, r)
  BY <1>2, <1>3, <1>4, <1>5 DEF Renews
<1> QED BY <1>1, <1>6, <1>7, Moves DEF Tables

LEMMA RevokeStep ==
  ASSUME TypeOK, Inv, NEW x \in Tx, NEW i \in Invites, Revoke(x, i)
  PROVE  Inv'
<1> DEFINE r == [Idle EXCEPT !.op = "revoke", !.pc = "opened", !.inv = i]
<1>1. r \in Progress /\ tx' = [tx EXCEPT ![x] = r] /\ UNCHANGED Tables
  BY DEF Revoke, Idle, Progress
<1>2. r.op = "revoke" /\ r.pc = "opened" /\ r.inv = i /\ r.adds = FALSE /\ r.revokes = {}
  BY DEF Idle
<1> HIDE DEF r
<1>3. Local(x, r) /\ Renews(x, r) /\ Claims(x, r) /\ Accounts(r)
  BY <1>2 DEF Local, Renews, Claims, Accounts, Revoke, Outstanding
<1> QED BY <1>1, <1>3, Moves DEF Tables

LEMMA AcceptStep ==
  ASSUME TypeOK, Inv, NEW x \in Tx, NEW i \in Invites, Accept(x, i)
  PROVE  Inv'
<1> DEFINE r == [Idle EXCEPT !.op = "accept", !.pc = "opened", !.inv = i, !.desk = inv[i].desk,
                             !.role = inv[i].role]
<1>1. inv[i] # None /\ inv[i] \in Invitation
  BY DEF Accept, Valid, Outstanding, TypeOK
<1>2. r \in Progress /\ tx' = [tx EXCEPT ![x] = r] /\ UNCHANGED Tables
  BY <1>1 DEF Accept, Idle, Progress, Invitation
<1>3. /\ r.op = "accept" /\ r.pc = "opened" /\ r.inv = i /\ r.desk = inv[i].desk /\ r.role = inv[i].role
      /\ r.adds = FALSE /\ r.revokes = {}
  BY DEF Idle
<1> HIDE DEF r
<1>4. Local(x, r) /\ Renews(x, r) /\ Claims(x, r) /\ Accounts(r)
  BY <1>1, <1>3 DEF Local, Renews, Claims, Accounts
<1> QED BY <1>2, <1>4, Moves DEF Tables

LEMMA InsertAccountStep ==
  ASSUME TypeOK, Inv, NEW x \in Tx, InsertAccount(x)
  PROVE  Inv'
<1> DEFINE r == [tx[x] EXCEPT !.pc = IF account THEN "crashed" ELSE "claim", !.adds = ~account]
<1>0. tx[x].op = "accept"
  BY DEF InsertAccount, Inv, Working, TypeOK, Progress, Idle
<1>1. r \in Progress /\ tx' = [tx EXCEPT ![x] = r] /\ UNCHANGED Tables
  BY DEF InsertAccount, TypeOK, Progress
<1>2. /\ r.op = "accept" /\ r.pc \in {"crashed", "claim"} /\ r.inv = tx[x].inv /\ r.desk = tx[x].desk
      /\ r.role = tx[x].role /\ r.revokes = tx[x].revokes
  BY <1>0 DEF TypeOK, Progress
<1>3. Accounts(r)
  BY DEF Accounts, TypeOK, Progress
<1> HIDE DEF r
<1>4. Local(x, r) /\ Renews(x, r) /\ Claims(x, r)
  BY <1>0, <1>2 DEF Local, Renews, Claims, Inv, Working, Claiming
<1> QED BY <1>1, <1>3, <1>4, Moves DEF Tables

LEMMA ClaimStep ==
  ASSUME TypeOK, Inv, NEW x \in Tx, Claim(x)
  PROVE  Inv'
<1> DEFINE r == [tx[x] EXCEPT !.pc = "seat"]
<1>0. tx[x].op = "accept" /\ UNCHANGED Tables /\ tx[x].pc = "claim"
  BY DEF Claim, Inv, Working, TypeOK, Progress, Idle
<1>1. CASE Finish(x)
  BY <1>0, <1>1, Ends
<1>2. CASE Claimable(tx[x].inv)
  <2>1. r \in Progress /\ tx' = [tx EXCEPT ![x] = r]
    BY <1>2, GotoTyped DEF Claim, Goto
  <2>2. /\ r.op = "accept" /\ r.pc = "seat" /\ r.inv = tx[x].inv /\ r.desk = tx[x].desk
        /\ r.role = tx[x].role /\ r.revokes = tx[x].revokes /\ r.adds = tx[x].adds
    BY <1>0 DEF TypeOK, Progress
  <2> HIDE DEF r
  <2>3. Local(x, r) /\ Renews(x, r) /\ Accounts(r)
    BY <1>0, <2>2 DEF Local, Renews, Accounts, Inv, Working, Accounted
  <2>4. \A y \in Tx \ {x} : tx[x].inv \notin tx[y].revokes /\ (Claimed(y) => tx[y].inv # tx[x].inv)
    BY DEF Claim, RowLocked, Claimed
  <2>5. Claims(x, r)
    BY <1>0, <1>2, <2>2, <2>4 DEF Claims, Claimable, Inv, Claiming
  <2> QED BY <1>0, <2>1, <2>3, <2>5, Moves DEF Tables
<1> QED BY <1>1, <1>2 DEF Claim

LEMMA ReadSeatStep ==
  ASSUME TypeOK, Inv, NEW x \in Tx, ReadSeat(x)
  PROVE  Inv'
<1> DEFINE r == [tx[x] EXCEPT !.pc = "write", !.found = member[tx[x].desk]]
<1>0. tx[x].op = "accept" /\ UNCHANGED Tables /\ tx[x].pc = "seat"
  BY DEF ReadSeat, Inv, Working, TypeOK, Progress, Idle
<1>1. CASE Finish(x)
  BY <1>0, <1>1, Ends
<1>2. CASE ~Active(tx[x].desk)
  <2>1. member[tx[x].desk] \in Membership \cup {None}
    BY <1>0 DEF Inv, Claiming, TypeOK, Invitation
  <2>2. r \in Progress /\ tx' = [tx EXCEPT ![x] = r]
    <3>1. tx' = [tx EXCEPT ![x] = r]
      BY <1>2 DEF ReadSeat
    <3>2. r \in Progress
      BY <2>1 DEF TypeOK, Progress
    <3> QED BY <3>1, <3>2
  <2>3. /\ r.op = "accept" /\ r.pc = "write" /\ r.inv = tx[x].inv /\ r.desk = tx[x].desk
        /\ r.role = tx[x].role /\ r.revokes = tx[x].revokes /\ r.adds = tx[x].adds
    BY <1>0 DEF TypeOK, Progress
  <2> HIDE DEF r
  <2>4. Local(x, r) /\ Renews(x, r) /\ Accounts(r)
    BY <1>0, <2>3 DEF Local, Renews, Accounts, Inv, Working, Accounted
  <2>5. Claims(x, r)
    BY <1>0, <2>3 DEF Claims, Inv, Claiming, Claimed
  <2> QED BY <1>0, <2>2, <2>4, <2>5, Moves DEF Tables
<1> QED BY <1>1, <1>2 DEF ReadSeat

-----------------------------------------------------------------------------
(* Commits. *)

\* A transaction ends and writes invitations, none that another holds.
LEMMA Writes ==
  ASSUME TypeOK, Inv, account => account', NEW x \in Tx, Finish(x),
         \A j \in Invites : inv[j] # None =>
            inv'[j] # None /\ inv'[j].desk = inv[j].desk /\ inv'[j].role = inv[j].role,
         \A y \in Tx \ {x} : tx[y].op = "create" =>
            /\ inv'[tx[y].inv] = None
            /\ \A j \in Invites : (Outstanding(j)' /\ inv'[j].desk = tx[y].desk)
                                   <=> (Outstanding(j) /\ inv[j].desk = tx[y].desk),
         \A y \in Tx \ {x} : Claimed(y) =>
            inv'[tx[y].inv] # None /\ ~inv'[tx[y].inv].accepted /\ ~inv'[tx[y].inv].revoked,
         OneLiveLink'
  PROVE  Inv'
<1>1. tx'[x] = Idle /\ \A y \in Tx \ {x} : tx'[y] = tx[y]
  BY DEF TypeOK, Finish
<1>2. Idle.op = "idle" /\ Idle.revokes = {} /\ Idle.adds = FALSE
  BY DEF Idle
<1>3. Working'
  BY <1>1, <1>2 DEF Inv, Working
<1>4. Renewing'
  <2>1. \A y \in Tx : tx'[y].op = "create" =>
          /\ y # x /\ tx'[y] = tx[y]
          /\ tx[y].inv \in Invites /\ tx[y].desk \in Desks /\ tx[y].role \in Roles
          /\ inv'[tx[y].inv] = None
          /\ tx[y].revokes = Replaced(y, tx[y].desk)
          /\ \A z \in Tx \ {y} : tx'[z].op = "create" => tx[z].inv # tx[y].inv /\ tx[z].desk # tx[y].desk /\ tx'[z] = tx[z]
    BY <1>1, <1>2 DEF Inv, Renewing
  <2>2. \A y \in Tx : tx'[y].op = "create" =>
          tx'[y].revokes = {j \in Invites : Outstanding(j)' /\ inv'[j].desk = tx'[y].desk}
    BY <2>1 DEF Replaced
  <2> QED BY <2>1, <2>2 DEF Renewing, Replaced
<1>5. Claiming'
  <2>1. \A y \in Tx : Claimed(y)' => y # x /\ Claimed(y)
    BY <1>1, <1>2 DEF Claimed
  <2>3. \A y \in Tx : tx'[y].op \in {"revoke", "accept"} => tx'[y].inv \in Invites /\ inv'[tx'[y].inv] # None
    BY <1>1, <1>2 DEF Inv, Claiming
  <2>4. \A y \in Tx : tx'[y].op = "accept" =>
          tx'[y].desk = inv'[tx'[y].inv].desk /\ tx'[y].role = inv'[tx'[y].inv].role
    BY <1>1, <1>2 DEF Inv, Claiming
  <2>5. \A y \in Tx : Claimed(y)' =>
          /\ \A z \in Tx : tx'[y].inv \notin tx'[z].revokes
          /\ \A z \in Tx \ {y} : Claimed(z)' => tx'[z].inv # tx'[y].inv
    BY <1>1, <1>2, <2>1 DEF Inv, Claiming
  <2>6. \A y \in Tx : Claimed(y)' => inv'[tx'[y].inv] # None /\ ~inv'[tx'[y].inv].accepted /\ ~inv'[tx'[y].inv].revoked
    BY <1>1, <2>1
  <2> QED BY <2>3, <2>4, <2>5, <2>6 DEF Claiming, Claimed, Outstanding
<1>6. Accounted'
  BY <1>1, <1>2 DEF Inv, Accounted
<1> QED BY <1>3, <1>4, <1>5, <1>6 DEF Inv

LEMMA CommitCreateStep ==
  ASSUME TypeOK, Inv, NEW x \in Tx, CommitCreate(x)
  PROVE  Inv'
<1> DEFINE i == tx[x].inv
           d == tx[x].desk
<1>1. /\ tx[x].op = "create" /\ i \in Invites /\ d \in Desks /\ inv[i] = None
      /\ \A j \in Invites : j \in tx[x].revokes <=> Outstanding(j) /\ inv[j].desk = d
      /\ \A y \in Tx \ {x} : tx[y].op = "create" => tx[y].inv # i /\ tx[y].desk # d
  BY DEF CommitCreate, Inv, Renewing, Replaced
<1>2. i \notin tx[x].revokes /\ account' = account /\ Finish(x)
  BY <1>1 DEF Outstanding, CommitCreate
<1>3. /\ inv'[i] # None /\ inv'[i].desk = d /\ ~inv'[i].accepted /\ ~inv'[i].revoked
      /\ \A j \in tx[x].revokes :
           /\ j \in Invites /\ inv'[j] # None /\ inv'[j].revoked /\ inv'[j].desk = inv[j].desk /\ inv'[j].role = inv[j].role
           /\ inv'[j].accepted = inv[j].accepted
      /\ \A j \in Invites : j # i /\ j \notin tx[x].revokes => inv'[j] = inv[j]
  <2> DEFINE new == [desk |-> d, role |-> tx[x].role, accepted |-> FALSE, revoked |-> FALSE, expired |-> FALSE]
  <2>1. new \in Invitation /\ new # None
    <3>1. tx[x].role \in Roles
      BY <1>1 DEF Inv, Renewing
    <3>2. new \in Invitation
      BY <1>1, <3>1 DEF Invitation
    <3> QED BY <3>2, InvitationAssumption
  <2>2. \A j \in tx[x].revokes : /\ j \in Invites /\ inv[j] \in Invitation
                                 /\ [inv[j] EXCEPT !.revoked = TRUE] \in Invitation
    <3>1. \A j \in tx[x].revokes : j \in Invites /\ inv[j] \in Invitation
      BY DEF CommitCreate, Inv, Renewing, Replaced, Outstanding, TypeOK
    <3> QED BY <3>1 DEF Invitation
  <2>3. /\ inv' [i] = new
        /\ \A j \in Invites : j # i /\ j \in tx[x].revokes => inv'[j] = [inv[j] EXCEPT !.revoked = TRUE]
        /\ \A j \in Invites : j # i /\ j \notin tx[x].revokes => inv'[j] = inv[j]
    BY <1>1 DEF CommitCreate
  <2>4. /\ new.desk = d /\ ~new.accepted /\ ~new.revoked
    OBVIOUS
  <2>5. \A j \in tx[x].revokes :
          LET q == [inv[j] EXCEPT !.revoked = TRUE]
          IN  q.revoked /\ q.desk = inv[j].desk /\ q.role = inv[j].role /\ q.accepted = inv[j].accepted
    BY <2>2 DEF Invitation
  <2> HIDE DEF new, i, d
  <2>6. \A j \in tx[x].revokes : j # i /\ inv'[j] \in Invitation /\ inv'[j] # None
    <3>1. None \notin Invitation
      BY InvitationAssumption
    <3>2. \A j \in tx[x].revokes : j # i /\ inv'[j] = [inv[j] EXCEPT !.revoked = TRUE]
      BY <1>2, <2>2, <2>3
    <3> QED BY <2>2, <3>1, <3>2
  <2>7. \A j \in tx[x].revokes : /\ inv'[j].revoked /\ inv'[j].desk = inv[j].desk /\ inv'[j].role = inv[j].role
                                 /\ inv'[j].accepted = inv[j].accepted
    BY <1>2, <2>2, <2>3, <2>5
  <2> QED BY <1>1, <2>1, <2>2, <2>3, <2>4, <2>6, <2>7
<1>4. \A y \in Tx \ {x} : tx[y].op = "create" =>
         /\ inv'[tx[y].inv] = None
         /\ \A j \in Invites : (Outstanding(j)' /\ inv'[j].desk = tx[y].desk)
                                <=> (Outstanding(j) /\ inv[j].desk = tx[y].desk)
  <2> SUFFICES ASSUME NEW y \in Tx \ {x}, tx[y].op = "create"
               PROVE  /\ inv'[tx[y].inv] = None
                      /\ \A j \in Invites : (Outstanding(j)' /\ inv'[j].desk = tx[y].desk)
                                             <=> (Outstanding(j) /\ inv[j].desk = tx[y].desk)
    OBVIOUS
  <2>1. tx[y].inv \in Invites \ {i} /\ inv[tx[y].inv] = None /\ tx[y].desk # d
    BY <1>1 DEF Inv, Renewing
  <2>2. tx[y].inv \notin tx[x].revokes
    BY <1>1, <2>1 DEF Outstanding
  <2> HIDE DEF i, d
  <2> QED BY <1>1, <1>3, <2>1, <2>2 DEF Outstanding
<1>5. \A y \in Tx \ {x} : Claimed(y) =>
         inv'[tx[y].inv] # None /\ ~inv'[tx[y].inv].accepted /\ ~inv'[tx[y].inv].revoked
  <2>1. \A y \in Tx : Claimed(y) => /\ tx[y].inv \in Invites \ {i} /\ tx[y].inv \notin tx[x].revokes
                                    /\ Outstanding(tx[y].inv)
    BY <1>1 DEF Inv, Claiming, Claimed, Outstanding
  <2> QED BY <1>3, <2>1 DEF Outstanding
<1>6. OneLiveLink'
  <2>1. \A j \in Invites \ {i} : inv'[j] # None /\ ~inv'[j].accepted /\ ~inv'[j].revoked =>
          inv'[j] = inv[j] /\ Outstanding(j) /\ inv[j].desk # d
    BY <1>1, <1>3 DEF Outstanding
  <2> QED BY <1>3, <2>1 DEF OneLiveLink, Outstanding, Inv
<1>7. \A j \in Invites : inv[j] # None =>
         inv'[j] # None /\ inv'[j].desk = inv[j].desk /\ inv'[j].role = inv[j].role
  BY <1>1, <1>3
<1> QED BY <1>2, <1>4, <1>5, <1>6, <1>7, Writes

LEMMA CommitRevokeStep ==
  ASSUME TypeOK, Inv, NEW x \in Tx, CommitRevoke(x)
  PROVE  Inv'
<1> DEFINE i == tx[x].inv
<1>1. /\ i \in Invites /\ inv[i] # None /\ inv[i] \in Invitation /\ Finish(x) /\ account' = account
      /\ ~RowLocked(x, i)
  BY DEF CommitRevoke, Inv, Claiming, TypeOK
<1>2. CASE ~Outstanding(i)
  <2>1. UNCHANGED Tables
    BY <1>2 DEF CommitRevoke, StillOutstanding, Tables
  <2> QED BY <1>1, <2>1, Ends
<1>3. CASE Outstanding(i)
  <2>1. [inv[i] EXCEPT !.revoked = TRUE] \in Invitation
    BY <1>1 DEF Invitation
  <2>2. inv'[i] = [inv[i] EXCEPT !.revoked = TRUE] /\ \A j \in Invites \ {i} : inv'[j] = inv[j]
    BY <1>1, <1>3 DEF CommitRevoke, StillOutstanding, TypeOK
  <2>3. inv'[i] # None /\ inv'[i].desk = inv[i].desk /\ inv'[i].role = inv[i].role /\ inv'[i].revoked
    BY <1>1, <2>1, <2>2, InvitationAssumption DEF Invitation
  <2> HIDE DEF i
  <2>4. \A y \in Tx \ {x} : tx[y].op = "create" =>
           /\ inv'[tx[y].inv] = None
           /\ \A j \in Invites : (Outstanding(j)' /\ inv'[j].desk = tx[y].desk)
                                  <=> (Outstanding(j) /\ inv[j].desk = tx[y].desk)
    <3> SUFFICES ASSUME NEW y \in Tx \ {x}, tx[y].op = "create"
                 PROVE  /\ inv'[tx[y].inv] = None
                        /\ \A j \in Invites : (Outstanding(j)' /\ inv'[j].desk = tx[y].desk)
                                               <=> (Outstanding(j) /\ inv[j].desk = tx[y].desk)
      OBVIOUS
    <3>1. tx[y].inv \in Invites /\ inv[tx[y].inv] = None /\ tx[y].revokes = Replaced(y, tx[y].desk)
      BY DEF Inv, Renewing
    <3>2. inv[i].desk # tx[y].desk
      BY <1>1, <1>3, <3>1 DEF RowLocked, Replaced
    <3> QED BY <1>1, <2>2, <2>3, <3>1, <3>2 DEF Outstanding
  <2>5. \A y \in Tx \ {x} : Claimed(y) =>
           inv'[tx[y].inv] # None /\ ~inv'[tx[y].inv].accepted /\ ~inv'[tx[y].inv].revoked
    <3>1. \A y \in Tx \ {x} : Claimed(y) => tx[y].inv \in Invites \ {i} /\ Outstanding(tx[y].inv)
      BY <1>1 DEF RowLocked, Claimed, Inv, Claiming
    <3> QED BY <2>2, <3>1 DEF Outstanding
  <2>6. OneLiveLink'
    <3>1. \A j \in Invites : Outstanding(j)' => j # i /\ inv'[j] = inv[j] /\ Outstanding(j)
      BY <2>2, <2>3 DEF Outstanding
    <3> QED BY <3>1 DEF OneLiveLink, Inv
  <2>7. \A j \in Invites : inv[j] # None =>
           inv'[j] # None /\ inv'[j].desk = inv[j].desk /\ inv'[j].role = inv[j].role
    BY <2>2, <2>3
  <2> QED BY <1>1, <2>4, <2>5, <2>6, <2>7, Writes
<1> QED BY <1>2, <1>3

\* What an accept that writes its seat knows.
LEMMA AcceptKnows ==
  ASSUME TypeOK, Inv, NEW x \in Tx, CommitAccept(x)
  PROVE  /\ Claimed(x) /\ tx[x].inv \in Invites /\ Outstanding(tx[x].inv) /\ inv[tx[x].inv] \in Invitation
         /\ tx[x].desk = inv[tx[x].inv].desk /\ tx[x].role = inv[tx[x].inv].role /\ tx[x].desk \in Desks
         /\ account \/ tx[x].adds
<1>1. Claimed(x)
  BY DEF CommitAccept, Claimed, Inv, Working, TypeOK, Progress, Idle
<1>2. tx[x].inv \in Invites /\ Outstanding(tx[x].inv) /\ inv[tx[x].inv] \in Invitation
  BY <1>1 DEF Claimed, Inv, Claiming, TypeOK
<1>3. tx[x].desk = inv[tx[x].inv].desk /\ tx[x].role = inv[tx[x].inv].role /\ (account \/ tx[x].adds)
  BY <1>1 DEF Claimed, Inv, Claiming, Accounted
<1> QED BY <1>1, <1>2, <1>3 DEF Invitation

LEMMA CommitAcceptStep ==
  ASSUME TypeOK, Inv, NEW x \in Tx, CommitAccept(x)
  PROVE  Inv'
<1> DEFINE i == tx[x].inv
<1>1. CASE Goto(x, "crashed") /\ UNCHANGED Tables
  <2>1. tx[x].op = "accept"
    BY AcceptKnows DEF Claimed
  <2> QED BY <1>1, <2>1, GoesOn DEF Tables
<1>2. CASE inv' = [inv EXCEPT ![i].accepted = TRUE] /\ account' = (account \/ tx[x].adds) /\ Finish(x)
  <2>1. Claimed(x) /\ i \in Invites /\ Outstanding(i) /\ inv[i] \in Invitation
    BY AcceptKnows
  <2>2. [inv[i] EXCEPT !.accepted = TRUE] \in Invitation
    BY <2>1 DEF Invitation
  <2>3. inv'[i] = [inv[i] EXCEPT !.accepted = TRUE] /\ \A j \in Invites \ {i} : inv'[j] = inv[j]
    BY <1>2, <2>1 DEF TypeOK
  <2>4. inv'[i] # None /\ inv'[i].desk = inv[i].desk /\ inv'[i].role = inv[i].role /\ inv'[i].accepted
    BY <2>1, <2>2, <2>3, InvitationAssumption DEF Invitation
  <2> HIDE DEF i
  <2>5. \A y \in Tx \ {x} : tx[y].op = "create" =>
           /\ inv'[tx[y].inv] = None
           /\ \A j \in Invites : (Outstanding(j)' /\ inv'[j].desk = tx[y].desk)
                                  <=> (Outstanding(j) /\ inv[j].desk = tx[y].desk)
    <3> SUFFICES ASSUME NEW y \in Tx \ {x}, tx[y].op = "create"
                 PROVE  /\ inv'[tx[y].inv] = None
                        /\ \A j \in Invites : (Outstanding(j)' /\ inv'[j].desk = tx[y].desk)
                                               <=> (Outstanding(j) /\ inv[j].desk = tx[y].desk)
      OBVIOUS
    <3>1. tx[y].inv \in Invites /\ inv[tx[y].inv] = None /\ tx[y].revokes = Replaced(y, tx[y].desk)
      BY DEF Inv, Renewing
    <3>2. inv[i].desk # tx[y].desk
      BY <2>1, <3>1 DEF Inv, Claiming, Replaced, i
    <3> QED BY <2>1, <2>3, <2>4, <3>1, <3>2 DEF Outstanding
  <2>6. \A y \in Tx \ {x} : Claimed(y) =>
           inv'[tx[y].inv] # None /\ ~inv'[tx[y].inv].accepted /\ ~inv'[tx[y].inv].revoked
    <3>1. \A y \in Tx \ {x} : Claimed(y) => tx[y].inv \in Invites \ {i} /\ Outstanding(tx[y].inv)
      BY <2>1 DEF Claimed, Inv, Claiming, i
    <3> QED BY <2>3, <3>1 DEF Outstanding
  <2>7. OneLiveLink'
    <3>1. \A j \in Invites : Outstanding(j)' => j # i /\ inv'[j] = inv[j] /\ Outstanding(j)
      BY <2>3, <2>4 DEF Outstanding
    <3> QED BY <3>1 DEF OneLiveLink, Inv
  <2>8. \A j \in Invites : inv[j] # None =>
           inv'[j] # None /\ inv'[j].desk = inv[j].desk /\ inv'[j].role = inv[j].role
    BY <2>3, <2>4
  <2>9. account => account'
    BY <1>2
  <2> QED BY <1>2, <2>5, <2>6, <2>7, <2>8, <2>9, Writes
<1> QED BY <1>1, <1>2 DEF CommitAccept

\* Whoever changes no invitation's desk, role or state, and no transaction.
LEMMA Bystander ==
  ASSUME TypeOK, Inv, tx' = tx, account => account',
         \A j \in Invites : /\ (inv'[j] = None) <=> (inv[j] = None)
                            /\ inv[j] # None => /\ inv'[j].desk = inv[j].desk /\ inv'[j].role = inv[j].role
                                                /\ inv'[j].accepted = inv[j].accepted
                                                /\ inv'[j].revoked = inv[j].revoked
  PROVE  Inv'
<1>1. \A j \in Invites : /\ Outstanding(j)' <=> Outstanding(j)
                         /\ Outstanding(j) => inv'[j].desk = inv[j].desk
  BY DEF Outstanding
<1>2. Working' /\ Accounted'
  BY DEF Inv, Working, Accounted
<1>3. Renewing'
  <2>1. \A y \in Tx : Replaced(y, tx[y].desk) = {j \in Invites : Outstanding(j)' /\ inv'[j].desk = tx[y].desk}
    BY <1>1 DEF Replaced
  <2> QED BY <2>1 DEF Inv, Renewing, Replaced
<1>4. Claiming'
  BY <1>1 DEF Inv, Claiming, Claimed, Outstanding
<1>5. OneLiveLink'
  BY <1>1 DEF Inv, OneLiveLink
<1> QED BY <1>2, <1>3, <1>4, <1>5 DEF Inv

LEMMA InvStep == TypeOK /\ Inv /\ [Next]_vars => Inv'
<1> SUFFICES ASSUME TypeOK, Inv, [Next]_vars PROVE Inv'
  OBVIOUS
<1>1. ASSUME NEW x \in Tx, Mail(x) PROVE Inv'
  BY <1>1, GoesOn DEF Mail
<1>2. ASSUME NEW x \in Tx, ReadAccount(x) PROVE Inv'
  <2>1. tx[x].op = "accept" /\ ((Goto(x, "claim") /\ account) \/ Goto(x, "insert")) /\ UNCHANGED Tables
    BY <1>2 DEF ReadAccount
  <2> QED BY <2>1, GoesOn DEF Tables
<1>3. ASSUME NEW x \in Tx, Abort(x) PROVE Inv'
  BY <1>3, Ends DEF Abort
<1>4. ASSUME NEW i \in Invites, Expire(i) PROVE Inv'
  <2>1. inv[i] \in Invitation /\ [inv[i] EXCEPT !.expired = TRUE] \in Invitation
    BY <1>4 DEF Expire, TypeOK, Invitation
  <2>2. inv'[i] = [inv[i] EXCEPT !.expired = TRUE] /\ \A j \in Invites \ {i} : inv'[j] = inv[j]
    BY <1>4 DEF Expire, TypeOK
  <2>3. /\ inv[i] # None /\ inv'[i] # None /\ inv'[i].desk = inv[i].desk /\ inv'[i].role = inv[i].role
        /\ inv'[i].accepted = inv[i].accepted /\ inv'[i].revoked = inv[i].revoked
    BY <2>1, <2>2, InvitationAssumption DEF Invitation
  <2>4. tx' = tx /\ account' = account
    BY <1>4 DEF Expire
  <2> QED BY <2>2, <2>3, <2>4, Bystander
<1>5. ASSUME NEW d \in Desks, NEW role \in Roles, NEW active \in BOOLEAN,
             CreateByHand(d, role) \/ PatchByHand(d, active, role)
      PROVE  Inv'
  <2>1. inv' = inv /\ tx' = tx /\ (account => account')
    BY <1>5 DEF CreateByHand, PatchByHand
  <2> QED BY <2>1, Bystander
<1>6. CASE UNCHANGED vars
  BY <1>6, Bystander DEF vars
<1> QED
  BY <1>1, <1>2, <1>3, <1>4, <1>5, <1>6, CreateStep, CommitCreateStep, RevokeStep, CommitRevokeStep, AcceptStep,
     InsertAccountStep, ClaimStep, ReadSeatStep, CommitAcceptStep
  DEF Next, Admin, Invitee

-----------------------------------------------------------------------------
(* The theorems. *)

LEMMA Beginning == Init => TypeOK /\ Inv
<1> SUFFICES ASSUME Init PROVE TypeOK /\ Inv
  OBVIOUS
<1>1. TypeOK
  BY IdleTyped DEF Init, TypeOK
<1>2. \A x \in Tx : tx[x] = Idle /\ Idle.op = "idle" /\ Idle.revokes = {} /\ Idle.adds = FALSE
  BY DEF Init, Idle
<1>3. Working /\ Renewing /\ Claiming /\ Accounted
  BY <1>2 DEF Working, Renewing, Claiming, Claimed, Accounted
<1>4. OneLiveLink
  BY DEF Init, OneLiveLink, Outstanding
<1> QED BY <1>1, <1>3, <1>4 DEF Inv

LEMMA Invariance == Spec => [](TypeOK /\ Inv)
<1>1. TypeOK /\ Inv /\ [Next]_vars => (TypeOK /\ Inv)'
  BY TypeStep, InvStep DEF Inv
<1> QED BY <1>1, Beginning, PTL DEF Spec

\* The tables and the transactions keep their types (Invitations.TypeOK).
THEOREM Typed == Spec => []TypeOK
  BY Invariance, PTL

\* Whatever creates, revokes and accepts interleave, a desk has one live link for an
\* address at most (create: "Two live tokens for one seat ...").
THEOREM OneLinkEach == Spec => []OneLiveLink
<1>1. Inv => OneLiveLink
  BY DEF Inv
<1> QED BY <1>1, Invariance, PTL

\* An invitation that is recorded as accepted leaves, in the same commit, an account
\* and an active seat of the invitation's role (accept: all or nothing).
THEOREM NoneBurntInVain == Spec => BurntMeansSeated
<1> DEFINE Burns == \A i \in Invites :
               trail'[i] > trail[i] => /\ account' /\ inv'[i].accepted
                                       /\ member'[inv[i].desk] = [active |-> TRUE, role |-> inv[i].role]
<1>1. TypeOK /\ Inv /\ [Next]_vars => [Burns]_vars
  <2> SUFFICES ASSUME TypeOK, Inv, Next, NEW i \in Invites, trail'[i] > trail[i]
               PROVE  /\ account' /\ inv'[i].accepted
                      /\ member'[inv[i].desk] = [active |-> TRUE, role |-> inv[i].role]
    OBVIOUS
  <2>1. trail' # trail
    BY DEF TypeOK
  <2>2. PICK x \in Tx : CommitAccept(x)
    BY <2>1 DEF Next, Admin, Invitee, Abort, Create, Mail, CommitCreate, Revoke, CommitRevoke, Accept, ReadAccount,
                InsertAccount, Claim, ReadSeat, Expire, CreateByHand, PatchByHand, Tables
  <2>3. /\ member' = [member EXCEPT ![tx[x].desk] = Seated(tx[x].desk, tx[x].role)]
        /\ inv' = [inv EXCEPT ![tx[x].inv].accepted = TRUE]
        /\ trail' = [trail EXCEPT ![tx[x].inv] = @ + 1]
        /\ account' = (account \/ tx[x].adds)
    BY <2>1, <2>2 DEF CommitAccept, Tables
  <2>4. i = tx[x].inv
    BY <2>3 DEF TypeOK
  <2> QED BY <2>2, <2>3, <2>4, AcceptKnows DEF Seated, TypeOK, Invitation
<1> QED BY <1>1, Invariance, PTL DEF Spec, BurntMeansSeated

-----------------------------------------------------------------------------
(* The refinement: what the committed tables promise. *)

life == [i \in Invites |-> Life(i)]
desk == [i \in Invites |-> IF inv[i] = None THEN None ELSE inv[i].desk]
seat == {d \in Desks : Active(d)}

\* A step that touches neither an invitation's desk and state nor a seat.
LEMMA Unpromised ==
  ASSUME member' = member,
         \A j \in Invites : /\ (inv'[j] = None) <=> (inv[j] = None)
                            /\ inv[j] # None => /\ inv'[j].desk = inv[j].desk
                                                /\ inv'[j].accepted = inv[j].accepted
                                                /\ inv'[j].revoked = inv[j].revoked
  PROVE  UNCHANGED <<life, desk, seat>>
  BY DEF life, desk, seat, Life, Active

LEMMA OffersOne ==
  ASSUME TypeOK, Inv, NEW x \in Tx, CommitCreate(x)
  PROVE  Promise!Next
<1>0. tx[x].inv \in Invites /\ tx[x].desk \in Desks
  BY DEF CommitCreate, Inv, Renewing
<1> PICK i \in Invites, d \in Desks : i = tx[x].inv /\ d = tx[x].desk
  BY <1>0
<1>1. i \in Invites /\ d \in Desks /\ inv[i] = None /\ tx[x].role \in Roles
      /\ \A j \in Invites : j \in tx[x].revokes <=> Outstanding(j) /\ inv[j].desk = d
  BY DEF CommitCreate, Inv, Renewing, Replaced
<1>2. /\ inv'[i] = [desk |-> d, role |-> tx[x].role, accepted |-> FALSE, revoked |-> FALSE, expired |-> FALSE]
      /\ inv'[i] \in Invitation
      /\ \A j \in Invites \ {i} : inv'[j] = IF j \in tx[x].revokes THEN [inv[j] EXCEPT !.revoked = TRUE] ELSE inv[j]
      /\ member' = member
  BY <1>1 DEF CommitCreate, Invitation
<1>3. /\ life'[i] = "pending" /\ desk'[i] = d
  BY <1>1, <1>2, InvitationAssumption DEF life, desk, Life
<1>4. \A j \in Invites \ {i} :
         /\ desk'[j] = desk[j]
         /\ life'[j] = IF desk[j] = d /\ life[j] = "pending" THEN "revoked" ELSE life[j]
  <2> SUFFICES ASSUME NEW j \in Invites \ {i}
               PROVE  /\ desk'[j] = desk[j]
                      /\ life'[j] = IF desk[j] = d /\ life[j] = "pending" THEN "revoked" ELSE life[j]
    OBVIOUS
  <2>1. CASE j \in tx[x].revokes
    <3>1. inv[j] \in Invitation /\ [inv[j] EXCEPT !.revoked = TRUE] \in Invitation /\ Outstanding(j) /\ inv[j].desk = d
      <4>1. Outstanding(j) /\ inv[j].desk = d
        BY <1>1, <2>1
      <4>2. inv[j] \in Invitation
        BY <4>1 DEF Outstanding, TypeOK
      <4> QED BY <4>1, <4>2 DEF Invitation
    <3>2. inv'[j] # None /\ inv'[j].desk = d /\ ~inv'[j].accepted /\ inv'[j].revoked
      BY <1>2, <2>1, <3>1, InvitationAssumption DEF Outstanding, Invitation
    <3> QED BY <3>1, <3>2 DEF life, desk, Life, Outstanding
  <2>2. CASE j \notin tx[x].revokes
    <3>1. inv'[j] = inv[j] /\ ~(Outstanding(j) /\ inv[j].desk = d)
      BY <1>1, <1>2, <2>2
    <3>2. d # None
      BY <1>1, InvitationAssumption
    <3> QED BY <3>1, <3>2 DEF life, desk, Life, Outstanding
  <2> QED BY <2>1, <2>2
<1>5. life[i] = "none" /\ seat' = seat
  BY <1>1, <1>2 DEF life, Life, seat, Active
<1>6. life' = [j \in Invites |-> IF j = i THEN "pending"
                                 ELSE IF desk[j] = d /\ life[j] = "pending" THEN "revoked" ELSE life[j]]
  BY <1>3, <1>4 DEF life
<1>7. desk' = [desk EXCEPT ![i] = d]
  BY <1>1, <1>3, <1>4 DEF desk
<1>8. Promise!Offer(i, d)
  BY <1>5, <1>6, <1>7 DEF Promise!Offer, life, desk, seat
<1> QED BY <1>8 DEF Promise!Next

LEMMA Withdraws ==
  ASSUME TypeOK, Inv, NEW x \in Tx, CommitRevoke(x)
  PROVE  Promise!Next \/ UNCHANGED <<life, desk, seat>>
<1> DEFINE i == tx[x].inv
<1>1. i \in Invites /\ member' = member
  BY DEF CommitRevoke, Inv, Claiming
<1>2. CASE ~Outstanding(i)
  BY <1>1, <1>2, Unpromised DEF CommitRevoke, StillOutstanding
<1>3. CASE Outstanding(i)
  <2>1. inv[i] \in Invitation /\ [inv[i] EXCEPT !.revoked = TRUE] \in Invitation
    BY <1>1, <1>3 DEF Outstanding, TypeOK, Invitation
  <2>2. inv'[i] = [inv[i] EXCEPT !.revoked = TRUE] /\ \A j \in Invites \ {i} : inv'[j] = inv[j]
    BY <1>1, <1>3 DEF CommitRevoke, StillOutstanding, TypeOK
  <2>3. inv'[i] # None /\ inv'[i].desk = inv[i].desk /\ inv'[i].revoked /\ ~inv'[i].accepted
    BY <1>3, <2>1, <2>2, InvitationAssumption DEF Outstanding, Invitation
  <2> HIDE DEF i
  <2>4. life[i] = "pending" /\ life' = [life EXCEPT ![i] = "revoked"]
    BY <1>1, <1>3, <2>2, <2>3 DEF life, Life, Outstanding
  <2>5. desk' = desk /\ seat' = seat
    BY <1>1, <1>3, <2>2, <2>3 DEF desk, seat, Active, Outstanding
  <2>6. Promise!Withdraw(i)
    BY <2>4, <2>5 DEF Promise!Withdraw, life, desk, seat
  <2> QED BY <1>1, <2>6 DEF Promise!Next
<1> QED BY <1>2, <1>3

LEMMA Takes ==
  ASSUME TypeOK, Inv, NEW x \in Tx, CommitAccept(x)
  PROVE  Promise!Next \/ UNCHANGED <<life, desk, seat>>
<1> DEFINE i == tx[x].inv
           d == tx[x].desk
<1>1. /\ i \in Invites /\ Outstanding(i) /\ inv[i] \in Invitation /\ d = inv[i].desk /\ d \in Desks
      /\ tx[x].role = inv[i].role
  BY AcceptKnows
<1>2. CASE UNCHANGED Tables
  BY <1>2, Unpromised DEF Tables
<1>3. CASE /\ inv' = [inv EXCEPT ![i].accepted = TRUE]
           /\ member' = [member EXCEPT ![d] = Seated(d, tx[x].role)]
  <2>1. [inv[i] EXCEPT !.accepted = TRUE] \in Invitation /\ Seated(d, tx[x].role) \in Membership
    BY <1>1 DEF Invitation, Seated, Membership
  <2>2. /\ inv'[i] = [inv[i] EXCEPT !.accepted = TRUE] /\ \A j \in Invites \ {i} : inv'[j] = inv[j]
        /\ member'[d] = Seated(d, tx[x].role) /\ \A e \in Desks \ {d} : member'[e] = member[e]
    <3> HIDE DEF i, d
    <3> QED BY <1>1, <1>3 DEF TypeOK
  <2>3. inv'[i] # None /\ inv'[i].desk = inv[i].desk /\ inv'[i].accepted
    BY <1>1, <2>1, <2>2, InvitationAssumption DEF Invitation
  <2>4. member'[d] # None /\ member'[d].active
    <3>1. member'[d] \in Membership /\ member'[d].active
      BY <2>1, <2>2 DEF Seated
    <3> QED BY <3>1, InvitationAssumption
  <2> HIDE DEF i, d
  <2>5. life[i] = "pending" /\ life' = [life EXCEPT ![i] = "accepted"]
    BY <1>1, <2>2, <2>3 DEF life, Life, Outstanding
  <2>6. desk' = desk /\ desk[i] = d
    BY <1>1, <2>2, <2>3 DEF desk, Outstanding
  <2>7. seat' = seat \cup {d}
    BY <1>1, <2>2, <2>4 DEF seat, Active
  <2>8. Promise!Take(i)
    BY <2>5, <2>6, <2>7 DEF Promise!Take, life, desk, seat
  <2> QED BY <1>1, <2>8 DEF Promise!Next
<1> QED BY <1>2, <1>3 DEF CommitAccept

\* Every commit, of invitations and of staff, is a step of Seats or none at all.
LEMMA PromiseStep ==
  TypeOK /\ Inv /\ [Next]_vars => [Promise!Next]_Promise!vars
<1> SUFFICES ASSUME TypeOK, Inv, [Next]_vars PROVE Promise!Next \/ UNCHANGED <<life, desk, seat>>
  BY DEF Promise!vars, life, desk, seat
<1>1. ASSUME inv' = inv, member' = member PROVE UNCHANGED <<life, desk, seat>>
  BY <1>1, Unpromised
<1>2. ASSUME NEW i \in Invites, Expire(i) PROVE UNCHANGED <<life, desk, seat>>
  <2>1. inv[i] \in Invitation /\ [inv[i] EXCEPT !.expired = TRUE] \in Invitation
    BY <1>2 DEF Expire, TypeOK, Invitation
  <2>2. inv'[i] = [inv[i] EXCEPT !.expired = TRUE] /\ \A j \in Invites \ {i} : inv'[j] = inv[j]
    BY <1>2 DEF Expire, TypeOK
  <2>3. /\ inv[i] # None /\ inv'[i] # None /\ inv'[i].desk = inv[i].desk
        /\ inv'[i].accepted = inv[i].accepted /\ inv'[i].revoked = inv[i].revoked
    BY <2>1, <2>2, InvitationAssumption DEF Invitation
  <2>4. member' = member
    BY <1>2 DEF Expire
  <2> QED BY <2>2, <2>3, <2>4, Unpromised
<1>3. ASSUME NEW d \in Desks, NEW role \in Roles, NEW active \in BOOLEAN,
             CreateByHand(d, role) \/ PatchByHand(d, active, role)
      PROVE  Promise!Next
  <2>1. inv' = inv
    BY <1>3 DEF CreateByHand, PatchByHand
  <2>2. life' = life /\ desk' = desk /\ seat' \in SUBSET Desks
    BY <2>1 DEF life, desk, seat, Life
  <2>3. Promise!Staff
    BY <2>2 DEF Promise!Staff, life, desk, seat
  <2> QED BY <2>3 DEF Promise!Next
<1> QED
  BY <1>1, <1>2, <1>3, OffersOne, Withdraws, Takes
  DEF Next, Admin, Invitee, Abort, Create, Mail, Revoke, Accept, ReadAccount, InsertAccount, Claim, ReadSeat, Tables, vars

\* Statement by statement, with others in between, invitations keep the promise of
\* module Seats: offered, then taken once with a seat, or withdrawn
\* (invitations.service).
THEOREM PromiseKept == Spec => KeepsPromise
<1>1. Init => Promise!Init
  <2> SUFFICES ASSUME Init PROVE Promise!Init
    OBVIOUS
  <2>1. \A i \in Invites : inv[i] = None
    BY DEF Init
  <2> QED BY <2>1 DEF Promise!Init, Life
<1> QED BY <1>1, PromiseStep, Invariance, PTL DEF Spec, KeepsPromise, Promise!Spec
=============================================================================
