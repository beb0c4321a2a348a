--------------------------- MODULE Invitations ---------------------------
(***************************************************************************)
(* Invitations of one address to several desks (invitations.service).      *)
(*                                                                         *)
(* An admin's create and revoke run in the request's transaction; accept   *)
(* is public and opens its own.  Each is several statements under READ     *)
(* COMMITTED, so each is several steps here, and what a transaction has    *)
(* written but not committed is in tx: it is seen by nobody, and a writer  *)
(* of the same row or unique key waits for it.  accept reads the account,  *)
(* inserts one if there is none, claims the invitation by a conditional    *)
(* UPDATE, reads the membership, and writes the one it found or inserts    *)
(* it.  The mail leaves before create commits.                             *)
(*                                                                         *)
(* Left out: teams, tokens and passwords (whoever has the mail has the     *)
(* token), disabled accounts and suspended desks, neither of which the     *)
(* product can make, and the session issued after the commit.              *)
(***************************************************************************)
EXTENDS Naturals, FiniteSets

CONSTANTS
  Desks,      \* workspaces
  Invites,    \* invitation rows that may be created
  Tx,         \* transactions that may be in flight at once
  Roles,      \* roles an invitation or an admin may give
  StaffOps,   \* what admins do by hand: "create" and "patch" memberships
  None        \* null

Membership == [active : BOOLEAN, role : Roles]

Invitation == [desk : Desks, role : Roles, accepted : BOOLEAN, revoked : BOOLEAN,
               expired : BOOLEAN]

ASSUME InvitationAssumption ==
  /\ None \notin Desks \cup Invites \cup Tx \cup Roles \cup Membership \cup Invitation
  /\ StaffOps \subseteq {"create", "patch"}

VARIABLES
  account,   \* is there a users row for the address
  member,    \* workspace_memberships of the address, by desk
  inv,       \* the invitations table
  mailed,    \* the invitations whose mail was sent
  trail,     \* audit_log: how often each invitation was recorded as accepted
  tx         \* the transactions in flight

vars == <<account, member, inv, mailed, trail, tx>>

Idle == [op |-> "idle", pc |-> "idle", inv |-> None, desk |-> None, role |-> None,
         adds |-> FALSE, found |-> None, revokes |-> {}]

\* adds: this transaction inserts the account; found: the membership it read.
Progress == [op : {"idle", "create", "revoke", "accept"},
             pc : {"idle", "opened", "insert", "claim", "seat", "write", "mail", "commit", "crashed"},
             inv : Invites \cup {None}, desk : Desks \cup {None}, role : Roles \cup {None},
             adds : BOOLEAN, found : Membership \cup {None}, revokes : SUBSET Invites]

TypeOK == /\ account \in BOOLEAN
          /\ member \in [Desks -> Membership \cup {None}]
          /\ inv \in [Invites -> Invitation \cup {None}]
          /\ mailed \subseteq Invites
          /\ trail \in [Invites -> Nat]
          /\ tx \in [Tx -> Progress]

Init == /\ account = FALSE
        /\ member = [d \in Desks |-> None]
        /\ inv = [i \in Invites |-> None]
        /\ mailed = {}
        /\ trail = [i \in Invites |-> 0]
        /\ tx = [x \in Tx |-> Idle]

-----------------------------------------------------------------------------
Active(d) == member[d] # None /\ member[d].active

Outstanding(i) == inv[i] # None /\ ~inv[i].accepted /\ ~inv[i].revoked

\* invitationState = 'valid'
Valid(i) == Outstanding(i) /\ ~inv[i].expired

\* What another transaction has written and not committed.
RowLocked(x, i) ==
  \E y \in Tx \ {x} : \/ tx[y].op = "accept" /\ tx[y].inv = i /\ tx[y].pc \in {"seat", "write"}
                      \/ i \in tx[y].revokes
AddsAccount(x) == tx[x].adds /\ tx[x].pc \in {"claim", "seat", "write"}
AccountLocked(x) == \E y \in Tx \ {x} : AddsAccount(y)
Creating(x, d) == \E y \in Tx \ {x} : tx[y].op = "create" /\ tx[y].desk = d

Goto(x, pc) == tx' = [tx EXCEPT ![x].pc = pc]
Finish(x) == tx' = [tx EXCEPT ![x] = Idle]
Tables == <<account, member, inv, mailed, trail>>

Abort(x) == tx[x].pc # "idle" /\ Finish(x) /\ UNCHANGED Tables

-----------------------------------------------------------------------------
(* create: revoke what is outstanding, insert, send the mail, commit.  Two  *)
(* admins inviting at once collide on invitations_pending_email_key: the    *)
(* second waits for the first and then fails, which leaves no trace here.   *)

ReplacesNothing(x, d) == {}                                    \* mutant

Replaced(x, d) == {j \in Invites : Outstanding(j) /\ inv[j].desk = d}

Create(x, i, d, role) ==
  /\ tx[x] = Idle /\ inv[i] = None /\ i \notin mailed
  /\ \A y \in Tx : tx[y].inv # i
  /\ ~(account /\ Active(d))
  /\ ~Creating(x, d) /\ \A j \in Replaced(x, d) : ~RowLocked(x, j)
  /\ tx' = [tx EXCEPT ![x] = [Idle EXCEPT !.op = "create", !.pc = "mail", !.inv = i, !.desk = d,
                                          !.role = role, !.revokes = Replaced(x, d)]]
  /\ UNCHANGED Tables

Sends(x) == mailed' = mailed \cup {tx[x].inv}

\* Refused by the mail server, the request fails and Abort undoes it.
Mail(x) ==
  /\ tx[x].op = "create" /\ tx[x].pc = "mail"
  /\ Sends(x)
  /\ Goto(x, "commit")
  /\ UNCHANGED <<account, member, inv, trail>>

CommitCreate(x) ==
  /\ tx[x].op = "create" /\ tx[x].pc = "commit"
  /\ inv' = [j \in Invites |->
               IF j = tx[x].inv
               THEN [desk |-> tx[x].desk, role |-> tx[x].role, accepted |-> FALSE,
                     revoked |-> FALSE, expired |-> FALSE]
               ELSE IF j \in tx[x].revokes THEN [inv[j] EXCEPT !.revoked = TRUE] ELSE inv[j]]
  /\ Finish(x)
  /\ UNCHANGED <<account, member, mailed, trail>>

(* revoke: read, refuse or return if it is settled, then a conditional UPDATE. *)

Revoke(x, i) ==
  /\ tx[x] = Idle /\ Outstanding(i)
  /\ tx' = [tx EXCEPT ![x] = [Idle EXCEPT !.op = "revoke", !.pc = "opened", !.inv = i]]
  /\ UNCHANGED Tables

StillOutstanding(i) == Outstanding(i)

CommitRevoke(x) ==
  LET i == tx[x].inv IN
  /\ tx[x].op = "revoke" /\ ~RowLocked(x, i)
  /\ inv' = IF StillOutstanding(i) THEN [inv EXCEPT ![i].revoked = TRUE] ELSE inv
  /\ Finish(x)
  /\ UNCHANGED <<account, member, mailed, trail>>

-----------------------------------------------------------------------------
(* accept *)

\* Resolve the token, check the state, and open the transaction.
Accept(x, i) ==
  /\ tx[x] = Idle /\ i \in mailed /\ Valid(i)
  /\ tx' = [tx EXCEPT ![x] = [Idle EXCEPT !.op = "accept", !.pc = "opened", !.inv = i,
                                          !.desk = inv[i].desk, !.role = inv[i].role]]
  /\ UNCHANGED Tables

\* 1. The account, re-read inside the transaction.
ReadAccount(x) ==
  /\ tx[x].op = "accept" /\ tx[x].pc = "opened"
  /\ Goto(x, IF account THEN "claim" ELSE "insert")
  /\ UNCHANGED Tables

\* The INSERT waits for another one of the same address, and fails on
\* users_email_key if that committed.
InsertAccount(x) ==
  /\ tx[x].pc = "insert" /\ ~AccountLocked(x)
  /\ tx' = [tx EXCEPT ![x].pc = IF account THEN "crashed" ELSE "claim",
                      ![x].adds = ~account]
  /\ UNCHANGED Tables

ClaimsAsRead(i) == TRUE  \* mutant: the read was taken for the claim

Claimable(i) == Outstanding(i)

\* 2, 3. Bind, and claim: a conditional UPDATE that waits for the row's lock.
Claim(x) ==
  /\ tx[x].pc = "claim" /\ ~RowLocked(x, tx[x].inv)
  /\ IF Claimable(tx[x].inv) THEN Goto(x, "seat") ELSE Finish(x)
  /\ UNCHANGED Tables

\* 4. The membership, read without a lock.  Already seated: 409.
ReadSeat(x) ==
  /\ tx[x].pc = "seat"
  /\ IF Active(tx[x].desk) THEN Finish(x)
     ELSE tx' = [tx EXCEPT ![x].pc = "write", ![x].found = member[tx[x].desk]]
  /\ UNCHANGED Tables

ForgetsInactive(d, role) ==  \* mutant: an offboarded member stays inactive
  IF member[d] = None THEN [active |-> TRUE, role |-> role] ELSE [member[d] EXCEPT !.role = role]

Seated(d, role) == [active |-> TRUE, role |-> role]

\* Write what was found or insert, record it, and commit.  An INSERT over a
\* membership made in between fails on its unique key.
CommitAccept(x) ==
  LET i == tx[x].inv
      d == tx[x].desk
  IN  /\ tx[x].pc = "write"
      /\ IF tx[x].found = None /\ member[d] # None
         THEN Goto(x, "crashed") /\ UNCHANGED Tables
         ELSE /\ member' = [member EXCEPT ![d] = Seated(d, tx[x].role)]
              /\ inv' = [inv EXCEPT ![i].accepted = TRUE]
              /\ trail' = [trail EXCEPT ![i] = @ + 1]
              /\ account' = (account \/ tx[x].adds)
              /\ Finish(x)
              /\ UNCHANGED mailed

-----------------------------------------------------------------------------
(* Meanwhile. *)

Expire(i) ==
  /\ inv[i] # None /\ ~inv[i].expired
  /\ inv' = [inv EXCEPT ![i].expired = TRUE]
  /\ UNCHANGED <<account, member, mailed, trail, tx>>

\* users.module create: a new account with its first membership.
CreateByHand(d, role) ==
  /\ "create" \in StaffOps /\ ~account /\ \A x \in Tx : ~AddsAccount(x)
  /\ account' = TRUE
  /\ member' = [member EXCEPT ![d] = [active |-> TRUE, role |-> role]]
  /\ UNCHANGED <<inv, mailed, trail, tx>>

\* users.module update and deactivate: a role, or in or out.
PatchByHand(d, active, role) ==
  /\ "patch" \in StaffOps /\ member[d] # None
  /\ member' = [member EXCEPT ![d] = [active |-> active, role |-> role]]
  /\ UNCHANGED <<account, inv, mailed, trail, tx>>

Admin(x) ==
  \/ \E i \in Invites, d \in Desks, role \in Roles : Create(x, i, d, role)
  \/ Mail(x) \/ CommitCreate(x)
  \/ \E i \in Invites : Revoke(x, i)
  \/ CommitRevoke(x)

Invitee(x) ==
  \/ \E i \in Invites : Accept(x, i)
  \/ ReadAccount(x) \/ InsertAccount(x) \/ Claim(x) \/ ReadSeat(x) \/ CommitAccept(x)

Next ==
  \/ \E x \in Tx : Admin(x) \/ Invitee(x) \/ Abort(x)
  \/ \E i \in Invites : Expire(i)
  \/ \E d \in Desks, role \in Roles :
        CreateByHand(d, role) \/ \E active \in BOOLEAN : PatchByHand(d, active, role)

Spec == Init /\ [][Next]_vars

-----------------------------------------------------------------------------
\* "Two live tokens for one seat means revoking the one you can see leaves the
\* other working": a desk has one outstanding invitation at most.
OneLiveLink ==
  \A i, j \in Invites : Outstanding(i) /\ Outstanding(j) /\ inv[i].desk = inv[j].desk => i = j

\* "All or nothing": an invitation is burnt only with an account and a seat.
BurntMeansSeated ==
  [][\A i \in Invites :
       trail'[i] > trail[i] => /\ account' /\ inv'[i].accepted
                               /\ member'[inv[i].desk] = [active |-> TRUE, role |-> inv[i].role]]_vars

\* The promise of module Seats.
Life(i) == IF inv[i] = None THEN "none" ELSE IF inv[i].accepted THEN "accepted"
           ELSE IF inv[i].revoked THEN "revoked" ELSE "pending"

Promise == INSTANCE Seats WITH
  life <- [i \in Invites |-> Life(i)],
  desk <- [i \in Invites |-> IF inv[i] = None THEN None ELSE inv[i].desk],
  seat <- {d \in Desks : Active(d)}

KeepsPromise == Promise!Spec

==========================================================================
