--------------------------- MODULE AdminFloor ---------------------------
(***************************************************************************)
(* The last-administrator guard of one desk (users.module).  A request     *)
(* that could cost the desk an administrator - a role other than admin, or *)
(* isActive false; DELETE /users/:id is the latter - first runs            *)
(*                                                                         *)
(*   SELECT ... WHERE role = 'admin' AND both rows active                  *)
(*     ORDER BY user_id FOR UPDATE OF m, u                                 *)
(*                                                                         *)
(* and goes on only if another administrator is locked, or the target is   *)
(* not one.  Under READ COMMITTED that statement is many steps.  It takes  *)
(* a snapshot (StartScan).  Then, in user_id order, it locks each row the  *)
(* snapshot matched, waiting for another transaction's lock, and drops the *)
(* row if its committed version no longer matches (LockRow); the lock      *)
(* stays.  A row that came to match after the snapshot is never seen.      *)
(* The UPDATE and the commit that releases every lock are one step.        *)
(*                                                                         *)
(* Names, teams and availability are left out, and so are the users rows,  *)
(* locked together with their memberships: no code clears users.isActive.  *)
(***************************************************************************)
EXTENDS Naturals

CONSTANTS
  Users,     \* the members of the desk; their ids order the locks
  Disabled,  \* those whose account cannot sign in (users.is_active = false)
  Tx,        \* request transactions that may be in flight at once
  Null       \* null

ASSUME AdminAssumption ==
  /\ Users \subseteq Nat
  /\ Disabled \subseteq Users
  /\ Null \notin Tx /\ Null \notin Users
  /\ Null \notin {"admin", "agent", TRUE, FALSE}

VARIABLES
  role,    \* workspace_memberships.role; a lead is as an agent here
  active,  \* workspace_memberships.is_active
  lock,    \* the transaction holding the row's lock
  tx       \* each transaction's progress

floorVars == <<role, active, lock, tx>>

Role == {"admin", "agent"}

\* What PATCH /users/:id may set.
Dto == [role : Role \cup {Null}, active : BOOLEAN \cup {Null}]

Admins == {u \in Users : role[u] = "admin" /\ active[u] /\ u \notin Disabled}

\* The requests that could cost the desk an administrator.
Guarded(dto) == (dto.role # Null /\ dto.role # "admin") \/ dto.active = FALSE

Progress == [pc : {"idle", "scanning", "ready"}, target : Users \cup {Null}, dto : Dto,
             scan : SUBSET Users, seen : SUBSET Users]

Idle == [pc |-> "idle", target |-> Null, dto |-> [role |-> Null, active |-> Null],
         scan |-> {}, seen |-> {}]

FloorTypeOK == /\ role \in [Users -> Role]
          /\ active \in [Users -> BOOLEAN]
          /\ lock \in [Users -> Tx \cup {Null}]
          /\ tx \in [Tx -> Progress]

FloorInit == /\ role \in [Users -> Role]
        /\ active \in [Users -> BOOLEAN]
        /\ Admins # {}
        /\ lock = [u \in Users |-> Null]
        /\ tx = [x \in Tx |-> Idle]

-----------------------------------------------------------------------------
CanLock(x, u) == lock[u] \in {Null, x}

Finish(x) == /\ lock' = [u \in Users |-> IF lock[u] = x THEN Null ELSE lock[u]]
             /\ tx' = [tx EXCEPT ![x] = Idle]

\* The snapshot of assertAdminRemains: the rows its WHERE matches now.
StartScan(x, t, dto) ==
  /\ tx[x].pc = "idle" /\ Guarded(dto)
  /\ tx' = [tx EXCEPT ![x] = [pc |-> "scanning", target |-> t, dto |-> dto,
                              scan |-> Admins, seen |-> {}]]
  /\ UNCHANGED <<role, active, lock>>

\* ORDER BY m.user_id
NextRow(u, scan) == u \in scan /\ \A v \in scan : u <= v

CountedAsRead(seen, u) == seen \cup {u}  \* mutant: the snapshot is believed

\* READ COMMITTED re-evaluates the WHERE clause once the lock is granted.
Counted(seen, u) == IF u \in Admins THEN seen \cup {u} ELSE seen

Taken(p, u) == [p EXCEPT !.scan = @ \ {u}, !.seen = Counted(@, u)]

LockRow(x, u) ==
  /\ tx[x].pc = "scanning" /\ NextRow(u, tx[x].scan) /\ CanLock(x, u)
  /\ lock' = [lock EXCEPT ![u] = x]
  /\ tx' = [tx EXCEPT ![x] = Taken(tx[x], u)]
  /\ UNCHANGED <<role, active>>

\* mutant: the floor is two
TwoOthersRemain(seen, t) == \E u, v \in seen : u # v /\ t \notin {u, v}

AnotherRemains(seen, t) == \E u \in seen : u # t

Passes(seen, t) == AnotherRemains(seen, t) \/ t \notin seen

Pass(x) ==
  /\ tx[x].pc = "scanning" /\ tx[x].scan = {}
  /\ Passes(tx[x].seen, tx[x].target)
  /\ tx' = [tx EXCEPT ![x].pc = "ready"]
  /\ UNCHANGED <<role, active, lock>>

\* 409: the last active administrator of this workspace.
Refuse(x) ==
  /\ tx[x].pc = "scanning" /\ tx[x].scan = {}
  /\ ~Passes(tx[x].seen, tx[x].target)
  /\ Finish(x)
  /\ UNCHANGED <<role, active>>

Updated(old, new) == IF new = Null THEN old ELSE new

\* The UPDATE by (workspace, user) waits for the row's lock, then overwrites.
Commit(x) ==
  LET t == tx[x].target
      dto == tx[x].dto
  IN  /\ tx[x].pc = "ready" /\ CanLock(x, t)
      /\ role' = [role EXCEPT ![t] = Updated(@, dto.role)]
      /\ active' = [active EXCEPT ![t] = Updated(@, dto.active)]
      /\ Finish(x)

\* A timeout, an error, or the victim of the database's deadlock detector.
Abort(x) == tx[x].pc # "idle" /\ Finish(x) /\ UNCHANGED <<role, active>>

\* Every other PATCH may only add an administrator and is not guarded.
StartGrant(x, t, dto) ==
  /\ tx[x].pc = "idle" /\ ~Guarded(dto)
  /\ tx' = [tx EXCEPT ![x] = [Idle EXCEPT !.pc = "ready", !.target = t, !.dto = dto]]
  /\ UNCHANGED <<role, active, lock>>

Offboard(x) ==
  \/ \E t \in Users, dto \in Dto : StartScan(x, t, dto)
  \/ \E u \in Users : LockRow(x, u)
  \/ Pass(x) \/ Refuse(x) \/ Commit(x) \/ Abort(x)

Grant(x) == \E t \in Users, dto \in Dto : StartGrant(x, t, dto)

\* Any number of guarded requests at once.
FloorNext == \E x \in Tx : Offboard(x)
FloorSpec == FloorInit /\ [][FloorNext]_floorVars

\* The same among requests that promote or bring somebody back.
GrantNext == \E x \in Tx : Offboard(x) \/ Grant(x)
GrantSpec == FloorInit /\ [][GrantNext]_floorVars

-----------------------------------------------------------------------------
\* "Refuse anything that would leave this desk with no administrator"
\* (assertAdminRemains): there is no in-product way back from that state.
AdminRemains == Admins # {}

\* The guard refuses nothing it need not: when a request is turned away, its
\* target really is the only administrator left at that moment.
RefusalIsJust ==
  [][\A x \in Tx :
       tx[x].pc = "scanning" /\ tx[x].scan = {} /\ tx'[x].pc = "idle"
       /\ ~Passes(tx[x].seen, tx[x].target) => Admins = {tx[x].target}]_floorVars

=============================================================================
