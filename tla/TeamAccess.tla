----------------------------- MODULE TeamAccess -----------------------------
(***************************************************************************)
(* The assignment of people to the workspace (src/lib/auth): one           *)
(* auth.team_access row per email, the Better Auth identity bound to it at *)
(* the first sign-in, its sessions, and what Admins change about all that. *)
(*                                                                         *)
(* Grain: a lock.  changeTeamRole and setTeamAccessSuspended take the      *)
(* table lock, then the row, count and write; a sign-in takes the row and  *)
(* then needs the table to write.  The two may therefore wait for each     *)
(* other, and PostgreSQL aborts one of them.  Of the roles two are told    *)
(* apart: admin, and one that may not manage the team.                     *)
(***************************************************************************)
EXTENDS Integers, FiniteSets

CONSTANTS
  Members,  \* corporate emails
  Free      \* model value: nobody holds the lock

ASSUME FreeAssumption == Free \notin Members

Roles == {"admin", "user"}

VARIABLES
  access,     \* auth.team_access: status, role, is it bound to an identity
  identity,   \* auth.user: the members whose identity exists
  sessions,   \* auth.session: the members with one
  operation,  \* per Admin: the transaction its request runs
  tableLock,  \* who holds SHARE ROW EXCLUSIVE on auth.team_access
  rowLock     \* per row: TRUE while a sign-in holds it FOR UPDATE

teamVars == <<access, identity, sessions, operation, tableLock, rowLock>>

NoOperation == [step |-> "idle", kind |-> "none", target |-> Free]

TeamInit ==
  /\ access = [m \in Members |-> [status |-> "none", role |-> "user", bound |-> FALSE]]
  /\ identity = {} /\ sessions = {}
  /\ operation = [m \in Members |-> NoOperation]
  /\ tableLock = Free
  /\ rowLock = [m \in Members |-> FALSE]

ActiveAdmins == {m \in Members : access[m].status = "active" /\ access[m].role = "admin"}

\* permissions.ts: team.manage is the Admins'; getAuthState reads the assignment each time.
MayManageTeam(m) == m \in sessions /\ m \in ActiveAdmins /\ access[m].bound

-----------------------------------------------------------------------------
(* Signing in.                                                              *)

\* databaseHooks.user.create.before; Better Auth then inserts the user.
CreateIdentity(m) ==
  /\ access[m].status = "pending" /\ m \notin identity
  /\ identity' = identity \cup {m}
  /\ UNCHANGED <<access, sessions, operation, tableLock, rowLock>>

\* activateTeamAccessForIdentity, from the account hook or from that of a session.
LockAssignment(m) ==
  /\ m \in identity /\ access[m].status # "none" /\ ~rowLock[m]
  /\ rowLock' = [rowLock EXCEPT ![m] = TRUE]
  /\ UNCHANGED <<access, identity, sessions, operation, tableLock>>

LeaveAssignment(m) ==
  /\ rowLock' = [rowLock EXCEPT ![m] = FALSE]
  /\ UNCHANGED <<identity, sessions, operation, tableLock>>

ActivateTeamAccess(m) ==
  /\ rowLock[m] /\ access[m].status # "suspended"
  /\ access[m].status = "active" \/ tableLock = Free
  /\ access' = [access EXCEPT ![m].status = "active", ![m].bound = TRUE]
  /\ LeaveAssignment(m)

\* The Admin holds the table and waits for the row, the sign-in the other way round.
Deadlocked(admin, m) ==
  /\ operation[admin].step = "locked" /\ operation[admin].target = m
  /\ rowLock[m] /\ access[m].status = "pending"

RefuseActivation(m) ==
  /\ rowLock[m]
  /\ access[m].status = "suspended" \/ \E admin \in Members : Deadlocked(admin, m)
  /\ UNCHANGED access
  /\ LeaveAssignment(m)

\* databaseHooks.session.create.before; reading the row waits for nobody.
StartSession(m) ==
  /\ access[m].status = "active" /\ access[m].bound
  /\ sessions' = sessions \cup {m}
  /\ UNCHANGED <<access, identity, operation, tableLock, rowLock>>

-----------------------------------------------------------------------------
(* Managing the team.                                                       *)

AddTeamMember(admin, m, role) ==
  /\ MayManageTeam(admin)
  /\ access[m].status = "none" /\ tableLock = Free
  /\ access' = [access EXCEPT ![m] = [status |-> "pending", role |-> role, bound |-> FALSE]]
  /\ UNCHANGED <<identity, sessions, operation, tableLock, rowLock>>

RequestChange(admin, kind, m) ==
  /\ MayManageTeam(admin) /\ operation[admin].step = "idle"
  /\ access[m].status # "none"
  /\ operation' = [operation EXCEPT ![admin] = [step |-> "asked", kind |-> kind, target |-> m]]
  /\ UNCHANGED <<access, identity, sessions, tableLock, rowLock>>

\* Mutant: the table lock is one that does not exclude itself.
LockTableShared(admin) ==
  /\ operation[admin].step = "asked"
  /\ tableLock' = admin
  /\ operation' = [operation EXCEPT ![admin].step = "locked"]
  /\ UNCHANGED <<access, identity, sessions, rowLock>>

LockTable(admin) ==
  /\ operation[admin].step = "asked" /\ tableLock = Free
  /\ tableLock' = admin
  /\ operation' = [operation EXCEPT ![admin].step = "locked"]
  /\ UNCHANGED <<access, identity, sessions, rowLock>>

Demotes(kind) == kind \in {"suspend", "user"}

\* lockAccessRecord's row, and assertNotFinalActiveAdmin's count.
AssertNotFinalActiveAdmin(admin) ==
  LET op == operation[admin] IN
  /\ op.step = "locked" /\ ~rowLock[op.target]
  /\ Demotes(op.kind) /\ op.target \in ActiveAdmins => Cardinality(ActiveAdmins) > 1
  /\ operation' = [operation EXCEPT ![admin].step = "checked"]
  /\ UNCHANGED <<access, identity, sessions, tableLock, rowLock>>

\* FINAL_ADMIN, or the deadlock with a sign-in that PostgreSQL ends.
AbandonChange(admin) ==
  LET op == operation[admin] IN
  /\ op.step = "locked"
  /\ \/ Deadlocked(admin, op.target)
     \/ ~rowLock[op.target] /\ Demotes(op.kind) /\ op.target \in ActiveAdmins /\ Cardinality(ActiveAdmins) <= 1
  /\ tableLock' = Free
  /\ operation' = [operation EXCEPT ![admin] = NoOperation]
  /\ UNCHANGED <<access, identity, sessions, rowLock>>

ChangedAccess(kind, row) ==
  CASE kind = "suspend"    -> [row EXCEPT !.status = "suspended"]
    [] kind = "reactivate" -> [row EXCEPT !.status = IF row.bound THEN "active" ELSE "pending"]
    [] OTHER               -> [row EXCEPT !.role = kind]

\* The writes of changeTeamRole and setTeamAccessSuspended, and revokeUserSessions: a role
\* that is already held changes nothing, and an unbound assignment has no sessions.
CommitChange(admin) ==
  LET op == operation[admin]
      same == op.kind = access[op.target].role
  IN
  /\ op.step = "checked"
  /\ access' = [access EXCEPT ![op.target] = ChangedAccess(op.kind, @)]
  /\ sessions' = IF same \/ ~access[op.target].bound THEN sessions ELSE sessions \ {op.target}
  /\ tableLock' = Free
  /\ operation' = [operation EXCEPT ![admin] = NoOperation]
  /\ UNCHANGED <<identity, rowLock>>

\* scripts/bootstrap-admin.ts.
UpsertBootstrapAdmin(m) ==
  /\ tableLock = Free /\ ~rowLock[m]
  /\ access[m].status = "active" => access[m].role = "admin"
  /\ access' = [access EXCEPT ![m].role = "admin",
                              ![m].status = IF @ = "none" THEN "pending" ELSE @]
  /\ UNCHANGED <<identity, sessions, operation, tableLock, rowLock>>

-----------------------------------------------------------------------------
TeamNext ==
  \E m \in Members :
    \/ CreateIdentity(m)
    \/ LockAssignment(m)
    \/ ActivateTeamAccess(m)
    \/ RefuseActivation(m)
    \/ StartSession(m)
    \/ UpsertBootstrapAdmin(m)
    \/ \E other \in Members, role \in Roles : AddTeamMember(m, other, role)
    \/ \E other \in Members, kind \in Roles \cup {"suspend", "reactivate"} :
         RequestChange(m, kind, other)
    \/ LockTable(m)
    \/ AssertNotFinalActiveAdmin(m)
    \/ AbandonChange(m)
    \/ CommitChange(m)

TeamSpec == TeamInit /\ [][TeamNext]_teamVars

-----------------------------------------------------------------------------
TeamTypeOK ==
  /\ access \in [Members -> [status : {"none", "pending", "active", "suspended"},
                             role : Roles, bound : BOOLEAN]]
  /\ identity \subseteq Members /\ sessions \subseteq identity
  /\ operation \in [Members -> [step : {"idle", "asked", "locked", "checked"},
                                kind : Roles \cup {"none", "suspend", "reactivate"},
                                target : Members \cup {Free}]]
  /\ tableLock \in Members \cup {Free}
  /\ rowLock \in [Members -> BOOLEAN]

\* "The final active Admin cannot be changed or suspended": whoever demotes and suspends
\* whom at the same moment, and whoever signs in meanwhile, an Admin stays able to sign in.
AnAdminRemains == [][ActiveAdmins # {} => ActiveAdmins' # {}]_teamVars
=============================================================================
