-------------------------- MODULE Workspace_proofs --------------------------
(***************************************************************************)
(* Proofs about the smaller parts of the workspace, one after another: the *)
(* team, the embedding queue, the Demand Sheet and the catalogue search;   *)
(* last their composition, with media delivery and the copyright workflow, *)
(* whose proofs have modules of their own.                                 *)
(***************************************************************************)
EXTENDS MCWorkspace, MediaDelivery_proofs, CopyrightWorkflow_proofs, FiniteSetTheorems, TLAPS

-----------------------------------------------------------------------------
(***************************************************************************)
(* TeamAccess: an Admin remains, for a team of any size.                   *)
(***************************************************************************)
Assignments == [status : {"none", "pending", "active", "suspended"}, role : Roles, bound : BOOLEAN]

Changes == [step : {"idle", "asked", "locked", "checked"},
            kind : Roles \cup {"none", "suspend", "reactivate"}, target : Members \cup {Free}]

\* What the assignments and the transactions that change them are.
TeamTypes ==
  /\ access \in [Members -> Assignments]
  /\ operation \in [Members -> Changes]

\* A transaction that has checked that another Admin is active is still right when it writes:
\* it holds the table, and whoever would add to or take from the active Admins needs the
\* table too.
CheckStillHolds ==
  /\ \A m \in Members : access[m].status = "active" => access[m].bound
  /\ \A m \in Members : operation[m].step # "idle" =>
       operation[m].kind # "none" /\ operation[m].target \in Members
  /\ \A m \in Members : operation[m].step \in {"locked", "checked"} => tableLock = m
  /\ \A m \in Members :
       /\ operation[m].step = "checked" /\ Demotes(operation[m].kind)
       /\ operation[m].target \in ActiveAdmins
       => ActiveAdmins \ {operation[m].target} # {}

TeamInv == TeamTypes /\ CheckStillHolds

-----------------------------------------------------------------------------
\* More than one is another one.
LEMMA AnotherOne ==
  ASSUME NEW S, NEW x \in S, Cardinality(S) > 1
  PROVE  S \ {x} # {}
<1> SUFFICES ASSUME S \ {x} = {} PROVE FALSE
  OBVIOUS
<1>1. S = {x}
  OBVIOUS
<1> QED BY <1>1, FS_Singleton

\* A step that changes no assignment, and one transaction that is not checked then.
LEMMA RequestStep ==
  ASSUME TeamInv, access' = access, NEW a \in Members, NEW change \in Changes,
         operation' = [operation EXCEPT ![a] = change],
         change.step # "idle" => change.kind # "none" /\ change.target \in Members,
         change.step \in {"locked", "checked"} => tableLock' = a,
         change.step = "checked" /\ Demotes(change.kind) /\ change.target \in ActiveAdmins
           => ActiveAdmins \ {change.target} # {},
         tableLock' = tableLock \/ tableLock \in {Free, a}
  PROVE  TeamInv' /\ ActiveAdmins' = ActiveAdmins
<1>1. ActiveAdmins' = ActiveAdmins
  BY DEF ActiveAdmins
<1>2. operation'[a] = change /\ \A m \in Members \ {a} : operation'[m] = operation[m]
  BY DEF TeamInv, TeamTypes
<1>3. TeamTypes'
  BY DEF TeamInv, TeamTypes
<1>4. \A m \in Members \ {a} : operation[m].step \in {"locked", "checked"} => tableLock' = m
  BY FreeAssumption DEF TeamInv, CheckStillHolds
<1>5. CheckStillHolds'
  BY <1>1, <1>2, <1>4 DEF TeamInv, CheckStillHolds, Demotes
<1> QED BY <1>1, <1>3, <1>5 DEF TeamInv

\* A step that writes the assignment of one member while no transaction holds the table, or
\* one that leaves status and role as they are.
LEMMA AssignmentStep ==
  ASSUME TeamInv, NEW m \in Members, NEW row \in Assignments,
         access' = [access EXCEPT ![m] = row],
         row.status = "active" => row.bound,
         m \in ActiveAdmins => row.status = "active" /\ row.role = "admin",
         UNCHANGED <<operation, tableLock>>,
         tableLock = Free \/ (row.status = access[m].status /\ row.role = access[m].role)
  PROVE  TeamInv' /\ ActiveAdmins \subseteq ActiveAdmins'
<1>1. access'[m] = row /\ \A n \in Members \ {m} : access'[n] = access[n]
  BY DEF TeamInv, TeamTypes
<1>2. ActiveAdmins \subseteq ActiveAdmins'
  BY <1>1 DEF ActiveAdmins
<1>3. TeamTypes'
  BY DEF TeamInv, TeamTypes
<1>4. CASE tableLock = Free
  <2>1. \A n \in Members : operation[n].step \notin {"locked", "checked"}
    BY <1>4, FreeAssumption DEF TeamInv, CheckStillHolds
  <2>2. \A n \in Members : operation'[n].step \notin {"locked", "checked"}
    BY <2>1
  <2>3. \A n \in Members : access'[n].status = "active" => access'[n].bound
    BY <1>1 DEF TeamInv, CheckStillHolds
  <2>4. CheckStillHolds'
    BY <2>2, <2>3 DEF TeamInv, CheckStillHolds
  <2> QED BY <1>2, <1>3, <2>4 DEF TeamInv
<1>5. CASE row.status = access[m].status /\ row.role = access[m].role
  <2>1. ActiveAdmins' = ActiveAdmins
    BY <1>1, <1>5 DEF ActiveAdmins
  <2> QED BY <1>1, <1>2, <1>3, <2>1 DEF TeamInv, CheckStillHolds, Demotes
<1> QED BY <1>2, <1>3, <1>4, <1>5 DEF TeamInv

\* The writes of a transaction.
LEMMA CommitStep ==
  ASSUME TeamInv, NEW a \in Members, CommitChange(a)
  PROVE  TeamInv' /\ (ActiveAdmins # {} => ActiveAdmins' # {})
<1> DEFINE op == operation[a]
           row == ChangedAccess(op.kind, access[op.target])
<1>1. /\ op \in Changes /\ op.step = "checked" /\ op.kind # "none" /\ op.target \in Members
      /\ tableLock = a /\ access[op.target] \in Assignments
  BY DEF CommitChange, TeamInv, TeamTypes, CheckStillHolds
<1>2. access' = [access EXCEPT ![op.target] = row]
  BY DEF CommitChange
<1>3. row \in Assignments /\ (row.status = "active" => row.bound)
  <2>1. access[op.target].status = "active" => access[op.target].bound
    BY <1>1 DEF TeamInv, CheckStillHolds
  <2>2. CASE op.kind = "suspend"
    BY <1>1, <2>2 DEF ChangedAccess, Assignments
  <2>3. CASE op.kind = "reactivate"
    BY <1>1, <2>3 DEF ChangedAccess, Assignments
  <2>4. CASE op.kind \in Roles
    BY <1>1, <2>1, <2>4 DEF ChangedAccess, Assignments, Roles
  <2> QED BY <1>1, <2>2, <2>3, <2>4 DEF Changes
<1>4. ~Demotes(op.kind) /\ op.target \in ActiveAdmins => row.status = "active" /\ row.role = "admin"
  <2> SUFFICES ASSUME ~Demotes(op.kind), op.target \in ActiveAdmins
               PROVE  row.status = "active" /\ row.role = "admin"
    OBVIOUS
  <2>1. access[op.target].status = "active" /\ access[op.target].role = "admin"
        /\ access[op.target].bound
    BY DEF ActiveAdmins, TeamInv, CheckStillHolds
  <2>2. CASE op.kind = "reactivate"
    BY <1>1, <2>1, <2>2 DEF ChangedAccess, Assignments
  <2>3. CASE op.kind = "admin"
    BY <1>1, <2>1, <2>3 DEF ChangedAccess, Assignments
  <2> QED BY <1>1, <2>2, <2>3 DEF Demotes, Changes, Roles
<1>5. access'[op.target] = row /\ \A n \in Members \ {op.target} : access'[n] = access[n]
  BY <1>1, <1>2 DEF TeamInv, TeamTypes
<1>6. operation' = [operation EXCEPT ![a] = NoOperation] /\ NoOperation \in Changes
  BY DEF CommitChange, NoOperation, Changes
<1>7. operation'[a].step = "idle" /\ \A n \in Members \ {a} : operation'[n] = operation[n]
  BY <1>6 DEF TeamInv, TeamTypes, NoOperation
<1>8. \A n \in Members \ {a} : operation[n].step \notin {"locked", "checked"}
  BY <1>1 DEF TeamInv, CheckStillHolds
<1> HIDE DEF op, row
<1>9. TeamTypes'
  BY <1>1, <1>2, <1>3, <1>6 DEF TeamInv, TeamTypes
<1>10. CheckStillHolds'
  BY <1>3, <1>5, <1>7, <1>8 DEF TeamInv, CheckStillHolds
<1>11. ActiveAdmins # {} => ActiveAdmins' # {}
  <2> SUFFICES ASSUME ActiveAdmins # {} PROVE ActiveAdmins' # {}
    OBVIOUS
  <2>1. CASE Demotes(op.kind) /\ op.target \in ActiveAdmins
    <3>1. ActiveAdmins \ {op.target} # {}
      BY <1>1, <2>1 DEF TeamInv, CheckStillHolds, op
    <3>2. PICK n \in ActiveAdmins : n # op.target
      BY <3>1
    <3> QED BY <1>5, <3>2 DEF ActiveAdmins
  <2>2. CASE ~(Demotes(op.kind) /\ op.target \in ActiveAdmins)
    <3>1. PICK n : n \in ActiveAdmins
      OBVIOUS
    <3> QED BY <1>1, <1>4, <1>5, <2>2, <3>1 DEF ActiveAdmins
  <2> QED BY <2>1, <2>2
<1> QED BY <1>9, <1>10, <1>11 DEF TeamInv

-----------------------------------------------------------------------------
\* The invariant holds before anybody is assigned.
LEMMA TeamStarts == TeamInit => TeamInv
<1> SUFFICES ASSUME TeamInit PROVE TeamInv
  OBVIOUS
<1>1. \A m \in Members : access[m].status = "none" /\ operation[m].step = "idle"
  BY DEF TeamInit, NoOperation
<1>2. TeamTypes
  <2>1. access \in [Members -> Assignments]
    BY DEF TeamInit, Assignments, Roles
  <2>2. operation \in [Members -> Changes]
    BY DEF TeamInit, NoOperation, Changes
  <2> QED BY <2>1, <2>2 DEF TeamTypes
<1>3. CheckStillHolds
  BY <1>1 DEF CheckStillHolds
<1> QED BY <1>2, <1>3 DEF TeamInv

\* Every step keeps it, and leaves an active Admin where there is one.
LEMMA TeamStep ==
  TeamInv /\ [TeamNext]_teamVars => TeamInv' /\ (ActiveAdmins # {} => ActiveAdmins' # {})
<1> DEFINE Goal == TeamInv' /\ (ActiveAdmins # {} => ActiveAdmins' # {})
<1> SUFFICES ASSUME TeamInv, [TeamNext]_teamVars PROVE Goal
  OBVIOUS
<1>a. access \in [Members -> Assignments] /\ operation \in [Members -> Changes]
  BY DEF TeamInv, TeamTypes
<1>1. CASE UNCHANGED <<access, operation, tableLock>>
  BY <1>1 DEF TeamInv, TeamTypes, CheckStillHolds, ActiveAdmins, Demotes
<1>2. ASSUME NEW m \in Members,
             \/ CreateIdentity(m) \/ LockAssignment(m) \/ RefuseActivation(m) \/ StartSession(m)
      PROVE  Goal
  BY <1>1, <1>2 DEF CreateIdentity, LockAssignment, RefuseActivation, LeaveAssignment, StartSession
<1>3. ASSUME NEW m \in Members, ActivateTeamAccess(m) PROVE Goal
  <2> DEFINE row == [access[m] EXCEPT !.status = "active", !.bound = TRUE]
  <2>1. row \in Assignments /\ row.status = "active" /\ row.bound /\ row.role = access[m].role
    BY <1>a DEF Assignments
  <2>2. access' = [access EXCEPT ![m] = row] /\ UNCHANGED <<operation, tableLock>>
    BY <1>3, <1>a DEF ActivateTeamAccess, LeaveAssignment, Assignments
  <2>3. tableLock = Free \/ access[m].status = "active"
    BY <1>3 DEF ActivateTeamAccess
  <2>4. m \in ActiveAdmins => access[m].role = "admin"
    BY DEF ActiveAdmins
  <2> HIDE DEF row
  <2> QED BY <2>1, <2>2, <2>3, <2>4, AssignmentStep
<1>4. ASSUME NEW m \in Members, UpsertBootstrapAdmin(m) PROVE Goal
  <2> DEFINE row == [access[m] EXCEPT !.role = "admin",
                                      !.status = IF @ = "none" THEN "pending" ELSE @]
  <2>1. /\ row \in Assignments /\ row.role = "admin" /\ row.bound = access[m].bound
        /\ row.status = "active" <=> access[m].status = "active"
    BY <1>a DEF Assignments, Roles
  <2>2. access' = [access EXCEPT ![m] = row] /\ UNCHANGED <<operation, tableLock>> /\ tableLock = Free
    BY <1>4, <1>a DEF UpsertBootstrapAdmin, Assignments
  <2>3. /\ access[m].status = "active" => access[m].bound
        /\ m \in ActiveAdmins => access[m].status = "active"
    BY DEF ActiveAdmins, TeamInv, CheckStillHolds
  <2>4. /\ row.status = "active" => row.bound
        /\ m \in ActiveAdmins => row.status = "active" /\ row.role = "admin"
        /\ tableLock = Free \/ (row.status = access[m].status /\ row.role = access[m].role)
    BY <2>1, <2>2, <2>3
  <2> HIDE DEF row
  <2>5. TeamInv' /\ ActiveAdmins \subseteq ActiveAdmins'
    BY <2>1, <2>2, <2>4, AssignmentStep
  <2> QED BY <2>5
<1>5. ASSUME NEW a \in Members, NEW m \in Members, NEW role \in Roles, AddTeamMember(a, m, role)
      PROVE  Goal
  <2> DEFINE row == [status |-> "pending", role |-> role, bound |-> FALSE]
  <2>1. row \in Assignments /\ row.status # "active"
    BY DEF Assignments
  <2>2. /\ access' = [access EXCEPT ![m] = row] /\ UNCHANGED <<operation, tableLock>>
        /\ tableLock = Free /\ m \notin ActiveAdmins
    BY <1>5 DEF AddTeamMember, ActiveAdmins
  <2>3. /\ row.status = "active" => row.bound
        /\ m \in ActiveAdmins => row.status = "active" /\ row.role = "admin"
        /\ tableLock = Free \/ (row.status = access[m].status /\ row.role = access[m].role)
    BY <2>1, <2>2
  <2> HIDE DEF row
  <2>4. TeamInv' /\ ActiveAdmins \subseteq ActiveAdmins'
    BY <2>1, <2>2, <2>3, AssignmentStep
  <2> QED BY <2>4
<1>6. ASSUME NEW a \in Members, NEW m \in Members, NEW kind \in Roles \cup {"suspend", "reactivate"},
             RequestChange(a, kind, m)
      PROVE  Goal
  <2> DEFINE change == [step |-> "asked", kind |-> kind, target |-> m]
  <2>1. change \in Changes /\ change.step = "asked" /\ change.kind # "none" /\ change.target = m
    BY DEF Changes, Roles
  <2>2. /\ operation' = [operation EXCEPT ![a] = change]
        /\ UNCHANGED <<access, tableLock>>
    BY <1>6 DEF RequestChange
  <2> HIDE DEF change
  <2>3. /\ change.step # "idle" => change.kind # "none" /\ change.target \in Members
        /\ change.step \notin {"locked", "checked"}
    BY <2>1
  <2> QED BY <2>1, <2>2, <2>3, RequestStep
<1>7. ASSUME NEW a \in Members, LockTable(a) PROVE Goal
  <2> DEFINE change == [operation[a] EXCEPT !.step = "locked"]
  <2>1. /\ change \in Changes /\ change.step = "locked"
        /\ change.kind = operation[a].kind /\ change.target = operation[a].target
    BY <1>a DEF Changes
  <2>2. /\ operation' = [operation EXCEPT ![a] = change] /\ operation[a].step = "asked"
        /\ access' = access /\ tableLock = Free /\ tableLock' = a
    BY <1>7, <1>a DEF LockTable
  <2>3. change.kind # "none" /\ change.target \in Members
    BY <2>1, <2>2 DEF TeamInv, CheckStillHolds
  <2> HIDE DEF change
  <2> QED BY <2>1, <2>2, <2>3, RequestStep
<1>8. ASSUME NEW a \in Members, AssertNotFinalActiveAdmin(a) PROVE Goal
  <2> DEFINE change == [operation[a] EXCEPT !.step = "checked"]
  <2>1. /\ change \in Changes /\ change.step = "checked"
        /\ change.kind = operation[a].kind /\ change.target = operation[a].target
    BY <1>a DEF Changes
  <2>2. /\ operation' = [operation EXCEPT ![a] = change] /\ operation[a].step = "locked"
        /\ UNCHANGED <<access, tableLock>>
    BY <1>8, <1>a DEF AssertNotFinalActiveAdmin
  <2>3. change.kind # "none" /\ change.target \in Members /\ tableLock = a
    BY <2>1, <2>2 DEF TeamInv, CheckStillHolds
  <2>4. Demotes(change.kind) /\ change.target \in ActiveAdmins => ActiveAdmins \ {change.target} # {}
    BY <1>8, <2>1, AnotherOne DEF AssertNotFinalActiveAdmin
  <2> HIDE DEF change
  <2> QED BY <2>1, <2>2, <2>3, <2>4, RequestStep
<1>9. ASSUME NEW a \in Members, AbandonChange(a) PROVE Goal
  <2>1. /\ operation' = [operation EXCEPT ![a] = NoOperation] /\ operation[a].step = "locked"
        /\ access' = access
    BY <1>9 DEF AbandonChange
  <2>2. NoOperation \in Changes /\ NoOperation.step = "idle"
    BY DEF NoOperation, Changes
  <2>3. tableLock = a
    BY <2>1 DEF TeamInv, CheckStillHolds
  <2> QED BY <2>1, <2>2, <2>3, RequestStep
<1>10. ASSUME NEW a \in Members, CommitChange(a) PROVE Goal
  BY <1>10, CommitStep
<1>11. CASE UNCHANGED teamVars
  BY <1>1, <1>11 DEF teamVars
<1> HIDE DEF Goal
<1> QED
  BY <1>2, <1>3, <1>4, <1>5, <1>6, <1>7, <1>8, <1>9, <1>10, <1>11 DEF TeamNext

-----------------------------------------------------------------------------
\* "The final active Admin cannot be changed or suspended", whatever Admins do to each other at
\* the same moment and whoever signs in meanwhile (team-access-repository.ts,
\* assertNotFinalActiveAdmin).
THEOREM TheTeamKeepsAnAdmin == TeamSpec => AnAdminRemains
<1>1. TeamInv /\ [TeamNext]_teamVars => TeamInv'
  BY TeamStep
<1>2. TeamInv /\ [TeamNext]_teamVars => [ActiveAdmins # {} => ActiveAdmins' # {}]_teamVars
  BY TeamStep
<1> QED BY <1>1, <1>2, TeamStarts, PTL DEF TeamSpec, AnAdminRemains

\* Only those have a session whose assignment is bound to their identity, and a sign-in locks
\* the assignment of an identity that exists.
SessionsAreBound ==
  /\ identity \subseteq Members /\ sessions \subseteq identity
  /\ tableLock \in Members \cup {Free}
  /\ rowLock \in [Members -> BOOLEAN]
  /\ \A m \in Members : access[m].bound \/ rowLock[m] => m \in identity

LEMMA SessionsStart == TeamInit => SessionsAreBound
BY DEF TeamInit, SessionsAreBound

LEMMA SessionsStep == TeamInv /\ SessionsAreBound /\ [TeamNext]_teamVars => SessionsAreBound'
<1> SUFFICES ASSUME TeamInv, SessionsAreBound, [TeamNext]_teamVars PROVE SessionsAreBound'
  OBVIOUS
<1>a. access \in [Members -> Assignments] /\ operation \in [Members -> Changes]
  BY DEF TeamInv, TeamTypes
<1>1. ASSUME NEW m \in Members,
             \/ LockAssignment(m) \/ RefuseActivation(m) \/ StartSession(m) \/ CreateIdentity(m)
             \/ LockTable(m) \/ AssertNotFinalActiveAdmin(m) \/ AbandonChange(m)
             \/ \E other \in Members, kind \in Roles \cup {"suspend", "reactivate"} :
                  RequestChange(m, kind, other)
      PROVE  SessionsAreBound'
  <2>1. access' = access
    BY <1>1 DEF LockAssignment, RefuseActivation, StartSession, CreateIdentity, LockTable,
                AssertNotFinalActiveAdmin, AbandonChange, RequestChange
  <2> QED BY <1>1, <2>1 DEF SessionsAreBound, LockAssignment, RefuseActivation, LeaveAssignment,
             StartSession, CreateIdentity, LockTable, AssertNotFinalActiveAdmin, AbandonChange, RequestChange
<1>2. ASSUME NEW m \in Members, ActivateTeamAccess(m) PROVE SessionsAreBound'
  <2>1. \A n \in Members \ {m} : access'[n] = access[n]
    BY <1>a, <1>2 DEF ActivateTeamAccess
  <2> QED BY <1>2, <2>1 DEF ActivateTeamAccess, LeaveAssignment, SessionsAreBound
<1>3. ASSUME NEW m \in Members, NEW change, access' = [access EXCEPT ![m] = change],
             change.bound => access[m].bound,
             UNCHANGED <<identity, rowLock>>, sessions' \subseteq sessions, tableLock' \in {tableLock, Free}
      PROVE  SessionsAreBound'
  BY <1>a, <1>3 DEF SessionsAreBound
<1>4. ASSUME NEW m \in Members, UpsertBootstrapAdmin(m) PROVE SessionsAreBound'
  <2> DEFINE change == [access[m] EXCEPT !.role = "admin", !.status = IF @ = "none" THEN "pending" ELSE @]
  <2>1. access' = [access EXCEPT ![m] = change]
    BY <1>4 DEF UpsertBootstrapAdmin
  <2>2. change.bound = access[m].bound
    BY <1>a DEF Assignments
  <2> HIDE DEF change
  <2> QED BY <1>3, <1>4, <2>1, <2>2 DEF UpsertBootstrapAdmin
<1>5. ASSUME NEW other \in Members, NEW role \in Roles, NEW m \in Members, AddTeamMember(m, other, role)
      PROVE  SessionsAreBound'
  BY <1>3, <1>5 DEF AddTeamMember
<1>6. ASSUME NEW m \in Members, CommitChange(m) PROVE SessionsAreBound'
  <2>1. PICK n \in Members : n = operation[m].target
    BY <1>6 DEF CommitChange, TeamInv, CheckStillHolds
  <2>2. access' = [access EXCEPT ![n] = ChangedAccess(operation[m].kind, access[n])]
    BY <1>6, <2>1 DEF CommitChange
  <2>3. ChangedAccess(operation[m].kind, access[n]).bound = access[n].bound
    BY <1>a DEF ChangedAccess, Assignments
  <2>4. UNCHANGED <<identity, rowLock>> /\ sessions' \subseteq sessions /\ tableLock' = Free
    BY <1>6 DEF CommitChange
  <2> HIDE DEF ChangedAccess
  <2> QED BY <1>3, <2>2, <2>3, <2>4
<1>7. CASE UNCHANGED teamVars
  BY <1>7 DEF teamVars, SessionsAreBound
<1> QED BY <1>1, <1>2, <1>4, <1>5, <1>6, <1>7 DEF TeamNext

\* The variables of team access are in their domains; who has a session has an identity.
THEOREM TeamTypesAreKept == TeamSpec => []TeamTypeOK
<1>1. TeamInv /\ SessionsAreBound => TeamTypeOK
  BY DEF TeamInv, TeamTypes, SessionsAreBound, TeamTypeOK, Assignments, Changes
<1>2. TeamInv /\ [TeamNext]_teamVars => TeamInv'
  BY TeamStep
<1> QED BY <1>1, <1>2, TeamStarts, SessionsStart, SessionsStep, PTL DEF TeamSpec

-----------------------------------------------------------------------------
(***************************************************************************)
(* EmbeddingQueue: vectors that a Track has left behind are found, for any *)
(* Tracks, workers and texts.                                              *)
(***************************************************************************)
\* Why a late worker does no harm: a text and its hash travel together, from the row that
\* is claimable to the worker and back with the vector of that row's Track.
KeepsHash(job) == job.hash = job.text /\ (job.step # "idle" => job.track \in EmbeddedTracks)

TextsKeepTheirHash ==
  /\ \A t \in EmbeddedTracks :
       embedding[t].status \in {"queued", "processing"} => embedding[t].hash = embedding[t].text
  /\ \A w \in EmbeddingWorkers : KeepsHash(embedder[w])

\* The types these facts rest on.
Rows == [status : {"absent", "queued", "processing", "ready", "stale", "failed"},
         hash : 0 .. MaxTexts, text : 0 .. MaxTexts, vector : 0 .. MaxTexts,
         owner : EmbeddingWorkers \cup {NoWorker}]

Jobs == [step : {"idle", "embed", "complete", "fail"}, track : EmbeddedTracks \cup {"none"},
         hash : 0 .. MaxTexts, text : 0 .. MaxTexts]

RowsAndJobs ==
  /\ canonicalText \in [EmbeddedTracks -> Texts]
  /\ embedding \in [EmbeddedTracks -> Rows]
  /\ embedder \in [EmbeddingWorkers -> Jobs]
  /\ comparing \in [track : EmbeddedTracks \cup {"none"}, text : 0 .. MaxTexts]

EmbeddingInv == RowsAndJobs /\ TextsKeepTheirHash /\ StaleVectorsAreNoticed

-----------------------------------------------------------------------------
\* A row that changes leaves the others as they are: what is asked of every row has to
\* be shown for the new one only.
LEMMA RowStep ==
  ASSUME EmbeddingInv, NEW t \in EmbeddedTracks, NEW row \in Rows,
         embedding' = [embedding EXCEPT ![t] = row],
         row.status \in {"queued", "processing"} => row.hash = row.text,
         row.status = "ready" => row.vector = row.hash,
         embedder' \in [EmbeddingWorkers -> Jobs],
         \A w \in EmbeddingWorkers : KeepsHash(embedder'[w]),
         canonicalText' \in [EmbeddedTracks -> Texts],
         comparing' \in [track : EmbeddedTracks \cup {"none"}, text : 0 .. MaxTexts]
  PROVE  EmbeddingInv'
<1>1. embedding' \in [EmbeddedTracks -> Rows] /\ embedding'[t] = row
  BY DEF EmbeddingInv, RowsAndJobs
<1>2. \A s \in EmbeddedTracks \ {t} : embedding'[s] = embedding[s]
  BY DEF EmbeddingInv, RowsAndJobs
<1>3. RowsAndJobs'
  BY <1>1 DEF RowsAndJobs, Rows, Jobs, Texts
<1>4. TextsKeepTheirHash'
  BY <1>1, <1>2 DEF EmbeddingInv, TextsKeepTheirHash
<1>5. StaleVectorsAreNoticed'
  BY <1>1, <1>2 DEF EmbeddingInv, StaleVectorsAreNoticed
<1> QED BY <1>3, <1>4, <1>5 DEF EmbeddingInv

\* Another worker's step, or one that leaves its job alone, keeps text and hash together.
LEMMA JobStep ==
  ASSUME EmbeddingInv, NEW w \in EmbeddingWorkers, NEW job \in Jobs, KeepsHash(job),
         embedder' = [embedder EXCEPT ![w] = job]
  PROVE  /\ embedder' \in [EmbeddingWorkers -> Jobs]
         /\ \A v \in EmbeddingWorkers : KeepsHash(embedder'[v])
<1>1. embedder \in [EmbeddingWorkers -> Jobs]
  BY DEF EmbeddingInv, RowsAndJobs
<1>2. embedder'[w] = job /\ \A v \in EmbeddingWorkers \ {w} : embedder'[v] = embedder[v]
  BY <1>1
<1> QED BY <1>1, <1>2 DEF EmbeddingInv, TextsKeepTheirHash

\* A step that leaves the rows alone.
LEMMA OtherStep ==
  ASSUME EmbeddingInv, embedding' = embedding,
         embedder' \in [EmbeddingWorkers -> Jobs],
         \A w \in EmbeddingWorkers : KeepsHash(embedder'[w]),
         canonicalText' \in [EmbeddedTracks -> Texts],
         comparing' \in [track : EmbeddedTracks \cup {"none"}, text : 0 .. MaxTexts]
  PROVE  EmbeddingInv'
BY DEF EmbeddingInv, RowsAndJobs, TextsKeepTheirHash, StaleVectorsAreNoticed, Rows, Jobs, Texts

\* The invariant holds when nothing has been embedded.
LEMMA EmbeddingStarts == EmbeddingInit => EmbeddingInv
<1> SUFFICES ASSUME EmbeddingInit PROVE EmbeddingInv
  OBVIOUS
<1>1. NoEmbedding \in Rows /\ NotEmbedding \in Jobs
  BY TextAssumption DEF NoEmbedding, NotEmbedding, Rows, Jobs
<1>2. \A t \in EmbeddedTracks : embedding[t] = NoEmbedding
  BY DEF EmbeddingInit
<1>3. \A w \in EmbeddingWorkers : embedder[w] = NotEmbedding
  BY DEF EmbeddingInit
<1>4. 1 \in Texts /\ 0 \in 0 .. MaxTexts
  BY TextAssumption DEF Texts
<1>5. RowsAndJobs
  BY <1>1, <1>4 DEF EmbeddingInit, RowsAndJobs, NotComparing
<1>6. TextsKeepTheirHash /\ StaleVectorsAreNoticed
  BY <1>2, <1>3 DEF TextsKeepTheirHash, KeepsHash, StaleVectorsAreNoticed, NoEmbedding, NotEmbedding
<1> QED BY <1>5, <1>6 DEF EmbeddingInv

\* Every step keeps it.
LEMMA EmbeddingStep == EmbeddingInv /\ [EmbeddingNext]_embeddingVars => EmbeddingInv'
<1> SUFFICES ASSUME EmbeddingInv, [EmbeddingNext]_embeddingVars PROVE EmbeddingInv'
  OBVIOUS
<1>a. /\ canonicalText \in [EmbeddedTracks -> Texts]
      /\ embedding \in [EmbeddedTracks -> Rows]
      /\ embedder \in [EmbeddingWorkers -> Jobs]
      /\ comparing \in [track : EmbeddedTracks \cup {"none"}, text : 0 .. MaxTexts]
      /\ \A w \in EmbeddingWorkers : KeepsHash(embedder[w])
  BY DEF EmbeddingInv, RowsAndJobs, TextsKeepTheirHash
<1>b. NotEmbedding \in Jobs /\ KeepsHash(NotEmbedding)
  BY TextAssumption DEF NotEmbedding, Jobs, KeepsHash
<1>c. NotComparing \in [track : EmbeddedTracks \cup {"none"}, text : 0 .. MaxTexts]
  BY TextAssumption DEF NotComparing
<1>1. ASSUME NEW t \in EmbeddedTracks, ChangeTerms(t) PROVE EmbeddingInv'
  <2>1. canonicalText' \in [EmbeddedTracks -> Texts]
    BY <1>1, <1>a DEF ChangeTerms
  <2>2. UNCHANGED <<embedding, embedder, comparing>>
    BY <1>1 DEF ChangeTerms
  <2> QED BY <1>a, <2>1, <2>2, OtherStep
<1>2. ASSUME NEW t \in EmbeddedTracks, MarkStale(t), UNCHANGED <<canonicalText, embedder, comparing>>
      PROVE  EmbeddingInv'
  <2> DEFINE row == [embedding[t] EXCEPT !.status = IF @ = "ready" THEN "stale" ELSE @]
  <2>1. row \in Rows
    BY <1>a DEF Rows
  <2>2. embedding' = [embedding EXCEPT ![t] = row]
    BY <1>2, <1>a DEF MarkStale, Rows
  <2>3. row.status \in {"queued", "processing"} => row.hash = row.text
    BY <1>a DEF EmbeddingInv, TextsKeepTheirHash, Rows
  <2>4. row.status # "ready"
    BY <1>a DEF Rows
  <2> HIDE DEF row
  <2> QED BY <1>2, <1>a, <2>1, <2>2, <2>3, <2>4, RowStep
<1>3. ASSUME NEW t \in EmbeddedTracks, ListTrack(t) \/ WithdrawTrack(t) PROVE EmbeddingInv'
  BY <1>2, <1>3 DEF ListTrack, WithdrawTrack
<1>4. ASSUME NEW t \in EmbeddedTracks, LoadCanonicalMetadata(t) PROVE EmbeddingInv'
  <2>1. comparing' \in [track : EmbeddedTracks \cup {"none"}, text : 0 .. MaxTexts]
    BY <1>4, <1>a, TextAssumption DEF LoadCanonicalMetadata, Texts
  <2>2. UNCHANGED <<canonicalText, embedding, embedder>>
    BY <1>4 DEF LoadCanonicalMetadata
  <2> QED BY <1>a, <2>1, <2>2, OtherStep
<1>5. ASSUME NEW t \in EmbeddedTracks, EnqueueMissingEmbedding(t) PROVE EmbeddingInv'
  <2>1. comparing' = NotComparing /\ UNCHANGED <<canonicalText, embedder>>
    BY <1>5 DEF EnqueueMissingEmbedding
  <2>2. CASE NeedsEmbedding(embedding[t])
    <3> DEFINE row == [status |-> "queued", hash |-> comparing.text, text |-> comparing.text,
                       vector |-> embedding[t].vector, owner |-> NoWorker]
    <3>1. row \in Rows
      BY <1>a DEF Rows
    <3>2. embedding' = [embedding EXCEPT ![t] = row]
      BY <1>5, <2>2 DEF EnqueueMissingEmbedding
    <3>3. row.hash = row.text /\ row.status # "ready"
      OBVIOUS
    <3> HIDE DEF row
    <3> QED BY <1>a, <1>c, <2>1, <3>1, <3>2, <3>3, RowStep
  <2>3. CASE ~NeedsEmbedding(embedding[t])
    <3>1. embedding' = embedding
      BY <1>5, <2>3 DEF EnqueueMissingEmbedding
    <3> QED BY <1>a, <1>c, <2>1, <3>1, OtherStep
  <2> QED BY <2>2, <2>3
<1>6. ASSUME NEW t \in EmbeddedTracks, NEW w \in EmbeddingWorkers, ClaimNextEmbeddingJob(w, t)
      PROVE  EmbeddingInv'
  <2> DEFINE row == [embedding[t] EXCEPT !.status = "processing", !.owner = w]
             job == [step |-> "embed", track |-> t, hash |-> embedding[t].hash,
                     text |-> embedding[t].text]
  <2>1. embedding[t].hash = embedding[t].text
    BY <1>6 DEF ClaimNextEmbeddingJob, Claimable, EmbeddingInv, TextsKeepTheirHash
  <2>2. row \in Rows /\ job \in Jobs
    BY <1>a DEF Rows, Jobs
  <2>3. row.hash = row.text /\ row.status # "ready" /\ KeepsHash(job)
    BY <1>a, <2>1 DEF Rows, KeepsHash
  <2>4. embedding' = [embedding EXCEPT ![t] = row]
    BY <1>6, <1>a DEF ClaimNextEmbeddingJob, Rows
  <2>5. embedder' = [embedder EXCEPT ![w] = job] /\ UNCHANGED <<canonicalText, comparing>>
    BY <1>6 DEF ClaimNextEmbeddingJob
  <2> HIDE DEF row, job
  <2>6. /\ embedder' \in [EmbeddingWorkers -> Jobs]
        /\ \A v \in EmbeddingWorkers : KeepsHash(embedder'[v])
    BY <2>2, <2>3, <2>5, JobStep
  <2> QED BY <1>a, <2>2, <2>3, <2>4, <2>5, <2>6, RowStep
<1>7. ASSUME NEW t \in EmbeddedTracks, EmbeddingLeaseExpires(t) PROVE EmbeddingInv'
  <2>1. UNCHANGED <<canonicalText, embedding, embedder, comparing>>
    BY <1>7 DEF EmbeddingLeaseExpires
  <2> QED BY <1>a, <2>1, OtherStep
<1>8. ASSUME NEW w \in EmbeddingWorkers, NEW step \in {"complete", "fail"}, EmbeddingGoes(w, step),
             embedder[w].step # "idle", UNCHANGED <<canonicalText, embedding, comparing>>
      PROVE  EmbeddingInv'
  <2> DEFINE job == [embedder[w] EXCEPT !.step = step]
  <2>1. job \in Jobs /\ KeepsHash(job)
    BY <1>8, <1>a DEF Jobs, KeepsHash
  <2>2. embedder' = [embedder EXCEPT ![w] = job]
    BY <1>8 DEF EmbeddingGoes
  <2> HIDE DEF job
  <2>3. /\ embedder' \in [EmbeddingWorkers -> Jobs]
        /\ \A v \in EmbeddingWorkers : KeepsHash(embedder'[v])
    BY <2>1, <2>2, JobStep
  <2> QED BY <1>8, <1>a, <2>3, OtherStep
<1>9. ASSUME NEW w \in EmbeddingWorkers, EmbedDocument(w) PROVE EmbeddingInv'
  <2>1. embedder[w].step # "idle" /\ \E step \in {"complete", "fail"} : EmbeddingGoes(w, step)
    BY <1>9 DEF EmbedDocument
  <2> QED BY <1>8, <1>9, <2>1 DEF EmbedDocument
<1>10. ASSUME NEW w \in EmbeddingWorkers, NEW t \in EmbeddedTracks, NEW row \in Rows,
              row.status \in {"ready", "failed"}, row.status = "ready" => row.vector = row.hash,
              embedding' = [embedding EXCEPT ![t] = row],
              embedder' = [embedder EXCEPT ![w] = NotEmbedding],
              UNCHANGED <<canonicalText, comparing>>
       PROVE  EmbeddingInv'
  <2>1. /\ embedder' \in [EmbeddingWorkers -> Jobs]
        /\ \A v \in EmbeddingWorkers : KeepsHash(embedder'[v])
    BY <1>10, <1>b, JobStep
  <2> QED BY <1>10, <1>a, <2>1, RowStep
<1>11. ASSUME NEW w \in EmbeddingWorkers, embedding' = embedding,
              embedder' = [embedder EXCEPT ![w] = NotEmbedding],
              UNCHANGED <<canonicalText, comparing>>
       PROVE  EmbeddingInv'
  <2>1. /\ embedder' \in [EmbeddingWorkers -> Jobs]
        /\ \A v \in EmbeddingWorkers : KeepsHash(embedder'[v])
    BY <1>11, <1>b, JobStep
  <2> QED BY <1>11, <1>a, <2>1, OtherStep
<1>12. ASSUME NEW w \in EmbeddingWorkers, CompleteEmbeddingJob(w) PROVE EmbeddingInv'
  <2> DEFINE t == embedder[w].track
             row == [embedding[t] EXCEPT !.status = "ready", !.vector = embedder[w].text,
                                         !.hash = embedder[w].hash, !.owner = NoWorker]
  <2>1. embedder[w].step # "idle" /\ UNCHANGED <<canonicalText, comparing>>
    BY <1>12 DEF CompleteEmbeddingJob
  <2>2. CASE embedding[t].owner \in {w, NoWorker}
    <3>1. /\ embedding' = [embedding EXCEPT
               ![t].status = "ready", ![t].vector = embedder[w].text,
               ![t].hash = embedder[w].hash, ![t].owner = NoWorker]
          /\ embedder' = [embedder EXCEPT ![w] = NotEmbedding]
      BY <1>12, <2>2 DEF CompleteEmbeddingJob
    <3>2. t \in EmbeddedTracks /\ embedder[w].hash = embedder[w].text
      BY <1>a, <2>1 DEF KeepsHash
    <3>3. row \in Rows /\ row.status = "ready" /\ row.vector = row.hash
      <4>1. /\ embedding[t] \in Rows
            /\ embedder[w].text \in 0 .. MaxTexts /\ embedder[w].hash \in 0 .. MaxTexts
        BY <1>a, <3>2 DEF Jobs
      <4> QED BY <3>2, <4>1 DEF Rows
    <3>4. embedding' = [embedding EXCEPT ![t] = row]
      BY <1>a, <3>1, <3>2 DEF Rows
    <3> HIDE DEF row
    <3> QED BY <1>10, <2>1, <3>1, <3>2, <3>3, <3>4
  <2>3. CASE embedding[t].owner \notin {w, NoWorker}
    <3>1. EmbeddingGoes(w, "fail") /\ embedding' = embedding
      BY <1>12, <2>3 DEF CompleteEmbeddingJob
    <3> QED BY <1>8, <2>1, <3>1
  <2> QED BY <2>2, <2>3
<1>13. ASSUME NEW w \in EmbeddingWorkers, FailEmbeddingJob(w) PROVE EmbeddingInv'
  <2> DEFINE t == embedder[w].track
             row == [embedding[t] EXCEPT !.status = "failed", !.owner = NoWorker]
  <2>1. /\ embedding' = [embedding EXCEPT ![t].status = "failed", ![t].owner = NoWorker]
        /\ embedder' = [embedder EXCEPT ![w] = NotEmbedding]
        /\ UNCHANGED <<canonicalText, comparing>>
    BY <1>13 DEF FailEmbeddingJob
  <2>2. t \in EmbeddedTracks
    BY <1>13, <1>a DEF FailEmbeddingJob, KeepsHash
  <2>3. row \in Rows /\ row.status = "failed"
    BY <1>a, <2>2 DEF Rows
  <2>4. embedding' = [embedding EXCEPT ![t] = row]
    BY <1>a, <2>1, <2>2 DEF Rows
  <2> HIDE DEF row
  <2> QED BY <1>10, <2>1, <2>2, <2>3, <2>4
<1>14. ASSUME NEW w \in EmbeddingWorkers, EmbeddingWorkerCrashes(w) PROVE EmbeddingInv'
  BY <1>11, <1>14 DEF EmbeddingWorkerCrashes
<1>15. CASE UNCHANGED embeddingVars
  BY <1>15, <1>a, OtherStep DEF embeddingVars
<1> QED
  BY <1>1, <1>3, <1>4, <1>5, <1>6, <1>7, <1>9, <1>12, <1>13, <1>14, <1>15 DEF EmbeddingNext

-----------------------------------------------------------------------------
\* A ready vector is that of the text whose hash its row keeps, however late the worker that
\* stored it and whatever became of the Track meanwhile (embeddings/repository.ts,
\* completeEmbeddingJob).
THEOREM StaleVectorsAreFound == EmbeddingSpec => []StaleVectorsAreNoticed
<1>1. EmbeddingInv => StaleVectorsAreNoticed
  BY DEF EmbeddingInv
<1> QED BY <1>1, EmbeddingStarts, EmbeddingStep, PTL DEF EmbeddingSpec

\* A Track is listed or not, and a row whose lease has not run out has an owner.
LeasesHaveOwners ==
  /\ listed \subseteq EmbeddedTracks
  /\ embeddingHeld \subseteq {t \in EmbeddedTracks : embedding[t].owner # NoWorker}

LEMMA LeasesStep == EmbeddingInv /\ LeasesHaveOwners /\ [EmbeddingNext]_embeddingVars => LeasesHaveOwners'
<1> SUFFICES ASSUME EmbeddingInv, LeasesHaveOwners, [EmbeddingNext]_embeddingVars PROVE LeasesHaveOwners'
  OBVIOUS
<1>a. embedding \in [EmbeddedTracks -> Rows]
  BY DEF EmbeddingInv, RowsAndJobs
<1>1. ASSUME NEW t \in EmbeddedTracks, listed' \subseteq listed \cup {t},
             \A u \in EmbeddedTracks : embedding'[u].owner = embedding[u].owner, embeddingHeld' \subseteq embeddingHeld
      PROVE  LeasesHaveOwners'
  BY <1>1 DEF LeasesHaveOwners
<1>2. ASSUME NEW t \in EmbeddedTracks,
             ListTrack(t) \/ WithdrawTrack(t) \/ ChangeTerms(t) \/ LoadCanonicalMetadata(t) \/ EmbeddingLeaseExpires(t)
      PROVE  LeasesHaveOwners'
  <2>1. /\ listed' \subseteq listed \cup {t} /\ embeddingHeld' \subseteq embeddingHeld
        /\ MarkStale(t) \/ embedding' = embedding
    BY <1>2 DEF ListTrack, WithdrawTrack, ChangeTerms, LoadCanonicalMetadata, EmbeddingLeaseExpires
  <2>2. \A u \in EmbeddedTracks : embedding'[u].owner = embedding[u].owner
    BY <1>a, <2>1 DEF MarkStale, Rows
  <2> QED BY <1>1, <2>1, <2>2
<1>3. ASSUME NEW t \in EmbeddedTracks, listed' = listed,
             \A u \in EmbeddedTracks \ {t} : embedding'[u] = embedding[u],
             \/ embeddingHeld' = embeddingHeld \ {t}
             \/ embeddingHeld' = embeddingHeld \cup {t} /\ embedding'[t].owner # NoWorker
      PROVE  LeasesHaveOwners'
  BY <1>3 DEF LeasesHaveOwners
<1>4. ASSUME UNCHANGED <<listed, embedding, embeddingHeld>> PROVE LeasesHaveOwners'
  BY <1>4 DEF LeasesHaveOwners
<1>5. ASSUME NEW t \in EmbeddedTracks, EnqueueMissingEmbedding(t) PROVE LeasesHaveOwners'
  BY <1>a, <1>3, <1>4, <1>5 DEF EnqueueMissingEmbedding
<1>6. ASSUME NEW t \in EmbeddedTracks, NEW w \in EmbeddingWorkers, ClaimNextEmbeddingJob(w, t)
      PROVE  LeasesHaveOwners'
  <2>1. /\ embedding' = [embedding EXCEPT ![t] = [embedding[t] EXCEPT !.status = "processing", !.owner = w]]
        /\ embeddingHeld' = embeddingHeld \cup {t} /\ listed' = listed
    BY <1>6 DEF ClaimNextEmbeddingJob
  <2>2. embedding'[t].owner = w
    BY <1>a, <2>1 DEF Rows
  <2> QED BY <1>a, <1>3, <2>1, <2>2, NoWorkerAssumption
<1>7. ASSUME NEW w \in EmbeddingWorkers, CompleteEmbeddingJob(w) \/ FailEmbeddingJob(w) PROVE LeasesHaveOwners'
  <2>1. embedder[w].track \in EmbeddedTracks
    BY <1>7 DEF CompleteEmbeddingJob, FailEmbeddingJob, EmbeddingInv, TextsKeepTheirHash, KeepsHash
  <2>2. \/ UNCHANGED <<listed, embedding, embeddingHeld>>
        \/ /\ listed' = listed /\ embeddingHeld' = embeddingHeld \ {embedder[w].track}
           /\ \A u \in EmbeddedTracks \ {embedder[w].track} : embedding'[u] = embedding[u]
    BY <1>a, <1>7 DEF CompleteEmbeddingJob, FailEmbeddingJob
  <2> QED BY <1>3, <1>4, <2>1, <2>2
<1>8. ASSUME NEW w \in EmbeddingWorkers, EmbedDocument(w) \/ EmbeddingWorkerCrashes(w) PROVE LeasesHaveOwners'
  BY <1>4, <1>8 DEF EmbedDocument, EmbeddingWorkerCrashes
<1>9. CASE UNCHANGED embeddingVars
  BY <1>4, <1>9 DEF embeddingVars
<1> QED BY <1>2, <1>5, <1>6, <1>7, <1>8, <1>9 DEF EmbeddingNext

\* The variables of the embedding queue are in their domains; a lease has an owner.
THEOREM EmbeddingTypesAreKept == EmbeddingSpec => []EmbeddingTypeOK
<1>1. EmbeddingInit => LeasesHaveOwners
  BY DEF EmbeddingInit, LeasesHaveOwners
<1>2. EmbeddingInv /\ LeasesHaveOwners => EmbeddingTypeOK
  BY DEF EmbeddingInv, RowsAndJobs, LeasesHaveOwners, EmbeddingTypeOK, Rows, Jobs
<1> QED BY <1>1, <1>2, EmbeddingStarts, EmbeddingStep, LeasesStep, PTL DEF EmbeddingSpec

-----------------------------------------------------------------------------
(***************************************************************************)
(* DemandSheet: acceptances answer the brief, and what is offered as       *)
(* fulfilled can be, for any Tracks, terms and targets.                    *)
(***************************************************************************)
Demands == [status : {"draft", "open", "fulfilled", "closed", "cancelled"}, brief : 1 .. MaxBriefs,
            target : 1 .. MaxTarget, tempo : Tempos \cup {0}, required : SUBSET Terms]

Answers == [status : {"none", "working", "submitted", "shortlisted", "accepted", "declined", "withdrawn"},
            brief : 0 .. MaxBriefs]

\* There are no responses before there is a Demand, and never more than finitely many that
\* are accepted.
DemandInv ==
  /\ DemandTypeOK
  /\ demand = NoDemand => \A s \in Songs : response[s] = NoResponse
  /\ IsFiniteSet(Accepted)
  /\ AcceptedAnswersBrief

LEMMA DemandStarts == DemandInit => DemandInv
<1> SUFFICES ASSUME DemandInit PROVE DemandInv
  OBVIOUS
<1>1. DemandTypeOK
  <2>1. NoResponse \in Answers
    BY DemandBoundAssumption DEF NoResponse, Answers
  <2>2. response \in [Songs -> Answers]
    BY <2>1 DEF DemandInit
  <2>3. catalogue \in [Songs -> [state : {"unpublished", "published", "withdrawn", "rejected"},
                                 tempo : Tempos \cup {0}, terms : SUBSET Terms]]
    BY DEF DemandInit
  <2> QED BY <2>2, <2>3 DEF DemandInit, DemandTypeOK, Answers
<1>2. Accepted = {}
  BY DEF DemandInit, Accepted, NoResponse
<1>3. demand.status = "none"
  BY DEF DemandInit, NoDemand
<1>4. IsFiniteSet(Accepted)
  BY <1>2, FS_EmptySet
<1> QED BY <1>1, <1>2, <1>3, <1>4 DEF DemandInit, DemandInv, AcceptedAnswersBrief

\* A step that changes one response, to an answer to the brief as it stands if it accepts
\* it, while the Demand is open or the response was and is not accepted.
LEMMA AnswerKeeps ==
  ASSUME DemandInv, NEW s \in Songs, NEW answer \in Answers, Answer(s, answer),
         demand # NoDemand,
         answer.status = "accepted" => answer.brief = demand.brief /\ demand.status = "open",
         response[s].status = "accepted" => demand.status = "open"
  PROVE  DemandInv'
<1>1. response \in [Songs -> Answers]
  BY DEF DemandInv, DemandTypeOK, Answers
<1>2. /\ response' = [response EXCEPT ![s] = answer]
      /\ UNCHANGED <<demand, overdue, references, catalogue, activeTerms>>
  BY DEF Answer
<1>3. response' \in [Songs -> Answers]
  BY <1>1, <1>2
<1>4. DemandTypeOK'
  BY <1>2, <1>3 DEF DemandInv, DemandTypeOK, Answers
<1>5. Accepted' \subseteq Accepted \cup {s} /\ \A r \in Songs \ {s} : response'[r] = response[r]
  BY <1>1, <1>2 DEF Accepted
<1>6. IsFiniteSet(Accepted')
  BY <1>5, FS_AddElement, FS_Subset DEF DemandInv
<1>7. \A r \in Accepted' : response'[r].brief = demand'.brief
  BY <1>1, <1>2, <1>5 DEF DemandInv, AcceptedAnswersBrief, Accepted
<1>8. demand'.status = "fulfilled" => Accepted' = Accepted
  BY <1>1, <1>2, <1>5 DEF Accepted
<1>9. demand'.status = "fulfilled" => Cardinality(Accepted') >= demand'.target
  BY <1>2, <1>8 DEF DemandInv, AcceptedAnswersBrief
<1> QED BY <1>2, <1>4, <1>6, <1>7, <1>9 DEF DemandInv, AcceptedAnswersBrief

LEMMA ResponsesKeep ==
  ASSUME DemandInv, NEW s \in Songs,
         \/ ProposeCatalogTrack(s) \/ UploadForDemand(s) \/ LinkExistingSubmission(s)
         \/ SubmitOrRefreshResponse(s) \/ WithdrawResponse(s) \/ Shortlist(s) \/ Decline(s)
         \/ Restore(s) \/ Accept(s) \/ Unaccept(s)
  PROVE  DemandInv'
<1>1. response[s] \in Answers /\ demand.brief \in 0 .. MaxBriefs /\ NoResponse \in Answers
  BY DemandBoundAssumption DEF DemandInv, DemandTypeOK, Answers, NoDemand, NoResponse
<1>2. response[s].status # "none" => demand # NoDemand
  BY DEF DemandInv, NoResponse
<1>3. demand.status = "open" => demand # NoDemand
  BY DEF NoDemand
<1>4. ASSUME ProposeCatalogTrack(s) \/ Restore(s)
      PROVE  DemandInv'
  <2>1. Answer(s, [status |-> "submitted", brief |-> demand.brief]) /\ demand.status = "open"
    BY <1>4 DEF ProposeCatalogTrack, Restore, CoordinatorMutation, ResponseWindowOpen
  <2>2. [status |-> "submitted", brief |-> demand.brief] \in Answers
    BY <1>1 DEF Answers
  <2> QED BY <1>3, <2>1, <2>2, AnswerKeeps
<1>5. ASSUME UploadForDemand(s) \/ LinkExistingSubmission(s)
      PROVE  DemandInv'
  <2>1. Answer(s, [NoResponse EXCEPT !.status = "working"]) /\ demand.status = "open"
    BY <1>5 DEF UploadForDemand, LinkExistingSubmission, LinkCreatedSubmissionResponse, ResponseWindowOpen
  <2>2. [NoResponse EXCEPT !.status = "working"] \in Answers /\ [NoResponse EXCEPT !.status = "working"].status = "working"
    BY <1>1 DEF Answers, NoResponse
  <2> QED BY <1>3, <2>1, <2>2, AnswerKeeps
<1>6. ASSUME SubmitOrRefreshResponse(s)
      PROVE  DemandInv'
  <2> DEFINE answer == [response[s] EXCEPT !.status = "submitted", !.brief = demand.brief]
  <2>1. Answer(s, answer) /\ demand.status = "open"
    BY <1>6 DEF SubmitOrRefreshResponse, ResponseWindowOpen
  <2>2. answer \in Answers /\ answer.status = "submitted"
    BY <1>1 DEF Answers
  <2> QED BY <1>3, <2>1, <2>2, AnswerKeeps
<1>7. ASSUME WithdrawResponse(s)
      PROVE  DemandInv'
  <2> DEFINE answer == [response[s] EXCEPT !.status = "withdrawn"]
  <2>1. Answer(s, answer) /\ response[s].status \in {"working", "submitted", "shortlisted"}
    BY <1>7 DEF WithdrawResponse
  <2>2. answer \in Answers /\ answer.status = "withdrawn"
    BY <1>1 DEF Answers
  <2> QED BY <1>2, <2>1, <2>2, AnswerKeeps
<1>8. ASSUME NEW status \in {"shortlisted", "declined"},
             Answer(s, [response[s] EXCEPT !.status = status]), demand.status = "open"
      PROVE  DemandInv'
  <2> DEFINE answer == [response[s] EXCEPT !.status = status]
  <2>1. answer \in Answers /\ answer.status = status
    BY <1>1 DEF Answers
  <2> QED BY <1>3, <1>8, <2>1, AnswerKeeps
<1>9. ASSUME Shortlist(s) \/ Decline(s) \/ Unaccept(s)
      PROVE  DemandInv'
  BY <1>8, <1>9 DEF Shortlist, Decline, Unaccept, CoordinatorMutation
<1>10. ASSUME Accept(s)
       PROVE  DemandInv'
  <2> DEFINE answer == [response[s] EXCEPT !.status = "accepted"]
  <2>1. Answer(s, answer) /\ demand.status = "open" /\ response[s].brief = demand.brief
    BY <1>10 DEF Accept, CoordinatorMutation
  <2>2. answer \in Answers /\ answer.brief = response[s].brief
    BY <1>1 DEF Answers
  <2> QED BY <1>3, <2>1, <2>2, AnswerKeeps
<1> QED BY <1>4, <1>5, <1>6, <1>7, <1>9, <1>10

\* A step that leaves the responses.
LEMMA SheetKeeps ==
  ASSUME DemandInv, DemandTypeOK', UNCHANGED response,
         demand' = NoDemand => demand = NoDemand,
         Accepted # {} => demand'.brief = demand.brief /\ demand'.target = demand.target,
         demand'.status = "fulfilled" =>
           \/ demand.status = "fulfilled" /\ demand'.target = demand.target
           \/ Cardinality(CoveredBy) >= demand'.target
  PROVE  DemandInv'
<1>1. Accepted' = Accepted
  BY DEF Accepted
<1>2. demand' = NoDemand => \A s \in Songs : response'[s] = NoResponse
  BY DEF DemandInv
<1>3. \A s \in Accepted' : response'[s].brief = demand'.brief
  BY <1>1 DEF DemandInv, AcceptedAnswersBrief
<1>4. demand'.status = "fulfilled" => Cardinality(Accepted') >= demand'.target
  <2>1. CASE demand.status = "fulfilled" /\ demand'.target = demand.target
    BY <1>1, <2>1 DEF DemandInv, AcceptedAnswersBrief
  <2>2. ASSUME demand'.status = "fulfilled", Cardinality(CoveredBy) >= demand'.target
        PROVE  Cardinality(Accepted') >= demand'.target
    <3>1. CoveredBy \subseteq Accepted
      BY DEF CoveredBy
    <3>2. /\ Cardinality(CoveredBy) <= Cardinality(Accepted)
          /\ Cardinality(CoveredBy) \in Nat /\ Cardinality(Accepted) \in Nat
      BY <3>1, FS_Subset, FS_CardinalityType DEF DemandInv
    <3>3. demand'.target \in Nat
      BY <2>2, DemandBoundAssumption DEF DemandTypeOK, NoDemand
    <3> QED BY <1>1, <2>2, <3>2, <3>3
  <2> QED BY <2>1, <2>2
<1> QED BY <1>1, <1>2, <1>3, <1>4 DEF DemandInv, AcceptedAnswersBrief

LEMMA DemandsKeep ==
  ASSUME DemandInv, NEW target \in 1 .. MaxTarget, NEW tempo \in Tempos \cup {0},
         NEW required \in SUBSET Terms, NEW refs \in SUBSET Songs,
         \/ \E intent \in {"draft", "open"} : CreateDemand(intent, target, tempo, required, refs)
         \/ \E extended \in BOOLEAN : UpdateDemand(target, tempo, required, refs, extended)
  PROVE  DemandInv'
<1>1. ASSUME NEW intent \in {"draft", "open"}, CreateDemand(intent, target, tempo, required, refs)
      PROVE  DemandInv'
  <2> DEFINE new == [status |-> intent, brief |-> 1, target |-> target, tempo |-> tempo, required |-> required]
  <2>1. demand = NoDemand /\ demand' = new /\ references' = refs
        /\ UNCHANGED <<overdue, response, catalogue, activeTerms>>
    BY <1>1 DEF CreateDemand
  <2>2. new \in Demands
    BY DemandBoundAssumption DEF Demands
  <2>3. DemandTypeOK'
    BY <2>1, <2>2 DEF DemandInv, DemandTypeOK, Demands
  <2>4. Accepted = {}
    BY <2>1 DEF DemandInv, Accepted, NoResponse
  <2>5. demand'.status = intent
    BY <2>1
  <2>6. demand' # NoDemand
    BY <2>5 DEF NoDemand
  <2> QED BY <2>1, <2>3, <2>4, <2>5, <2>6, SheetKeeps
<1>2. ASSUME NEW extended \in BOOLEAN, UpdateDemand(target, tempo, required, refs, extended)
      PROVE  DemandInv'
  <2> DEFINE material == Material(target, tempo, required, refs)
             brief == IF material THEN NextBrief ELSE demand.brief
  <2>1. /\ demand' = [demand EXCEPT !.target = target, !.tempo = tempo, !.required = required, !.brief = brief]
        /\ references' = refs /\ UNCHANGED <<response, catalogue, activeTerms>>
        /\ overdue' = (overdue /\ ~extended)
        /\ demand.status # "none"
        /\ material => BriefEditAllowed /\ NextBrief <= MaxBriefs
    BY <1>2 DEF UpdateDemand
  <2>2. demand \in Demands
    BY <2>1 DEF DemandInv, DemandTypeOK, Demands, NoDemand
  <2>3. brief \in 1 .. MaxBriefs
    BY <2>1, <2>2, DemandBoundAssumption DEF Demands, NextBrief
  <2>4. /\ demand' \in Demands /\ demand'.target = target /\ demand'.brief = brief
        /\ demand'.status = demand.status
    BY <2>1, <2>2, <2>3 DEF Demands
  <2>5. overdue' \in BOOLEAN
    BY <2>1 DEF DemandInv, DemandTypeOK
  <2>6. DemandTypeOK'
    BY <2>1, <2>4, <2>5 DEF DemandInv, DemandTypeOK, Demands
  <2>7. ~material => target = demand.target
    BY DEF Material
  <2>8. Accepted # {} \/ demand.status = "fulfilled" => ~material
    BY <2>1 DEF BriefEditAllowed
  <2>9. demand' # NoDemand
    BY <2>4 DEF Demands, NoDemand
  <2> QED BY <2>1, <2>4, <2>6, <2>7, <2>8, <2>9, SheetKeeps
<1> QED BY <1>1, <1>2

LEMMA ReferencesKeep ==
  ASSUME DemandInv, NEW s \in Songs, AddDemandReference(s) \/ RemoveDemandReference(s)
  PROVE  DemandInv'
<1>1. PICK changed \in SUBSET Songs : ChangeReferences(changed)
  BY DEF AddDemandReference, RemoveDemandReference, DemandInv, DemandTypeOK
<1>2. demand \in Demands
  BY <1>1 DEF ChangeReferences, DemandInv, DemandTypeOK, Demands, NoDemand
<1>3. NextBrief \in 1 .. MaxBriefs
  BY <1>1, <1>2, DemandBoundAssumption DEF ChangeReferences, Demands, NextBrief
<1>4. demand' \in Demands /\ demand'.status = demand.status
  BY <1>1, <1>2, <1>3 DEF ChangeReferences, Demands
<1>5. DemandTypeOK'
  BY <1>1, <1>4 DEF ChangeReferences, DemandInv, DemandTypeOK, Demands
<1>6. Accepted = {} /\ demand.status # "fulfilled"
  BY <1>1 DEF ChangeReferences, BriefEditAllowed
<1>7. demand' # NoDemand
  BY <1>4 DEF Demands, NoDemand
<1> QED BY <1>1, <1>4, <1>5, <1>6, <1>7, SheetKeeps DEF ChangeReferences

LEMMA TransitionKeeps ==
  ASSUME DemandInv, NEW to \in {"open", "fulfilled", "closed", "cancelled"}, TransitionDemand(to)
  PROVE  DemandInv'
<1>1. /\ demand' = [demand EXCEPT !.status = to] /\ CanTransition(demand.status, to)
      /\ to = "fulfilled" => Cardinality(CoveredBy) >= demand.target
      /\ UNCHANGED <<overdue, references, response, catalogue, activeTerms>>
  BY DEF TransitionDemand
<1>2. demand \in Demands
  BY <1>1 DEF CanTransition, DemandInv, DemandTypeOK, Demands, NoDemand
<1>3. demand' \in Demands /\ demand'.status = to /\ demand'.brief = demand.brief /\ demand'.target = demand.target
  BY <1>1, <1>2 DEF Demands
<1>4. DemandTypeOK'
  BY <1>1, <1>3 DEF DemandInv, DemandTypeOK, Demands
<1>5. demand' # NoDemand
  BY <1>3 DEF Demands, NoDemand
<1> QED BY <1>1, <1>3, <1>4, <1>5, SheetKeeps

LEMMA CatalogueKeeps ==
  ASSUME DemandInv,
         \/ \E s \in Songs : \/ WithdrawSong(s) \/ RepublishSong(s) \/ RejectSong(s)
                             \/ \E tempo \in Tempos \cup {0}, terms \in SUBSET Terms : PublishSong(s, tempo, terms)
         \/ \E term \in Terms : SetTermActive(term)
         \/ DeadlinePasses
  PROVE  DemandInv'
<1>1. UNCHANGED <<demand, references, response>>
  BY DEF WithdrawSong, RepublishSong, RejectSong, SetState, PublishSong, SetTermActive, DeadlinePasses
<1> DEFINE SongRows == [state : {"unpublished", "published", "withdrawn", "rejected"},
                    tempo : Tempos \cup {0}, terms : SUBSET Terms]
<1>2. catalogue' \in [Songs -> SongRows]
  <2>1. catalogue \in [Songs -> SongRows]
    BY DEF DemandInv, DemandTypeOK
  <2>2. ASSUME NEW s \in Songs, NEW to \in {"withdrawn", "published", "rejected"},
               catalogue' = [catalogue EXCEPT ![s].state = to]
        PROVE  catalogue' \in [Songs -> SongRows]
    BY <2>1, <2>2
  <2>3. ASSUME NEW s \in Songs, NEW tempo \in Tempos \cup {0}, NEW terms \in SUBSET Terms, PublishSong(s, tempo, terms)
        PROVE  catalogue' \in [Songs -> SongRows]
    BY <2>1, <2>3 DEF PublishSong
  <2> QED BY <2>1, <2>2, <2>3 DEF WithdrawSong, RepublishSong, RejectSong, SetState, SetTermActive, DeadlinePasses
<1>3. overdue' \in BOOLEAN /\ activeTerms' \subseteq Terms
  BY DEF WithdrawSong, RepublishSong, RejectSong, SetState, PublishSong, SetTermActive, DeadlinePasses,
         DemandInv, DemandTypeOK
<1>4. DemandTypeOK'
  BY <1>1, <1>2, <1>3 DEF DemandInv, DemandTypeOK
<1> QED BY <1>1, <1>4, SheetKeeps

LEMMA DemandStep == DemandInv /\ [DemandNext]_demandVars => DemandInv'
<1> SUFFICES ASSUME DemandInv, [DemandNext]_demandVars PROVE DemandInv'
  OBVIOUS
<1>1. CASE UNCHANGED demandVars
  <2>1. DemandTypeOK'
    BY <1>1 DEF demandVars, DemandInv, DemandTypeOK
  <2> QED BY <1>1, <2>1, SheetKeeps DEF demandVars
<1>2. ASSUME NEW target \in 1 .. MaxTarget, NEW tempo \in Tempos \cup {0},
             NEW required \in SUBSET Terms, NEW refs \in SUBSET Songs,
             \/ \E intent \in {"draft", "open"} : CreateDemand(intent, target, tempo, required, refs)
             \/ \E extended \in {FALSE, overdue} : UpdateDemand(target, tempo, required, refs, extended)
      PROVE  DemandInv'
  <2>1. overdue \in BOOLEAN
    BY DEF DemandInv, DemandTypeOK
  <2> QED BY <1>2, <2>1, DemandsKeep
<1>3. CASE \E to \in {"open", "fulfilled", "closed", "cancelled"} : TransitionDemand(to)
  BY <1>3, TransitionKeeps
<1>4. ASSUME NEW s \in Songs,
             \/ AddDemandReference(s) \/ RemoveDemandReference(s)
             \/ ProposeCatalogTrack(s) \/ UploadForDemand(s) \/ LinkExistingSubmission(s)
             \/ SubmitOrRefreshResponse(s) \/ WithdrawResponse(s) \/ Shortlist(s) \/ Decline(s)
             \/ Restore(s) \/ Accept(s) \/ Unaccept(s)
             \/ WithdrawSong(s) \/ RepublishSong(s) \/ RejectSong(s)
             \/ \E tempo \in Tempos \cup {0}, terms \in SUBSET Terms : PublishSong(s, tempo, terms)
      PROVE  DemandInv'
  BY <1>4, ReferencesKeep, ResponsesKeep, CatalogueKeeps
<1>5. CASE (\E term \in Terms : SetTermActive(term)) \/ DeadlinePasses
  BY <1>5, CatalogueKeeps
<1> QED BY <1>1, <1>2, <1>3, <1>4, <1>5 DEF DemandNext

LEMMA DemandInvHolds == DemandSpec => []DemandInv
BY DemandStarts, DemandStep, PTL DEF DemandSpec

\* An acceptance answers the brief as it stands, and a fulfilled Demand keeps as many as it
\* asked for: a material edit needs that nothing is accepted, and the Demand's status and
\* its responses are changed under the same lock.
THEOREM AcceptancesStand == DemandSpec => []AcceptedAnswersBrief
<1>1. DemandInv => AcceptedAnswersBrief
  BY DEF DemandInv
<1> QED BY <1>1, DemandInvHolds, PTL

\* The acceptances that the list counts in SQL are those that the evaluator lets through.
LEMMA CountedAlike == {s \in Songs : ValidAccepted(s)} = CoveredBy
<1>1. ASSUME NEW s \in Songs
      PROVE  ValidAccepted(s) <=> response[s].status = "accepted" /\ Published(s) /\ EligibleForAcceptance(s)
  BY DEF ValidAccepted, EligibleForAcceptance, RowsOfTrack
<1> QED BY <1>1 DEF CoveredBy, Accepted

\* The filters of the search page select the Required terms, each once.
LEMMA SelectionsAreRequired == UNION FiltersOfDemand.terms = demand.required
<1>1. FiltersOfDemand.terms = {demand.required \cap Formats, demand.required \ Formats} \ {{}}
  BY DEF FiltersOfDemand
<1>2. \A selected \in FiltersOfDemand.terms : selected \subseteq demand.required
  BY <1>1
<1>3. ASSUME NEW term \in demand.required PROVE \E selected \in FiltersOfDemand.terms : term \in selected
  <2>1. CASE term \in Formats
    <3>1. demand.required \cap Formats \in FiltersOfDemand.terms
      BY <1>1, <2>1
    <3> QED BY <2>1, <3>1
  <2>2. CASE term \notin Formats
    <3>1. demand.required \ Formats \in FiltersOfDemand.terms
      BY <1>1, <2>2
    <3> QED BY <2>2, <3>1
  <2> QED BY <2>1, <2>2
<1> QED BY <1>2, <1>3

\* A search that may select all terms of a Demand asks for one of a category, and all of
\* them are active: a Track that has them all is found.
LEMMA EligibleIsFound ==
  ASSUME Cardinality(demand.required) <= MaxSelections,
         NEW s \in Songs, Published(s), EligibleForAcceptance(s)
  PROVE  FoundForDemand(s)
<1>1. demand.required \subseteq RowsOfTrack(s).acceptedTerms
  BY DEF EligibleForAcceptance
<1>2. ASSUME NEW selected \in FiltersOfDemand.terms PROVE selected \cap RowsOfTrack(s).acceptedTerms # {}
  <2>1. selected \subseteq demand.required /\ selected # {}
    BY DEF FiltersOfDemand
  <2> QED BY <1>1, <2>1
<1>3. FiltersOfDemand.tempo # 0 => catalogue[s].tempo # 0 /\ catalogue[s].tempo >= FiltersOfDemand.tempo
  BY DEF EligibleForAcceptance, RowsOfTrack, FiltersOfDemand
<1>4. SearchAccepted
  BY SelectionsAreRequired DEF SearchAccepted, EligibleForAcceptance
<1> QED BY <1>2, <1>3, <1>4 DEF FoundForDemand

\* Whatever has become of the Tracks and of the taxonomy, the button that fulfils a Demand is
\* offered just when transitionDemand counts enough, and the search that a responder begins
\* with shows every Track that could be accepted, of a Demand with no more Required terms
\* than a search may select.
THEOREM OfferedIsFulfilled == DemandSpec => []ReadyCanBeFulfilled
<1>1. ReadyCanBeFulfilled
  <2>1. ReadyToFulfill <=> demand.status = "open" /\ Cardinality(CoveredBy) >= demand.target
    BY CountedAlike DEF ReadyToFulfill
  <2>2. ASSUME NEW to \in OfferedTransitions
        PROVE  CanTransition(demand.status, to) /\ (to = "fulfilled" => Cardinality(CoveredBy) >= demand.target)
    <3>1. CASE demand.status = "draft"
      BY <3>1 DEF OfferedTransitions, CanTransition
    <3>2. CASE demand.status = "open"
      <4>1. OfferedTransitions = {"closed", "cancelled"} \cup (IF ReadyToFulfill THEN {"fulfilled"} ELSE {})
        BY <3>2 DEF OfferedTransitions
      <4> QED BY <2>1, <3>2, <4>1 DEF CanTransition
    <3>3. CASE demand.status \in {"closed", "fulfilled"}
      BY <3>3 DEF OfferedTransitions, CanTransition
    <3>4. CASE demand.status \notin {"draft", "open", "closed", "fulfilled"}
      BY <3>4 DEF OfferedTransitions
    <3> QED BY <3>1, <3>2, <3>3, <3>4
  <2>3. demand.status = "open" /\ Cardinality(CoveredBy) >= demand.target => "fulfilled" \in OfferedTransitions
    BY <2>1 DEF OfferedTransitions
  <2> QED BY <2>2, <2>3, EligibleIsFound DEF ReadyCanBeFulfilled
<1> QED BY <1>1, PTL

-----------------------------------------------------------------------------
(***************************************************************************)
(* CatalogSearch: withdrawn Tracks are not shown, for any Tracks,          *)
(* indexers, visitors and page size.                                       *)
(***************************************************************************)
Transactions ==
  [at : {"idle", "delete", "insert", "commit"},
   update : {"none", "publish", "withdraw", "term", "rebuild"},
   scope : SUBSET SearchTracks, saw : SUBSET SearchTracks, sawActive : BOOLEAN,
   wrote : [SearchTracks -> Contents \cup {"untouched"}]]

Visits == [at : {"idle", "search", "nearest", "load", "shown"},
           query : {"none", "title", "label", "facet"},
           candidates : SUBSET SearchTracks, shown : SUBSET SearchTracks]

IndexTypes ==
  /\ public \in [SearchTracks -> {"unpublished", "published", "withdrawn"}]
  /\ termActive \in BOOLEAN
  /\ document \in [SearchTracks -> Contents]
  /\ vectorState \in [SearchTracks -> {"none", "ready", "stale"}]

LEMMA SearchTypes ==
  SearchTypeOK <=> IndexTypes /\ indexer \in [Indexers -> Transactions] /\ visitor \in [Visitors -> Visits]
BY DEF SearchTypeOK, IndexTypes, Transactions, Visits

LEMMA NothingUnderWay == NoTransaction \in Transactions /\ NoVisit \in Visits
BY DEF NoTransaction, NoVisit, Transactions, Visits, Untouched

LEMMA SearchStarts == SearchInit => SearchTypeOK
BY SearchTypes, NothingUnderWay DEF SearchInit, IndexTypes, Contents

\* What a connection does up to its commit shows in no variable but its own.
LEMMA IndexerKeeps ==
  ASSUME SearchTypeOK, NEW i \in Indexers,
         \/ \E t \in SearchTracks : StartPublication(i, t) \/ StartWithdrawal(i, t)
         \/ StartTermChange(i) \/ StartRebuild(i) \/ DeleteOutdated(i) \/ UpsertDocuments(i)
         \/ CommitRefresh(i) \/ RefreshFails(i)
  PROVE  SearchTypeOK' /\ UNCHANGED visitor
<1>1. IndexTypes /\ indexer \in [Indexers -> Transactions] /\ visitor \in [Visitors -> Visits]
  BY SearchTypes
<1>2. ASSUME NEW update \in {"publish", "withdraw", "term", "rebuild"}, NEW within \in SUBSET SearchTracks
      PROVE  Snapshot(update, within).saw \in SUBSET SearchTracks /\ Snapshot(update, within).active \in BOOLEAN
  BY <1>1 DEF Snapshot, Public, IndexTypes
<1>3. ASSUME NEW update \in {"publish", "withdraw", "term", "rebuild"}, NEW within \in SUBSET SearchTracks,
             StartRefresh(i, update, within)
      PROVE  SearchTypeOK' /\ UNCHANGED visitor
  <2> DEFINE seen == Snapshot(update, within)
             tx == [at |-> "delete", update |-> update, scope |-> within, saw |-> seen.saw,
                    sawActive |-> seen.active, wrote |-> Untouched]
  <2>1. seen.saw \in SUBSET SearchTracks /\ seen.active \in BOOLEAN
    BY <1>2
  <2>2. indexer' = [indexer EXCEPT ![i] = tx] /\ UNCHANGED <<indexVars, visitor>>
    BY <1>3 DEF StartRefresh
  <2> HIDE DEF seen
  <2>3. tx \in Transactions
    BY <2>1 DEF Transactions, Untouched
  <2>4. indexer' \in [Indexers -> Transactions]
    BY <1>1, <2>2, <2>3
  <2> QED BY <1>1, <2>2, <2>4, SearchTypes DEF indexVars, SearchTypeOK, Transactions
<1>4. CASE \/ \E t \in SearchTracks : StartPublication(i, t) \/ StartWithdrawal(i, t)
           \/ StartTermChange(i) \/ StartRebuild(i)
  <2>1. \E update \in {"publish", "withdraw", "term", "rebuild"}, within \in SUBSET SearchTracks :
          StartRefresh(i, update, within)
    BY <1>4 DEF StartPublication, StartWithdrawal, StartTermChange, StartRebuild
  <2> QED BY <1>3, <2>1
<1>5. ASSUME NEW tx \in Transactions, indexer' = [indexer EXCEPT ![i] = tx], UNCHANGED <<indexVars, visitor>>
      PROVE  SearchTypeOK' /\ UNCHANGED visitor
  BY <1>1, <1>5 DEF SearchTypeOK, Transactions, indexVars
<1>6. indexer[i] \in Transactions
  BY <1>1
<1>7. CASE DeleteOutdated(i)
  <2> DEFINE rows == (indexer[i].scope \ indexer[i].saw) \cap Documented
             seen == Snapshot(indexer[i].update, indexer[i].scope)
             wrote == [t \in SearchTracks |-> IF t \in rows THEN "none" ELSE indexer[i].wrote[t]]
             tx == [indexer[i] EXCEPT !.at = "insert", !.saw = seen.saw, !.sawActive = seen.active, !.wrote = wrote]
  <2>1. indexer' = [indexer EXCEPT ![i] = tx] /\ UNCHANGED <<indexVars, visitor>>
    BY <1>7, <1>1 DEF DeleteOutdated
  <2>2. seen.saw \in SUBSET SearchTracks /\ seen.active \in BOOLEAN
    BY <1>1, <1>6 DEF Snapshot, Public, IndexTypes, Transactions
  <2>3. wrote \in [SearchTracks -> Contents \cup {"untouched"}]
    BY <1>6 DEF Transactions, Contents
  <2> HIDE DEF wrote, seen
  <2>4. tx \in Transactions
    BY <1>6, <2>2, <2>3 DEF Transactions
  <2> QED BY <1>5, <2>1, <2>4
<1>8. CASE UpsertDocuments(i)
  <2> DEFINE rows == indexer[i].scope \cap indexer[i].saw
             content == IF indexer[i].sawActive THEN "labelled" ELSE "titled"
             wrote == [t \in SearchTracks |-> IF t \in rows THEN content ELSE indexer[i].wrote[t]]
             tx == [indexer[i] EXCEPT !.at = "commit", !.wrote = wrote]
  <2>1. indexer' = [indexer EXCEPT ![i] = tx] /\ UNCHANGED <<indexVars, visitor>>
    BY <1>8, <1>1 DEF UpsertDocuments
  <2>2. wrote \in [SearchTracks -> Contents \cup {"untouched"}]
    BY <1>6 DEF Transactions, Contents
  <2> HIDE DEF wrote
  <2>3. tx \in Transactions
    BY <1>6, <2>2 DEF Transactions
  <2> QED BY <1>5, <2>1, <2>3
<1>9. CASE CommitRefresh(i)
  <2>1. \A t \in SearchTracks : indexer[i].wrote[t] \in Contents \cup {"untouched"}
    BY <1>6 DEF Transactions
  <2>2. document' \in [SearchTracks -> Contents]
    BY <1>1, <1>9, <2>1 DEF CommitRefresh, IndexTypes
  <2>3. public' \in [SearchTracks -> {"unpublished", "published", "withdrawn"}]
        /\ vectorState' \in [SearchTracks -> {"none", "ready", "stale"}] /\ termActive' \in BOOLEAN
    BY <1>1, <1>9 DEF CommitRefresh, IndexTypes
  <2>4. indexer' \in [Indexers -> Transactions] /\ UNCHANGED visitor
    BY <1>1, <1>9, NothingUnderWay DEF CommitRefresh
  <2> QED BY <1>1, <2>2, <2>3, <2>4 DEF SearchTypeOK, Transactions, Visits
<1>10. CASE RefreshFails(i)
  BY <1>5, <1>10, NothingUnderWay DEF RefreshFails
<1> QED BY <1>4, <1>7, <1>8, <1>9, <1>10

\* What a visitor is shown is published when the last statement reads it.
LEMMA VisitorKeeps ==
  ASSUME SearchTypeOK, NEW v \in Visitors,
         \/ \E query \in {"title", "label", "facet"} : AskForPage(v, query)
         \/ \E page \in 1 .. MaxPage : SearchPage(v, page)
         \/ \E t \in SearchTracks : OpenTrack(v, t) \/ GetTrackEmbedding(v, t)
         \/ FindNearestPublishedTracks(v) \/ GetPublishedTracksByIds(v) \/ Leave(v)
  PROVE  /\ SearchTypeOK'
         /\ \A u \in Visitors : visitor[u].at # "shown" /\ visitor'[u].at = "shown" => visitor'[u].shown \subseteq Public
<1>1. IndexTypes /\ indexer \in [Indexers -> Transactions] /\ visitor \in [Visitors -> Visits]
  BY SearchTypes
<1>2. Public \subseteq SearchTracks
  BY DEF Public
<1>3. ASSUME NEW visit \in Visits, visitor' = [visitor EXCEPT ![v] = visit], UNCHANGED <<indexVars, indexer>>,
             visit.at = "shown" => visit.shown \subseteq Public
      PROVE  /\ SearchTypeOK'
             /\ \A u \in Visitors : visitor[u].at # "shown" /\ visitor'[u].at = "shown" => visitor'[u].shown \subseteq Public
  <2>1. visitor' \in [Visitors -> Visits]
    BY <1>1, <1>3
  <2>2. SearchTypeOK'
    BY <1>1, <1>3, <2>1 DEF SearchTypeOK, indexVars, Visits
  <2>3. \A u \in Visitors : visitor[u].at # "shown" /\ visitor'[u].at = "shown" => visitor'[u].shown \subseteq Public
    BY <1>1, <1>3
  <2> QED BY <2>2, <2>3
<1>4. ASSUME NEW tracks \in SUBSET Public, Show(v, tracks)
      PROVE  /\ SearchTypeOK'
             /\ \A u \in Visitors : visitor[u].at # "shown" /\ visitor'[u].at = "shown" => visitor'[u].shown \subseteq Public
  <2> DEFINE visit == [NoVisit EXCEPT !.at = "shown", !.shown = tracks]
  <2>1. visit \in Visits /\ visit.shown = tracks
    BY <1>2 DEF Visits, NoVisit
  <2>2. visitor' = [visitor EXCEPT ![v] = visit] /\ UNCHANGED <<indexVars, indexer>>
    BY <1>4 DEF Show
  <2> HIDE DEF visit
  <2> QED BY <1>3, <2>1, <2>2
<1>5. ASSUME NEW query \in {"title", "label", "facet"}, AskForPage(v, query)
      PROVE  /\ SearchTypeOK'
             /\ \A u \in Visitors : visitor[u].at # "shown" /\ visitor'[u].at = "shown" => visitor'[u].shown \subseteq Public
  <2> DEFINE visit == [NoVisit EXCEPT !.at = "search", !.query = query]
  <2>1. visit \in Visits /\ visit.at = "search"
    BY DEF Visits, NoVisit
  <2>2. visitor' = [visitor EXCEPT ![v] = visit] /\ UNCHANGED <<indexVars, indexer>>
    BY <1>5 DEF AskForPage
  <2> HIDE DEF visit
  <2> QED BY <1>3, <2>1, <2>2
<1>6. ASSUME NEW page \in 1 .. MaxPage, SearchPage(v, page)
      PROVE  /\ SearchTypeOK'
             /\ \A u \in Visitors : visitor[u].at # "shown" /\ visitor'[u].at = "shown" => visitor'[u].shown \subseteq Public
  <2>1. \/ \E close \in SUBSET CloseVectors : \E rows \in SUBSET Found(visitor[v].query, close) : Show(v, rows)
        \/ Show(v, {})
        \/ visitor' = [visitor EXCEPT ![v] = NoVisit] /\ UNCHANGED <<indexVars, indexer>>
    BY <1>6 DEF SearchPage
  <2>2. \A query, close : Found(query, close) \subseteq Public
    BY DEF Found
  <2>3. NoVisit.at = "idle"
    BY DEF NoVisit
  <2> QED BY <1>3, <1>4, <2>1, <2>2, <2>3, NothingUnderWay
<1>7. ASSUME NEW t \in SearchTracks, OpenTrack(v, t) \/ GetTrackEmbedding(v, t)
      PROVE  /\ SearchTypeOK'
             /\ \A u \in Visitors : visitor[u].at # "shown" /\ visitor'[u].at = "shown" => visitor'[u].shown \subseteq Public
  <2>1. CASE OpenTrack(v, t)
    BY <1>4, <2>1 DEF OpenTrack
  <2>2. CASE GetTrackEmbedding(v, t)
    <3> DEFINE visit == [NoVisit EXCEPT !.at = "nearest", !.candidates = {t}]
    <3>1. visit \in Visits /\ visit.at = "nearest"
      BY DEF Visits, NoVisit
    <3>2. visitor' = [visitor EXCEPT ![v] = visit] /\ UNCHANGED <<indexVars, indexer>>
      BY <2>2 DEF GetTrackEmbedding
    <3> HIDE DEF visit
    <3> QED BY <1>3, <3>1, <3>2
  <2> QED BY <1>7, <2>1, <2>2
<1>8. CASE FindNearestPublishedTracks(v)
  <2> DEFINE near == {t \in Public : vectorState[t] = "ready"} \ visitor[v].candidates
             visit == [visitor[v] EXCEPT !.at = "load", !.candidates = near]
  <2>1. near \in SUBSET SearchTracks
    BY <1>2
  <2>2. visitor' = [visitor EXCEPT ![v] = visit] /\ UNCHANGED <<indexVars, indexer>>
    BY <1>1, <1>8 DEF FindNearestPublishedTracks
  <2> HIDE DEF near
  <2>3. visit \in Visits /\ visit.at = "load"
    BY <1>1, <2>1 DEF Visits
  <2> HIDE DEF visit
  <2> QED BY <1>3, <2>2, <2>3
<1>9. CASE GetPublishedTracksByIds(v)
  BY <1>4, <1>9 DEF GetPublishedTracksByIds
<1>10. CASE Leave(v)
  <2>1. NoVisit.at = "idle"
    BY DEF NoVisit
  <2> QED BY <1>3, <1>10, <2>1, NothingUnderWay DEF Leave
<1> QED BY <1>5, <1>6, <1>7, <1>8, <1>9, <1>10

LEMMA SearchStep ==
  SearchTypeOK /\ [SearchNext]_searchVars =>
    /\ SearchTypeOK'
    /\ \A v \in Visitors : visitor[v].at # "shown" /\ visitor'[v].at = "shown" => visitor'[v].shown \subseteq Public
<1> SUFFICES ASSUME SearchTypeOK, [SearchNext]_searchVars
             PROVE  /\ SearchTypeOK'
                    /\ \A v \in Visitors : visitor[v].at # "shown" /\ visitor'[v].at = "shown" => visitor'[v].shown \subseteq Public
  OBVIOUS
<1>1. CASE UNCHANGED searchVars
  BY <1>1 DEF searchVars, indexVars, SearchTypeOK
<1>2. ASSUME NEW t \in SearchTracks, CompleteVector(t)
      PROVE  SearchTypeOK' /\ UNCHANGED visitor
  BY <1>2 DEF CompleteVector, SearchTypeOK
<1>3. ASSUME NEW i \in Indexers,
             \/ \E t \in SearchTracks : StartPublication(i, t) \/ StartWithdrawal(i, t)
             \/ StartTermChange(i) \/ StartRebuild(i) \/ DeleteOutdated(i) \/ UpsertDocuments(i)
             \/ CommitRefresh(i) \/ RefreshFails(i)
      PROVE  SearchTypeOK' /\ UNCHANGED visitor
  BY <1>3, IndexerKeeps
<1>4. ASSUME NEW v \in Visitors,
             \/ \E query \in {"title", "label", "facet"} : AskForPage(v, query)
             \/ \E page \in 1 .. MaxPage : SearchPage(v, page)
             \/ \E t \in SearchTracks : OpenTrack(v, t) \/ GetTrackEmbedding(v, t)
             \/ FindNearestPublishedTracks(v) \/ GetPublishedTracksByIds(v) \/ Leave(v)
      PROVE  /\ SearchTypeOK'
             /\ \A u \in Visitors : visitor[u].at # "shown" /\ visitor'[u].at = "shown" => visitor'[u].shown \subseteq Public
  BY <1>4, VisitorKeeps
<1> QED BY <1>1, <1>2, <1>3, <1>4 DEF SearchNext

\* What a visitor is shown, in a page of results, as a Track or as one similar to it, was
\* published when the statement that shows it began, although documents of withdrawn Tracks
\* stay in the index.
THEOREM WithdrawnIsHidden == SearchSpec => WithdrawnTracksAreNotShown
BY SearchStarts, SearchStep, PTL DEF SearchSpec, WithdrawnTracksAreNotShown

-----------------------------------------------------------------------------
(***************************************************************************)
(* The composition.                                                        *)
(***************************************************************************)
\* Side by side every part keeps to its own specification: what is proved of one alone holds
\* of it in the composition.
THEOREM EveryPartRuns ==
  Spec => DemandSpec /\ TeamSpec /\ SearchSpec /\ CopyrightSpec /\ MediaSpec /\ EmbeddingSpec
<1>1. Init => DemandInit /\ TeamInit /\ SearchInit /\ CopyrightInit /\ MediaInit /\ EmbeddingInit
  BY DEF Init
<1>2. ASSUME [Next]_workspaceVars
      PROVE  /\ [DemandNext]_demandVars /\ [TeamNext]_teamVars /\ [SearchNext]_searchVars
             /\ [CopyrightNext]_copyrightVars /\ [MediaNext]_mediaVars
             /\ [EmbeddingNext]_embeddingVars
  BY <1>2 DEF Next, workspaceVars
<1> QED BY <1>1, <1>2, PTL DEF Spec, DemandSpec, TeamSpec, SearchSpec, CopyrightSpec, MediaSpec,
           EmbeddingSpec

\* Every variable of the workspace is in its domain, whatever part moves.
THEOREM WorkspaceTypesAreKept == Spec => []TypeOK
<1>1. /\ DemandTypeOK /\ TeamTypeOK /\ SearchTypeOK /\ CopyrightTypeOK /\ MediaTypeOK /\ EmbeddingTypeOK
      => TypeOK
  BY DEF TypeOK
<1>2. DemandInv => DemandTypeOK
  BY DEF DemandInv
<1>3. SearchSpec => []SearchTypeOK
  BY SearchStarts, SearchStep, PTL DEF SearchSpec
<1> QED BY <1>1, <1>2, <1>3, EveryPartRuns, DemandInvHolds, TeamTypesAreKept, CopyrightTypesAreKept,
           MediaTypesAreKept, EmbeddingTypesAreKept, PTL

=============================================================================
