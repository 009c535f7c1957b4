--------------------------- MODULE CopyrightWorkflow ---------------------------
(***************************************************************************)
(* The copyright check of a Revision: test batches, the workers that build *)
(* their video, what people and the Content ID scan observe, reopening,    *)
(* reconciliation and the clean-up of expired batches                      *)
(* (src/lib/copyright, src/features/copyright/actions.ts,                  *)
(* scripts/copyright-*.ts).                                                *)
(*                                                                         *)
(* Grain: a statement of a worker or script, or a transaction.  The two    *)
(* transactions that decide from what has been observed are taken apart:   *)
(* what their statement's snapshot showed, and the commit.  Of a type of   *)
(* observation only matters whether it clears the check.                   *)
(***************************************************************************)
EXTENDS Naturals, FiniteSets

CONSTANTS
  Tracks,            \* submitted Revisions, one for each Track
  Builders,          \* copyright worker processes
  Observers,         \* requests of people who record observations
  MaxBuilds,         \* config.buildConcurrency
  MaxBuildAttempts,  \* copyright_job.max_attempts
  MaxRounds,         \* bound: rounds of a check
  MaxBatches,        \* bound: batches
  Nobody             \* a model value

ASSUME NobodyAssumption == Nobody \notin Builders \cup Observers
ASSUME BuildAssumption == MaxBuilds \in Nat \ {0} /\ MaxBuildAttempts \in Nat \ {0}
ASSUME CopyrightBoundAssumption == MaxRounds \in Nat \ {0} /\ MaxBatches \in Nat \ {0}

Checks == Tracks \X (1 .. MaxRounds)
Batches == 1 .. MaxBatches

VARIABLES
  analysis,     \* revision_analysis.technical_status: is it complete
  round,        \* round_number of the current check of a Track, 0 if there is none
  checkState,   \* copyright_check.status
  outcome,      \* copyright_check.outcome
  standing,     \* the observations of a check's batch item that none supersedes
  batchStatus,  \* copyright_batch.status
  items,        \* its copyright_batch_items, by check
  published,    \* artifact_key is set
  video,        \* youtube_video_id is set
  buildJob,     \* copyright_job: status, attempt_count, lease_owner
  leased,       \* lease_expires_at > now()
  files,        \* what the batch directory holds
  cleaning,     \* batches whose files the clean-up has removed, before it says so
  builder,      \* per worker: its step, batch and attempt
  observing,    \* per observer: the request under way
  reconciling   \* what reconcileCopyrightChecks has read of one Track

checkVars == <<round, checkState, outcome, standing>>
batchVars == <<batchStatus, items, published, video>>
buildVars == <<buildJob, leased>>
diskVars == <<files, cleaning>>
copyrightVars == <<analysis, checkVars, batchVars, buildVars, diskVars, builder, observing,
                   reconciling>>

-----------------------------------------------------------------------------
NoBuild == [step |-> "idle", batch |-> 0, attempt |-> 0]
NotObserving == [kind |-> "none", batch |-> 0, checks |-> {}, type |-> "none", done |-> FALSE]
NotReconciling == [track |-> Nobody, target |-> "none"]

CopyrightInit ==
  /\ analysis = [t \in Tracks |-> FALSE]
  /\ round = [t \in Tracks |-> 0]
  /\ checkState = [c \in Checks |-> "absent"]
  /\ outcome = [c \in Checks |-> "none"]
  /\ standing = [c \in Checks |-> {}]
  /\ batchStatus = [b \in Batches |-> "absent"]
  /\ items = [b \in Batches |-> {}]
  /\ published = [b \in Batches |-> FALSE]
  /\ video = [b \in Batches |-> FALSE]
  /\ buildJob = [b \in Batches |-> [status |-> "absent", attempts |-> 0, owner |-> Nobody]]
  /\ leased = [b \in Batches |-> FALSE]
  /\ files = [b \in Batches |-> {}]
  /\ cleaning = {}
  /\ builder = [w \in Builders |-> NoBuild]
  /\ observing = [u \in Observers |-> NotObserving]
  /\ reconciling = NotReconciling

-----------------------------------------------------------------------------
(* Checks.                                                                  *)

Readiness(t) == IF analysis[t] THEN "ready" ELSE "awaiting_technical"

\* markTechnicalComplete and markTechnicalFailed of the processing worker.
TechnicalSettles(t, complete) ==
  /\ analysis[t] # complete
  /\ analysis' = [analysis EXCEPT ![t] = complete]
  /\ checkState' = [c \in Checks |->
       IF c = <<t, round[t]>> /\ checkState[c] \in {"awaiting_technical", "ready"}
       THEN IF complete THEN "ready" ELSE "awaiting_technical"
       ELSE checkState[c]]
  /\ UNCHANGED <<round, outcome, standing, batchVars, buildVars, diskVars, builder, observing,
                 reconciling>>

ReadCandidate(t) ==
  /\ reconciling = NotReconciling
  /\ reconciling' = [track |-> t, target |-> Readiness(t)]
  /\ UNCHANGED <<analysis, checkVars, batchVars, buildVars, diskVars, builder, observing>>

\* INSERT ... ON CONFLICT DO NOTHING, or else the UPDATE, with what was read before.
ReconcileCopyrightCheck ==
  /\ reconciling # NotReconciling
  /\ LET t == reconciling.track
         c == <<t, IF round[t] = 0 THEN 1 ELSE round[t]>>
     IN
     /\ round' = [round EXCEPT ![t] = c[2]]
     /\ checkState' = [checkState EXCEPT
          ![c] = IF @ \in {"absent", "awaiting_technical", "ready"} THEN reconciling.target ELSE @]
  /\ reconciling' = NotReconciling
  /\ UNCHANGED <<analysis, outcome, standing, batchVars, buildVars, diskVars, builder, observing>>

\* A request that holds the check's row, or its item's, until it commits.
Held(c) == \E u \in Observers : observing[u].kind = "observe" /\ c \in observing[u].checks

ReopenCopyrightCheck(t) ==
  /\ round[t] \in 1 .. MaxRounds - 1
  /\ ~Held(<<t, round[t]>>)
  /\ round' = [round EXCEPT ![t] = @ + 1]
  /\ checkState' = [checkState EXCEPT ![<<t, round[t] + 1>>] = Readiness(t)]
  /\ UNCHANGED <<analysis, outcome, standing, batchVars, buildVars, diskVars, builder, observing,
                 reconciling>>

-----------------------------------------------------------------------------
(* Batches and the workers that build them.                                 *)

Batchable(t) == round[t] > 0 /\ checkState[<<t, round[t]>>] = "ready" /\ analysis[t]

CreateCopyrightBatch(chosen) ==
  \E b \in Batches :
    LET cs == {<<t, round[t]>> : t \in chosen} IN
    /\ batchStatus[b] = "absent" /\ \A a \in Batches : a < b => batchStatus[a] # "absent"
    /\ chosen # {} /\ \A t \in chosen : Batchable(t)
    /\ batchStatus' = [batchStatus EXCEPT ![b] = "queued"]
    /\ items' = [items EXCEPT ![b] = cs]
    /\ checkState' = [c \in Checks |-> IF c \in cs THEN "package_queued" ELSE checkState[c]]
    /\ buildJob' = [buildJob EXCEPT ![b].status = "queued"]
    /\ UNCHANGED <<analysis, round, outcome, standing, published, video, leased, diskVars,
                   builder, observing, reconciling>>

JobClaimable(b) ==
  /\ buildJob[b].status \in {"queued", "retry_wait"}
     \/ (buildJob[b].status = "running" /\ ~leased[b])
  /\ buildJob[b].attempts < MaxBuildAttempts

LiveBuilds == {b \in Batches : buildJob[b].status = "running" /\ leased[b]}

\* The advisory lock makes counting and claiming one step.
ClaimNextCopyrightJob(w, b) ==
  /\ builder[w].step = "idle"
  /\ Cardinality(LiveBuilds) < MaxBuilds
  /\ JobClaimable(b)
  /\ buildJob' = [buildJob EXCEPT
       ![b] = [status |-> "running", attempts |-> @.attempts + 1, owner |-> w]]
  /\ leased' = [leased EXCEPT ![b] = TRUE]
  /\ builder' = [builder EXCEPT
       ![w] = [step |-> "begin", batch |-> b, attempt |-> buildJob[b].attempts + 1]]
  /\ UNCHANGED <<analysis, checkVars, batchVars, diskVars, observing, reconciling>>

\* The items of batch b that are in one state are moved to another.
MoveItems(b, from, to) ==
  checkState' = [c \in Checks |->
    IF c \in items[b] /\ checkState[c] = from THEN to ELSE checkState[c]]

GoTo(w, step) == builder' = [builder EXCEPT ![w].step = step]
GoIdle(w) == builder' = [builder EXCEPT ![w] = NoBuild]

FrameOfBuild == UNCHANGED <<analysis, round, outcome, standing, items, video, cleaning, observing,
                            reconciling>>

BeginBatchBuild(w) ==
  LET b == builder[w].batch IN
  /\ builder[w].step = "begin"
  /\ \/ /\ batchStatus[b] = "queued"
        /\ batchStatus' = [batchStatus EXCEPT ![b] = "building"]
        /\ MoveItems(b, "package_queued", "package_building")
        /\ GoTo(w, "publish")
     \/ /\ batchStatus[b] # "queued"
        /\ UNCHANGED <<batchStatus, checkState>>
        /\ GoTo(w, "fail")
  /\ UNCHANGED <<published, buildVars, files>> /\ FrameOfBuild

\* Sources, checksums or ffmpeg; the files of the run are left behind or removed.
BuildFails(w) ==
  /\ builder[w].step \in {"begin", "publish", "manifest", "complete"}
  /\ GoTo(w, "fail")
  /\ UNCHANGED <<batchStatus, checkState, published, buildVars, files>> /\ FrameOfBuild

\* An artifact or a manifest that is there already is kept.
PublishArtifact(w) ==
  /\ builder[w].step = "publish"
  /\ files' = [files EXCEPT ![builder[w].batch] = @ \cup {"artifact"}]
  /\ GoTo(w, "manifest")
  /\ UNCHANGED <<batchStatus, checkState, published, buildVars>> /\ FrameOfBuild

WriteManifestExclusive(w) ==
  /\ builder[w].step = "manifest"
  /\ files' = [files EXCEPT ![builder[w].batch] = @ \cup {"manifest"}]
  /\ GoTo(w, "complete")
  /\ UNCHANGED <<batchStatus, checkState, published, buildVars>> /\ FrameOfBuild

OwnsJob(w, b) == buildJob[b].status = "running" /\ buildJob[b].owner = w

SettleJob(w, b, status) ==
  /\ buildJob' = IF OwnsJob(w, b)
                 THEN [buildJob EXCEPT ![b].status = status, ![b].owner = Nobody]
                 ELSE buildJob
  /\ leased' = IF OwnsJob(w, b) THEN [leased EXCEPT ![b] = FALSE] ELSE leased

\* The checksum of the artifact is taken first: without the file the attempt fails.
CompleteBatchBuild(w) ==
  LET b == builder[w].batch IN
  /\ builder[w].step = "complete"
  /\ "artifact" \in files[b]
  /\ batchStatus' = [batchStatus EXCEPT ![b] = IF @ = "building" THEN "ready" ELSE @]
  /\ published' = [published EXCEPT ![b] = @ \/ batchStatus[b] = "building"]
  /\ MoveItems(b, "package_building", "package_ready")
  /\ SettleJob(w, b, "succeeded")
  /\ GoTo(w, "scan")
  /\ UNCHANGED files /\ FrameOfBuild

CanRetry(w) == builder[w].attempt < MaxBuildAttempts

\* failCopyrightJob, three statements: only the first asks whose lease it is.
FailCopyrightJob(w) ==
  /\ builder[w].step = "fail"
  /\ SettleJob(w, builder[w].batch, IF CanRetry(w) THEN "retry_wait" ELSE "failed")
  /\ GoTo(w, "fail_batch")
  /\ UNCHANGED <<batchStatus, checkState, published, files>> /\ FrameOfBuild

\* Mutant of FailBatch: the batch is not looked at.
FailAnyBatch(w) ==
  /\ builder[w].step = "fail_batch"
  /\ batchStatus' = [batchStatus EXCEPT
       ![builder[w].batch] = IF CanRetry(w) THEN "queued" ELSE "failed"]
  /\ GoTo(w, "fail_checks")
  /\ UNCHANGED <<checkState, published, buildVars, files>> /\ FrameOfBuild

FailBatch(w) ==
  /\ builder[w].step = "fail_batch"
  /\ batchStatus' = [batchStatus EXCEPT
       ![builder[w].batch] = IF @ # "building" THEN @ ELSE IF CanRetry(w) THEN "queued" ELSE "failed"]
  /\ GoTo(w, "fail_checks")
  /\ UNCHANGED <<checkState, published, buildVars, files>> /\ FrameOfBuild

FailChecks(w) ==
  /\ builder[w].step = "fail_checks"
  /\ MoveItems(builder[w].batch, "package_building", IF CanRetry(w) THEN "package_queued" ELSE "failed")
  /\ GoIdle(w)
  /\ UNCHANGED <<batchStatus, published, buildVars, files>> /\ FrameOfBuild

\* The process dies, or its database connection.
BuilderDies(w) ==
  /\ builder[w].step # "idle"
  /\ GoIdle(w)
  /\ UNCHANGED <<batchStatus, checkState, published, buildVars, files>> /\ FrameOfBuild

CopyrightLeaseExpires(b) ==
  /\ leased[b]
  /\ leased' = [leased EXCEPT ![b] = FALSE]
  /\ UNCHANGED <<batchStatus, checkState, published, buildJob, builder, files>> /\ FrameOfBuild

\* Mutant: the job keeps its lease_owner.
RecoverLeasesKeepingOwner ==
  /\ \E b \in Batches : buildJob[b].status = "running" /\ ~leased[b]
  /\ buildJob' = [b \in Batches |->
       IF buildJob[b].status = "running" /\ ~leased[b]
       THEN [buildJob[b] EXCEPT !.status = "retry_wait"] ELSE buildJob[b]]
  /\ UNCHANGED <<batchStatus, checkState, published, leased, builder, files>> /\ FrameOfBuild

\* reconcileCopyrightJobs, its two statements.
RecoverLeases ==
  /\ \E b \in Batches : buildJob[b].status = "running" /\ ~leased[b]
  /\ buildJob' = [b \in Batches |->
       IF buildJob[b].status = "running" /\ ~leased[b]
       THEN [buildJob[b] EXCEPT !.status = "retry_wait", !.owner = Nobody] ELSE buildJob[b]]
  /\ UNCHANGED <<batchStatus, checkState, published, leased, builder, files>> /\ FrameOfBuild

RequeueBatches ==
  /\ \E b \in Batches : batchStatus[b] = "building" /\ b \notin LiveBuilds
  /\ batchStatus' = [b \in Batches |->
       IF batchStatus[b] = "building" /\ b \notin LiveBuilds THEN "queued" ELSE batchStatus[b]]
  /\ UNCHANGED <<checkState, published, buildVars, builder, files>> /\ FrameOfBuild

\* cleanupExpiredArtifacts, then markCopyrightBatchesExpired of the batches listed before.
RemoveExpiredFiles(b) ==
  /\ batchStatus[b] \notin {"absent", "expired"} /\ b \notin cleaning
  /\ files' = [files EXCEPT ![b] = {}]
  /\ cleaning' = cleaning \cup {b}
  /\ UNCHANGED <<analysis, checkVars, batchVars, buildVars, builder, observing, reconciling>>

\* Mutant: artifact_key stays.
MarkBatchExpiredKeepingKey(b) ==
  /\ b \in cleaning
  /\ batchStatus' = [batchStatus EXCEPT ![b] = "expired"]
  /\ cleaning' = cleaning \ {b}
  /\ UNCHANGED <<analysis, checkVars, items, published, video, buildVars, files, builder, observing,
                 reconciling>>

MarkBatchExpired(b) ==
  /\ b \in cleaning
  /\ batchStatus' = [batchStatus EXCEPT ![b] = "expired"]
  /\ published' = [published EXCEPT ![b] = FALSE]
  /\ cleaning' = cleaning \ {b}
  /\ UNCHANGED <<analysis, checkVars, items, video, buildVars, files, builder, observing, reconciling>>

-----------------------------------------------------------------------------
(* Observations.                                                            *)

RecordBatchVideoId(b) ==
  /\ batchStatus[b] \in {"ready", "manual_review"}
  /\ batchStatus' = [batchStatus EXCEPT ![b] = "manual_review"]
  /\ video' = [video EXCEPT ![b] = TRUE]
  /\ MoveItems(b, "package_ready", "manual_review_pending")
  /\ UNCHANGED <<analysis, round, outcome, standing, items, published, buildVars, diskVars,
                 builder, observing, reconciling>>

\* Who holds the row of batch b.
BatchHeld(b) == \E u \in Observers : observing[u].kind = "remaining" /\ observing[u].batch = b

FrameOfRequest == UNCHANGED <<analysis, round, items, published, buildVars, diskVars, builder,
                              reconciling>>

\* The insert and the update of the check, and what the last statement sees of the batch.
RecordCopyrightObservation(u, b, c, type) ==
  /\ observing[u].kind = "none"
  /\ c \in items[b] /\ ~Held(c)
  /\ observing' = [observing EXCEPT
       ![u] = [kind |-> "observe", batch |-> b, checks |-> {c}, type |-> type,
               done |-> \A d \in items[b] \ {c} : standing[d] # {}]]
  /\ UNCHANGED <<checkState, outcome, standing, batchStatus, video>> /\ FrameOfRequest

Complete(cs, type) ==
  /\ standing' = [c \in Checks |-> IF c \in cs THEN standing[c] \cup {type} ELSE standing[c]]
  /\ checkState' = [c \in Checks |-> IF c \in cs THEN "completed" ELSE checkState[c]]
  /\ outcome' = [c \in Checks |-> IF c \in cs THEN type ELSE outcome[c]]

CommitObservation(u) ==
  LET q == observing[u] IN
  /\ q.kind = "observe"
  /\ q.done => ~BatchHeld(q.batch)
  /\ Complete(q.checks, q.type)
  /\ batchStatus' = IF q.done THEN [batchStatus EXCEPT ![q.batch] = "completed"] ELSE batchStatus
  /\ observing' = [observing EXCEPT ![u] = NotObserving]
  /\ UNCHANGED video /\ FrameOfRequest

\* The SELECT ... FOR UPDATE OF item WHERE NOT EXISTS: what its snapshot shows unobserved.
MarkRemainingBatchItemsNoClaim(u, b) ==
  /\ observing[u].kind = "none"
  /\ batchStatus[b] \in {"manual_review", "completed"} /\ video[b] /\ ~BatchHeld(b)
  /\ observing' = [observing EXCEPT
       ![u] = [kind |-> "remaining", batch |-> b, checks |-> {c \in items[b] : standing[c] = {}},
               type |-> "clear", done |-> FALSE]]
  /\ UNCHANGED <<checkState, outcome, standing, batchStatus, video>> /\ FrameOfRequest

\* It has waited for the items an observation holds; waiting does not renew the snapshot,
\* as the rows themselves have not changed.
CommitRemaining(u) ==
  LET q == observing[u] IN
  /\ q.kind = "remaining"
  /\ \A c \in q.checks : ~Held(c)
  /\ Complete(q.checks, "clear")
  /\ batchStatus' = IF q.checks # {} /\ \A c \in items[q.batch] \ q.checks : standing[c] # {}
                    THEN [batchStatus EXCEPT ![q.batch] = "completed"] ELSE batchStatus
  /\ observing' = [observing EXCEPT ![u] = NotObserving]
  /\ UNCHANGED video /\ FrameOfRequest

\* Rolled back: a deadlock, a lost connection, a restart.
RequestAborts(u) ==
  /\ observing[u].kind # "none"
  /\ observing' = [observing EXCEPT ![u] = NotObserving]
  /\ UNCHANGED <<checkState, outcome, standing, batchStatus, video>> /\ FrameOfRequest

\* runContentIdScanAction: the artifact is looked up, and the scan takes minutes.
RunContentIdScan(u, b) ==
  /\ observing[u].kind = "none"
  /\ batchStatus[b] \in {"ready", "manual_review", "completed"} /\ published[b]
  /\ observing' = [observing EXCEPT ![u] = [NotObserving EXCEPT !.kind = "scan", !.batch = b]]
  /\ UNCHANGED <<checkState, outcome, standing, batchStatus, video>> /\ FrameOfRequest

LeftToScan(b) == {c \in items[b] : standing[c] = {}}

\* recordContentIdScanResults, one transaction that locks the batch and then its items
\* before it reads: the batch is completed whatever it was.
RecordContentIdScanResults(b, claimed) ==
  /\ ~BatchHeld(b) /\ \A c \in items[b] : ~Held(c)
  /\ batchStatus' = [batchStatus EXCEPT ![b] = "completed"]
  /\ video' = [video EXCEPT ![b] = TRUE]
  /\ LET result(c) == IF c \in claimed THEN "claimed" ELSE "clear" IN
     /\ standing' = [c \in Checks |->
          IF c \in LeftToScan(b) THEN standing[c] \cup {result(c)} ELSE standing[c]]
     /\ checkState' = [c \in Checks |-> IF c \in LeftToScan(b) THEN "completed" ELSE checkState[c]]
     /\ outcome' = [c \in Checks |-> IF c \in LeftToScan(b) THEN result(c) ELSE outcome[c]]

CommitScan(u) ==
  /\ observing[u].kind = "scan"
  /\ \E claimed \in SUBSET items[observing[u].batch] :
       RecordContentIdScanResults(observing[u].batch, claimed)
  /\ observing' = [observing EXCEPT ![u] = NotObserving]
  /\ FrameOfRequest

\* The worker scans what it has built, whether or not its completion counted.  A scan
\* that fails is logged; so is the end of a worker without a Content ID provider.
BuilderScans(w) ==
  /\ builder[w].step = "scan"
  /\ \E claimed \in SUBSET items[builder[w].batch] :
       RecordContentIdScanResults(builder[w].batch, claimed)
  /\ GoIdle(w)
  /\ UNCHANGED <<analysis, round, items, published, buildVars, diskVars, observing, reconciling>>

\* A correction; a second observation of the type corrected may still stand.
SupersedeCopyrightObservation(c, old, new) ==
  /\ old \in standing[c] /\ new # old /\ ~Held(c)
  /\ \/ standing' = [standing EXCEPT ![c] = (@ \ {old}) \cup {new}]
     \/ standing' = [standing EXCEPT ![c] = @ \cup {new}]
  /\ outcome' = [outcome EXCEPT ![c] = new]
  /\ UNCHANGED <<checkState, batchStatus, video, observing>> /\ FrameOfRequest

CopyrightNext ==
  \/ \E t \in Tracks :
       \/ \E complete \in BOOLEAN : TechnicalSettles(t, complete)
       \/ ReadCandidate(t) \/ ReopenCopyrightCheck(t)
  \/ ReconcileCopyrightCheck \/ RecoverLeases \/ RequeueBatches
  \/ \E chosen \in SUBSET Tracks : CreateCopyrightBatch(chosen)
  \/ \E w \in Builders :
       \/ \E b \in Batches : ClaimNextCopyrightJob(w, b)
       \/ BeginBatchBuild(w) \/ BuildFails(w) \/ PublishArtifact(w) \/ WriteManifestExclusive(w)
       \/ CompleteBatchBuild(w) \/ BuilderScans(w)
       \/ FailCopyrightJob(w) \/ FailBatch(w) \/ FailChecks(w) \/ BuilderDies(w)
  \/ \E b \in Batches :
       \/ CopyrightLeaseExpires(b) \/ RemoveExpiredFiles(b) \/ MarkBatchExpired(b)
       \/ RecordBatchVideoId(b)
  \/ \E u \in Observers, b \in Batches :
       \/ \E c \in items[b], type \in {"clear", "claimed"} :
            RecordCopyrightObservation(u, b, c, type)
       \/ MarkRemainingBatchItemsNoClaim(u, b) \/ RunContentIdScan(u, b)
  \/ \E u \in Observers : CommitObservation(u) \/ CommitRemaining(u) \/ CommitScan(u) \/ RequestAborts(u)
  \/ \E c \in Checks, old, new \in {"clear", "claimed"} : SupersedeCopyrightObservation(c, old, new)

CopyrightSpec == CopyrightInit /\ [][CopyrightNext]_copyrightVars

-----------------------------------------------------------------------------
\* Every variable is in its domain; an owned job is running.
CopyrightTypeOK ==
  /\ analysis \in [Tracks -> BOOLEAN]
  /\ round \in [Tracks -> 0 .. MaxRounds]
  /\ checkState \in [Checks -> {"absent", "awaiting_technical", "ready", "package_queued",
       "package_building", "package_ready", "manual_review_pending", "completed", "failed"}]
  /\ outcome \in [Checks -> {"none", "clear", "claimed"}]
  /\ standing \in [Checks -> SUBSET {"clear", "claimed"}]
  /\ batchStatus \in [Batches -> {"absent", "queued", "building", "ready", "manual_review",
       "completed", "failed", "expired"}]
  /\ items \in [Batches -> SUBSET Checks]
  /\ published \in [Batches -> BOOLEAN] /\ video \in [Batches -> BOOLEAN]
  /\ buildJob \in [Batches ->
       [status : {"absent", "queued", "running", "retry_wait", "succeeded", "failed"},
        attempts : 0 .. MaxBuildAttempts, owner : Builders \cup {Nobody}]]
  /\ leased \in [Batches -> BOOLEAN]
  /\ files \in [Batches -> SUBSET {"artifact", "manifest"}] /\ cleaning \in SUBSET Batches
  /\ builder \in [Builders ->
       [step : {"idle", "begin", "publish", "manifest", "complete", "scan", "fail", "fail_batch",
                "fail_checks"},
        batch : Batches \cup {0}, attempt : 0 .. MaxBuildAttempts]]
  /\ observing \in [Observers ->
       [kind : {"none", "observe", "remaining", "scan"}, batch : Batches \cup {0},
        checks : SUBSET Checks, type : {"none", "clear", "claimed"}, done : BOOLEAN]]
  /\ reconciling \in [track : Tracks \cup {Nobody}, target : {"none", "ready", "awaiting_technical"}]
  /\ \A b \in Batches : buildJob[b].status = "running" <=> buildJob[b].owner # Nobody

\* A batch offered for download has its video and manifest on disk, although several
\* attempts may build it, fail half way or die; until the clean-up takes them away.
OfferedArtifactExists ==
  \A b \in Batches :
    published[b] => files[b] = {"artifact", "manifest"} \/ b \in cleaning

\* Whatever a late builder, a failing attempt or the reconciliation does, a batch that has
\* got as far as ready is not built again and a completed check keeps its observation.
SettledWorkStays ==
  [][/\ \A b \in Batches :
          batchStatus[b] \in {"ready", "manual_review", "completed"}
            => batchStatus'[b] \in {"ready", "manual_review", "completed", "expired"}
     /\ \A c \in Checks :
          checkState[c] = "completed" => checkState'[c] = "completed" /\ standing'[c] # {}]_copyrightVars
=============================================================================
