---------------------- MODULE CopyrightWorkflow_proofs ----------------------
(***************************************************************************)
(* What is settled in the copyright workflow stays, and what it offers     *)
(* exists, for any number of Tracks, batches, builders and observers.      *)
(***************************************************************************)
EXTENDS CopyrightWorkflow, TLAPS

CheckStates == {"absent", "awaiting_technical", "ready", "package_queued", "package_building",
                "package_ready", "manual_review_pending", "completed", "failed"}

BatchStates == {"absent", "queued", "building", "ready", "manual_review", "completed", "failed",
                "expired"}

JobRows == [status : {"absent", "queued", "running", "retry_wait", "succeeded", "failed"},
            attempts : 0 .. MaxBuildAttempts, owner : Builders \cup {Nobody}]

BuildSteps == {"idle", "begin", "publish", "manifest", "complete", "scan", "fail", "fail_batch",
               "fail_checks"}

Builds == [step : BuildSteps, batch : Batches \cup {0}, attempt : 0 .. MaxBuildAttempts]

Requests == [kind : {"none", "observe", "remaining", "scan"}, batch : Batches \cup {0},
             checks : SUBSET Checks, type : {"none", "clear", "claimed"}, done : BOOLEAN]

\* CopyrightTypeOK, by what the variables are about.
CheckTypes ==
  /\ analysis \in [Tracks -> BOOLEAN]
  /\ round \in [Tracks -> 0 .. MaxRounds]
  /\ checkState \in [Checks -> CheckStates]
  /\ outcome \in [Checks -> {"none", "clear", "claimed"}]
  /\ standing \in [Checks -> SUBSET {"clear", "claimed"}]

BatchTypes ==
  /\ batchStatus \in [Batches -> BatchStates]
  /\ items \in [Batches -> SUBSET Checks]
  /\ published \in [Batches -> BOOLEAN] /\ video \in [Batches -> BOOLEAN]
  /\ files \in [Batches -> SUBSET {"artifact", "manifest"}] /\ cleaning \in SUBSET Batches

\* A batch has its job from when it has a status.
JobTypes ==
  /\ buildJob \in [Batches -> JobRows]
  /\ leased \in [Batches -> BOOLEAN]
  /\ \A b \in Batches : buildJob[b].status = "running" <=> buildJob[b].owner # Nobody
  /\ \A b \in Batches : batchStatus[b] = "absent" => buildJob[b].status = "absent"

\* A worker or a request that is under way has a batch.
BuilderTypes ==
  /\ builder \in [Builders -> Builds]
  /\ \A w \in Builders : builder[w].step # "idle" => builder[w].batch \in Batches

RequestTypes ==
  /\ observing \in [Observers -> Requests]
  /\ \A u \in Observers : observing[u].kind # "none" => observing[u].batch \in Batches
  /\ \A u \in Observers : observing[u].kind \in {"observe", "remaining"} => observing[u].type # "none"
  /\ reconciling \in [track : Tracks \cup {Nobody}, target : {"none", "ready", "awaiting_technical"}]
  /\ reconciling # NotReconciling => reconciling.track \in Tracks /\ reconciling.target # "none"

TypeInv == CheckTypes /\ BatchTypes /\ JobTypes /\ BuilderTypes /\ RequestTypes

-----------------------------------------------------------------------------
LEMMA TypesAreInDomain == TypeInv => CopyrightTypeOK
BY DEF TypeInv, CheckTypes, BatchTypes, JobTypes, BuilderTypes, RequestTypes, CopyrightTypeOK,
       CheckStates, BatchStates, JobRows, BuildSteps, Builds, Requests

LEMMA TypeStarts == CopyrightInit => TypeInv
<1> SUFFICES ASSUME CopyrightInit PROVE TypeInv
  OBVIOUS
<1> USE DEF CopyrightInit
<1>1. CheckTypes
  BY CopyrightBoundAssumption DEF CheckTypes, CheckStates
<1>2. BatchTypes
  BY DEF BatchTypes, BatchStates
<1>3. JobTypes
  BY BuildAssumption DEF JobTypes, JobRows
<1>4. BuilderTypes
  BY BuildAssumption DEF BuilderTypes, Builds, BuildSteps, NoBuild
<1>5. RequestTypes
  BY DEF RequestTypes, Requests, NotObserving, NotReconciling
<1> QED BY <1>1, <1>2, <1>3, <1>4, <1>5 DEF TypeInv

\* Who is idle, or goes on with its batch.
LEMMA BuilderGoes ==
  ASSUME BuilderTypes, NEW w \in Builders,
         GoIdle(w) \/ (builder[w].step # "idle" /\ \E step \in BuildSteps : GoTo(w, step))
  PROVE  BuilderTypes'
<1>1. CASE GoIdle(w)
  <2>1. NoBuild \in Builds /\ NoBuild.step = "idle"
    BY BuildAssumption DEF NoBuild, Builds, BuildSteps
  <2> QED BY <1>1, <2>1 DEF GoIdle, BuilderTypes
<1>2. ASSUME NEW step \in BuildSteps, GoTo(w, step), builder[w].step # "idle"
      PROVE  BuilderTypes'
  BY <1>2 DEF GoTo, BuilderTypes, Builds
<1> QED BY <1>1, <1>2

LEMMA ItemsMove ==
  ASSUME CheckTypes, NEW b, NEW from, NEW to \in CheckStates, MoveItems(b, from, to),
         UNCHANGED <<analysis, round, outcome, standing>>
  PROVE  /\ CheckTypes'
         /\ \A c \in Checks : \/ checkState'[c] = checkState[c]
                              \/ /\ c \in items[b] /\ checkState[c] = from /\ checkState'[c] = to
BY DEF CheckTypes, MoveItems

\* A job that is settled by its owner, or not at all.
LEMMA JobSettles ==
  ASSUME JobTypes, BatchTypes, NEW w \in Builders, NEW b \in Batches,
         NEW status \in {"succeeded", "retry_wait", "failed"}, SettleJob(w, b, status),
         \A a \in Batches : batchStatus'[a] = "absent" => batchStatus[a] = "absent"
  PROVE  JobTypes'
<1>1. CASE OwnsJob(w, b)
  <2>1. /\ buildJob' = [buildJob EXCEPT ![b].status = status, ![b].owner = Nobody]
        /\ leased' = [leased EXCEPT ![b] = FALSE]
    BY <1>1 DEF SettleJob
  <2>2. /\ buildJob'[b] = [buildJob[b] EXCEPT !.status = status, !.owner = Nobody]
        /\ \A a \in Batches \ {b} : buildJob'[a] = buildJob[a]
    BY <2>1 DEF JobTypes
  <2>3. buildJob'[b] \in JobRows /\ buildJob'[b].status = status /\ buildJob'[b].owner = Nobody
    BY <2>2 DEF JobTypes, JobRows
  <2>4. buildJob' \in [Batches -> JobRows] /\ leased' \in [Batches -> BOOLEAN]
    BY <2>1, <2>3 DEF JobTypes
  <2>5. batchStatus[b] # "absent"
    BY <1>1 DEF JobTypes, OwnsJob
  <2>6. ASSUME NEW a \in Batches
        PROVE  buildJob'[a].status = "running" <=> buildJob'[a].owner # Nobody
    <3>1. CASE a = b
      BY <2>3, <3>1
    <3>2. CASE a # b
      BY <2>2, <3>2 DEF JobTypes
    <3> QED BY <3>1, <3>2
  <2>7. \A a \in Batches : batchStatus'[a] = "absent" => buildJob'[a].status = "absent"
    BY <2>2, <2>5 DEF JobTypes
  <2> QED BY <2>4, <2>6, <2>7 DEF JobTypes
<1>2. CASE ~OwnsJob(w, b)
  BY <1>2 DEF SettleJob, JobTypes
<1> QED BY <1>1, <1>2

-----------------------------------------------------------------------------
(* Types: checks and the jobs of their batches.                             *)

LEMMA TypesOfChecks ==
  ASSUME TypeInv,
         \/ \E t \in Tracks : \/ \E complete \in BOOLEAN : TechnicalSettles(t, complete)
                              \/ ReadCandidate(t) \/ ReopenCopyrightCheck(t)
         \/ ReconcileCopyrightCheck
  PROVE  TypeInv'
<1> USE DEF TypeInv
<1>1. CASE \E t \in Tracks : \E complete \in BOOLEAN : TechnicalSettles(t, complete)
  <2>1. PICK t \in Tracks, complete \in BOOLEAN : TechnicalSettles(t, complete)
    BY <1>1
  <2>2. CheckTypes'
    BY <2>1 DEF TechnicalSettles, CheckTypes, CheckStates
  <2> QED BY <2>1, <2>2 DEF TechnicalSettles, batchVars, buildVars, diskVars, BatchTypes, JobTypes, BuilderTypes, RequestTypes
<1>2. CASE \E t \in Tracks : ReadCandidate(t)
  <2>1. RequestTypes'
    BY <1>2 DEF ReadCandidate, RequestTypes, Readiness, NotReconciling
  <2> QED BY <1>2, <2>1 DEF ReadCandidate, checkVars, batchVars, buildVars, diskVars, CheckTypes, BatchTypes, JobTypes, BuilderTypes
<1>3. CASE \E t \in Tracks : ReopenCopyrightCheck(t)
  <2>1. PICK t \in Tracks : ReopenCopyrightCheck(t)
    BY <1>3
  <2>2. round[t] + 1 \in 1 .. MaxRounds
    BY <2>1, CopyrightBoundAssumption DEF ReopenCopyrightCheck
  <2>3. round' \in [Tracks -> 0 .. MaxRounds]
    BY <2>1, <2>2 DEF ReopenCopyrightCheck, CheckTypes
  <2>4. checkState' \in [Checks -> CheckStates]
    BY <2>1 DEF ReopenCopyrightCheck, CheckTypes, CheckStates, Readiness
  <2>5. CheckTypes'
    BY <2>1, <2>3, <2>4 DEF ReopenCopyrightCheck, CheckTypes
  <2> QED BY <2>1, <2>5 DEF ReopenCopyrightCheck, batchVars, buildVars, diskVars, BatchTypes, JobTypes, BuilderTypes, RequestTypes
<1>4. CASE ReconcileCopyrightCheck
  <2> DEFINE t == reconciling.track
             n == IF round[t] = 0 THEN 1 ELSE round[t]
  <2>1. t \in Tracks /\ reconciling.target \in CheckStates
    BY <1>4 DEF ReconcileCopyrightCheck, RequestTypes, CheckStates
  <2>2. n \in 0 .. MaxRounds
    BY <2>1, CopyrightBoundAssumption DEF CheckTypes
  <2>3. round' = [round EXCEPT ![t] = n]
    BY <1>4 DEF ReconcileCopyrightCheck
  <2>4. round' \in [Tracks -> 0 .. MaxRounds]
    BY <2>2, <2>3 DEF CheckTypes
  <2>5. checkState' \in [Checks -> CheckStates]
    BY <1>4, <2>1 DEF ReconcileCopyrightCheck, CheckTypes
  <2>6. CheckTypes'
    BY <1>4, <2>4, <2>5 DEF ReconcileCopyrightCheck, CheckTypes
  <2>7. RequestTypes'
    BY <1>4 DEF ReconcileCopyrightCheck, RequestTypes, NotReconciling
  <2> QED BY <1>4, <2>6, <2>7 DEF ReconcileCopyrightCheck, batchVars, buildVars, diskVars, BatchTypes, JobTypes, BuilderTypes
<1> QED BY <1>1, <1>2, <1>3, <1>4

LEMMA TypesOfJobs ==
  ASSUME TypeInv,
         \/ \E chosen \in SUBSET Tracks : CreateCopyrightBatch(chosen)
         \/ \E w \in Builders, b \in Batches : ClaimNextCopyrightJob(w, b)
         \/ \E b \in Batches : CopyrightLeaseExpires(b)
         \/ RecoverLeases \/ RequeueBatches
  PROVE  TypeInv'
<1> USE DEF TypeInv
<1>1. CASE \E chosen \in SUBSET Tracks : CreateCopyrightBatch(chosen)
  <2>1. PICK chosen \in SUBSET Tracks : CreateCopyrightBatch(chosen)
    BY <1>1
  <2> DEFINE cs == {<<t, round[t]>> : t \in chosen}
  <2>2. cs \subseteq Checks
    BY <2>1, CopyrightBoundAssumption DEF CreateCopyrightBatch, Batchable, Checks, CheckTypes
  <2>3. PICK b \in Batches :
          /\ batchStatus[b] = "absent"
          /\ batchStatus' = [batchStatus EXCEPT ![b] = "queued"]
          /\ items' = [items EXCEPT ![b] = cs]
          /\ checkState' = [c \in Checks |-> IF c \in cs THEN "package_queued" ELSE checkState[c]]
          /\ buildJob' = [buildJob EXCEPT ![b].status = "queued"]
          /\ UNCHANGED <<analysis, round, outcome, standing, published, video, leased, diskVars,
                         builder, observing, reconciling>>
    BY <2>1 DEF CreateCopyrightBatch
  <2>4. CheckTypes'
    BY <2>3 DEF CheckTypes, CheckStates
  <2>5. BatchTypes'
    BY <2>2, <2>3 DEF BatchTypes, BatchStates, diskVars
  <2>6. JobTypes'
    <3>1. buildJob[b].status = "absent" /\ buildJob[b].owner = Nobody
      BY <2>3 DEF JobTypes
    <3>2. /\ buildJob'[b] = [buildJob[b] EXCEPT !.status = "queued"]
          /\ \A a \in Batches \ {b} : buildJob'[a] = buildJob[a]
      BY <2>3 DEF JobTypes
    <3>3. buildJob'[b] \in JobRows /\ buildJob'[b].status = "queued" /\ buildJob'[b].owner = Nobody
      BY <3>1, <3>2 DEF JobTypes, JobRows
    <3>4. buildJob' \in [Batches -> JobRows]
      BY <2>3, <3>3 DEF JobTypes
    <3>5. \A a \in Batches : batchStatus'[a] = "absent" => a # b /\ batchStatus[a] = "absent"
      BY <2>3 DEF BatchTypes
    <3> QED BY <2>3, <3>2, <3>3, <3>4, <3>5 DEF JobTypes
  <2> QED BY <2>3, <2>4, <2>5, <2>6 DEF BuilderTypes, RequestTypes
<1>2. CASE \E w \in Builders, b \in Batches : ClaimNextCopyrightJob(w, b)
  <2>1. PICK w \in Builders, b \in Batches : ClaimNextCopyrightJob(w, b)
    BY <1>2
  <2>2. buildJob[b].attempts + 1 \in 0 .. MaxBuildAttempts
    BY <2>1, BuildAssumption DEF ClaimNextCopyrightJob, JobClaimable, JobTypes, JobRows
  <2>3. w # Nobody /\ batchStatus[b] # "absent"
    BY <2>1, NobodyAssumption DEF ClaimNextCopyrightJob, JobClaimable, JobTypes
  <2>4. JobTypes'
    <3> DEFINE row == [status |-> "running", attempts |-> buildJob[b].attempts + 1, owner |-> w]
    <3>1. row \in JobRows
      BY <2>2 DEF JobRows
    <3>2. buildJob' = [buildJob EXCEPT ![b] = row] /\ leased' = [leased EXCEPT ![b] = TRUE]
          /\ batchStatus' = batchStatus
      BY <2>1 DEF ClaimNextCopyrightJob, JobTypes, batchVars
    <3>3. row.status = "running" /\ row.owner # Nobody
      BY <2>3
    <3> HIDE DEF row
    <3> QED BY <2>3, <3>1, <3>2, <3>3 DEF JobTypes
  <2>5. BuilderTypes'
    BY <2>1, <2>2 DEF ClaimNextCopyrightJob, BuilderTypes, Builds, BuildSteps
  <2> QED BY <2>1, <2>4, <2>5 DEF ClaimNextCopyrightJob, checkVars, batchVars, diskVars, CheckTypes, BatchTypes, RequestTypes
<1>3. CASE \E b \in Batches : CopyrightLeaseExpires(b)
  <2>1. JobTypes'
    BY <1>3 DEF CopyrightLeaseExpires, JobTypes
  <2> QED BY <1>3, <2>1 DEF CopyrightLeaseExpires, FrameOfBuild, CheckTypes, BatchTypes, BuilderTypes, RequestTypes
<1>4. CASE RecoverLeases
  <2>1. ASSUME NEW b \in Batches
        PROVE  /\ buildJob'[b] \in JobRows
               /\ buildJob'[b].status = "running" <=> buildJob'[b].owner # Nobody
               /\ buildJob[b].status = "absent" => buildJob'[b].status = "absent"
    <3>1. buildJob[b] \in JobRows
      BY DEF JobTypes
    <3>2. [buildJob[b] EXCEPT !.status = "retry_wait", !.owner = Nobody] \in JobRows
      BY <3>1 DEF JobRows
    <3> DEFINE row == [buildJob[b] EXCEPT !.status = "retry_wait", !.owner = Nobody]
    <3>3. row.status = "retry_wait" /\ row.owner = Nobody
      BY <3>1 DEF JobRows
    <3>4. buildJob'[b] = IF buildJob[b].status = "running" /\ ~leased[b] THEN row ELSE buildJob[b]
      BY <1>4 DEF RecoverLeases
    <3> HIDE DEF row
    <3>5. row \in JobRows
      BY <3>2 DEF row
    <3> QED BY <3>1, <3>3, <3>4, <3>5 DEF JobTypes
  <2>2. buildJob' \in [Batches -> JobRows]
    BY <1>4, <2>1 DEF RecoverLeases
  <2>3. JobTypes'
    BY <1>4, <2>1, <2>2 DEF RecoverLeases, JobTypes
  <2> QED BY <1>4, <2>3 DEF RecoverLeases, FrameOfBuild, CheckTypes, BatchTypes, BuilderTypes, RequestTypes
<1>5. CASE RequeueBatches
  <2>1. /\ batchStatus' \in [Batches -> BatchStates]
        /\ \A b \in Batches : batchStatus'[b] = "absent" => batchStatus[b] = "absent"
    BY <1>5 DEF RequeueBatches, BatchTypes, BatchStates
  <2>2. BatchTypes'
    BY <1>5, <2>1 DEF RequeueBatches, FrameOfBuild, BatchTypes
  <2>3. JobTypes'
    BY <1>5, <2>1 DEF RequeueBatches, FrameOfBuild, buildVars, JobTypes
  <2> QED BY <1>5, <2>2, <2>3 DEF RequeueBatches, FrameOfBuild, CheckTypes, BuilderTypes, RequestTypes
<1> QED BY <1>1, <1>2, <1>3, <1>4, <1>5

-----------------------------------------------------------------------------
(* Types: what a worker does.                                               *)

LEMMA TypesOfBuilder ==
  ASSUME TypeInv, NEW w \in Builders,
         \/ BeginBatchBuild(w) \/ BuildFails(w) \/ PublishArtifact(w) \/ WriteManifestExclusive(w)
         \/ CompleteBatchBuild(w) \/ FailCopyrightJob(w) \/ FailBatch(w) \/ FailChecks(w)
         \/ BuilderDies(w)
  PROVE  TypeInv'
<1> USE DEF TypeInv
<1>1. RequestTypes' /\ UNCHANGED <<analysis, round, outcome, standing, items, video, cleaning>>
  BY DEF BeginBatchBuild, BuildFails, PublishArtifact, WriteManifestExclusive, CompleteBatchBuild,
         FailCopyrightJob, FailBatch, FailChecks, BuilderDies, FrameOfBuild, RequestTypes
<1>2. CheckTypes'
  <2>1. UNCHANGED checkState \/
        \E b, from : \E to \in CheckStates : MoveItems(b, from, to)
    BY DEF BeginBatchBuild, BuildFails, PublishArtifact, WriteManifestExclusive, CompleteBatchBuild,
           FailCopyrightJob, FailBatch, FailChecks, BuilderDies, CheckStates
  <2> QED BY <1>1, <2>1, ItemsMove DEF CheckTypes
<1>3. BuilderTypes'
  <2>1. GoIdle(w) \/ (builder[w].step # "idle" /\ \E step \in BuildSteps : GoTo(w, step))
    BY DEF BeginBatchBuild, BuildFails, PublishArtifact, WriteManifestExclusive, CompleteBatchBuild,
           FailCopyrightJob, FailBatch, FailChecks, BuilderDies, BuildSteps
  <2> QED BY <2>1, BuilderGoes
<1>4. BatchTypes' /\ \A b \in Batches : batchStatus'[b] = "absent" => batchStatus[b] = "absent"
  <2>1. CASE UNCHANGED <<batchStatus, published>>
    BY <1>1, <2>1 DEF BeginBatchBuild, BuildFails, PublishArtifact, WriteManifestExclusive,
         CompleteBatchBuild, FailCopyrightJob, FailBatch, FailChecks, BuilderDies, BatchTypes
  <2>2. CASE BeginBatchBuild(w) /\ batchStatus[builder[w].batch] = "queued"
    BY <1>1, <2>2 DEF BeginBatchBuild, BatchTypes, BatchStates
  <2>3. CASE CompleteBatchBuild(w)
    <3>1. /\ batchStatus' \in [Batches -> BatchStates]
          /\ \A b \in Batches : batchStatus'[b] = "absent" => batchStatus[b] = "absent"
      BY <2>3 DEF CompleteBatchBuild, BatchTypes, BatchStates
    <3>2. published' \in [Batches -> BOOLEAN]
      BY <2>3 DEF CompleteBatchBuild, BatchTypes
    <3> QED BY <1>1, <2>3, <3>1, <3>2 DEF CompleteBatchBuild, BatchTypes
  <2>4. CASE FailBatch(w)
    BY <1>1, <2>4 DEF FailBatch, BatchTypes, BatchStates
  <2> QED BY <2>1, <2>2, <2>3, <2>4
      DEF BeginBatchBuild, BuildFails, PublishArtifact, WriteManifestExclusive,
          FailCopyrightJob, FailChecks, BuilderDies
<1>5. JobTypes'
  <2>1. CASE UNCHANGED buildVars
    BY <1>4, <2>1 DEF buildVars, JobTypes
  <2>2. CASE CompleteBatchBuild(w)
    <3>1. builder[w].batch \in Batches /\ SettleJob(w, builder[w].batch, "succeeded")
      BY <2>2 DEF CompleteBatchBuild, BuilderTypes
    <3> QED BY <1>4, <3>1, JobSettles
  <2>3. CASE FailCopyrightJob(w)
    <3>1. /\ builder[w].batch \in Batches
          /\ \/ SettleJob(w, builder[w].batch, "retry_wait")
             \/ SettleJob(w, builder[w].batch, "failed")
      BY <2>3 DEF FailCopyrightJob, BuilderTypes
    <3> QED BY <1>4, <3>1, JobSettles
  <2> QED BY <2>1, <2>2, <2>3
      DEF BeginBatchBuild, BuildFails, PublishArtifact, WriteManifestExclusive,
          FailBatch, FailChecks, BuilderDies
<1> QED BY <1>1, <1>2, <1>3, <1>4, <1>5

LEMMA TypesOfBatches ==
  ASSUME TypeInv, NEW b \in Batches,
         RemoveExpiredFiles(b) \/ MarkBatchExpired(b) \/ RecordBatchVideoId(b)
  PROVE  TypeInv'
<1> USE DEF TypeInv
<1>1. UNCHANGED <<analysis, round, outcome, standing, items, buildJob, leased, builder, observing, reconciling>>
  BY DEF RemoveExpiredFiles, MarkBatchExpired, RecordBatchVideoId, checkVars, batchVars, buildVars
<1>2. CheckTypes'
  <2>1. UNCHANGED checkState \/ MoveItems(b, "package_ready", "manual_review_pending")
    BY DEF RemoveExpiredFiles, MarkBatchExpired, RecordBatchVideoId, checkVars
  <2> QED BY <1>1, <2>1, ItemsMove DEF CheckTypes, CheckStates
<1>3. BatchTypes' /\ \A a \in Batches : batchStatus'[a] = "absent" => batchStatus[a] = "absent"
  <2>1. CASE RemoveExpiredFiles(b)
    BY <2>1 DEF RemoveExpiredFiles, BatchTypes, batchVars
  <2>2. CASE MarkBatchExpired(b)
    BY <2>2 DEF MarkBatchExpired, BatchTypes, BatchStates
  <2>3. CASE RecordBatchVideoId(b)
    BY <2>3 DEF RecordBatchVideoId, BatchTypes, BatchStates, diskVars
  <2> QED BY <2>1, <2>2, <2>3
<1>4. JobTypes' /\ BuilderTypes' /\ RequestTypes'
  BY <1>1, <1>3 DEF JobTypes, BuilderTypes, RequestTypes
<1> QED BY <1>2, <1>3, <1>4

-----------------------------------------------------------------------------
(* Types: observations.                                                     *)

LEMMA CompleteTypes ==
  ASSUME CheckTypes, NEW cs, NEW type \in {"clear", "claimed"}, Complete(cs, type),
         UNCHANGED <<analysis, round>>
  PROVE  CheckTypes'
BY DEF CheckTypes, CheckStates, Complete

LEMMA ScanTypes ==
  ASSUME CheckTypes, BatchTypes, JobTypes, NEW b \in Batches, NEW claimed,
         RecordContentIdScanResults(b, claimed),
         UNCHANGED <<analysis, round, items, published, buildVars, diskVars>>
  PROVE  CheckTypes' /\ BatchTypes' /\ JobTypes'
<1>1. checkState' \in [Checks -> CheckStates] /\ outcome' \in [Checks -> {"none", "clear", "claimed"}]
  BY DEF RecordContentIdScanResults, CheckTypes, CheckStates
<1>2. standing' \in [Checks -> SUBSET {"clear", "claimed"}]
  BY DEF RecordContentIdScanResults, CheckTypes
<1>3. /\ batchStatus' \in [Batches -> BatchStates] /\ video' \in [Batches -> BOOLEAN]
      /\ \A a \in Batches : batchStatus'[a] = "absent" => batchStatus[a] = "absent"
  BY DEF RecordContentIdScanResults, BatchTypes, BatchStates
<1> QED BY <1>1, <1>2, <1>3 DEF CheckTypes, BatchTypes, JobTypes, buildVars, diskVars

\* A request that begins or ends changes itself alone.
LEMMA RequestMoves ==
  ASSUME RequestTypes, NEW u \in Observers, NEW request \in Requests,
         observing' = [observing EXCEPT ![u] = request], UNCHANGED reconciling,
         request.kind # "none" => request.batch \in Batches,
         request.kind \in {"observe", "remaining"} => request.type # "none"
  PROVE  RequestTypes'
BY DEF RequestTypes

LEMMA RequestEnds ==
  ASSUME RequestTypes, NEW u \in Observers, UNCHANGED reconciling,
         observing' = [observing EXCEPT ![u] = NotObserving]
  PROVE  RequestTypes'
<1>1. NotObserving \in Requests /\ NotObserving.kind = "none"
  BY DEF NotObserving, Requests
<1> QED BY <1>1, RequestMoves

LEMMA TypesOfRequestStart ==
  ASSUME TypeInv, NEW u \in Observers, NEW b \in Batches,
         \/ \E c \in items[b], type \in {"clear", "claimed"} : RecordCopyrightObservation(u, b, c, type)
         \/ MarkRemainingBatchItemsNoClaim(u, b) \/ RunContentIdScan(u, b)
  PROVE  TypeInv'
<1> USE DEF TypeInv
<1>1. /\ UNCHANGED <<analysis, round, items, published, buildVars, diskVars, builder, reconciling>>
      /\ UNCHANGED <<checkState, outcome, standing, batchStatus, video>>
  BY DEF RecordCopyrightObservation, MarkRemainingBatchItemsNoClaim, RunContentIdScan, FrameOfRequest
<1>2. RequestTypes'
  <2>1. CASE \E c \in items[b], type \in {"clear", "claimed"} : RecordCopyrightObservation(u, b, c, type)
    <3>1. PICK c \in items[b], type \in {"clear", "claimed"} : RecordCopyrightObservation(u, b, c, type)
      BY <2>1
    <3> DEFINE done == \A d \in items[b] \ {c} : standing[d] # {}
               request == [kind |-> "observe", batch |-> b, checks |-> {c}, type |-> type, done |-> done]
    <3>2. {c} \in SUBSET Checks /\ done \in BOOLEAN
      BY DEF BatchTypes
    <3>3. observing' = [observing EXCEPT ![u] = request]
      BY <3>1 DEF RecordCopyrightObservation
    <3> HIDE DEF done
    <3>4. /\ request \in Requests /\ request.batch \in Batches
          /\ request.type # "none"
      BY <3>2 DEF Requests
    <3> QED BY <1>1, <3>3, <3>4, RequestMoves
  <2>2. CASE MarkRemainingBatchItemsNoClaim(u, b)
    <3> DEFINE left == {c \in items[b] : standing[c] = {}}
               request == [kind |-> "remaining", batch |-> b, checks |-> left, type |-> "clear", done |-> FALSE]
    <3>1. left \in SUBSET Checks
      BY DEF BatchTypes
    <3>2. observing' = [observing EXCEPT ![u] = request]
      BY <2>2 DEF MarkRemainingBatchItemsNoClaim
    <3> HIDE DEF left
    <3>3. request \in Requests /\ request.batch \in Batches /\ request.type # "none"
      BY <3>1 DEF Requests
    <3> QED BY <1>1, <3>2, <3>3, RequestMoves
  <2>3. CASE RunContentIdScan(u, b)
    <3> DEFINE request == [NotObserving EXCEPT !.kind = "scan", !.batch = b]
    <3>1. request \in Requests /\ request.batch \in Batches /\ request.kind = "scan"
      BY DEF Requests, NotObserving
    <3>2. observing' = [observing EXCEPT ![u] = request]
      BY <2>3 DEF RunContentIdScan
    <3> HIDE DEF request
    <3> QED BY <1>1, <3>1, <3>2, RequestMoves
  <2> QED BY <2>1, <2>2, <2>3
<1> QED BY <1>1, <1>2
    DEF CheckTypes, BatchTypes, JobTypes, BuilderTypes, buildVars, diskVars

LEMMA TypesOfRequestEnd ==
  ASSUME TypeInv, NEW u \in Observers,
         CommitObservation(u) \/ CommitRemaining(u) \/ CommitScan(u) \/ RequestAborts(u)
  PROVE  TypeInv'
<1> USE DEF TypeInv
<1>1. UNCHANGED <<analysis, round, items, published, buildVars, diskVars, builder, reconciling>>
  BY DEF CommitObservation, CommitRemaining, CommitScan, RequestAborts, FrameOfRequest
<1>2. RequestTypes'
  BY <1>1, RequestEnds DEF CommitObservation, CommitRemaining, CommitScan, RequestAborts
<1>3. BuilderTypes'
  BY <1>1 DEF BuilderTypes
<1>4. CheckTypes' /\ BatchTypes' /\ JobTypes'
  <2>1. CASE CommitObservation(u) \/ CommitRemaining(u)
    <3>1. CheckTypes'
      <4>1. observing[u].type \in {"clear", "claimed"} \/ CommitRemaining(u)
        BY <2>1 DEF CommitObservation, RequestTypes, Requests
      <4>2. \E cs : \E type \in {"clear", "claimed"} : Complete(cs, type)
        BY <2>1, <4>1 DEF CommitObservation, CommitRemaining
      <4> QED BY <1>1, <4>2, CompleteTypes
    <3>2. /\ batchStatus' \in [Batches -> BatchStates] /\ UNCHANGED video
          /\ \A a \in Batches : batchStatus'[a] = "absent" => batchStatus[a] = "absent"
      BY <2>1 DEF CommitObservation, CommitRemaining, BatchTypes, BatchStates
    <3> QED BY <1>1, <3>1, <3>2 DEF BatchTypes, JobTypes, buildVars, diskVars
  <2>2. CASE CommitScan(u)
    <3>1. observing[u].batch \in Batches
      BY <2>2 DEF CommitScan, RequestTypes
    <3>2. PICK claimed : RecordContentIdScanResults(observing[u].batch, claimed)
      BY <2>2 DEF CommitScan
    <3> QED BY <1>1, <3>1, <3>2, ScanTypes
  <2>3. CASE RequestAborts(u)
    BY <1>1, <2>3 DEF RequestAborts, CheckTypes, BatchTypes, JobTypes, buildVars, diskVars
  <2> QED BY <2>1, <2>2, <2>3
<1> QED BY <1>2, <1>3, <1>4

LEMMA TypesOfScans ==
  ASSUME TypeInv, NEW w \in Builders, BuilderScans(w)
  PROVE  TypeInv'
<1> USE DEF TypeInv
<1>1. UNCHANGED <<analysis, round, items, published, buildVars, diskVars, observing, reconciling>>
  BY DEF BuilderScans
<1>2. builder[w].batch \in Batches
  BY DEF BuilderScans, BuilderTypes
<1>3. PICK claimed : RecordContentIdScanResults(builder[w].batch, claimed)
  BY DEF BuilderScans
<1>4. CheckTypes' /\ BatchTypes' /\ JobTypes'
  BY <1>1, <1>2, <1>3, ScanTypes
<1>5. BuilderTypes' /\ RequestTypes'
  BY <1>1, BuilderGoes DEF BuilderScans, RequestTypes
<1> QED BY <1>4, <1>5

LEMMA TypesOfCorrection ==
  ASSUME TypeInv, NEW c \in Checks, NEW old \in {"clear", "claimed"}, NEW new \in {"clear", "claimed"},
         SupersedeCopyrightObservation(c, old, new)
  PROVE  TypeInv'
<1> USE DEF TypeInv
<1>1. /\ UNCHANGED <<analysis, round, items, published, buildVars, diskVars, builder, reconciling>>
      /\ UNCHANGED <<checkState, batchStatus, video, observing>>
  BY DEF SupersedeCopyrightObservation, FrameOfRequest
<1>2. CheckTypes'
  <2>1. standing' \in [Checks -> SUBSET {"clear", "claimed"}]
    BY DEF SupersedeCopyrightObservation, CheckTypes
  <2>2. outcome' \in [Checks -> {"none", "clear", "claimed"}]
    BY DEF SupersedeCopyrightObservation, CheckTypes
  <2> QED BY <1>1, <2>1, <2>2 DEF CheckTypes
<1> QED BY <1>1, <1>2 DEF BatchTypes, JobTypes, BuilderTypes, RequestTypes, buildVars, diskVars

LEMMA TypeStep == TypeInv /\ [CopyrightNext]_copyrightVars => TypeInv'
<1> SUFFICES ASSUME TypeInv, [CopyrightNext]_copyrightVars PROVE TypeInv'
  OBVIOUS
<1>1. CASE UNCHANGED copyrightVars
  BY <1>1 DEF copyrightVars, checkVars, batchVars, buildVars, diskVars, TypeInv, CheckTypes,
              BatchTypes, JobTypes, BuilderTypes, RequestTypes
<1>2. CASE \E t \in Tracks : \/ \E complete \in BOOLEAN : TechnicalSettles(t, complete)
                             \/ ReadCandidate(t) \/ ReopenCopyrightCheck(t)
  BY <1>2, TypesOfChecks
<1>3. CASE ReconcileCopyrightCheck
  BY <1>3, TypesOfChecks
<1>4. CASE RecoverLeases \/ RequeueBatches \/ \E chosen \in SUBSET Tracks : CreateCopyrightBatch(chosen)
  BY <1>4, TypesOfJobs
<1>5. ASSUME NEW w \in Builders,
             \/ \E b \in Batches : ClaimNextCopyrightJob(w, b)
             \/ BeginBatchBuild(w) \/ BuildFails(w) \/ PublishArtifact(w) \/ WriteManifestExclusive(w)
             \/ CompleteBatchBuild(w) \/ BuilderScans(w)
             \/ FailCopyrightJob(w) \/ FailBatch(w) \/ FailChecks(w) \/ BuilderDies(w)
      PROVE  TypeInv'
  BY <1>5, TypesOfJobs, TypesOfBuilder, TypesOfScans
<1>6. ASSUME NEW b \in Batches,
             \/ CopyrightLeaseExpires(b) \/ RemoveExpiredFiles(b) \/ MarkBatchExpired(b)
             \/ RecordBatchVideoId(b)
      PROVE  TypeInv'
  BY <1>6, TypesOfJobs, TypesOfBatches
<1>7. ASSUME NEW u \in Observers, NEW b \in Batches,
             \/ \E c \in items[b], type \in {"clear", "claimed"} :
                  RecordCopyrightObservation(u, b, c, type)
             \/ MarkRemainingBatchItemsNoClaim(u, b) \/ RunContentIdScan(u, b)
      PROVE  TypeInv'
  BY <1>7, TypesOfRequestStart
<1>8. ASSUME NEW u \in Observers,
             CommitObservation(u) \/ CommitRemaining(u) \/ CommitScan(u) \/ RequestAborts(u)
      PROVE  TypeInv'
  BY <1>8, TypesOfRequestEnd
<1>9. ASSUME NEW c \in Checks, NEW old \in {"clear", "claimed"}, NEW new \in {"clear", "claimed"},
             SupersedeCopyrightObservation(c, old, new)
      PROVE  TypeInv'
  BY <1>9, TypesOfCorrection
<1> QED BY <1>1, <1>2, <1>3, <1>4, <1>5, <1>6, <1>7, <1>8, <1>9 DEF CopyrightNext

-----------------------------------------------------------------------------
(* What is settled.                                                         *)

\* The rounds of a check that have been opened.
Opened == {c \in Checks : c[2] <= round[c[1]]}

\* A round that has not been opened has no state that could stand in its way, and nothing
\* refers to it; a check that is completed has its observation.
SettledInv ==
  /\ \A c \in Checks \ Opened : checkState[c] = "absent"
  /\ \A b \in Batches : items[b] \subseteq Opened
  /\ \A u \in Observers : observing[u].checks \subseteq Opened
  /\ \A c \in Checks : checkState[c] = "completed" => standing[c] # {}

BatchesStay ==
  \A b \in Batches :
    batchStatus[b] \in {"ready", "manual_review", "completed"}
      => batchStatus'[b] \in {"ready", "manual_review", "completed", "expired"}

ChecksStay ==
  \A c \in Checks :
    checkState[c] = "completed" => checkState'[c] = "completed" /\ standing'[c] # {}

LEMMA SettledStarts == CopyrightInit => SettledInv
BY DEF CopyrightInit, SettledInv, NotObserving

\* What only completes with an observation, and moves no other check that is completed.
LEMMA SettledKept ==
  ASSUME TypeInv, TypeInv', SettledInv,
         \A t \in Tracks : round[t] <= round'[t],
         \A c \in Checks :
           \/ checkState'[c] = checkState[c]
           \/ /\ checkState[c] # "completed" /\ c \in Opened'
              /\ checkState'[c] = "completed" => standing'[c] # {},
         \A c \in Checks : standing[c] # {} => standing'[c] # {},
         \A b \in Batches : items'[b] \subseteq Opened',
         \A u \in Observers : observing'[u].checks \subseteq Opened'
  PROVE  SettledInv' /\ ChecksStay
<1>1. \A c \in Checks : c \in Opened => c \in Opened'
  <2>1. ASSUME NEW c \in Checks, c[2] <= round[c[1]] PROVE c[2] <= round'[c[1]]
    <3>1. c[1] \in Tracks /\ c[2] \in 1 .. MaxRounds
      BY DEF Checks
    <3>2. round[c[1]] \in Nat /\ round'[c[1]] \in Nat /\ c[2] \in Nat
      BY <3>1, CopyrightBoundAssumption DEF TypeInv, CheckTypes
    <3>3. round[c[1]] <= round'[c[1]]
      BY <3>1
    <3> QED BY <2>1, <3>2, <3>3
  <2> QED BY <2>1 DEF Opened
<1>2. \A c \in Checks \ Opened' : checkState'[c] = "absent"
  BY <1>1 DEF SettledInv
<1>3. \A c \in Checks : checkState'[c] = "completed" => standing'[c] # {}
  BY DEF SettledInv
<1>4. ChecksStay
  BY DEF SettledInv, ChecksStay
<1> QED BY <1>2, <1>3, <1>4 DEF SettledInv

\* The same for what moves the checks of one batch, none to or from completed.
LEMMA SettledMoves ==
  ASSUME TypeInv, TypeInv', SettledInv,
         UNCHANGED <<round, standing, items>>,
         \A u \in Observers : observing'[u].checks \subseteq observing[u].checks,
         \/ UNCHANGED checkState
         \/ \E b \in Batches : \E from, to \in CheckStates \ {"completed"} : MoveItems(b, from, to)
  PROVE  SettledInv' /\ ChecksStay
<1>1. Opened' = Opened
  BY DEF Opened
<1>2. \A c \in Checks :
        \/ checkState'[c] = checkState[c]
        \/ checkState[c] # "completed" /\ c \in Opened /\ checkState'[c] # "completed"
  BY DEF MoveItems, SettledInv
<1>3. \A t \in Tracks : round[t] <= round'[t]
  BY CopyrightBoundAssumption DEF TypeInv, CheckTypes
<1>4. (\A b \in Batches : items'[b] \subseteq Opened') /\ \A u \in Observers : observing'[u].checks \subseteq Opened'
  BY <1>1 DEF SettledInv
<1> QED BY <1>1, <1>2, <1>3, <1>4, SettledKept

\* A check that is observed is one of a round that has been opened.
LEMMA SettledObserved ==
  ASSUME TypeInv, TypeInv', SettledInv, UNCHANGED <<round, items>>,
         \A u \in Observers : observing'[u].checks \subseteq observing[u].checks,
         NEW cs \in SUBSET Opened,
         \A c \in Checks : c \notin cs => checkState'[c] = checkState[c] /\ standing'[c] = standing[c],
         \A c \in cs : checkState'[c] = "completed" /\ standing'[c] # {}
  PROVE  SettledInv' /\ ChecksStay
<1>1. Opened' = Opened
  BY DEF Opened
<1>2. \A t \in Tracks : round[t] <= round'[t]
  BY CopyrightBoundAssumption DEF TypeInv, CheckTypes
<1>3. (\A b \in Batches : items'[b] \subseteq Opened') /\ \A u \in Observers : observing'[u].checks \subseteq Opened'
  BY <1>1 DEF SettledInv
<1>4. \A c \in Checks : standing[c] # {} => standing'[c] # {}
  OBVIOUS
<1>5. \A c \in Checks :
        \/ checkState'[c] = checkState[c]
        \/ /\ checkState[c] # "completed" /\ c \in Opened'
           /\ checkState'[c] = "completed" => standing'[c] # {}
  <2>1. ASSUME NEW c \in Checks, c \in cs
        PROVE  \/ checkState'[c] = checkState[c]
               \/ checkState[c] # "completed" /\ c \in Opened' /\ standing'[c] # {}
    BY <1>1, <2>1
  <2> QED BY <2>1
<1> QED BY <1>2, <1>3, <1>4, <1>5, SettledKept

LEMMA SettledChecks ==
  ASSUME TypeInv, TypeInv', SettledInv,
         \/ \E t \in Tracks : \/ \E complete \in BOOLEAN : TechnicalSettles(t, complete)
                              \/ ReadCandidate(t) \/ ReopenCopyrightCheck(t)
         \/ ReconcileCopyrightCheck
         \/ \E chosen \in SUBSET Tracks : CreateCopyrightBatch(chosen)
  PROVE  SettledInv' /\ ChecksStay /\ BatchesStay
<1>0. \A t \in Tracks : round[t] \in Nat
  BY CopyrightBoundAssumption DEF TypeInv, CheckTypes
<1>1. CASE \E t \in Tracks : \E complete \in BOOLEAN : TechnicalSettles(t, complete)
  <2>1. PICK t \in Tracks, complete \in BOOLEAN : TechnicalSettles(t, complete)
    BY <1>1
  <2>2. UNCHANGED <<round, standing, items, observing, batchStatus>>
    BY <2>1 DEF TechnicalSettles, batchVars
  <2>3. \A c \in Checks :
          \/ checkState'[c] = checkState[c]
          \/ checkState[c] \in {"awaiting_technical", "ready"} /\ checkState'[c] # "completed"
    BY <2>1 DEF TechnicalSettles
  <2>4. Opened' = Opened
    BY <2>2 DEF Opened
  <2>5. \A s \in Tracks : round[s] <= round'[s]
    BY <1>0, <2>2
  <2> QED BY <2>2, <2>3, <2>4, <2>5, SettledKept DEF SettledInv, BatchesStay
<1>2. CASE \E t \in Tracks : ReadCandidate(t)
  BY <1>2, SettledMoves DEF ReadCandidate, checkVars, batchVars, BatchesStay
<1>3. CASE \E t \in Tracks : ReopenCopyrightCheck(t)
  <2>1. PICK t \in Tracks : ReopenCopyrightCheck(t)
    BY <1>3
  <2> DEFINE new == <<t, round[t] + 1>>
  <2>2. /\ round' = [round EXCEPT ![t] = @ + 1]
        /\ checkState' = [checkState EXCEPT ![new] = Readiness(t)]
        /\ UNCHANGED <<standing, items, observing, batchStatus>>
    BY <2>1 DEF ReopenCopyrightCheck, batchVars
  <2>3. \A s \in Tracks : round[s] <= round'[s]
    BY <1>0, <2>2 DEF TypeInv, CheckTypes
  <2>4. round'[t] = round[t] + 1
    BY <2>2 DEF TypeInv, CheckTypes
  <2>5. new \in Checks
    BY <1>0, <2>1, CopyrightBoundAssumption DEF ReopenCopyrightCheck, Checks
  <2>6. new \notin Opened /\ new \in Opened'
    BY <1>0, <2>4, <2>5 DEF Opened
  <2>7. checkState[new] = "absent" /\ Readiness(t) # "completed"
    BY <2>5, <2>6 DEF SettledInv, Readiness
  <2>8. \A c \in Checks :
          \/ checkState'[c] = checkState[c]
          \/ checkState[c] # "completed" /\ c \in Opened' /\ checkState'[c] # "completed"
    <3> HIDE DEF new
    <3> QED BY <2>2, <2>5, <2>6, <2>7 DEF TypeInv, CheckTypes
  <2>9. Opened \subseteq Opened'
    <3>1. ASSUME NEW c \in Checks, c[2] <= round[c[1]] PROVE c[2] <= round'[c[1]]
      <4>1. c[1] \in Tracks /\ c[2] \in Nat
        BY DEF Checks
      <4>2. round'[c[1]] \in Nat
        BY <4>1, CopyrightBoundAssumption DEF TypeInv, CheckTypes
      <4> QED BY <1>0, <2>3, <3>1, <4>1, <4>2
    <3> QED BY <3>1 DEF Opened
  <2>10. (\A b \in Batches : items'[b] \subseteq Opened') /\ \A u \in Observers : observing'[u].checks \subseteq Opened'
    BY <2>2, <2>9 DEF SettledInv
  <2> QED BY <2>2, <2>3, <2>8, <2>10, SettledKept DEF BatchesStay
<1>4. CASE ReconcileCopyrightCheck
  <2>1. PICK t \in Tracks : t = reconciling.track /\ reconciling.target \in {"ready", "awaiting_technical"}
    BY <1>4 DEF ReconcileCopyrightCheck, TypeInv, RequestTypes
  <2> DEFINE n == IF round[t] = 0 THEN 1 ELSE round[t]
             new == <<t, n>>
  <2>2. /\ round' = [round EXCEPT ![t] = n]
        /\ checkState' = [checkState EXCEPT
             ![new] = IF @ \in {"absent", "awaiting_technical", "ready"} THEN reconciling.target ELSE @]
        /\ UNCHANGED <<standing, items, observing, batchStatus>>
    BY <1>4, <2>1 DEF ReconcileCopyrightCheck, batchVars
  <2>3. n \in 1 .. MaxRounds /\ round[t] <= n
    BY <1>0, CopyrightBoundAssumption DEF TypeInv, CheckTypes
  <2>4. round'[t] = n /\ \A s \in Tracks : round[s] <= round'[s]
    BY <1>0, <2>2, <2>3 DEF TypeInv, CheckTypes
  <2>5. new \in Checks /\ new \in Opened'
    BY <2>3, <2>4 DEF Opened, Checks
  <2>6. \A c \in Checks :
          \/ checkState'[c] = checkState[c]
          \/ checkState[c] # "completed" /\ c \in Opened' /\ checkState'[c] # "completed"
    <3> HIDE DEF new
    <3> QED BY <2>1, <2>2, <2>5 DEF TypeInv, CheckTypes
  <2>7. Opened \subseteq Opened'
    <3>1. ASSUME NEW c \in Checks, c[2] <= round[c[1]] PROVE c[2] <= round'[c[1]]
      <4>1. c[1] \in Tracks /\ c[2] \in Nat
        BY DEF Checks
      <4>2. round'[c[1]] \in Nat
        BY <4>1, CopyrightBoundAssumption DEF TypeInv, CheckTypes
      <4> QED BY <1>0, <2>4, <3>1, <4>1, <4>2
    <3> QED BY <3>1 DEF Opened
  <2>8. (\A b \in Batches : items'[b] \subseteq Opened') /\ \A u \in Observers : observing'[u].checks \subseteq Opened'
    BY <2>2, <2>7 DEF SettledInv
  <2> QED BY <2>2, <2>4, <2>6, <2>8, SettledKept DEF BatchesStay
<1>5. CASE \E chosen \in SUBSET Tracks : CreateCopyrightBatch(chosen)
  <2>1. PICK chosen \in SUBSET Tracks : CreateCopyrightBatch(chosen)
    BY <1>5
  <2> DEFINE cs == {<<t, round[t]>> : t \in chosen}
  <2>2. PICK b \in Batches :
          /\ batchStatus[b] = "absent"
          /\ batchStatus' = [batchStatus EXCEPT ![b] = "queued"]
          /\ items' = [items EXCEPT ![b] = cs]
          /\ checkState' = [c \in Checks |-> IF c \in cs THEN "package_queued" ELSE checkState[c]]
          /\ UNCHANGED <<round, standing, observing>>
    BY <2>1 DEF CreateCopyrightBatch
  <2>3. \A c \in cs : c \in Checks /\ c \in Opened /\ checkState[c] = "ready"
    <3>1. ASSUME NEW t \in chosen
          PROVE  <<t, round[t]>> \in Checks /\ checkState[<<t, round[t]>>] = "ready"
      BY <1>0, <2>1, CopyrightBoundAssumption
         DEF CreateCopyrightBatch, Batchable, Checks, TypeInv, CheckTypes
    <3> QED BY <1>0, <3>1 DEF Opened
  <2> HIDE DEF cs
  <2>4. Opened' = Opened
    BY <2>2 DEF Opened
  <2>5. \A s \in Tracks : round[s] <= round'[s]
    BY <1>0, <2>2
  <2>6. \A c \in Checks :
          \/ checkState'[c] = checkState[c]
          \/ checkState[c] # "completed" /\ c \in Opened' /\ checkState'[c] # "completed"
    BY <2>2, <2>3, <2>4
  <2>7. (\A a \in Batches : items'[a] \subseteq Opened') /\ \A u \in Observers : observing'[u].checks \subseteq Opened'
    BY <2>2, <2>3, <2>4 DEF SettledInv, TypeInv, BatchTypes
  <2>8. BatchesStay
    BY <2>2 DEF BatchesStay, TypeInv, BatchTypes
  <2> QED BY <2>2, <2>5, <2>6, <2>7, <2>8, SettledKept
<1> QED BY <1>1, <1>2, <1>3, <1>4, <1>5

LEMMA SettledBuilds ==
  ASSUME TypeInv, TypeInv', SettledInv,
         \/ \E w \in Builders :
              \/ \E b \in Batches : ClaimNextCopyrightJob(w, b)
              \/ BeginBatchBuild(w) \/ BuildFails(w) \/ PublishArtifact(w) \/ WriteManifestExclusive(w)
              \/ CompleteBatchBuild(w) \/ FailCopyrightJob(w) \/ FailBatch(w) \/ FailChecks(w)
              \/ BuilderDies(w)
         \/ \E b \in Batches :
              \/ CopyrightLeaseExpires(b) \/ RemoveExpiredFiles(b) \/ MarkBatchExpired(b)
              \/ RecordBatchVideoId(b)
         \/ RecoverLeases \/ RequeueBatches
  PROVE  SettledInv' /\ ChecksStay /\ BatchesStay
<1>1. UNCHANGED <<round, standing, items, observing>>
  BY DEF ClaimNextCopyrightJob, BeginBatchBuild, BuildFails, PublishArtifact, WriteManifestExclusive,
         CompleteBatchBuild, FailCopyrightJob, FailBatch, FailChecks, BuilderDies,
         CopyrightLeaseExpires, RemoveExpiredFiles, MarkBatchExpired, RecordBatchVideoId,
         RecoverLeases, RequeueBatches, FrameOfBuild, checkVars, batchVars
<1>2. \/ UNCHANGED checkState
      \/ \E b \in Batches : \E from, to \in CheckStates \ {"completed"} : MoveItems(b, from, to)
  <2>1. ASSUME NEW w \in Builders,
               BeginBatchBuild(w) \/ CompleteBatchBuild(w) \/ FailChecks(w)
        PROVE  \/ UNCHANGED checkState
               \/ \E b \in Batches : \E from, to \in CheckStates \ {"completed"} : MoveItems(b, from, to)
    <3>1. builder[w].batch \in Batches
      BY <2>1 DEF BeginBatchBuild, CompleteBatchBuild, FailChecks, TypeInv, BuilderTypes
    <3>2. \/ UNCHANGED checkState
          \/ \E from, to \in CheckStates \ {"completed"} : MoveItems(builder[w].batch, from, to)
      BY <2>1 DEF BeginBatchBuild, CompleteBatchBuild, FailChecks, CheckStates
    <3> QED BY <3>1, <3>2
  <2>2. ASSUME NEW b \in Batches, RecordBatchVideoId(b)
        PROVE  \E from, to \in CheckStates \ {"completed"} : MoveItems(b, from, to)
    BY <2>2 DEF RecordBatchVideoId, CheckStates
  <2> QED BY <2>1, <2>2
      DEF ClaimNextCopyrightJob, BuildFails, PublishArtifact, WriteManifestExclusive,
          FailCopyrightJob, FailBatch, BuilderDies, CopyrightLeaseExpires, RemoveExpiredFiles,
          MarkBatchExpired, RecoverLeases, RequeueBatches, checkVars
<1>3. BatchesStay
  BY DEF TypeInv, BatchTypes, BatchesStay,
         ClaimNextCopyrightJob, BeginBatchBuild, BuildFails, PublishArtifact, WriteManifestExclusive,
         CompleteBatchBuild, FailCopyrightJob, FailBatch, FailChecks, BuilderDies,
         CopyrightLeaseExpires, RemoveExpiredFiles, MarkBatchExpired, RecordBatchVideoId,
         RecoverLeases, RequeueBatches, batchVars
<1> QED BY <1>1, <1>2, <1>3, SettledMoves

LEMMA SettledRequests ==
  ASSUME TypeInv, TypeInv', SettledInv, NEW u \in Observers, NEW b \in Batches,
         \/ \E c \in items[b], type \in {"clear", "claimed"} : RecordCopyrightObservation(u, b, c, type)
         \/ MarkRemainingBatchItemsNoClaim(u, b) \/ RunContentIdScan(u, b)
  PROVE  SettledInv' /\ ChecksStay /\ BatchesStay
<1>1. UNCHANGED <<round, items, standing, checkState, batchStatus>>
  BY DEF RecordCopyrightObservation, MarkRemainingBatchItemsNoClaim, RunContentIdScan, FrameOfRequest
<1>2. Opened' = Opened
  BY <1>1 DEF Opened
<1>3. items[b] \subseteq Opened
  BY DEF SettledInv
<1>4. \A v \in Observers : observing'[v].checks \subseteq Opened
  <2>1. \A v \in Observers \ {u} : observing'[v] = observing[v]
    BY DEF TypeInv, RequestTypes, RecordCopyrightObservation, MarkRemainingBatchItemsNoClaim, RunContentIdScan
  <2>2. observing'[u].checks \subseteq items[b]
    <3>1. CASE \E c \in items[b], type \in {"clear", "claimed"} : RecordCopyrightObservation(u, b, c, type)
      BY <3>1 DEF RecordCopyrightObservation, TypeInv, RequestTypes
    <3>2. CASE MarkRemainingBatchItemsNoClaim(u, b)
      BY <3>2 DEF MarkRemainingBatchItemsNoClaim, TypeInv, RequestTypes
    <3>3. CASE RunContentIdScan(u, b)
      BY <3>3 DEF RunContentIdScan, TypeInv, RequestTypes, NotObserving
    <3> QED BY <3>1, <3>2, <3>3
  <2> QED BY <1>3, <2>1, <2>2 DEF SettledInv
<1>5. \A t \in Tracks : round[t] <= round'[t]
  BY <1>1, CopyrightBoundAssumption DEF TypeInv, CheckTypes
<1>6. \A a \in Batches : items'[a] \subseteq Opened'
  BY <1>1, <1>2 DEF SettledInv
<1> QED BY <1>1, <1>2, <1>4, <1>5, <1>6, SettledKept DEF BatchesStay

LEMMA SettledCommits ==
  ASSUME TypeInv, TypeInv', SettledInv, NEW u \in Observers,
         CommitObservation(u) \/ CommitRemaining(u) \/ RequestAborts(u)
  PROVE  SettledInv' /\ ChecksStay /\ BatchesStay
<1>1. UNCHANGED <<round, items>> /\ observing' = [observing EXCEPT ![u] = NotObserving]
  BY DEF CommitObservation, CommitRemaining, RequestAborts, FrameOfRequest
<1>2. \A v \in Observers : observing'[v].checks \subseteq observing[v].checks
  BY <1>1 DEF TypeInv, RequestTypes, NotObserving
<1>3. CASE CommitObservation(u) \/ CommitRemaining(u)
  <2>1. PICK cs, type : cs = observing[u].checks /\ Complete(cs, type)
    BY <1>3 DEF CommitObservation, CommitRemaining
  <2>2. cs \in SUBSET Opened
    BY <2>1 DEF SettledInv
  <2>3. /\ \A c \in Checks : c \notin cs => checkState'[c] = checkState[c] /\ standing'[c] = standing[c]
        /\ \A c \in cs : checkState'[c] = "completed" /\ standing'[c] # {}
    BY <2>1, <2>2 DEF Complete, Opened
  <2>4. BatchesStay
    BY <1>3 DEF CommitObservation, CommitRemaining, BatchesStay, TypeInv, BatchTypes
  <2> QED BY <1>1, <1>2, <2>2, <2>3, <2>4, SettledObserved
<1>4. CASE RequestAborts(u)
  BY <1>1, <1>2, <1>4, SettledMoves DEF RequestAborts, BatchesStay
<1> QED BY <1>3, <1>4

LEMMA SettledScans ==
  ASSUME TypeInv, TypeInv', SettledInv,
         (\E u \in Observers : CommitScan(u)) \/ (\E w \in Builders : BuilderScans(w))
  PROVE  SettledInv' /\ ChecksStay /\ BatchesStay
<1>1. UNCHANGED <<round, items>>
  BY DEF CommitScan, BuilderScans, FrameOfRequest
<1>2. \A v \in Observers : observing'[v].checks \subseteq observing[v].checks
  BY DEF CommitScan, BuilderScans, TypeInv, RequestTypes, NotObserving
<1>7. PICK b \in Batches : \E claimed : RecordContentIdScanResults(b, claimed)
  BY DEF CommitScan, BuilderScans, TypeInv, RequestTypes, BuilderTypes
<1>3. PICK claimed : RecordContentIdScanResults(b, claimed)
  BY <1>7
<1>4. LeftToScan(b) \in SUBSET Opened
  BY DEF SettledInv, LeftToScan
<1>5. /\ \A c \in Checks : c \notin LeftToScan(b) => checkState'[c] = checkState[c] /\ standing'[c] = standing[c]
      /\ \A c \in LeftToScan(b) : checkState'[c] = "completed" /\ standing'[c] # {}
  BY <1>3, <1>4 DEF RecordContentIdScanResults, Opened
<1>6. BatchesStay
  BY <1>3 DEF RecordContentIdScanResults, BatchesStay, TypeInv, BatchTypes
<1> QED BY <1>1, <1>2, <1>4, <1>5, <1>6, SettledObserved

LEMMA SettledCorrection ==
  ASSUME TypeInv, TypeInv', SettledInv, NEW c \in Checks, NEW old, NEW new,
         SupersedeCopyrightObservation(c, old, new)
  PROVE  SettledInv' /\ ChecksStay /\ BatchesStay
<1>1. UNCHANGED <<round, items, checkState, batchStatus, observing>>
  BY DEF SupersedeCopyrightObservation, FrameOfRequest
<1>2. \A d \in Checks : standing[d] # {} => standing'[d] # {}
  BY DEF SupersedeCopyrightObservation, TypeInv, CheckTypes
<1>3. Opened' = Opened
  BY <1>1 DEF Opened
<1>4. \A t \in Tracks : round[t] <= round'[t]
  BY <1>1, CopyrightBoundAssumption DEF TypeInv, CheckTypes
<1>5. (\A a \in Batches : items'[a] \subseteq Opened') /\ \A u \in Observers : observing'[u].checks \subseteq Opened'
  BY <1>1, <1>3 DEF SettledInv
<1> QED BY <1>1, <1>2, <1>4, <1>5, SettledKept DEF BatchesStay

LEMMA SettledStep ==
  TypeInv /\ TypeInv' /\ SettledInv /\ [CopyrightNext]_copyrightVars
    => SettledInv' /\ ChecksStay /\ BatchesStay
<1> SUFFICES ASSUME TypeInv, TypeInv', SettledInv, [CopyrightNext]_copyrightVars
             PROVE  SettledInv' /\ ChecksStay /\ BatchesStay
  OBVIOUS
<1>1. CASE UNCHANGED copyrightVars
  BY <1>1, SettledMoves DEF copyrightVars, checkVars, batchVars, BatchesStay
<1>2. CASE \/ \E t \in Tracks : \/ \E complete \in BOOLEAN : TechnicalSettles(t, complete)
                                \/ ReadCandidate(t) \/ ReopenCopyrightCheck(t)
           \/ ReconcileCopyrightCheck
           \/ \E chosen \in SUBSET Tracks : CreateCopyrightBatch(chosen)
  BY <1>2, SettledChecks
<1>3. CASE RecoverLeases \/ RequeueBatches
  BY <1>3, SettledBuilds
<1>4. ASSUME NEW w \in Builders,
             \/ \E b \in Batches : ClaimNextCopyrightJob(w, b)
             \/ BeginBatchBuild(w) \/ BuildFails(w) \/ PublishArtifact(w) \/ WriteManifestExclusive(w)
             \/ CompleteBatchBuild(w) \/ BuilderScans(w)
             \/ FailCopyrightJob(w) \/ FailBatch(w) \/ FailChecks(w) \/ BuilderDies(w)
      PROVE  SettledInv' /\ ChecksStay /\ BatchesStay
  BY <1>4, SettledBuilds, SettledScans
<1>5. ASSUME NEW b \in Batches,
             \/ CopyrightLeaseExpires(b) \/ RemoveExpiredFiles(b) \/ MarkBatchExpired(b)
             \/ RecordBatchVideoId(b)
      PROVE  SettledInv' /\ ChecksStay /\ BatchesStay
  BY <1>5, SettledBuilds
<1>6. ASSUME NEW u \in Observers, NEW b \in Batches,
             \/ \E c \in items[b], type \in {"clear", "claimed"} :
                  RecordCopyrightObservation(u, b, c, type)
             \/ MarkRemainingBatchItemsNoClaim(u, b) \/ RunContentIdScan(u, b)
      PROVE  SettledInv' /\ ChecksStay /\ BatchesStay
  BY <1>6, SettledRequests
<1>7. ASSUME NEW u \in Observers,
             CommitObservation(u) \/ CommitRemaining(u) \/ CommitScan(u) \/ RequestAborts(u)
      PROVE  SettledInv' /\ ChecksStay /\ BatchesStay
  BY <1>7, SettledCommits, SettledScans
<1>8. ASSUME NEW c \in Checks, NEW old \in {"clear", "claimed"}, NEW new \in {"clear", "claimed"},
             SupersedeCopyrightObservation(c, old, new)
      PROVE  SettledInv' /\ ChecksStay /\ BatchesStay
  BY <1>8, SettledCorrection
<1> QED BY <1>1, <1>2, <1>3, <1>4, <1>5, <1>6, <1>7, <1>8 DEF CopyrightNext

-----------------------------------------------------------------------------
(* What is offered.                                                         *)

\* The clean-up has taken the files of a batch away or is about to say so, or a scan has
\* completed the batch: no late attempt is published then.
Gone(b) == b \in cleaning \/ batchStatus[b] \in {"expired", "completed"}

\* What an attempt has written is there until the clean-up takes it.
FilesInv ==
  /\ \A w \in Builders : builder[w].step = "manifest" =>
       "artifact" \in files[builder[w].batch] \/ Gone(builder[w].batch)
  /\ \A w \in Builders : builder[w].step = "complete" =>
       files[builder[w].batch] = {"artifact", "manifest"} \/ Gone(builder[w].batch)
  /\ OfferedArtifactExists

LEMMA FilesStart == CopyrightInit => FilesInv
BY DEF CopyrightInit, FilesInv, OfferedArtifactExists, NoBuild

\* What is gone stays so: a late builder builds only what is queued or being built.
LEMMA GoneStays ==
  ASSUME TypeInv, [CopyrightNext]_copyrightVars
  PROVE  \A b \in Batches : Gone(b) => Gone(b)'
<1> USE DEF Gone, TypeInv, BatchTypes
<1>1. CASE UNCHANGED <<batchStatus, cleaning>>
  BY <1>1
<1>2. CASE \E chosen \in SUBSET Tracks : CreateCopyrightBatch(chosen)
  BY <1>2 DEF CreateCopyrightBatch, diskVars
<1>3. ASSUME NEW w \in Builders, BeginBatchBuild(w) \/ CompleteBatchBuild(w) \/ FailBatch(w)
      PROVE  \A b \in Batches : Gone(b) => Gone(b)'
  BY <1>3 DEF BeginBatchBuild, CompleteBatchBuild, FailBatch, FrameOfBuild
<1>4. CASE RequeueBatches
  BY <1>4 DEF RequeueBatches, FrameOfBuild
<1>5. ASSUME NEW b \in Batches, RemoveExpiredFiles(b) \/ MarkBatchExpired(b) \/ RecordBatchVideoId(b)
      PROVE  \A a \in Batches : Gone(a) => Gone(a)'
  BY <1>5 DEF RemoveExpiredFiles, MarkBatchExpired, RecordBatchVideoId, batchVars, diskVars
<1>6. ASSUME NEW u \in Observers, CommitObservation(u) \/ CommitRemaining(u)
      PROVE  \A a \in Batches : Gone(a) => Gone(a)'
  BY <1>6 DEF CommitObservation, CommitRemaining, FrameOfRequest, diskVars
<1>7. ASSUME (\E u \in Observers : CommitScan(u)) \/ (\E w \in Builders : BuilderScans(w))
      PROVE  \A a \in Batches : Gone(a) => Gone(a)'
  <2>1. cleaning' = cleaning /\ \E b, claimed : RecordContentIdScanResults(b, claimed)
    BY <1>7 DEF CommitScan, BuilderScans, FrameOfRequest, diskVars
  <2> QED BY <2>1 DEF RecordContentIdScanResults
<1>8. ASSUME NEW w \in Builders,
             \/ \E b \in Batches : ClaimNextCopyrightJob(w, b)
             \/ BuildFails(w) \/ PublishArtifact(w) \/ WriteManifestExclusive(w)
             \/ FailCopyrightJob(w) \/ FailChecks(w) \/ BuilderDies(w)
      PROVE  UNCHANGED <<batchStatus, cleaning>>
  BY <1>8 DEF ClaimNextCopyrightJob, BuildFails, PublishArtifact, WriteManifestExclusive,
         FailCopyrightJob, FailChecks, BuilderDies, FrameOfBuild, batchVars, diskVars
<1>9. ASSUME NEW u \in Observers, NEW b \in Batches,
             \/ \E c \in items[b], type \in {"clear", "claimed"} :
                  RecordCopyrightObservation(u, b, c, type)
             \/ MarkRemainingBatchItemsNoClaim(u, b) \/ RunContentIdScan(u, b) \/ RequestAborts(u)
      PROVE  UNCHANGED <<batchStatus, cleaning>>
  BY <1>9 DEF RecordCopyrightObservation, MarkRemainingBatchItemsNoClaim, RunContentIdScan,
              RequestAborts, FrameOfRequest, diskVars
<1>10. CASE \/ \E t \in Tracks : \/ \E complete \in BOOLEAN : TechnicalSettles(t, complete)
                                 \/ ReadCandidate(t) \/ ReopenCopyrightCheck(t)
            \/ ReconcileCopyrightCheck \/ RecoverLeases
            \/ \E b \in Batches : CopyrightLeaseExpires(b)
            \/ \E c \in Checks, old, new \in {"clear", "claimed"} : SupersedeCopyrightObservation(c, old, new)
            \/ UNCHANGED copyrightVars
  BY <1>10 DEF TechnicalSettles, ReadCandidate, ReopenCopyrightCheck, ReconcileCopyrightCheck,
               RecoverLeases, CopyrightLeaseExpires, SupersedeCopyrightObservation, FrameOfBuild,
               FrameOfRequest, copyrightVars, batchVars, diskVars
<1>11. ASSUME NEW u \in Observers, NEW b \in Batches, RequestAborts(u)
       PROVE  \A a \in Batches : Gone(a) => Gone(a)'
  BY <1>9, <1>11
<1>12. ASSUME NEW u \in Observers,
              CommitObservation(u) \/ CommitRemaining(u) \/ CommitScan(u) \/ RequestAborts(u)
       PROVE  \A a \in Batches : Gone(a) => Gone(a)'
  BY <1>6, <1>7, <1>11, <1>12
<1> HIDE DEF Gone
<1> QED BY <1>1, <1>2, <1>3, <1>4, <1>5, <1>7, <1>8, <1>9, <1>10, <1>12 DEF CopyrightNext

\* Files that only grow, or that the clean-up takes; attempts that come to a step with the
\* files it rests on; and what is published has them.
LEMMA FilesKept ==
  ASSUME TypeInv, TypeInv', FilesInv,
         \A b \in Batches : Gone(b) => Gone(b)',
         \A b \in Batches : files[b] \subseteq files'[b] \/ b \in cleaning',
         \A w \in Builders :
           builder'[w].step \in {"manifest", "complete"} =>
             \/ builder'[w] = builder[w]
             \/ \E b \in Batches :
                  /\ builder'[w].batch = b
                  /\ \/ Gone(b)'
                     \/ /\ "artifact" \in files'[b]
                        /\ builder'[w].step = "complete" => "manifest" \in files'[b],
         \A b \in Batches : published'[b] =>
           \/ published[b] /\ (b \in cleaning => b \in cleaning')
           \/ b \in cleaning'
           \/ "artifact" \in files'[b] /\ "manifest" \in files'[b]
  PROVE  FilesInv'
<1>1. \A b \in Batches : files[b] \subseteq {"artifact", "manifest"} /\ files'[b] \subseteq {"artifact", "manifest"}
  BY DEF TypeInv, BatchTypes
<1>2. ASSUME NEW w \in Builders, NEW b \in Batches, builder'[w].batch = b,
             builder'[w].step \in {"manifest", "complete"}
      PROVE  \/ Gone(b)'
             \/ /\ "artifact" \in files'[b]
                /\ builder'[w].step = "complete" => "manifest" \in files'[b]
  <2>1. CASE builder'[w] = builder[w]
    <3>1. \/ Gone(b)
          \/ /\ "artifact" \in files[b]
             /\ builder'[w].step = "complete" => "manifest" \in files[b]
      BY <1>2, <2>1 DEF FilesInv
    <3>2. b \in cleaning' => Gone(b)'
      BY DEF Gone
    <3> QED BY <3>1, <3>2
  <2> QED BY <1>2, <2>1
<1>3. \A w \in Builders : builder'[w].step \in {"manifest", "complete"} => builder'[w].batch \in Batches
  BY DEF TypeInv, BuilderTypes
<1>4. ASSUME NEW w \in Builders, builder'[w].step = "manifest"
      PROVE  ("artifact" \in files[builder[w].batch] \/ Gone(builder[w].batch))'
  BY <1>2, <1>3, <1>4 DEF Gone
<1>5. ASSUME NEW w \in Builders, builder'[w].step = "complete"
      PROVE  (files[builder[w].batch] = {"artifact", "manifest"} \/ Gone(builder[w].batch))'
  <2>1. PICK b \in Batches : b = builder'[w].batch
    BY <1>3, <1>5
  <2>2. files'[b] = {"artifact", "manifest"} \/ Gone(b)'
    BY <1>1, <1>2, <1>5, <2>1
  <2> QED BY <2>1, <2>2 DEF Gone
<1>6. OfferedArtifactExists'
  <2>1. ASSUME NEW b \in Batches, published'[b]
        PROVE  files'[b] = {"artifact", "manifest"} \/ b \in cleaning'
    <3>1. CASE published[b] /\ (b \in cleaning => b \in cleaning')
      <4>1. files[b] = {"artifact", "manifest"} \/ b \in cleaning
        BY <3>1 DEF FilesInv, OfferedArtifactExists
      <4> QED BY <1>1, <3>1, <4>1
    <3> QED BY <1>1, <2>1, <3>1
  <2> QED BY <2>1 DEF OfferedArtifactExists
<1> QED BY <1>4, <1>5, <1>6 DEF FilesInv

\* What writes no file and brings nobody to the manifest or the completion.
LEMMA FilesUntouched ==
  ASSUME TypeInv, TypeInv', FilesInv, \A b \in Batches : Gone(b) => Gone(b)',
         UNCHANGED <<files, published>>, cleaning \subseteq cleaning',
         \A w \in Builders : builder'[w].step \in {"manifest", "complete"} => builder'[w] = builder[w]
  PROVE  FilesInv'
BY FilesKept

LEMMA FilesOfBuilder ==
  ASSUME TypeInv, TypeInv', FilesInv, \A b \in Batches : Gone(b) => Gone(b)', NEW w \in Builders,
         \/ \E b \in Batches : ClaimNextCopyrightJob(w, b)
         \/ BeginBatchBuild(w) \/ BuildFails(w) \/ PublishArtifact(w) \/ WriteManifestExclusive(w)
         \/ CompleteBatchBuild(w) \/ BuilderScans(w)
         \/ FailCopyrightJob(w) \/ FailBatch(w) \/ FailChecks(w) \/ BuilderDies(w)
  PROVE  FilesInv'
<1>1. builder \in [Builders -> Builds] /\ files \in [Batches -> SUBSET {"artifact", "manifest"}]
      /\ published \in [Batches -> BOOLEAN] /\ batchStatus \in [Batches -> BatchStates]
  BY DEF TypeInv, BuilderTypes, BatchTypes
<1>2. CASE PublishArtifact(w) \/ WriteManifestExclusive(w)
  <2>1. PICK b \in Batches : b = builder[w].batch
    BY <1>2 DEF PublishArtifact, WriteManifestExclusive, TypeInv, BuilderTypes
  <2>2. \A v \in Builders \ {w} : builder'[v] = builder[v]
    BY <1>1, <1>2 DEF PublishArtifact, WriteManifestExclusive, GoTo
  <2>3. /\ builder'[w].batch = b
        /\ \/ builder'[w].step = "manifest" /\ builder[w].step = "publish"
           \/ builder'[w].step = "complete" /\ builder[w].step = "manifest"
    BY <1>1, <1>2, <2>1 DEF PublishArtifact, WriteManifestExclusive, GoTo, Builds
  <2>4. \A a \in Batches : files[a] \subseteq files'[a]
    BY <1>1, <1>2 DEF PublishArtifact, WriteManifestExclusive
  <2>5. \/ Gone(b)'
        \/ /\ "artifact" \in files'[b]
           /\ builder'[w].step = "complete" => "manifest" \in files'[b]
    <3>1. CASE PublishArtifact(w)
      BY <1>1, <2>1, <2>3, <3>1 DEF PublishArtifact
    <3>2. CASE WriteManifestExclusive(w)
      <4>1. "artifact" \in files[b] \/ Gone(b)
        BY <2>1, <3>2 DEF WriteManifestExclusive, FilesInv
      <4>2. "manifest" \in files'[b]
        BY <1>1, <2>1, <3>2 DEF WriteManifestExclusive
      <4> QED BY <2>4, <4>1, <4>2
    <3> QED BY <1>2, <3>1, <3>2
  <2>6. UNCHANGED <<published, cleaning>>
    BY <1>2 DEF PublishArtifact, WriteManifestExclusive, FrameOfBuild
  <2> QED BY <2>2, <2>3, <2>4, <2>5, <2>6, FilesKept
<1>3. CASE CompleteBatchBuild(w)
  <2>1. PICK b \in Batches : b = builder[w].batch
    BY <1>3 DEF CompleteBatchBuild, TypeInv, BuilderTypes
  <2>2. \A v \in Builders : builder'[v].step \in {"manifest", "complete"} => builder'[v] = builder[v]
    BY <1>1, <1>3 DEF CompleteBatchBuild, GoTo
  <2>3. UNCHANGED <<files, cleaning>>
    BY <1>3 DEF CompleteBatchBuild, FrameOfBuild
  <2>4. files[b] = {"artifact", "manifest"} \/ Gone(b)
    BY <1>3, <2>1 DEF CompleteBatchBuild, FilesInv
  <2>5. \A a \in Batches : published'[a] => published[a] \/ (a = b /\ batchStatus[b] = "building")
    BY <1>1, <1>3, <2>1 DEF CompleteBatchBuild
  <2>6. batchStatus[b] = "building" =>
          b \in cleaning' \/ ("artifact" \in files'[b] /\ "manifest" \in files'[b])
    BY <2>3, <2>4 DEF Gone
  <2> QED BY <2>2, <2>3, <2>5, <2>6, FilesKept
<1>4. CASE \/ \E b \in Batches : ClaimNextCopyrightJob(w, b)
           \/ BeginBatchBuild(w) \/ BuildFails(w) \/ BuilderScans(w)
           \/ FailCopyrightJob(w) \/ FailBatch(w) \/ FailChecks(w) \/ BuilderDies(w)
  <2>1. UNCHANGED <<files, published, cleaning>>
    BY <1>4 DEF ClaimNextCopyrightJob, BeginBatchBuild, BuildFails, BuilderScans, FailCopyrightJob,
                FailBatch, FailChecks, BuilderDies, FrameOfBuild, batchVars, diskVars
  <2>2. GoIdle(w) \/ (\E step \in BuildSteps \ {"manifest", "complete"} : GoTo(w, step))
        \/ \E b \in Batches : ClaimNextCopyrightJob(w, b)
    BY <1>4 DEF BeginBatchBuild, BuildFails, BuilderScans, FailCopyrightJob, FailBatch, FailChecks,
                BuilderDies, BuildSteps
  <2>3. \A v \in Builders \ {w} : builder'[v] = builder[v]
    BY <1>1, <2>2 DEF GoIdle, GoTo, ClaimNextCopyrightJob
  <2>4. builder'[w].step \notin {"manifest", "complete"}
    <3>1. CASE GoIdle(w)
      BY <1>1, <3>1 DEF GoIdle, NoBuild
    <3>2. CASE \E step \in BuildSteps \ {"manifest", "complete"} : GoTo(w, step)
      BY <1>1, <3>2 DEF GoTo, Builds
    <3>3. CASE \E b \in Batches : ClaimNextCopyrightJob(w, b)
      BY <1>1, <3>3 DEF ClaimNextCopyrightJob
    <3> QED BY <2>2, <3>1, <3>2, <3>3
  <2> QED BY <2>1, <2>3, <2>4, FilesUntouched
<1> QED BY <1>2, <1>3, <1>4

LEMMA FilesOfOthers ==
  ASSUME TypeInv, TypeInv', FilesInv, \A b \in Batches : Gone(b) => Gone(b)', UNCHANGED builder,
         UNCHANGED <<files, published, cleaning>> \/ \E b \in Batches : RemoveExpiredFiles(b) \/ MarkBatchExpired(b)
  PROVE  FilesInv'
<1>1. CASE UNCHANGED <<files, published, cleaning>>
  BY <1>1, FilesUntouched
<1>2. ASSUME NEW b \in Batches, RemoveExpiredFiles(b) PROVE FilesInv'
  <2>1. /\ \A a \in Batches : files'[a] = files[a] \/ a \in cleaning'
        /\ UNCHANGED published /\ cleaning' = cleaning \cup {b}
    BY <1>2 DEF RemoveExpiredFiles, batchVars, TypeInv, BatchTypes
  <2> QED BY <2>1, FilesKept
<1>3. ASSUME NEW b \in Batches, MarkBatchExpired(b) PROVE FilesInv'
  <2>1. UNCHANGED files
    BY <1>3 DEF MarkBatchExpired
  <2>2. \A a \in Batches : published'[a] => published[a] /\ (a \in cleaning => a \in cleaning')
    BY <1>3 DEF MarkBatchExpired, TypeInv, BatchTypes
  <2> QED BY <2>1, <2>2, FilesKept
<1> QED BY <1>1, <1>2, <1>3

LEMMA FilesStep == TypeInv /\ TypeInv' /\ FilesInv /\ [CopyrightNext]_copyrightVars => FilesInv'
<1> SUFFICES ASSUME TypeInv, TypeInv', FilesInv, [CopyrightNext]_copyrightVars PROVE FilesInv'
  OBVIOUS
<1>1. \A b \in Batches : Gone(b) => Gone(b)'
  BY GoneStays
<1>2. CASE \E w \in Builders :
             \/ \E b \in Batches : ClaimNextCopyrightJob(w, b)
             \/ BeginBatchBuild(w) \/ BuildFails(w) \/ PublishArtifact(w) \/ WriteManifestExclusive(w)
             \/ CompleteBatchBuild(w) \/ BuilderScans(w)
             \/ FailCopyrightJob(w) \/ FailBatch(w) \/ FailChecks(w) \/ BuilderDies(w)
  BY <1>1, <1>2, FilesOfBuilder
<1>3. CASE \E b \in Batches : RemoveExpiredFiles(b) \/ MarkBatchExpired(b)
  BY <1>1, <1>3, FilesOfOthers DEF RemoveExpiredFiles, MarkBatchExpired
<1>4. CASE \/ \E t \in Tracks : \/ \E complete \in BOOLEAN : TechnicalSettles(t, complete)
                                \/ ReadCandidate(t) \/ ReopenCopyrightCheck(t)
           \/ \E chosen \in SUBSET Tracks : CreateCopyrightBatch(chosen)
           \/ ReconcileCopyrightCheck \/ RecoverLeases \/ RequeueBatches
           \/ \E b \in Batches : CopyrightLeaseExpires(b) \/ RecordBatchVideoId(b)
           \/ UNCHANGED copyrightVars
  <2>1. UNCHANGED <<files, published, cleaning, builder>>
    BY <1>4 DEF TechnicalSettles, ReadCandidate, ReopenCopyrightCheck, ReconcileCopyrightCheck,
         CreateCopyrightBatch, RecoverLeases, RequeueBatches, CopyrightLeaseExpires,
         RecordBatchVideoId, FrameOfBuild, copyrightVars, batchVars, diskVars
  <2> QED BY <1>1, <2>1, FilesOfOthers
<1>5. CASE \/ \E u \in Observers, b \in Batches :
                \/ \E c \in items[b], type \in {"clear", "claimed"} :
                     RecordCopyrightObservation(u, b, c, type)
                \/ MarkRemainingBatchItemsNoClaim(u, b) \/ RunContentIdScan(u, b)
           \/ \E u \in Observers :
                CommitObservation(u) \/ CommitRemaining(u) \/ CommitScan(u) \/ RequestAborts(u)
           \/ \E c \in Checks, old, new \in {"clear", "claimed"} : SupersedeCopyrightObservation(c, old, new)
  <2>1. UNCHANGED <<files, published, cleaning, builder>>
    BY <1>5 DEF RecordCopyrightObservation, MarkRemainingBatchItemsNoClaim, RunContentIdScan,
         CommitObservation, CommitRemaining, CommitScan, RequestAborts,
         SupersedeCopyrightObservation, FrameOfRequest, diskVars
  <2> QED BY <1>1, <2>1, FilesOfOthers
<1> QED BY <1>2, <1>3, <1>4, <1>5 DEF CopyrightNext

-----------------------------------------------------------------------------
LEMMA TypesHold == CopyrightSpec => []TypeInv
BY TypeStarts, TypeStep, PTL DEF CopyrightSpec

\* The variables of the copyright workflow are in their domains, and a job is owned while it
\* runs and only then.
THEOREM CopyrightTypesAreKept == CopyrightSpec => []CopyrightTypeOK
BY TypesHold, TypesAreInDomain, PTL

\* completeBatchBuild, failCopyrightJob, the reconciliation and a scan that comes late move
\* no batch from ready back to being built, and reopening or reconciling a check, which takes
\* a round that nothing has completed, takes no observation from one that is completed.
THEOREM SettledWorkIsKept == CopyrightSpec => SettledWorkStays
<1>1. TypeInv /\ TypeInv' /\ SettledInv /\ [CopyrightNext]_copyrightVars
        => [/\ \A b \in Batches :
                 batchStatus[b] \in {"ready", "manual_review", "completed"}
                   => batchStatus'[b] \in {"ready", "manual_review", "completed", "expired"}
            /\ \A c \in Checks :
                 checkState[c] = "completed" => checkState'[c] = "completed" /\ standing'[c] # {}]_copyrightVars
  BY SettledStep DEF BatchesStay, ChecksStay
<1> QED BY <1>1, TypesHold, SettledStarts, SettledStep, PTL DEF CopyrightSpec, SettledWorkStays

\* A batch that is offered for download has its video and its manifest: an attempt comes to
\* completeBatchBuild with both written or after the clean-up, which leaves a batch that no
\* late attempt publishes.
THEOREM OfferedBatchesExist == CopyrightSpec => []OfferedArtifactExists
<1>1. FilesInv => OfferedArtifactExists
  BY DEF FilesInv
<1> QED BY <1>1, TypesHold, FilesStart, FilesStep, PTL DEF CopyrightSpec

=============================================================================
