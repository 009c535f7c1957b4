-------------------------- MODULE ProcessingQueue --------------------------
(***************************************************************************)
(* The technical-processing queue: one submission, its Revisions, the      *)
(* processing_job of each Revision, and the workers that lease the jobs,   *)
(* write the analysis tables and advance the submission to review.         *)
(*                                                                         *)
(* Grain: one action per database transaction or autocommitted statement   *)
(* (src/lib/processing/repository.ts), so that other workers, the owner,   *)
(* reviewers and operators can act between any two of a worker's writes.   *)
(* A worker process may die at every point; what it wrote stays.  A lease  *)
(* runs out whenever it likes, and a retry delay passes whenever it likes. *)
(***************************************************************************)
EXTENDS Naturals, FiniteSets

CONSTANTS
  Workers,      \* worker processes, each running one job at a time
  MaxRevision,  \* bound: Revisions the producer creates
  MaxAttempts,  \* processing_job.max_attempts
  MaxRequeues,  \* bound: times an owner's retry requeues a job
  NoWorker      \* lease_owner IS NULL

ASSUME WorkersAssumption == NoWorker \notin Workers
ASSUME RevisionAssumption == MaxRevision \in Nat \ {0}
ASSUME AttemptsAssumption == MaxAttempts \in Nat \ {0}
ASSUME RequeuesAssumption == MaxRequeues \in Nat

Revisions == 1 .. MaxRevision
NoRevision == 0

VARIABLES
  \* workflow.submission, workflow.submission_revision, submission_event
  status,              \* submission.status
  current,             \* submission.current_revision_id
  revisionStatus,      \* submission_revision.revision_status
  resubmitted,         \* Revisions the event log shows submitted a second time
  \* analysis.processing_job, one row per Revision (idempotency key)
  jobStatus, attempts, leaseOwner,
  leaseExpired,        \* lease_expires_at <= now()
  \* analysis.revision_analysis; "none" while there is no row
  technical, overall,
  technicalCompleted,  \* technical_completed_at IS NOT NULL
  qc,                  \* analysis.qc_issue rows: "technical", "ai_unavailable"
  \* rights.copyright_check, the current one of a Revision
  checkStatus,
  \* the worker processes: program counter, and of the ProcessingJobDto they hold
  \* the Revision and attemptCount
  pc, rev, snapshot,
  \* history: Revisions on which two actors' writes may have overlapped
  disturbed,
  requeues             \* requeues so far, for the bound

submissionVars == <<status, current, revisionStatus, resubmitted>>
jobVars == <<jobStatus, attempts, leaseOwner, leaseExpired>>
analysisVars == <<technical, overall, technicalCompleted>>
workerVars == <<pc, rev, snapshot>>
historyVars == <<disturbed, requeues>>
vars == <<submissionVars, jobVars, analysisVars, qc, checkStatus, workerVars, historyVars>>

-----------------------------------------------------------------------------
(* Where a worker can be.                                                   *)

\* Inside the try block of runOneProcessingJob, up to the call that settles the job.
Working == {"begin", "clear", "measure", "record_issues", "complete_technical",
            "open_check", "finalize", "warn", "finalize_partial", "succeed",
            "catch_retryable", "catch_permanent"}
\* The job is settled as failed and markTechnicalFailed is still running.
Reporting == {"fail_analysis", "fail_check"}

Holds(w, r) == rev[w] = r /\ pc[w] \in Working

Goto(w, label) == pc' = [pc EXCEPT ![w] = label]

Continue(w, label) ==
  /\ Goto(w, label)
  /\ UNCHANGED <<rev, snapshot>>

\* Mutant of Throw: an inner catch block that does not rethrow.
ThrowSwallowed(w, retryable) == Continue(w, "succeed")

\* An error leaves processRevision and reaches the catch block of the worker.
Throw(w, retryable) ==
  Continue(w, IF retryable THEN "catch_retryable" ELSE "catch_permanent")

\* runOneProcessingJob returns, or the process is gone.
Forget(w) ==
  /\ Goto(w, "idle")
  /\ rev' = [rev EXCEPT ![w] = NoRevision]
  /\ snapshot' = [snapshot EXCEPT ![w] = 0]

-----------------------------------------------------------------------------
(* Initial states: a new draft, or a submission that was submitted before   *)
(* the processing queue existed and has neither analysis, job nor check.    *)

Init ==
  /\ \/ status = "draft" /\ revisionStatus = [r \in Revisions |-> IF r = 1 THEN "draft" ELSE "absent"]
     \/ status = "submitted" /\ revisionStatus = [r \in Revisions |-> IF r = 1 THEN "submitted" ELSE "absent"]
  /\ current = 1
  /\ resubmitted = {}
  /\ jobStatus = [r \in Revisions |-> "absent"]
  /\ attempts = [r \in Revisions |-> 0]
  /\ leaseOwner = [r \in Revisions |-> NoWorker]
  /\ leaseExpired = [r \in Revisions |-> FALSE]
  /\ technical = [r \in Revisions |-> "none"]
  /\ overall = [r \in Revisions |-> "none"]
  /\ technicalCompleted = [r \in Revisions |-> FALSE]
  /\ qc = [r \in Revisions |-> {}]
  /\ checkStatus = [r \in Revisions |-> "none"]
  /\ pc = [w \in Workers |-> "idle"]
  /\ rev = [w \in Workers |-> NoRevision]
  /\ snapshot = [w \in Workers |-> 0]
  /\ disturbed = {}
  /\ requeues = 0

-----------------------------------------------------------------------------
(* The job table.                                                           *)

\* INSERT ... ON CONFLICT (idempotency_key): only a Revision without a job gets one.
EnqueueJob(r) ==
  /\ jobStatus' = [jobStatus EXCEPT ![r] = IF @ = "absent" THEN "queued" ELSE @]
  /\ UNCHANGED <<attempts, leaseOwner, leaseExpired>>

\* Mutant of Claimable: attempt_count < max_attempts is forgotten.
ClaimableForever(r) ==
  jobStatus[r] \in {"queued", "retry_wait"} \/ (jobStatus[r] = "running" /\ leaseExpired[r])

\* Mutant of Claimable: only waiting jobs, as in the media queue.
ClaimableWaiting(r) ==
  jobStatus[r] \in {"queued", "retry_wait"} /\ attempts[r] < MaxAttempts

Claimable(r) ==
  /\ \/ jobStatus[r] \in {"queued", "retry_wait"}
     \/ jobStatus[r] = "running" /\ leaseExpired[r]
  /\ attempts[r] < MaxAttempts

\* Mutant of GrantLease: COALESCE(lease_owner, $1) instead of $1.
GrantLeaseKeepingOwner(w, r) ==
  /\ jobStatus' = [jobStatus EXCEPT ![r] = "running"]
  /\ attempts' = [attempts EXCEPT ![r] = @ + 1]
  /\ leaseOwner' = [leaseOwner EXCEPT ![r] = IF @ = NoWorker THEN w ELSE @]
  /\ leaseExpired' = [leaseExpired EXCEPT ![r] = FALSE]

GrantLease(w, r) ==
  /\ jobStatus' = [jobStatus EXCEPT ![r] = "running"]
  /\ attempts' = [attempts EXCEPT ![r] = @ + 1]
  /\ leaseOwner' = [leaseOwner EXCEPT ![r] = w]
  /\ leaseExpired' = [leaseExpired EXCEPT ![r] = FALSE]

\* The order of next_attempt_at among several claimable jobs is left open, and so
\* is when the retry delay of a waiting job has passed.
ClaimNextProcessingJob(w, r) ==
  /\ pc[w] = "idle"
  /\ Claimable(r)
  /\ GrantLease(w, r)
  /\ Goto(w, "begin")
  /\ rev' = [rev EXCEPT ![w] = r]
  /\ snapshot' = [snapshot EXCEPT ![w] = attempts[r] + 1]
  /\ UNCHANGED <<submissionVars, analysisVars, qc, checkStatus, historyVars>>

\* Mutant of OwnsLease: WHERE id = $1.
OwnsLeaseById(w, r) == jobStatus[r] # "absent"

\* Mutant of OwnsLease: WHERE id = $1 AND status = 'running'.
OwnsLeaseOfAnyone(w, r) == jobStatus[r] = "running"

\* WHERE id = $1 AND status = 'running' AND lease_owner = $2.
OwnsLease(w, r) == jobStatus[r] = "running" /\ leaseOwner[r] = w

SettleJob(w, r, outcome) ==
  IF OwnsLease(w, r)
  THEN /\ jobStatus' = [jobStatus EXCEPT ![r] = outcome]
       /\ leaseOwner' = [leaseOwner EXCEPT ![r] = NoWorker]
       /\ leaseExpired' = [leaseExpired EXCEPT ![r] = FALSE]
  ELSE UNCHANGED <<jobStatus, leaseOwner, leaseExpired>>

\* The acknowledgement of the UPDATE may be lost: the statement has committed,
\* the worker sees an error and goes through its catch block.
MarkProcessingJobSucceeded(w) ==
  /\ pc[w] = "succeed"
  /\ SettleJob(w, rev[w], "succeeded")
  /\ \/ Forget(w) /\ UNCHANGED disturbed
     \/ /\ Throw(w, TRUE)
        /\ disturbed' = IF snapshot[w] = MaxAttempts THEN disturbed \cup {rev[w]} ELSE disturbed
  /\ UNCHANGED <<submissionVars, attempts, analysisVars, qc, checkStatus, requeues>>

\* Whether to retry is decided from the DTO the worker claimed, not from the row.
MarkProcessingJobFailed(w) ==
  LET r == rev[w]
      retry == pc[w] = "catch_retryable" /\ snapshot[w] < MaxAttempts
  IN
  /\ pc[w] \in {"catch_retryable", "catch_permanent"}
  /\ SettleJob(w, r, IF retry THEN "retry_wait" ELSE "failed")
  /\ IF retry THEN Forget(w) ELSE Continue(w, "fail_analysis")
  /\ UNCHANGED <<submissionVars, attempts, analysisVars, qc, checkStatus, historyVars>>

\* An operator's reclaimExpiredProcessingJobs, in one statement over the table.
ReclaimExpiredProcessingJobs ==
  LET expired == {r \in Revisions : jobStatus[r] = "running" /\ leaseExpired[r]} IN
  /\ expired # {}
  /\ jobStatus' = [r \in Revisions |-> IF r \in expired THEN "retry_wait" ELSE jobStatus[r]]
  /\ leaseOwner' = [r \in Revisions |-> IF r \in expired THEN NoWorker ELSE leaseOwner[r]]
  /\ leaseExpired' = [r \in Revisions |-> IF r \in expired THEN FALSE ELSE leaseExpired[r]]
  /\ UNCHANGED <<submissionVars, attempts, analysisVars, qc, checkStatus, workerVars, historyVars>>

\* pnpm processing:reconcile: submissions that wait for a job nobody enqueued.
ReconcileMissingJobs ==
  /\ status \in {"submitted", "processing"}
  /\ jobStatus[current] = "absent"
  /\ EnqueueJob(current)
  /\ UNCHANGED <<submissionVars, analysisVars, qc, checkStatus, workerVars, historyVars>>

\* POST .../processing/retry, whatever the state of the submission.  The route reads
\* current_revision_id before the transaction, so r may have been replaced since.
RetryRevisionProcessing(r) ==
  LET requeue == jobStatus[r] \in {"failed", "absent"}
      reset == overall[r] = "failed"
  IN
  /\ r <= current
  /\ technical' = [technical EXCEPT ![r] = IF reset THEN "pending" ELSE @]
  /\ overall' = [overall EXCEPT ![r] = IF reset THEN "queued" ELSE @]
  /\ jobStatus' = [jobStatus EXCEPT ![r] = IF requeue THEN "queued" ELSE @]
  /\ attempts' = [attempts EXCEPT ![r] = IF requeue THEN 0 ELSE @]
  /\ requeue => requeues < MaxRequeues
  /\ requeues' = IF requeue THEN requeues + 1 ELSE requeues
  /\ disturbed' = IF (requeue \/ reset) /\ \E w \in Workers : rev[w] = r
                  THEN disturbed \cup {r} ELSE disturbed
  /\ UNCHANGED <<submissionVars, leaseOwner, leaseExpired, technicalCompleted,
                 qc, checkStatus, workerVars>>

-----------------------------------------------------------------------------
(* Time, and the death of a worker process.                                 *)

\* Nothing renews a lease: it runs out under a worker that is still busy, too.
LeaseExpires(r) ==
  /\ jobStatus[r] = "running"
  /\ ~leaseExpired[r]
  /\ leaseExpired' = [leaseExpired EXCEPT ![r] = TRUE]
  /\ disturbed' = IF \E w \in Workers : rev[w] = r THEN disturbed \cup {r} ELSE disturbed
  /\ UNCHANGED <<submissionVars, jobStatus, attempts, leaseOwner, analysisVars, qc,
                 checkStatus, workerVars, requeues>>

\* A restarted process polls under a lease_owner of its own (host:pid:uuid); since
\* it holds no job until it claims one, the idle worker stands for it.
Crash(w) ==
  /\ pc[w] # "idle"
  /\ Forget(w)
  /\ UNCHANGED <<submissionVars, jobVars, analysisVars, qc, checkStatus, historyVars>>

-----------------------------------------------------------------------------
(* processRevision, statement by statement.                                 *)

\* Mutant of EligibleForProcessing: the status of the submission is not checked.
EligibleIfCurrent(r) == current = r

EligibleForProcessing(r) ==
  current = r /\ status \in {"submitted", "processing", "ready_for_review"}

\* One transaction under a lock on the submission; its failures are retried.
BeginRevisionProcessing(w) ==
  LET r == rev[w] IN
  /\ pc[w] = "begin"
  /\ \/ /\ EligibleForProcessing(r)
        /\ status' = IF status = "submitted" THEN "processing" ELSE status
        /\ technical' = [technical EXCEPT ![r] = IF @ = "complete" THEN @ ELSE "processing"]
        /\ overall' = [overall EXCEPT ![r] = IF @ \in {"complete", "partial"} THEN @ ELSE "processing"]
        /\ Continue(w, "clear")
     \/ /\ ~EligibleForProcessing(r)
        /\ Throw(w, TRUE)
        /\ UNCHANGED <<status, technical, overall>>
  /\ UNCHANGED <<current, revisionStatus, resubmitted, jobVars, technicalCompleted, qc,
                 checkStatus, historyVars>>

ClearTechnicalIssues(w) ==
  /\ pc[w] = "clear"
  /\ qc' = [qc EXCEPT ![rev[w]] = {}]
  /\ Continue(w, "measure")
  /\ UNCHANGED <<submissionVars, jobVars, analysisVars, checkStatus, historyVars>>

\* loadProcessingSourceFiles joins current_revision_id, so the sources of a Revision
\* that is no longer current are missing; then every file is downloaded, probed and
\* measured.  What goes wrong for good (no source, no master, a size that changed,
\* a corrupt file) is not retried.
MeasureSourceFiles(w) ==
  /\ pc[w] = "measure"
  /\ \/ current = rev[w] /\ Continue(w, "record_issues")
     \/ Throw(w, FALSE)
  /\ UNCHANGED <<submissionVars, jobVars, analysisVars, qc, checkStatus, historyVars>>

UpsertQcIssues(w) ==
  /\ pc[w] = "record_issues"
  /\ qc' = [qc EXCEPT ![rev[w]] = @ \cup {"technical"}]
  /\ Continue(w, "complete_technical")
  /\ UNCHANGED <<submissionVars, jobVars, analysisVars, checkStatus, historyVars>>

\* markTechnicalComplete: the analysis row first, the copyright check after it.
CompleteTechnicalAnalysis(w) ==
  /\ pc[w] = "complete_technical"
  /\ technical' = [technical EXCEPT ![rev[w]] = "complete"]
  /\ technicalCompleted' = [technicalCompleted EXCEPT ![rev[w]] = TRUE]
  /\ Continue(w, "open_check")
  /\ UNCHANGED <<submissionVars, jobVars, overall, qc, checkStatus, historyVars>>

\* Mutant of OpenCopyrightCheck: the check is looked up by submission.
OpenCurrentCopyrightCheck(w) ==
  /\ pc[w] = "open_check"
  /\ checkStatus' = [checkStatus EXCEPT ![current] = IF @ = "awaiting_technical" THEN "ready" ELSE @]
  /\ Continue(w, "finalize")
  /\ UNCHANGED <<submissionVars, jobVars, analysisVars, qc, historyVars>>

OpenCopyrightCheck(w) ==
  /\ pc[w] = "open_check"
  /\ checkStatus' = [checkStatus EXCEPT ![rev[w]] = IF @ = "awaiting_technical" THEN "ready" ELSE @]
  /\ Continue(w, "finalize")
  /\ UNCHANGED <<submissionVars, jobVars, analysisVars, qc, historyVars>>

\* Mutant of AwaitsFinalization: current_revision_id is not compared.
AwaitsFinalizationAnyRevision(r) == status = "processing"

\* Mutant of AwaitsFinalization: the expected status is not compared.
AwaitsFinalizationAnyStatus(r) == current = r

AwaitsFinalization(r) == current = r /\ status = "processing"

\* finalizeRevisionForReview, one transaction: the analysis row only while it is
\* technically complete, the submission only while this Revision is current and
\* being processed.
Finalize(w, overallStatus, next) ==
  LET r == rev[w]
      analysed == technical[r] = "complete"
  IN
  /\ overall' = [overall EXCEPT ![r] = IF analysed THEN overallStatus ELSE @]
  /\ status' = IF AwaitsFinalization(r) THEN "ready_for_review" ELSE status
  /\ Continue(w, next)
  /\ UNCHANGED <<current, revisionStatus, resubmitted, jobVars, technical, technicalCompleted,
                 qc, checkStatus, historyVars>>

\* AI metadata is disabled, or has been obtained and persisted; if the commit of the
\* latter is not acknowledged, the inner catch block takes it for a failure ...
FinalizeComplete(w) ==
  /\ pc[w] = "finalize"
  /\ \E next \in {"succeed", "warn"} : Finalize(w, "complete", next)

\* ... or something in the inner try block failed, its finalization included.
MetadataFails(w) ==
  /\ pc[w] = "finalize"
  /\ Continue(w, "warn")
  /\ UNCHANGED <<submissionVars, jobVars, analysisVars, qc, checkStatus, historyVars>>

WarnMetadataUnavailable(w) ==
  /\ pc[w] = "warn"
  /\ qc' = [qc EXCEPT ![rev[w]] = @ \cup {"ai_unavailable"}]
  /\ Continue(w, "finalize_partial")
  /\ UNCHANGED <<submissionVars, jobVars, analysisVars, checkStatus, historyVars>>

FinalizePartial(w) ==
  /\ pc[w] = "finalize_partial"
  /\ Finalize(w, "partial", "succeed")

\* A database, storage or tool error that is retried.  One that follows a commit
\* whose acknowledgement was lost is the same step one label later.
StepFails(w) ==
  /\ pc[w] \in Working \ {"catch_retryable", "catch_permanent"}
  /\ Throw(w, TRUE)
  /\ UNCHANGED <<submissionVars, jobVars, analysisVars, qc, checkStatus, historyVars>>

\* markTechnicalFailed: again two statements, and neither looks at the lease.
FailTechnicalAnalysis(w) ==
  LET r == rev[w]
      exists == technical[r] # "none"
  IN
  /\ pc[w] = "fail_analysis"
  /\ technical' = [technical EXCEPT ![r] = IF exists THEN "failed" ELSE @]
  /\ overall' = [overall EXCEPT ![r] = IF exists THEN "failed" ELSE @]
  /\ Continue(w, "fail_check")
  /\ UNCHANGED <<submissionVars, jobVars, technicalCompleted, qc, checkStatus, historyVars>>

FailCopyrightCheck(w) ==
  /\ pc[w] = "fail_check"
  /\ checkStatus' = [checkStatus EXCEPT ![rev[w]] = IF @ = "ready" THEN "awaiting_technical" ELSE @]
  /\ Forget(w)
  /\ UNCHANGED <<submissionVars, jobVars, analysisVars, qc, historyVars>>

-----------------------------------------------------------------------------
(* The producer and the reviewers, as far as the queue can tell.            *)

\* submitCompletedDraft.  Whether the files are complete is left to chance, but the
\* readiness query asks nothing of revision_status.
SubmitCompletedDraft ==
  /\ status \in {"draft", "changes_requested"}
  /\ status' = "submitted"
  /\ revisionStatus' = [r \in Revisions |->
       IF r = current /\ revisionStatus[r] = "draft" THEN "submitted"
       ELSE IF r # current /\ status = "changes_requested" /\ revisionStatus[r] = "submitted"
       THEN "superseded"
       ELSE revisionStatus[r]]
  /\ resubmitted' = IF revisionStatus[current] = "draft" THEN resubmitted ELSE resubmitted \cup {current}
  /\ technical' = [technical EXCEPT ![current] = IF @ = "none" THEN "pending" ELSE @]
  /\ overall' = [overall EXCEPT ![current] = IF @ = "none" THEN "queued" ELSE @]
  /\ EnqueueJob(current)
  /\ checkStatus' = [checkStatus EXCEPT ![current] = IF @ = "none" THEN "awaiting_technical" ELSE @]
  /\ UNCHANGED <<current, technicalCompleted, qc, workerVars, historyVars>>

StartReview ==
  /\ status = "ready_for_review"
  /\ status' = "in_review"
  /\ UNCHANGED <<current, revisionStatus, resubmitted, jobVars, analysisVars, qc, checkStatus,
                 workerVars, historyVars>>

\* Of the decisions only this one returns to the queue; for it the others are in_review.
RequestChanges ==
  /\ status = "in_review"
  /\ status' = "changes_requested"
  /\ UNCHANGED <<current, revisionStatus, resubmitted, jobVars, analysisVars, qc, checkStatus,
                 workerVars, historyVars>>

\* createUploadDraftBatch with revisionSubmissionId.
CreateRevision ==
  /\ status = "changes_requested"
  /\ current < MaxRevision
  /\ current' = current + 1
  /\ revisionStatus' = [revisionStatus EXCEPT ![current + 1] = "draft"]
  /\ UNCHANGED <<status, resubmitted, jobVars, analysisVars, qc, checkStatus, workerVars, historyVars>>

-----------------------------------------------------------------------------
\* What a live worker does next, its failures included.
WorkerStep(w) ==
  \/ BeginRevisionProcessing(w) \/ ClearTechnicalIssues(w) \/ MeasureSourceFiles(w)
  \/ UpsertQcIssues(w) \/ CompleteTechnicalAnalysis(w) \/ OpenCopyrightCheck(w)
  \/ FinalizeComplete(w) \/ MetadataFails(w) \/ WarnMetadataUnavailable(w)
  \/ FinalizePartial(w) \/ MarkProcessingJobSucceeded(w) \/ StepFails(w)
  \/ MarkProcessingJobFailed(w) \/ FailTechnicalAnalysis(w) \/ FailCopyrightCheck(w)

Environment ==
  \/ ReclaimExpiredProcessingJobs \/ ReconcileMissingJobs
  \/ \E r \in Revisions : RetryRevisionProcessing(r)
  \/ SubmitCompletedDraft \/ StartReview \/ RequestChanges \/ CreateRevision

Next ==
  \/ \E w \in Workers : WorkerStep(w) \/ Crash(w)
  \/ \E w \in Workers, r \in Revisions : ClaimNextProcessingJob(w, r)
  \/ \E r \in Revisions : LeaseExpires(r)
  \/ Environment

Spec == Init /\ [][Next]_vars

\* A started worker goes on; clocks advance; the operator's reconcile job is
\* scheduled (docs/deployment-runbook.md); and since claims are served in the order
\* of next_attempt_at, a job that keeps being claimable is claimed.
Fairness ==
  /\ \A w \in Workers : WF_vars(WorkerStep(w))
  /\ \A r \in Revisions : WF_vars(LeaseExpires(r))
  /\ \A r \in Revisions : SF_vars(\E w \in Workers : ClaimNextProcessingJob(w, r))
  /\ WF_vars(ReconcileMissingJobs)

FairSpec == Spec /\ Fairness

-----------------------------------------------------------------------------
(* Properties.                                                              *)

SubmissionStatuses == {"draft", "submitted", "processing", "ready_for_review", "in_review",
                       "changes_requested"}
JobStatuses == {"absent", "queued", "running", "retry_wait", "succeeded", "failed"}

SubmissionTypeOK ==
  /\ status \in SubmissionStatuses
  /\ current \in Revisions
  /\ revisionStatus \in [Revisions -> {"absent", "draft", "submitted", "superseded"}]
  /\ resubmitted \subseteq Revisions

JobTypeOK ==
  /\ jobStatus \in [Revisions -> JobStatuses]
  /\ attempts \in [Revisions -> 0 .. MaxAttempts]
  /\ leaseOwner \in [Revisions -> Workers \cup {NoWorker}]
  /\ leaseExpired \in [Revisions -> BOOLEAN]
  /\ \A r \in Revisions : (jobStatus[r] = "running") <=> (leaseOwner[r] # NoWorker)
  /\ \A r \in Revisions : leaseExpired[r] => jobStatus[r] = "running"

AnalysisTypeOK ==
  /\ technical \in [Revisions -> {"none", "pending", "processing", "complete", "failed"}]
  /\ overall \in [Revisions -> {"none", "queued", "processing", "complete", "partial", "failed"}]
  /\ technicalCompleted \in [Revisions -> BOOLEAN]
  /\ qc \in [Revisions -> SUBSET {"technical", "ai_unavailable"}]
  /\ checkStatus \in [Revisions -> {"none", "awaiting_technical", "ready"}]

WorkerTypeOK ==
  /\ pc \in [Workers -> Working \cup Reporting \cup {"idle"}]
  /\ rev \in [Workers -> Revisions \cup {NoRevision}]
  /\ \A w \in Workers : pc[w] = "idle" <=> rev[w] = NoRevision
  /\ snapshot \in [Workers -> 0 .. MaxAttempts]

HistoryTypeOK ==
  /\ disturbed \subseteq Revisions
  /\ requeues \in 0 .. MaxRequeues

\* Every variable keeps its type; a job is running exactly when it has a lease
\* owner and only then has a lease that can expire (processing_job_lease_shape_check),
\* and no job spends more attempts than it has (processing_job_attempts_check).
TypeOK == SubmissionTypeOK /\ JobTypeOK /\ AnalysisTypeOK /\ WorkerTypeOK /\ HistoryTypeOK

\* A worker that passes the guard status = 'running' AND lease_owner = me of the
\* settling UPDATEs holds the latest attempt: however leases expire, are reclaimed
\* and requeued, no settlement is based on an outdated attempt count.
LeaseFencing ==
  \A w \in Workers, r \in Revisions :
    Holds(w, r) /\ OwnsLease(w, r) => snapshot[w] = attempts[r]

\* A submission reaches reviewers only when the technical analysis of the Revision
\* they will see was completed at least once: a worker late with an earlier
\* Revision, or a failed one, never advances it.
ReviewableOnlyAfterTechnical ==
  status \in {"ready_for_review", "in_review"} => technicalCompleted[current]

\* A job marked succeeded leaves no submission behind in the queue: nobody would
\* ever process it again.  (The exception is a Revision that was submitted twice;
\* SubmittedRevisionWasDraft says what is wrong with that.)
SucceededJobIsReviewable ==
  jobStatus[current] = "succeeded" /\ current \notin resubmitted
    => status \notin {"draft", "submitted", "processing"}

\* A copyright test batch is offered for a Revision only after its technical
\* analysis was completed, whatever a late worker of that or another Revision writes.
CopyrightAfterTechnical ==
  \A r \in Revisions : checkStatus[r] = "ready" => technicalCompleted[r]

\* Where no two actors overlapped, a succeeded job left a complete analysis: the
\* technical status, its issues and, when the AI metadata failed, the warning.
\* disturbed holds the only ways to lose this: a lease that ran out under a live
\* worker, a requeue while a worker was still writing, a lost acknowledgement.
CompletedWorkIsRecorded ==
  \A r \in Revisions :
    jobStatus[r] = "succeeded" /\ r \notin disturbed =>
      /\ technical[r] = "complete"
      /\ "technical" \in qc[r]
      /\ overall[r] = IF "ai_unavailable" \in qc[r] THEN "partial" ELSE "complete"

\* SUBMISSION_TRANSITIONS, the part this module reaches.
SubmissionTransitions ==
  {<<"draft", "submitted">>, <<"submitted", "processing">>,
   <<"processing", "ready_for_review">>, <<"ready_for_review", "in_review">>,
   <<"in_review", "changes_requested">>, <<"changes_requested", "submitted">>}

LifecycleStep ==
  /\ status' # status => <<status, status'>> \in SubmissionTransitions
  /\ current' # current => status = "changes_requested" /\ revisionStatus'[current'] = "draft"

\* The submission moves only along SUBMISSION_TRANSITIONS, and its current Revision is
\* replaced only by a new draft and only while changes are requested.
LifecycleSteps == [][LifecycleStep]_vars

\* A succeeded job stays succeeded: no late failure, reclaim, retry or submission
\* runs the analysis of that Revision again.
SucceededJobIsFinal ==
  [][\A r \in Revisions : jobStatus[r] = "succeeded" => jobStatus'[r] = "succeeded"]_vars

\* Attempts are spent and no worker is left that could still settle the job.
Abandoned(r) ==
  /\ jobStatus[r] \in {"running", "retry_wait"}
  /\ attempts[r] = MaxAttempts
  /\ \A w \in Workers : ~(Holds(w, r) /\ OwnsLease(w, r))

\* A submitted Revision is brought to review, or its job ends as failed, or it is
\* abandoned with its attempts spent; it does not linger in the queue for any other
\* reason: not behind crashes, expired leases, retries or other Revisions' jobs.
SubmissionSettles ==
  \A r \in Revisions :
    (status = "submitted" /\ current = r /\ r \notin resubmitted)
      ~> (status \notin {"submitted", "processing"} \/ jobStatus[r] = "failed" \/ Abandoned(r))

-----------------------------------------------------------------------------
(* The queue implements LeasedJob: jobs are Revisions, and what a worker       *)
(* believes it holds is its ProcessingJobDto while it works on it.             *)

\* The abstract state of a job in the table.
JobState ==
  [absent |-> "none", queued |-> "waiting", retry_wait |-> "waiting", running |-> "leased",
   succeeded |-> "done", failed |-> "dead"]

AbstractState == [r \in Revisions |-> JobState[jobStatus[r]]]
HeldJob == [w \in Workers |-> IF pc[w] \in Working THEN rev[w] ELSE NoRevision]
HeldAttempt == [w \in Workers |-> IF pc[w] \in Working THEN snapshot[w] ELSE 0]

Abstract ==
  INSTANCE LeasedJob WITH
    Jobs <- Revisions,
    NoJob <- NoRevision,
    state <- AbstractState,
    holder <- leaseOwner,
    heldJob <- HeldJob,
    heldAttempt <- HeldAttempt

\* Claims, settlements, reclaims and requeues of the processing queue are steps of
\* the abstract leased queue; everything else a worker does is invisible to it.
ImplementsLeasedJob == Abstract!Spec

-----------------------------------------------------------------------------
(* What the documentation says and the code does not keep.                    *)

\* docs/technical-processing-ai-analysis.md:42: "Workers are safely restartable
\* because abandoned running jobs become claimable after their lease expires."
ExpiredLeaseIsClaimable ==
  \A r \in Revisions :
    jobStatus[r] = "running" /\ leaseExpired[r] /\ (\A w \in Workers : rev[w] # r) => Claimable(r)

\* docs/deployment-runbook.md:101: "Workers claim work under a lease and are safe
\* to run more than one of."  A succeeded job would then keep a complete analysis.
SucceededAnalysisStands ==
  \A r \in Revisions : jobStatus[r] = "succeeded" => technical[r] = "complete"

\* docs/submission-lifecycle.md:24: "Submitting requires a current draft Revision."
SubmittedRevisionWasDraft ==
  [][status # "submitted" /\ status' = "submitted" => revisionStatus[current] = "draft"]_vars
=============================================================================
