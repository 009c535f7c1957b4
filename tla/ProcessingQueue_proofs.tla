----------------------- MODULE ProcessingQueue_proofs -----------------------
(* Theorems about ProcessingQueue for every number of workers, Revisions and   *)
(* attempts.                                                                   *)
EXTENDS ProcessingQueue, TLAPS

USE WorkersAssumption, RevisionAssumption, AttemptsAssumption, RequeuesAssumption

LEMMA NoRevisionIsNone == NoRevision \notin Revisions
BY DEF Revisions, NoRevision

-----------------------------------------------------------------------------
(* Type correctness.                                                        *)

LEMMA InitType == Init => TypeOK
BY DEF Init, TypeOK, SubmissionTypeOK, JobTypeOK, AnalysisTypeOK, WorkerTypeOK, HistoryTypeOK,
       SubmissionStatuses, JobStatuses, Revisions

\* What a worker's local steps do to its program counter and its DTO.
LEMMA ContinueType ==
  ASSUME NEW w \in Workers, NEW label \in Working \cup Reporting,
         WorkerTypeOK, pc[w] # "idle", Continue(w, label)
  PROVE  WorkerTypeOK'
BY DEF WorkerTypeOK, Continue, Goto, Working, Reporting

LEMMA ThrowType ==
  ASSUME NEW w \in Workers, NEW retry \in BOOLEAN,
         WorkerTypeOK, pc[w] # "idle", Throw(w, retry)
  PROVE  WorkerTypeOK'
BY ContinueType DEF Throw, Working

LEMMA ForgetType ==
  ASSUME NEW w \in Workers, WorkerTypeOK, Forget(w)
  PROVE  WorkerTypeOK'
BY NoRevisionIsNone DEF WorkerTypeOK, Forget, Goto

\* A busy worker works on a Revision.
LEMMA BusyWorker ==
  ASSUME NEW w \in Workers, WorkerTypeOK, pc[w] # "idle"
  PROVE  rev[w] \in Revisions
BY DEF WorkerTypeOK

LEMMA SettleType ==
  ASSUME NEW w \in Workers, NEW r \in Revisions, JobTypeOK,
         NEW outcome \in {"succeeded", "retry_wait", "failed"},
         SettleJob(w, r, outcome), UNCHANGED attempts
  PROVE  JobTypeOK'
<1>1. CASE OwnsLease(w, r)
  <2>1. /\ jobStatus' = [jobStatus EXCEPT ![r] = outcome]
        /\ leaseOwner' = [leaseOwner EXCEPT ![r] = NoWorker]
        /\ leaseExpired' = [leaseExpired EXCEPT ![r] = FALSE]
    BY <1>1 DEF SettleJob
  <2> QED BY <2>1 DEF JobTypeOK, JobStatuses
<1>2. CASE ~OwnsLease(w, r)
  BY <1>2 DEF JobTypeOK, SettleJob
<1> QED BY <1>1, <1>2

LEMMA EnqueueType ==
  ASSUME NEW r \in Revisions, JobTypeOK, EnqueueJob(r)
  PROVE  JobTypeOK'
BY DEF JobTypeOK, EnqueueJob, JobStatuses

\* The parts of the type invariant a step leaves alone.
LEMMA UnchangedType ==
  /\ SubmissionTypeOK /\ UNCHANGED submissionVars => SubmissionTypeOK'
  /\ JobTypeOK /\ UNCHANGED jobVars => JobTypeOK'
  /\ AnalysisTypeOK /\ UNCHANGED <<analysisVars, qc, checkStatus>> => AnalysisTypeOK'
  /\ WorkerTypeOK /\ UNCHANGED workerVars => WorkerTypeOK'
  /\ HistoryTypeOK /\ UNCHANGED historyVars => HistoryTypeOK'
BY DEF SubmissionTypeOK, JobTypeOK, AnalysisTypeOK, WorkerTypeOK, HistoryTypeOK,
       submissionVars, jobVars, analysisVars, workerVars, historyVars

\* One case per action; the lemmas above do the parts it shares with others.
LEMMA StepType == TypeOK /\ [Next]_vars => TypeOK'
<1> SUFFICES ASSUME TypeOK, [Next]_vars PROVE TypeOK'
  OBVIOUS
<1> USE UnchangedType DEF TypeOK
<1>1. ASSUME NEW w \in Workers, BeginRevisionProcessing(w) PROVE TypeOK'
  <2>1. SubmissionTypeOK'
    BY <1>1 DEF BeginRevisionProcessing, SubmissionTypeOK, SubmissionStatuses
  <2>3. AnalysisTypeOK'
    <3>1. CASE UNCHANGED <<technical, overall>>
      BY <1>1, <3>1 DEF BeginRevisionProcessing, AnalysisTypeOK
    <3>2. CASE /\ technical' = [technical EXCEPT ![rev[w]] = IF @ = "complete" THEN @ ELSE "processing"]
               /\ overall' = [overall EXCEPT ![rev[w]] = IF @ \in {"complete", "partial"} THEN @ ELSE "processing"]
      BY <1>1, <3>2 DEF BeginRevisionProcessing, AnalysisTypeOK
    <3> QED BY <1>1, <3>1, <3>2 DEF BeginRevisionProcessing
  <2>4. JobTypeOK' /\ HistoryTypeOK'
    BY <1>1 DEF BeginRevisionProcessing
  <2>2. WorkerTypeOK'
    BY <1>1, ContinueType, ThrowType DEF BeginRevisionProcessing, Working
  <2> QED BY <2>1, <2>2, <2>3, <2>4
<1>2. ASSUME NEW w \in Workers, ClearTechnicalIssues(w) PROVE TypeOK'
  BY <1>2, ContinueType DEF ClearTechnicalIssues, AnalysisTypeOK, Working, analysisVars
<1>3. ASSUME NEW w \in Workers, MeasureSourceFiles(w) PROVE TypeOK'
  BY <1>3, ContinueType, ThrowType DEF MeasureSourceFiles, Working
<1>4. ASSUME NEW w \in Workers, UpsertQcIssues(w) PROVE TypeOK'
  BY <1>4, ContinueType DEF UpsertQcIssues, AnalysisTypeOK, Working, analysisVars
<1>5. ASSUME NEW w \in Workers, CompleteTechnicalAnalysis(w) PROVE TypeOK'
  BY <1>5, ContinueType DEF CompleteTechnicalAnalysis, AnalysisTypeOK, Working
<1>6. ASSUME NEW w \in Workers, OpenCopyrightCheck(w) PROVE TypeOK'
  BY <1>6, ContinueType DEF OpenCopyrightCheck, AnalysisTypeOK, Working, analysisVars
<1>7. ASSUME NEW w \in Workers, FinalizeComplete(w) \/ FinalizePartial(w) PROVE TypeOK'
  <2>1. PICK next \in {"succeed", "warn"}, result \in {"complete", "partial"} :
          pc[w] # "idle" /\ Finalize(w, result, next)
    BY <1>7 DEF FinalizeComplete, FinalizePartial
  <2>2. WorkerTypeOK'
    BY <2>1, ContinueType DEF Finalize, Working
  <2>3. SubmissionTypeOK' /\ AnalysisTypeOK'
    BY <2>1 DEF Finalize, SubmissionTypeOK, AnalysisTypeOK, SubmissionStatuses
  <2> QED BY <2>1, <2>2, <2>3 DEF Finalize
<1>8. ASSUME NEW w \in Workers, MetadataFails(w) PROVE TypeOK'
  BY <1>8, ContinueType DEF MetadataFails, Working
<1>9. ASSUME NEW w \in Workers, WarnMetadataUnavailable(w) PROVE TypeOK'
  BY <1>9, ContinueType DEF WarnMetadataUnavailable, AnalysisTypeOK, Working, analysisVars
<1>10. ASSUME NEW w \in Workers, MarkProcessingJobSucceeded(w) PROVE TypeOK'
  <2>1. rev[w] \in Revisions /\ pc[w] # "idle"
    BY <1>10, BusyWorker DEF MarkProcessingJobSucceeded
  <2>2. JobTypeOK'
    BY <1>10, <2>1, SettleType DEF MarkProcessingJobSucceeded
  <2>3. WorkerTypeOK'
    BY <1>10, <2>1, ForgetType, ThrowType DEF MarkProcessingJobSucceeded
  <2> QED BY <1>10, <2>1, <2>2, <2>3 DEF MarkProcessingJobSucceeded, HistoryTypeOK
<1>11. ASSUME NEW w \in Workers, StepFails(w) PROVE TypeOK'
  BY <1>11, ThrowType DEF StepFails, Working
<1>12. ASSUME NEW w \in Workers, MarkProcessingJobFailed(w) PROVE TypeOK'
  <2>1. rev[w] \in Revisions /\ pc[w] # "idle"
    BY <1>12, BusyWorker DEF MarkProcessingJobFailed
  <2>2. JobTypeOK'
    BY <1>12, <2>1, SettleType DEF MarkProcessingJobFailed
  <2>3. WorkerTypeOK'
    BY <1>12, <2>1, ForgetType, ContinueType DEF MarkProcessingJobFailed, Reporting
  <2> QED BY <1>12, <2>2, <2>3 DEF MarkProcessingJobFailed
<1>13. ASSUME NEW w \in Workers, FailTechnicalAnalysis(w) PROVE TypeOK'
  BY <1>13, ContinueType DEF FailTechnicalAnalysis, AnalysisTypeOK, Reporting
<1>14. ASSUME NEW w \in Workers, FailCopyrightCheck(w) PROVE TypeOK'
  BY <1>14, ForgetType DEF FailCopyrightCheck, AnalysisTypeOK, analysisVars
<1>15. ASSUME NEW w \in Workers, Crash(w) PROVE TypeOK'
  BY <1>15, ForgetType DEF Crash
<1>16. ASSUME NEW w \in Workers, NEW r \in Revisions, ClaimNextProcessingJob(w, r) PROVE TypeOK'
  <2>1. JobTypeOK'
    BY <1>16 DEF ClaimNextProcessingJob, GrantLease, Claimable, JobTypeOK, JobStatuses
  <2>2. WorkerTypeOK'
    BY <1>16, NoRevisionIsNone DEF ClaimNextProcessingJob, Claimable, Goto, WorkerTypeOK, JobTypeOK, Working
  <2> QED BY <1>16, <2>1, <2>2 DEF ClaimNextProcessingJob
<1>17. ASSUME NEW r \in Revisions, LeaseExpires(r) PROVE TypeOK'
  BY <1>17 DEF LeaseExpires, JobTypeOK, HistoryTypeOK
<1>18. ASSUME ReclaimExpiredProcessingJobs PROVE TypeOK'
  BY <1>18 DEF ReclaimExpiredProcessingJobs, JobTypeOK, JobStatuses
<1>19. ASSUME ReconcileMissingJobs PROVE TypeOK'
  BY <1>19, EnqueueType DEF ReconcileMissingJobs, SubmissionTypeOK
<1>20. ASSUME NEW r \in Revisions, RetryRevisionProcessing(r) PROVE TypeOK'
  <2>1. HistoryTypeOK'
    BY <1>20 DEF RetryRevisionProcessing, SubmissionTypeOK, HistoryTypeOK
  <2>3. JobTypeOK'
    BY <1>20 DEF RetryRevisionProcessing, SubmissionTypeOK, JobTypeOK, JobStatuses
  <2>2. AnalysisTypeOK'
    BY <1>20 DEF RetryRevisionProcessing, SubmissionTypeOK, AnalysisTypeOK
  <2> QED BY <1>20, <2>1, <2>2, <2>3 DEF RetryRevisionProcessing
<1>21. ASSUME SubmitCompletedDraft PROVE TypeOK'
  <2>1. SubmissionTypeOK'
    BY <1>21 DEF SubmitCompletedDraft, SubmissionTypeOK, SubmissionStatuses
  <2>2. JobTypeOK'
    BY <1>21, EnqueueType DEF SubmitCompletedDraft, SubmissionTypeOK
  <2>3. AnalysisTypeOK'
    BY <1>21 DEF SubmitCompletedDraft, AnalysisTypeOK
  <2> QED BY <1>21, <2>1, <2>2, <2>3 DEF SubmitCompletedDraft
<1>22. ASSUME StartReview \/ RequestChanges PROVE TypeOK'
  BY <1>22 DEF StartReview, RequestChanges, SubmissionTypeOK, SubmissionStatuses
<1>23. ASSUME CreateRevision PROVE TypeOK'
  <2>1. current + 1 \in Revisions
    BY <1>23 DEF CreateRevision, SubmissionTypeOK, Revisions
  <2> QED BY <1>23, <2>1 DEF CreateRevision, SubmissionTypeOK
<1>24. CASE UNCHANGED vars
  BY <1>24 DEF vars
<1> QED
  BY <1>1, <1>2, <1>3, <1>4, <1>5, <1>6, <1>7, <1>8, <1>9, <1>10, <1>11, <1>12, <1>13, <1>14,
     <1>15, <1>16, <1>17, <1>18, <1>19, <1>20, <1>21, <1>22, <1>23, <1>24
  DEF Next, WorkerStep, Environment

\* In every reachable state the variables keep their types, a job is running exactly
\* while somebody holds its lease, and no job spends more attempts than it has: the
\* CHECK constraints of analysis.processing_job never refuse an UPDATE of this code.
THEOREM TypeCorrectness == Spec => []TypeOK
BY InitType, StepType, PTL DEF Spec

-----------------------------------------------------------------------------
(* Leases.                                                                  *)

\* A worker's own steps move that worker only, and it keeps its DTO until it forgets it.
MovesOnly(w) ==
  /\ \A v \in Workers \ {w} : pc'[v] = pc[v] /\ rev'[v] = rev[v] /\ snapshot'[v] = snapshot[v]
  /\ pc'[w] \in Working => pc[w] \in Working /\ rev'[w] = rev[w] /\ snapshot'[w] = snapshot[w]

LEMMA ContinueMoves ==
  ASSUME NEW w \in Workers, NEW label, WorkerTypeOK, Continue(w, label),
         pc[w] \in Working \/ label \notin Working
  PROVE  MovesOnly(w)
BY DEF Continue, Goto, MovesOnly, WorkerTypeOK

LEMMA ForgetMoves ==
  ASSUME NEW w \in Workers, WorkerTypeOK, Forget(w)
  PROVE  MovesOnly(w)
BY DEF Forget, Goto, MovesOnly, WorkerTypeOK, Working

LEMMA WorkerMoves ==
  ASSUME NEW w \in Workers, WorkerTypeOK, WorkerStep(w) \/ Crash(w)
  PROVE  MovesOnly(w)
<1>1. CASE pc[w] \in Working /\ \E label : Continue(w, label)
  BY <1>1, ContinueMoves
<1>2. CASE \E label \in Reporting : Continue(w, label)
  BY <1>2, ContinueMoves DEF Reporting, Working
<1>3. CASE Forget(w)
  BY <1>3, ForgetMoves
<1>4. (pc[w] \in Working /\ \E label : Continue(w, label))
        \/ (\E label \in Reporting : Continue(w, label)) \/ Forget(w)
  <2>1. CASE BeginRevisionProcessing(w) \/ ClearTechnicalIssues(w) \/ MeasureSourceFiles(w)
               \/ UpsertQcIssues(w) \/ CompleteTechnicalAnalysis(w) \/ OpenCopyrightCheck(w)
    BY <2>1 DEF BeginRevisionProcessing, ClearTechnicalIssues, MeasureSourceFiles,
                UpsertQcIssues, CompleteTechnicalAnalysis, OpenCopyrightCheck, Throw, Working
  <2>2. CASE FinalizeComplete(w) \/ MetadataFails(w) \/ WarnMetadataUnavailable(w)
               \/ FinalizePartial(w)
    BY <2>2 DEF FinalizeComplete, MetadataFails, WarnMetadataUnavailable, FinalizePartial,
                Finalize, Working
  <2>3. CASE MarkProcessingJobSucceeded(w) \/ StepFails(w) \/ MarkProcessingJobFailed(w)
    BY <2>3 DEF MarkProcessingJobSucceeded, StepFails, MarkProcessingJobFailed, Throw, Working
  <2>4. CASE FailTechnicalAnalysis(w) \/ FailCopyrightCheck(w) \/ Crash(w)
    BY <2>4 DEF FailTechnicalAnalysis, FailCopyrightCheck, Crash, Reporting
  <2> QED BY <2>1, <2>2, <2>3, <2>4 DEF WorkerStep
<1> QED BY <1>1, <1>2, <1>3, <1>4

\* Of the job table a worker's step after the claim changes at most the lease it owns.
LEMMA WorkerJobs ==
  ASSUME NEW w \in Workers, WorkerStep(w) \/ Crash(w)
  PROVE  /\ attempts' = attempts
         /\ \/ UNCHANGED jobVars
            \/ /\ pc[w] \in Working
               /\ \E outcome \in {"succeeded", "retry_wait", "failed"} : SettleJob(w, rev[w], outcome)
<1>1. CASE BeginRevisionProcessing(w) \/ ClearTechnicalIssues(w) \/ MeasureSourceFiles(w)
             \/ UpsertQcIssues(w) \/ CompleteTechnicalAnalysis(w) \/ OpenCopyrightCheck(w)
  BY <1>1 DEF BeginRevisionProcessing, ClearTechnicalIssues, MeasureSourceFiles,
              UpsertQcIssues, CompleteTechnicalAnalysis, OpenCopyrightCheck, jobVars
<1>2. CASE FinalizeComplete(w) \/ MetadataFails(w) \/ WarnMetadataUnavailable(w)
             \/ FinalizePartial(w)
  BY <1>2 DEF FinalizeComplete, MetadataFails, WarnMetadataUnavailable, FinalizePartial,
              Finalize, jobVars
<1>3. CASE StepFails(w) \/ FailTechnicalAnalysis(w) \/ FailCopyrightCheck(w) \/ Crash(w)
  BY <1>3 DEF StepFails, FailTechnicalAnalysis, FailCopyrightCheck, Crash, jobVars
<1>4. CASE MarkProcessingJobSucceeded(w)
  BY <1>4 DEF MarkProcessingJobSucceeded, Working
<1>5. CASE MarkProcessingJobFailed(w)
  BY <1>5 DEF MarkProcessingJobFailed, Working
<1> QED BY <1>1, <1>2, <1>3, <1>4, <1>5 DEF WorkerStep

\* Two workers can both believe that they hold a job; the row names one of them, and
\* that one was given the attempt the row counts.
LEMMA StepFencing == TypeOK /\ LeaseFencing /\ [Next]_vars => LeaseFencing'
<1> SUFFICES ASSUME TypeOK, LeaseFencing, [Next]_vars,
                    NEW v \in Workers, NEW r \in Revisions, Holds(v, r)', OwnsLease(v, r)'
             PROVE  snapshot'[v] = attempts'[r]
  BY DEF LeaseFencing
<1>1. CASE Holds(v, r) /\ OwnsLease(v, r) /\ snapshot'[v] = snapshot[v] /\ attempts'[r] = attempts[r]
  BY <1>1 DEF LeaseFencing
<1>2. ASSUME NEW w \in Workers, WorkerStep(w) \/ Crash(w) PROVE snapshot'[v] = attempts'[r]
  <2>1. MovesOnly(w)
    BY <1>2, WorkerMoves DEF TypeOK
  <2>2. Holds(v, r) /\ snapshot'[v] = snapshot[v]
    BY <2>1 DEF MovesOnly, Holds
  <2>3. OwnsLease(v, r) /\ attempts'[r] = attempts[r]
    <3>1. CASE UNCHANGED jobVars
      BY <3>1 DEF OwnsLease, jobVars
    <3>2. ASSUME NEW outcome \in {"succeeded", "retry_wait", "failed"},
                 SettleJob(w, rev[w], outcome), attempts' = attempts, pc[w] \in Working
          PROVE  OwnsLease(v, r)
      BY <3>2 DEF SettleJob, OwnsLease, TypeOK, JobTypeOK
    <3> QED BY <1>2, <3>1, <3>2, WorkerJobs DEF jobVars
  <2> QED BY <1>1, <2>2, <2>3
<1>3. ASSUME NEW w \in Workers, NEW s \in Revisions, ClaimNextProcessingJob(w, s)
      PROVE  snapshot'[v] = attempts'[r]
  <2>1. CASE s = r
    BY <1>3, <2>1 DEF ClaimNextProcessingJob, GrantLease, OwnsLease, TypeOK, JobTypeOK, WorkerTypeOK
  <2>2. CASE s # r
    <3>1. v # w
      BY <1>3, <2>2 DEF ClaimNextProcessingJob, Holds, TypeOK, WorkerTypeOK
    <3>2. Holds(v, r) /\ snapshot'[v] = snapshot[v]
      BY <1>3, <3>1 DEF ClaimNextProcessingJob, Goto, Holds, TypeOK, WorkerTypeOK
    <3>3. OwnsLease(v, r) /\ attempts'[r] = attempts[r]
      BY <1>3, <2>2 DEF ClaimNextProcessingJob, GrantLease, OwnsLease, TypeOK, JobTypeOK
    <3> QED BY <1>1, <3>2, <3>3
  <2> QED BY <2>1, <2>2
<1>4. ASSUME UNCHANGED workerVars,
             attempts'[r] = attempts[r], OwnsLease(v, r)
      PROVE  snapshot'[v] = attempts'[r]
  BY <1>1, <1>4 DEF Holds, workerVars
<1>5. ASSUME NEW s \in Revisions, LeaseExpires(s) PROVE snapshot'[v] = attempts'[r]
  BY <1>4, <1>5 DEF LeaseExpires, OwnsLease, workerVars
<1>6. CASE ReclaimExpiredProcessingJobs
  BY <1>4, <1>6 DEF ReclaimExpiredProcessingJobs, OwnsLease, workerVars
<1>7. CASE ReconcileMissingJobs \/ SubmitCompletedDraft
  <2>1. PICK s \in Revisions : EnqueueJob(s) /\ UNCHANGED workerVars
    BY <1>7 DEF ReconcileMissingJobs, SubmitCompletedDraft, TypeOK, SubmissionTypeOK
  <2>2. OwnsLease(v, r) /\ attempts' = attempts
    BY <2>1 DEF EnqueueJob, OwnsLease, TypeOK, JobTypeOK
  <2> QED BY <1>4, <2>1, <2>2
<1>8. ASSUME NEW s \in Revisions, RetryRevisionProcessing(s) PROVE snapshot'[v] = attempts'[r]
  <2>1. jobStatus[r] = "running" /\ leaseOwner[r] = v
    BY <1>8 DEF RetryRevisionProcessing, OwnsLease, TypeOK, JobTypeOK, SubmissionTypeOK
  <2>2. attempts'[r] = attempts[r]
    BY <1>8, <2>1 DEF RetryRevisionProcessing, TypeOK, JobTypeOK, SubmissionTypeOK
  <2> QED BY <1>4, <1>8, <2>1, <2>2 DEF RetryRevisionProcessing, OwnsLease, workerVars
<1>9. CASE StartReview \/ RequestChanges \/ CreateRevision
  BY <1>4, <1>9 DEF StartReview, RequestChanges, CreateRevision, OwnsLease, jobVars, workerVars
<1>10. CASE UNCHANGED vars
  BY <1>4, <1>10 DEF vars, OwnsLease, jobVars, workerVars
<1> QED
  BY <1>2, <1>3, <1>5, <1>6, <1>7, <1>8, <1>9, <1>10 DEF Next, Environment

\* However many workers there are, and however their leases expire, are reclaimed and
\* are granted again: the worker whose settling UPDATE takes effect is the one that
\* was given the latest attempt, so its decision to retry counts every attempt spent.
THEOREM LeasesFence == Spec => []LeaseFencing
<1>1. Init => LeaseFencing
  BY DEF Init, LeaseFencing, Holds, Working
<1>2. TypeOK /\ TypeOK' /\ LeaseFencing /\ [Next]_vars => LeaseFencing'
  BY StepFencing
<1> QED BY <1>1, <1>2, TypeCorrectness, PTL DEF Spec

-----------------------------------------------------------------------------
(* Why late workers do no harm to the submission.                           *)

\* Past beginRevisionProcessing, and not yet in the catch block.
Begun == {"clear", "measure", "record_issues", "complete_technical", "open_check",
          "finalize", "warn", "finalize_partial", "succeed"}
\* Past the first statement of markTechnicalComplete.
Analysed == {"open_check", "finalize", "warn", "finalize_partial", "succeed"}

\* What a worker has analysed stays analysed, even if somebody marks it failed later.
AnalysedIsCompleted ==
  \A w \in Workers : pc[w] \in Analysed => technicalCompleted[rev[w]]

TechnicalInv == TypeOK /\ AnalysedIsCompleted /\ ReviewableOnlyAfterTechnical /\ CopyrightAfterTechnical

\* What a worker's step does to the submission: nothing, or it begins or finalizes the
\* current Revision.
SubmissionStep(w) ==
  /\ UNCHANGED <<current, revisionStatus, resubmitted>>
  /\ \/ status' = status
     \/ /\ status = "submitted" /\ status' = "processing"
        /\ pc[w] = "begin" /\ rev[w] = current
     \/ /\ status = "processing" /\ status' = "ready_for_review"
        /\ pc[w] \in Analysed /\ rev[w] = current

LEMMA WorkerSubmission ==
  ASSUME NEW w \in Workers, WorkerStep(w) \/ Crash(w)
  PROVE  SubmissionStep(w)
<1> USE DEF SubmissionStep
<1>1. CASE BeginRevisionProcessing(w)
  BY <1>1 DEF BeginRevisionProcessing, EligibleForProcessing
<1>2. CASE ClearTechnicalIssues(w) \/ MeasureSourceFiles(w) \/ UpsertQcIssues(w)
             \/ CompleteTechnicalAnalysis(w) \/ OpenCopyrightCheck(w)
  BY <1>2 DEF ClearTechnicalIssues, MeasureSourceFiles, UpsertQcIssues,
              CompleteTechnicalAnalysis, OpenCopyrightCheck, submissionVars
<1>3. CASE FinalizeComplete(w) \/ FinalizePartial(w)
  BY <1>3 DEF FinalizeComplete, FinalizePartial, Finalize, AwaitsFinalization, Analysed
<1>4. CASE MetadataFails(w) \/ WarnMetadataUnavailable(w) \/ StepFails(w) \/ Crash(w)
  BY <1>4 DEF MetadataFails, WarnMetadataUnavailable, StepFails, Crash, submissionVars
<1>5. CASE MarkProcessingJobSucceeded(w) \/ MarkProcessingJobFailed(w)
             \/ FailTechnicalAnalysis(w) \/ FailCopyrightCheck(w)
  BY <1>5 DEF MarkProcessingJobSucceeded, MarkProcessingJobFailed, FailTechnicalAnalysis,
              FailCopyrightCheck, submissionVars
<1> QED BY <1>1, <1>2, <1>3, <1>4, <1>5 DEF WorkerStep

\* Throwing, continuing before "open_check" or forgetting never reaches Analysed.
LEMMA NotYetAnalysed ==
  ASSUME NEW w \in Workers, WorkerTypeOK,
         \/ \E retryable \in BOOLEAN : Throw(w, retryable)
         \/ \E label : label \notin Analysed /\ Continue(w, label)
         \/ Forget(w)
  PROVE  pc'[w] \notin Analysed
BY DEF Throw, Continue, Goto, Forget, WorkerTypeOK, Analysed

\* A worker's step loses no completed analysis, is past the analysis only with a
\* completed one, and opens a copyright check only there.
AnalysisStep(w) ==
  /\ \A r \in Revisions : technicalCompleted[r] => technicalCompleted'[r]
  /\ pc'[w] \in Analysed => pc[w] \in Analysed \/ technicalCompleted'[rev[w]]
  /\ \A r \in Revisions : checkStatus'[r] = "ready" =>
       checkStatus[r] = "ready" \/ (rev[w] = r /\ pc[w] \in Analysed)

LEMMA WorkerAnalysis ==
  ASSUME NEW w \in Workers, TypeOK, WorkerStep(w) \/ Crash(w)
  PROVE  AnalysisStep(w)
<1>1. CASE BeginRevisionProcessing(w) \/ ClearTechnicalIssues(w) \/ MeasureSourceFiles(w)
             \/ UpsertQcIssues(w) \/ StepFails(w) \/ Crash(w)
  <2>1. technicalCompleted' = technicalCompleted /\ checkStatus' = checkStatus
    BY <1>1 DEF BeginRevisionProcessing, ClearTechnicalIssues, MeasureSourceFiles, UpsertQcIssues,
                StepFails, Crash, analysisVars
  <2>2. pc'[w] \notin Analysed
    BY <1>1, NotYetAnalysed DEF BeginRevisionProcessing, ClearTechnicalIssues, MeasureSourceFiles,
                UpsertQcIssues, StepFails, Crash, Analysed, TypeOK
  <2> QED BY <2>1, <2>2 DEF AnalysisStep
<1>2. CASE CompleteTechnicalAnalysis(w)
  <2>1. rev[w] \in Revisions
    BY <1>2, BusyWorker DEF CompleteTechnicalAnalysis, TypeOK
  <2> QED BY <1>2, <2>1 DEF CompleteTechnicalAnalysis, AnalysisStep, TypeOK, AnalysisTypeOK
<1>3. CASE OpenCopyrightCheck(w)
  BY <1>3 DEF OpenCopyrightCheck, AnalysisStep, Analysed, analysisVars, TypeOK, AnalysisTypeOK
<1>4. CASE FinalizeComplete(w) \/ FinalizePartial(w)
  BY <1>4 DEF FinalizeComplete, FinalizePartial, Finalize, AnalysisStep, Analysed
<1>5. CASE MetadataFails(w) \/ WarnMetadataUnavailable(w)
  BY <1>5 DEF MetadataFails, WarnMetadataUnavailable, AnalysisStep, Analysed, analysisVars
<1>6. CASE MarkProcessingJobSucceeded(w)
  BY <1>6 DEF MarkProcessingJobSucceeded, AnalysisStep, Analysed, analysisVars
<1>7. CASE MarkProcessingJobFailed(w)
  <2>1. pc'[w] \notin Analysed
    BY <1>7, NotYetAnalysed DEF MarkProcessingJobFailed, Analysed, TypeOK
  <2> QED BY <1>7, <2>1 DEF MarkProcessingJobFailed, AnalysisStep, analysisVars
<1>8. CASE FailTechnicalAnalysis(w)
  <2>1. pc'[w] \notin Analysed
    BY <1>8, NotYetAnalysed DEF FailTechnicalAnalysis, Analysed, TypeOK
  <2> QED BY <1>8, <2>1 DEF FailTechnicalAnalysis, AnalysisStep
<1>9. CASE FailCopyrightCheck(w)
  <2>1. pc'[w] \notin Analysed
    BY <1>9, NotYetAnalysed DEF FailCopyrightCheck, TypeOK
  <2> QED BY <1>9, <2>1 DEF FailCopyrightCheck, AnalysisStep, analysisVars, TypeOK, AnalysisTypeOK
<1> QED BY <1>1, <1>2, <1>3, <1>4, <1>5, <1>6, <1>7, <1>8, <1>9 DEF WorkerStep

LEMMA StepTechnical == TechnicalInv /\ [Next]_vars => TechnicalInv'
<1> SUFFICES ASSUME TechnicalInv, [Next]_vars PROVE TechnicalInv'
  OBVIOUS
<1>0. TypeOK'
  BY StepType DEF TechnicalInv
<1> USE <1>0 DEF TechnicalInv
<1>1. ASSUME NEW w \in Workers, WorkerStep(w) \/ Crash(w) PROVE TechnicalInv'
  <2>1. SubmissionStep(w) /\ AnalysisStep(w) /\ MovesOnly(w)
    BY <1>1, WorkerSubmission, WorkerAnalysis, WorkerMoves DEF TypeOK
  <2>2. pc[w] \in Analysed => rev[w] \in Revisions /\ technicalCompleted[rev[w]]
    BY BusyWorker DEF AnalysedIsCompleted, Analysed, TypeOK
  <2>3. AnalysedIsCompleted'
    <3> SUFFICES ASSUME NEW v \in Workers, pc'[v] \in Analysed PROVE technicalCompleted'[rev'[v]]
      BY DEF AnalysedIsCompleted
    <3>1. CASE v = w
      <4>1. rev'[w] = rev[w]
        BY <2>1, <3>1 DEF MovesOnly, Analysed, Working
      <4> QED BY <2>1, <2>2, <3>1, <4>1 DEF AnalysisStep
    <3>2. CASE v # w
      <4>1. pc'[v] = pc[v] /\ rev'[v] = rev[v]
        BY <2>1, <3>2 DEF MovesOnly
      <4>2. rev[v] \in Revisions /\ technicalCompleted[rev[v]]
        BY <4>1, BusyWorker DEF AnalysedIsCompleted, Analysed, TypeOK
      <4> QED BY <2>1, <4>1, <4>2 DEF AnalysisStep
    <3> QED BY <3>1, <3>2
  <2>4. ReviewableOnlyAfterTechnical'
    <3>1. status' \in {"ready_for_review", "in_review"} => technicalCompleted[current]
      BY <2>1, <2>2 DEF SubmissionStep, ReviewableOnlyAfterTechnical
    <3>2. current' = current /\ current \in Revisions
      BY <2>1 DEF SubmissionStep, TypeOK, SubmissionTypeOK
    <3> QED BY <2>1, <3>1, <3>2 DEF AnalysisStep, ReviewableOnlyAfterTechnical
  <2>5. CopyrightAfterTechnical'
    BY <2>1, <2>2 DEF AnalysisStep, CopyrightAfterTechnical
  <2> QED BY <2>3, <2>4, <2>5
<1>2. ASSUME NEW w \in Workers, NEW r \in Revisions, ClaimNextProcessingJob(w, r) PROVE TechnicalInv'
  <2>1. AnalysedIsCompleted'
    BY <1>2 DEF ClaimNextProcessingJob, Goto, AnalysedIsCompleted, Analysed, analysisVars,
                TypeOK, WorkerTypeOK
  <2> QED BY <1>2, <2>1 DEF ClaimNextProcessingJob, ReviewableOnlyAfterTechnical,
                CopyrightAfterTechnical, submissionVars, analysisVars
<1>3. ASSUME UNCHANGED <<workerVars, technicalCompleted>>,
             current' = current \/ status = "changes_requested",
             \/ status' = status
             \/ status = "ready_for_review" /\ current' = current
             \/ status' \notin {"ready_for_review", "in_review"},
             \A r \in Revisions : checkStatus'[r] = "ready" => checkStatus[r] = "ready"
      PROVE  TechnicalInv'
  BY <1>3 DEF AnalysedIsCompleted, ReviewableOnlyAfterTechnical, CopyrightAfterTechnical, workerVars
<1>4. ASSUME NEW r \in Revisions, LeaseExpires(r) PROVE TechnicalInv'
  BY <1>3, <1>4 DEF LeaseExpires, submissionVars, analysisVars
<1>5. CASE ReclaimExpiredProcessingJobs \/ ReconcileMissingJobs
  BY <1>3, <1>5 DEF ReclaimExpiredProcessingJobs, ReconcileMissingJobs, submissionVars, analysisVars
<1>6. CASE \E r \in Revisions : RetryRevisionProcessing(r)
  BY <1>3, <1>6 DEF RetryRevisionProcessing, submissionVars
<1>7. CASE SubmitCompletedDraft
  <2>1. \A r \in Revisions : checkStatus'[r] = "ready" => checkStatus[r] = "ready"
    BY <1>7 DEF SubmitCompletedDraft, TypeOK, AnalysisTypeOK
  <2> QED BY <1>3, <1>7, <2>1 DEF SubmitCompletedDraft
<1>8. CASE StartReview \/ RequestChanges \/ CreateRevision
  BY <1>3, <1>8 DEF StartReview, RequestChanges, CreateRevision, analysisVars
<1>9. CASE UNCHANGED vars
  BY <1>3, <1>9 DEF vars, submissionVars, analysisVars
<1> QED
  BY <1>1, <1>2, <1>4, <1>5, <1>6, <1>7, <1>8, <1>9 DEF Next, Environment

LEMMA InitTechnical == Init => TechnicalInv
BY InitType DEF Init, TechnicalInv, AnalysedIsCompleted, Analysed, ReviewableOnlyAfterTechnical,
                CopyrightAfterTechnical

\* Reviewers never see a Revision whose technical analysis was not completed at least
\* once: finalizeRevisionForReview follows markTechnicalComplete in the same worker, it
\* names its Revision, and the current Revision is replaced only out of changes_requested.
THEOREM ReviewFollowsAnalysis == Spec => []ReviewableOnlyAfterTechnical
<1>1. TechnicalInv => ReviewableOnlyAfterTechnical
  BY DEF TechnicalInv
<1> QED BY <1>1, InitTechnical, StepTechnical, PTL DEF Spec

\* No copyright batch is offered a Revision whose analysis was not completed: of all
\* the writers of copyright_check here only markTechnicalComplete makes a check ready.
THEOREM CopyrightFollowsAnalysis == Spec => []CopyrightAfterTechnical
<1>1. TechnicalInv => CopyrightAfterTechnical
  BY DEF TechnicalInv
<1> QED BY <1>1, InitTechnical, StepTechnical, PTL DEF Spec

-----------------------------------------------------------------------------
(* Why a succeeded job leaves nothing in the queue.                         *)

\* Nothing is known of a Revision before it is created.
FutureIsBlank ==
  \A r \in Revisions : r > current =>
    /\ revisionStatus[r] = "absent"
    /\ jobStatus[r] = "absent"
    /\ \A w \in Workers : rev[w] # r

\* A Revision is a draft only until it is submitted, and only the current one is ...
DraftIsUnsubmitted ==
  revisionStatus[current] = "draft" => status \in {"draft", "changes_requested"}

\* ... and nobody analyses a draft, although its owner can enqueue a job for it.
DraftIsNotAnalysed ==
  \A r \in Revisions : revisionStatus[r] = "draft" =>
    /\ jobStatus[r] # "succeeded"
    /\ \A w \in Workers : rev[w] = r => pc[w] \notin Begun

\* Unless it is submitted again, a Revision that some worker has begun does not go
\* back to the front of the queue, and one that a worker is done with has left it.
BegunStaysBegun ==
  \A w \in Workers : rev[w] = current /\ current \notin resubmitted =>
    /\ pc[w] \in Begun => status \notin {"draft", "submitted"}
    /\ pc[w] = "succeed" => status # "processing"

QueueInv ==
  /\ TypeOK /\ FutureIsBlank /\ DraftIsUnsubmitted /\ DraftIsNotAnalysed /\ BegunStaysBegun
  /\ SucceededJobIsReviewable

LEMMA InitQueue == Init => QueueInv
BY InitType, NoRevisionIsNone
DEF Init, QueueInv, FutureIsBlank, DraftIsUnsubmitted, DraftIsNotAnalysed, BegunStaysBegun,
    SucceededJobIsReviewable, Begun, Revisions

\* A worker begins only an eligible Revision, arrives at "succeed" only when the current
\* Revision is not left in processing, and marks only the job it has begun succeeded.
QueueStep(w) ==
  /\ pc'[w] \in Begun => pc[w] \in Begun \/ (pc[w] = "begin" /\ EligibleForProcessing(rev[w]) /\ status' # "submitted")
  /\ pc'[w] = "succeed" => pc[w] = "succeed" \/ (rev[w] = current => status' # "processing")
  /\ \A r \in Revisions : /\ jobStatus'[r] = "succeeded" =>
                             jobStatus[r] = "succeeded" \/ (pc[w] = "succeed" /\ rev[w] = r)
                          /\ jobStatus[r] = "absent" => jobStatus'[r] = "absent"

LEMMA NotYetBegun ==
  ASSUME NEW w \in Workers, WorkerTypeOK,
         \/ \E retryable \in BOOLEAN : Throw(w, retryable)
         \/ \E label : label \notin Begun /\ Continue(w, label)
         \/ Forget(w)
  PROVE  pc'[w] \notin Begun
BY DEF Throw, Continue, Goto, Forget, WorkerTypeOK, Begun

LEMMA WorkerQueue ==
  ASSUME NEW w \in Workers, TypeOK, WorkerStep(w) \/ Crash(w)
  PROVE  QueueStep(w)
<1>1. CASE BeginRevisionProcessing(w)
  <2>1. jobStatus' = jobStatus
    BY <1>1 DEF BeginRevisionProcessing, jobVars
  <2>2. CASE EligibleForProcessing(rev[w])
    <3>1. pc'[w] = "clear" /\ status' # "submitted"
      BY <1>1, <2>2 DEF BeginRevisionProcessing, Continue, Goto, TypeOK, WorkerTypeOK
    <3> QED BY <1>1, <2>1, <2>2, <3>1 DEF BeginRevisionProcessing, QueueStep
  <2>3. CASE ~EligibleForProcessing(rev[w])
    <3>1. pc'[w] \notin Begun
      BY <1>1, <2>3, NotYetBegun DEF BeginRevisionProcessing, TypeOK
    <3> QED BY <2>1, <3>1 DEF QueueStep, Begun
  <2> QED BY <2>2, <2>3
<1>2. CASE ClearTechnicalIssues(w) \/ MeasureSourceFiles(w) \/ UpsertQcIssues(w)
             \/ CompleteTechnicalAnalysis(w) \/ OpenCopyrightCheck(w)
             \/ MetadataFails(w) \/ WarnMetadataUnavailable(w)
  <2>1. pc[w] \in Begun /\ jobStatus' = jobStatus
    BY <1>2 DEF ClearTechnicalIssues, MeasureSourceFiles, UpsertQcIssues, CompleteTechnicalAnalysis,
                OpenCopyrightCheck, MetadataFails, WarnMetadataUnavailable, jobVars, Begun
  <2>2. pc'[w] # "succeed"
    BY <1>2 DEF ClearTechnicalIssues, MeasureSourceFiles, UpsertQcIssues, CompleteTechnicalAnalysis,
                OpenCopyrightCheck, MetadataFails, WarnMetadataUnavailable, Throw, Continue, Goto,
                TypeOK, WorkerTypeOK
  <2> QED BY <2>1, <2>2 DEF QueueStep
<1>3. CASE FinalizeComplete(w) \/ FinalizePartial(w)
  <2>1. pc[w] \in Begun /\ jobStatus' = jobStatus
    BY <1>3 DEF FinalizeComplete, FinalizePartial, Finalize, jobVars, Begun
  <2>2. rev[w] = current => status' # "processing"
    BY <1>3 DEF FinalizeComplete, FinalizePartial, Finalize, AwaitsFinalization
  <2> QED BY <2>1, <2>2 DEF QueueStep
<1>4. CASE StepFails(w) \/ Crash(w) \/ FailTechnicalAnalysis(w) \/ FailCopyrightCheck(w)
  <2>1. jobStatus' = jobStatus
    BY <1>4 DEF StepFails, Crash, FailTechnicalAnalysis, FailCopyrightCheck, jobVars
  <2>2. pc'[w] \notin Begun
    BY <1>4, NotYetBegun DEF StepFails, Crash, FailTechnicalAnalysis, FailCopyrightCheck, Begun, TypeOK
  <2> QED BY <2>1, <2>2 DEF QueueStep, Begun
<1>5. CASE MarkProcessingJobSucceeded(w)
  <2>1. pc[w] = "succeed" /\ pc[w] \in Begun
    BY <1>5 DEF MarkProcessingJobSucceeded, Begun
  <2>2. SettleJob(w, rev[w], "succeeded")
    BY <1>5 DEF MarkProcessingJobSucceeded
  <2> QED BY <2>1, <2>2 DEF QueueStep, SettleJob, OwnsLease, TypeOK, JobTypeOK
<1>6. CASE MarkProcessingJobFailed(w)
  <2>1. pc'[w] \notin Begun
    BY <1>6, NotYetBegun DEF MarkProcessingJobFailed, Begun, TypeOK
  <2>2. PICK outcome \in {"retry_wait", "failed"} : SettleJob(w, rev[w], outcome)
    BY <1>6 DEF MarkProcessingJobFailed
  <2> QED BY <2>1, <2>2 DEF QueueStep, SettleJob, OwnsLease, TypeOK, JobTypeOK, Begun
<1> QED BY <1>1, <1>2, <1>3, <1>4, <1>5, <1>6 DEF WorkerStep

LEMMA WorkerStepQueue ==
  ASSUME QueueInv, TypeOK', NEW w \in Workers, WorkerStep(w) \/ Crash(w)
  PROVE  QueueInv'
<1>1. SubmissionStep(w) /\ QueueStep(w) /\ MovesOnly(w) /\ TypeOK /\ current \in Revisions
  BY WorkerSubmission, WorkerQueue, WorkerMoves DEF QueueInv, TypeOK, SubmissionTypeOK
<1>2. \A v \in Workers : pc'[v] \in Begun => rev'[v] = rev[v]
  BY <1>1 DEF MovesOnly, Begun, Working
<1>3. \A v \in Workers : v # w => pc'[v] = pc[v] /\ rev'[v] = rev[v]
  BY <1>1 DEF MovesOnly
<1>4. pc[w] = "begin" /\ EligibleForProcessing(rev[w]) => revisionStatus[rev[w]] # "draft"
  BY DEF QueueInv, DraftIsUnsubmitted, EligibleForProcessing
<1>5. FutureIsBlank'
  <2>1. \A v \in Workers : rev'[v] \in {rev[v], NoRevision}
    <3>1. rev'[w] \in {rev[w], NoRevision}
      BY DEF WorkerStep, Crash, BeginRevisionProcessing, ClearTechnicalIssues, MeasureSourceFiles,
             UpsertQcIssues, CompleteTechnicalAnalysis, OpenCopyrightCheck, FinalizeComplete,
             MetadataFails, WarnMetadataUnavailable, FinalizePartial, Finalize,
             MarkProcessingJobSucceeded, StepFails, MarkProcessingJobFailed, FailTechnicalAnalysis,
             FailCopyrightCheck, Continue, Throw, Forget, QueueInv, TypeOK, WorkerTypeOK
    <3> QED BY <1>3, <3>1
  <2>2. \A r \in Revisions : r # NoRevision
    BY NoRevisionIsNone
  <2> QED BY <1>1, <2>1, <2>2 DEF QueueInv, FutureIsBlank, SubmissionStep, QueueStep
<1>6. DraftIsUnsubmitted'
  BY <1>1 DEF QueueInv, DraftIsUnsubmitted, SubmissionStep
<1>7. DraftIsNotAnalysed'
  <2> SUFFICES ASSUME NEW r \in Revisions, revisionStatus[r] = "draft"
               PROVE  /\ jobStatus'[r] # "succeeded"
                      /\ \A v \in Workers : rev'[v] = r => pc'[v] \notin Begun
    BY <1>1 DEF DraftIsNotAnalysed, SubmissionStep
  <2>1. jobStatus'[r] # "succeeded"
    BY <1>1 DEF QueueInv, DraftIsNotAnalysed, QueueStep, Begun
  <2>2. ASSUME NEW v \in Workers, rev'[v] = r PROVE pc'[v] \notin Begun
    BY <1>1, <1>2, <1>3, <1>4, <2>2 DEF QueueInv, DraftIsNotAnalysed, QueueStep
  <2> QED BY <2>1, <2>2
<1>8. BegunStaysBegun'
  <2> SUFFICES ASSUME NEW v \in Workers, rev'[v] = current, current \notin resubmitted, pc'[v] \in Begun
               PROVE  /\ status' \notin {"draft", "submitted"}
                      /\ pc'[v] = "succeed" => status' # "processing"
    BY <1>1 DEF BegunStaysBegun, SubmissionStep, Begun
  <2>1. rev[v] = current
    BY <1>2
  <2>2. CASE pc[v] \in Begun
    <3>1. status \notin {"draft", "submitted"} /\ (pc[v] = "succeed" => status # "processing")
      BY <2>1, <2>2 DEF QueueInv, BegunStaysBegun
    <3>2. status' \notin {"draft", "submitted"} /\ (status' = "processing" => status = "processing")
      BY <1>1, <3>1 DEF SubmissionStep
    <3> QED BY <1>1, <1>3, <2>1, <3>1, <3>2 DEF QueueStep
  <2>3. CASE pc[v] \notin Begun
    <3>1. v = w /\ pc[w] = "begin" /\ EligibleForProcessing(rev[w]) /\ status' # "submitted"
      BY <1>1, <1>3, <2>3 DEF QueueStep
    <3> QED BY <1>1, <2>1, <2>3, <3>1 DEF QueueStep, SubmissionStep, EligibleForProcessing, Begun
  <2> QED BY <2>2, <2>3
<1>9. SucceededJobIsReviewable'
  <2> SUFFICES ASSUME jobStatus'[current] = "succeeded", current \notin resubmitted
               PROVE  status' \notin {"draft", "submitted", "processing"}
    BY <1>1 DEF SucceededJobIsReviewable, SubmissionStep
  <2>1. CASE jobStatus[current] = "succeeded"
    BY <1>1, <2>1 DEF QueueInv, SucceededJobIsReviewable, SubmissionStep
  <2>2. CASE pc[w] = "succeed" /\ rev[w] = current
    BY <1>1, <2>2 DEF QueueInv, BegunStaysBegun, SubmissionStep, Begun
  <2> QED BY <1>1, <2>1, <2>2 DEF QueueStep
<1> QED BY <1>5, <1>6, <1>7, <1>8, <1>9 DEF QueueInv

LEMMA StepQueue == QueueInv /\ [Next]_vars => QueueInv'
<1> SUFFICES ASSUME QueueInv, [Next]_vars PROVE QueueInv'
  OBVIOUS
<1>0. TypeOK /\ TypeOK'
  BY StepType DEF QueueInv
<1>1. ASSUME NEW w \in Workers, WorkerStep(w) \/ Crash(w) PROVE QueueInv'
  BY <1>0, <1>1, WorkerStepQueue
<1>2. ASSUME NEW w \in Workers, NEW r \in Revisions, ClaimNextProcessingJob(w, r) PROVE QueueInv'
  <2>1. UNCHANGED submissionVars
    BY <1>2 DEF ClaimNextProcessingJob
  <2>2. \A s \in Revisions : jobStatus'[s] = "succeeded" => jobStatus[s] = "succeeded"
    BY <1>0, <1>2 DEF ClaimNextProcessingJob, GrantLease, TypeOK, JobTypeOK
  <2>3. jobStatus[r] # "absent" /\ \A s \in Revisions : s # r => jobStatus'[s] = jobStatus[s]
    BY <1>0, <1>2 DEF ClaimNextProcessingJob, GrantLease, Claimable, TypeOK, JobTypeOK
  <2>4. pc'[w] = "begin" /\ rev'[w] = r /\ \A v \in Workers : v # w => pc'[v] = pc[v] /\ rev'[v] = rev[v]
    BY <1>0, <1>2 DEF ClaimNextProcessingJob, Goto, TypeOK, WorkerTypeOK
  <2>5. FutureIsBlank'
    BY <2>1, <2>3, <2>4 DEF QueueInv, FutureIsBlank, submissionVars
  <2>6. DraftIsUnsubmitted' /\ SucceededJobIsReviewable'
    BY <1>0, <2>1, <2>2 DEF QueueInv, DraftIsUnsubmitted, SucceededJobIsReviewable, submissionVars,
                            TypeOK, SubmissionTypeOK
  <2>7. DraftIsNotAnalysed' /\ BegunStaysBegun'
    BY <2>1, <2>2, <2>4 DEF QueueInv, DraftIsNotAnalysed, BegunStaysBegun, submissionVars, Begun
  <2> QED BY <1>0, <2>5, <2>6, <2>7 DEF QueueInv
<1>3. ASSUME UNCHANGED <<current, revisionStatus, resubmitted, pc, rev>>,
             status' = status \/ status' \in {"in_review", "changes_requested"},
             status' \in {"draft", "changes_requested"} \/ status \notin {"draft", "changes_requested"},
             \A r \in Revisions : jobStatus'[r] = "succeeded" => jobStatus[r] = "succeeded",
             \A r \in Revisions : r > current /\ jobStatus[r] = "absent" => jobStatus'[r] = "absent"
      PROVE  QueueInv'
  <2>1. FutureIsBlank'
    BY <1>3 DEF QueueInv, FutureIsBlank
  <2>2. DraftIsUnsubmitted' /\ DraftIsNotAnalysed'
    BY <1>3 DEF QueueInv, DraftIsUnsubmitted, DraftIsNotAnalysed
  <2>3. BegunStaysBegun' /\ SucceededJobIsReviewable'
    BY <1>0, <1>3 DEF QueueInv, BegunStaysBegun, SucceededJobIsReviewable, TypeOK, SubmissionTypeOK
  <2> QED BY <1>0, <2>1, <2>2, <2>3 DEF QueueInv
<1>4. ASSUME NEW r \in Revisions, LeaseExpires(r) PROVE QueueInv'
  BY <1>3, <1>4 DEF LeaseExpires, submissionVars, workerVars
<1>5. CASE ReclaimExpiredProcessingJobs
  BY <1>3, <1>5 DEF ReclaimExpiredProcessingJobs, submissionVars, workerVars
<1>6. CASE ReconcileMissingJobs
  <2>1. UNCHANGED <<status, current, revisionStatus, resubmitted, pc, rev>>
    BY <1>6 DEF ReconcileMissingJobs, submissionVars, workerVars
  <2>2. \A s \in Revisions : /\ jobStatus'[s] = "succeeded" => jobStatus[s] = "succeeded"
                             /\ s # current => jobStatus'[s] = jobStatus[s]
    BY <1>0, <1>6 DEF ReconcileMissingJobs, EnqueueJob, TypeOK, JobTypeOK
  <2>3. ~(current > current)
    BY <1>0 DEF TypeOK, SubmissionTypeOK, Revisions
  <2> QED BY <1>3, <2>1, <2>2, <2>3
<1>7. ASSUME NEW r \in Revisions, RetryRevisionProcessing(r) PROVE QueueInv'
  <2>1. UNCHANGED <<status, current, revisionStatus, resubmitted, pc, rev>>
    BY <1>7 DEF RetryRevisionProcessing, submissionVars, workerVars
  <2>2. \A s \in Revisions : /\ jobStatus'[s] = "succeeded" => jobStatus[s] = "succeeded"
                             /\ s # r => jobStatus'[s] = jobStatus[s]
    BY <1>0, <1>7 DEF RetryRevisionProcessing, TypeOK, JobTypeOK
  <2>3. ~(r > current)
    BY <1>0, <1>7 DEF RetryRevisionProcessing, TypeOK, SubmissionTypeOK, Revisions
  <2> QED BY <1>3, <2>1, <2>2, <2>3
<1>8. CASE SubmitCompletedDraft
  <2>1. /\ current' = current /\ current \in Revisions /\ status' = "submitted"
        /\ UNCHANGED <<pc, rev>>
        /\ revisionStatus[current] # "draft" => current \in resubmitted'
    BY <1>0, <1>8 DEF SubmitCompletedDraft, workerVars, TypeOK, SubmissionTypeOK
  <2>2. \A r \in Revisions : /\ jobStatus'[r] = "succeeded" => jobStatus[r] = "succeeded"
                             /\ r # current => jobStatus'[r] = jobStatus[r]
    BY <1>0, <1>8 DEF SubmitCompletedDraft, EnqueueJob, TypeOK, JobTypeOK, SubmissionTypeOK
  <2>3. /\ revisionStatus'[current] # "draft"
        /\ \A r \in Revisions : /\ revisionStatus'[r] = "draft" => revisionStatus[r] = "draft"
                                /\ revisionStatus[r] = "absent" => revisionStatus'[r] = "absent"
    BY <1>0, <1>8 DEF SubmitCompletedDraft, TypeOK, SubmissionTypeOK
  <2>4. FutureIsBlank'
    <3>1. \A r \in Revisions : r > current => r # current
      BY <2>1 DEF Revisions
    <3> QED BY <2>1, <2>2, <2>3, <3>1 DEF QueueInv, FutureIsBlank
  <2>5. DraftIsUnsubmitted' /\ DraftIsNotAnalysed'
    BY <2>1, <2>2, <2>3 DEF QueueInv, DraftIsUnsubmitted, DraftIsNotAnalysed
  <2>6. BegunStaysBegun'
    BY <2>1 DEF QueueInv, DraftIsNotAnalysed, BegunStaysBegun, Begun
  <2>7. SucceededJobIsReviewable'
    BY <2>1, <2>2 DEF QueueInv, DraftIsNotAnalysed, SucceededJobIsReviewable
  <2> QED BY <1>0, <2>4, <2>5, <2>6, <2>7 DEF QueueInv
<1>9. CASE StartReview \/ RequestChanges
  BY <1>3, <1>9 DEF StartReview, RequestChanges, jobVars, workerVars
<1>10. CASE CreateRevision
  <2>1. /\ status = "changes_requested" /\ status' = status /\ current' = current + 1
        /\ UNCHANGED <<resubmitted, jobStatus, pc, rev>>
        /\ current + 1 \in Revisions
    BY <1>0, <1>10 DEF CreateRevision, TypeOK, SubmissionTypeOK, jobVars, workerVars
  <2>2. \A r \in Revisions : r # current + 1 => revisionStatus'[r] = revisionStatus[r]
    BY <1>0, <1>10 DEF CreateRevision, TypeOK, SubmissionTypeOK
  <2>3. jobStatus[current + 1] = "absent" /\ \A v \in Workers : rev[v] # current + 1
    BY <1>0, <2>1 DEF QueueInv, FutureIsBlank, Revisions, TypeOK, SubmissionTypeOK
  <2>4. FutureIsBlank'
    <3>1. \A r \in Revisions : r > current + 1 => r > current /\ r # current + 1
      BY <1>0 DEF Revisions, TypeOK, SubmissionTypeOK
    <3> QED BY <2>1, <2>2, <3>1 DEF QueueInv, FutureIsBlank
  <2>5. DraftIsUnsubmitted' /\ BegunStaysBegun' /\ SucceededJobIsReviewable'
    BY <2>1, <2>3 DEF DraftIsUnsubmitted, BegunStaysBegun, SucceededJobIsReviewable
  <2>6. DraftIsNotAnalysed'
    BY <2>1, <2>2, <2>3 DEF QueueInv, DraftIsNotAnalysed
  <2> QED BY <1>0, <2>4, <2>5, <2>6 DEF QueueInv
<1>11. CASE UNCHANGED vars
  BY <1>3, <1>11 DEF vars, submissionVars, jobVars, workerVars, QueueInv
<1> QED
  BY <1>1, <1>2, <1>4, <1>5, <1>6, <1>7, <1>8, <1>9, <1>10, <1>11 DEF Next, Environment

\* A job that is marked succeeded has brought its submission out of the queue, however
\* many workers raced for it, unless the Revision was submitted a second time.
THEOREM SucceededIsReviewable == Spec => []SucceededJobIsReviewable
<1>1. QueueInv => SucceededJobIsReviewable
  BY DEF QueueInv
<1> QED BY <1>1, InitQueue, StepQueue, PTL DEF Spec

-----------------------------------------------------------------------------
(* What a worker that nobody disturbs leaves behind.                        *)

\* The analysis of a Revision as its last worker should leave it.
Recorded(r) ==
  /\ technical[r] = "complete"
  /\ "technical" \in qc[r]
  /\ overall[r] = IF "ai_unavailable" \in qc[r] THEN "partial" ELSE "complete"

\* Until the job is settled the worker holds a lease that runs; after a lost acknowledgement
\* it is in its catch block with an attempt left, which it believes it can return.
Undisturbed(w, r) ==
  /\ pc[w] \in Working =>
       \/ OwnsLease(w, r) /\ ~leaseExpired[r]
       \/ pc[w] = "catch_retryable" /\ jobStatus[r] = "succeeded" /\ snapshot[w] # MaxAttempts
  /\ pc[w] \in Reporting => jobStatus[r] = "failed"

\* What it has written when it is where it is.
Progress(w, r) ==
  /\ pc[w] \in {"measure", "record_issues"} => qc[r] = {}
  /\ pc[w] \in {"complete_technical", "open_check", "finalize", "warn"} => qc[r] = {"technical"}
  /\ pc[w] = "finalize_partial" => qc[r] = {"technical", "ai_unavailable"}
  /\ pc[w] \in Analysed => technical[r] = "complete"
  /\ pc[w] = "succeed" => Recorded(r)

\* A Revision has one worker at a time, and a succeeded job its record.
Orderly(r) ==
  /\ \A v, w \in Workers : rev[v] = r /\ rev[w] = r => v = w
  /\ \A w \in Workers : rev[w] = r => Undisturbed(w, r) /\ Progress(w, r)
  /\ jobStatus[r] = "succeeded" => Recorded(r)

RecordInv == TypeOK /\ \A r \in Revisions \ disturbed : Orderly(r)

\* What Orderly(r) rests on in the tables: the job, the issues, and what is complete.
RowKept(r) ==
  /\ jobStatus'[r] = jobStatus[r] /\ leaseOwner'[r] = leaseOwner[r]
  /\ leaseExpired'[r] = leaseExpired[r]
  /\ qc'[r] = qc[r]
  /\ technical[r] = "complete" => technical'[r] = "complete"
  /\ overall[r] \in {"complete", "partial"} => overall'[r] = overall[r]

\* Nothing happens to that, and no worker comes to it or moves on it.
LEMMA OrderKept ==
  ASSUME NEW r \in Revisions, Orderly(r), RowKept(r),
         \A v \in Workers : rev'[v] = r => rev[v] = r /\ pc'[v] = pc[v] /\ snapshot'[v] = snapshot[v]
  PROVE  Orderly(r)'
<1>1. Recorded(r) => Recorded(r)'
  BY DEF Recorded, RowKept
<1>2. ASSUME NEW v \in Workers, rev'[v] = r PROVE Undisturbed(v, r)' /\ Progress(v, r)'
  <2>1. rev[v] = r /\ pc'[v] = pc[v] /\ snapshot'[v] = snapshot[v]
    BY <1>2
  <2>2. Undisturbed(v, r) /\ Progress(v, r)
    BY <2>1 DEF Orderly
  <2>3. Undisturbed(v, r)'
    BY <2>1, <2>2 DEF Undisturbed, OwnsLease, RowKept
  <2>4. Progress(v, r)'
    BY <1>1, <2>1, <2>2 DEF Progress, RowKept
  <2> QED BY <2>3, <2>4
<1> QED BY <1>1, <1>2 DEF Orderly, RowKept

\* A worker writes the rows of its Revision only, and never goes to another.
LEMMA WorkerWrites ==
  ASSUME TypeOK, NEW w \in Workers, WorkerStep(w) \/ Crash(w)
  PROVE  /\ \A r \in Revisions \ {rev[w]} : RowKept(r)
         /\ rev'[w] \in {rev[w], NoRevision}
         /\ disturbed \subseteq disturbed'
<1>1. rev'[w] \in {rev[w], NoRevision}
  BY DEF WorkerStep, Crash, BeginRevisionProcessing, ClearTechnicalIssues, MeasureSourceFiles,
         UpsertQcIssues, CompleteTechnicalAnalysis, OpenCopyrightCheck, FinalizeComplete,
         MetadataFails, WarnMetadataUnavailable, FinalizePartial, Finalize,
         MarkProcessingJobSucceeded, StepFails, MarkProcessingJobFailed, FailTechnicalAnalysis,
         FailCopyrightCheck, Continue, Throw, Forget, TypeOK, WorkerTypeOK
<1>2. CASE BeginRevisionProcessing(w) \/ ClearTechnicalIssues(w) \/ MeasureSourceFiles(w)
             \/ UpsertQcIssues(w) \/ CompleteTechnicalAnalysis(w) \/ OpenCopyrightCheck(w)
  BY <1>1, <1>2 DEF BeginRevisionProcessing, ClearTechnicalIssues, MeasureSourceFiles,
              UpsertQcIssues, CompleteTechnicalAnalysis, OpenCopyrightCheck, RowKept, jobVars,
              analysisVars, historyVars, TypeOK, JobTypeOK, AnalysisTypeOK
<1>3. CASE FinalizeComplete(w) \/ MetadataFails(w) \/ WarnMetadataUnavailable(w)
             \/ FinalizePartial(w)
  BY <1>1, <1>3 DEF FinalizeComplete, MetadataFails, WarnMetadataUnavailable, FinalizePartial,
              Finalize, RowKept, jobVars, analysisVars, historyVars, TypeOK, JobTypeOK, AnalysisTypeOK
<1>4. CASE StepFails(w) \/ FailTechnicalAnalysis(w) \/ FailCopyrightCheck(w) \/ Crash(w)
  BY <1>1, <1>4 DEF StepFails, FailTechnicalAnalysis, FailCopyrightCheck, Crash, RowKept, jobVars,
              analysisVars, historyVars, TypeOK, JobTypeOK, AnalysisTypeOK
<1>5. CASE MarkProcessingJobSucceeded(w) \/ MarkProcessingJobFailed(w)
  <2>1. \E outcome : SettleJob(w, rev[w], outcome)
    BY <1>5 DEF MarkProcessingJobSucceeded, MarkProcessingJobFailed
  <2>2. UNCHANGED <<technical, overall, qc>> /\ disturbed \subseteq disturbed'
    BY <1>5 DEF MarkProcessingJobSucceeded, MarkProcessingJobFailed, analysisVars, historyVars
  <2> QED BY <1>1, <2>1, <2>2 DEF SettleJob, RowKept, TypeOK, JobTypeOK
<1> QED BY <1>2, <1>3, <1>4, <1>5 DEF WorkerStep

\* What a step of the only worker of a Revision has to show for it.
Advances(w, r) ==
  /\ rev'[w] = r => Undisturbed(w, r)' /\ Progress(w, r)'
  /\ jobStatus'[r] = "succeeded" => Recorded(r)'

\* A statement of processRevision: the lease is as before, and the next label's progress
\* holds, or an error brings the worker to its catch block.
LEMMA WorkAdvances ==
  ASSUME TypeOK, NEW w \in Workers, NEW r \in Revisions, rev[w] = r, Orderly(r),
         pc[w] \in Working \ {"catch_retryable"}, pc'[w] \in Working, UNCHANGED jobVars,
         Progress(w, r)'
  PROVE  Advances(w, r)
<1>1. OwnsLease(w, r) /\ ~leaseExpired[r]
  BY DEF Orderly, Undisturbed
<1>2. Undisturbed(w, r)'
  BY <1>1 DEF Undisturbed, OwnsLease, jobVars, Working, Reporting
<1>3. jobStatus'[r] # "succeeded"
  BY <1>1 DEF OwnsLease, jobVars
<1> QED BY <1>2, <1>3 DEF Advances

LEMMA ThrowAdvances ==
  ASSUME TypeOK, NEW w \in Workers, NEW r \in Revisions, rev[w] = r, Orderly(r),
         pc[w] \in Working \ {"catch_retryable"}, UNCHANGED jobVars,
         NEW retryable \in BOOLEAN, Throw(w, retryable)
  PROVE  Advances(w, r)
<1>1. pc'[w] \in {"catch_retryable", "catch_permanent"}
  BY DEF Throw, Continue, Goto, TypeOK, WorkerTypeOK
<1>2. pc'[w] \in Working /\ Progress(w, r)'
  BY <1>1 DEF Working, Progress, Analysed
<1> QED BY <1>2, WorkAdvances

\* The statements up to the technical analysis.
LEMMA MeasuringAdvances ==
  ASSUME TypeOK, NEW w \in Workers, NEW r \in Revisions, rev[w] = r, Orderly(r),
         \/ BeginRevisionProcessing(w) \/ ClearTechnicalIssues(w) \/ MeasureSourceFiles(w)
         \/ UpsertQcIssues(w) \/ CompleteTechnicalAnalysis(w) \/ OpenCopyrightCheck(w)
  PROVE  Advances(w, r)
<1>1. pc[w] \in Working \ {"catch_retryable"} /\ UNCHANGED jobVars
  BY DEF BeginRevisionProcessing, ClearTechnicalIssues, MeasureSourceFiles, UpsertQcIssues,
         CompleteTechnicalAnalysis, OpenCopyrightCheck, Working
<1>2. Progress(w, r)
  BY DEF Orderly
<1>3. CASE \E retryable \in BOOLEAN : Throw(w, retryable)
  BY <1>1, <1>3, ThrowAdvances
<1>4. CASE ~\E retryable \in BOOLEAN : Throw(w, retryable)
  <2>1. CASE BeginRevisionProcessing(w)
    <3>1. pc'[w] = "clear"
      BY <1>4, <2>1 DEF BeginRevisionProcessing, Continue, Goto, TypeOK, WorkerTypeOK
    <3>2. pc'[w] \in Working /\ Progress(w, r)'
      BY <3>1 DEF Working, Progress, Analysed
    <3> QED BY <1>1, <3>2, WorkAdvances
  <2>2. CASE ClearTechnicalIssues(w)
    <3>1. pc'[w] = "measure" /\ qc'[r] = {}
      BY <2>2 DEF ClearTechnicalIssues, Continue, Goto, TypeOK, WorkerTypeOK, AnalysisTypeOK
    <3>2. pc'[w] \in Working /\ Progress(w, r)'
      BY <3>1 DEF Working, Progress, Analysed
    <3> QED BY <1>1, <3>2, WorkAdvances
  <2>3. CASE MeasureSourceFiles(w)
    <3>1. pc'[w] = "record_issues" /\ qc'[r] = {}
      BY <1>2, <1>4, <2>3 DEF MeasureSourceFiles, Progress, Continue, Goto, TypeOK, WorkerTypeOK
    <3>2. pc'[w] \in Working /\ Progress(w, r)'
      BY <3>1 DEF Working, Progress, Analysed
    <3> QED BY <1>1, <3>2, WorkAdvances
  <2>4. CASE UpsertQcIssues(w)
    <3>1. pc'[w] = "complete_technical" /\ qc'[r] = {"technical"}
      BY <1>2, <2>4 DEF UpsertQcIssues, Progress, Continue, Goto, TypeOK, WorkerTypeOK, AnalysisTypeOK
    <3>2. pc'[w] \in Working /\ Progress(w, r)'
      BY <3>1 DEF Working, Progress, Analysed
    <3> QED BY <1>1, <3>2, WorkAdvances
  <2>5. CASE CompleteTechnicalAnalysis(w)
    <3>1. pc'[w] = "open_check" /\ qc'[r] = {"technical"} /\ technical'[r] = "complete"
      BY <1>2, <2>5 DEF CompleteTechnicalAnalysis, Progress, Continue, Goto, TypeOK, WorkerTypeOK,
                        AnalysisTypeOK
    <3>2. pc'[w] \in Working /\ Progress(w, r)'
      BY <3>1 DEF Working, Progress, Analysed
    <3> QED BY <1>1, <3>2, WorkAdvances
  <2>6. CASE OpenCopyrightCheck(w)
    <3>1. pc'[w] = "finalize" /\ qc'[r] = {"technical"} /\ technical'[r] = "complete"
      BY <1>2, <2>6 DEF OpenCopyrightCheck, Progress, Analysed, Continue, Goto, analysisVars,
                        TypeOK, WorkerTypeOK
    <3>2. pc'[w] \in Working /\ Progress(w, r)'
      BY <3>1 DEF Working, Progress, Analysed
    <3> QED BY <1>1, <3>2, WorkAdvances
  <2> QED BY <2>1, <2>2, <2>3, <2>4, <2>5, <2>6
<1> QED BY <1>3, <1>4

\* Finalization: complete without a warning, partial with one.
LEMMA FinalizingAdvances ==
  ASSUME TypeOK, NEW w \in Workers, NEW r \in Revisions, rev[w] = r, Orderly(r),
         \/ FinalizeComplete(w) \/ MetadataFails(w) \/ WarnMetadataUnavailable(w)
         \/ FinalizePartial(w)
  PROVE  Advances(w, r)
<1>1. /\ pc[w] \in {"finalize", "warn", "finalize_partial"} /\ UNCHANGED <<jobVars, technical>>
      /\ pc[w] \in Working \ {"catch_retryable"}
  BY DEF FinalizeComplete, MetadataFails, WarnMetadataUnavailable, FinalizePartial, Finalize,
         analysisVars, Working
<1>2. /\ pc[w] \in {"finalize", "warn"} => qc[r] = {"technical"}
      /\ pc[w] = "finalize_partial" => qc[r] = {"technical", "ai_unavailable"}
      /\ technical'[r] = "complete" /\ technical[r] = "complete"
  BY <1>1 DEF Orderly, Progress, Analysed
<1>3. CASE FinalizeComplete(w)
  <2>1. qc'[r] = {"technical"} /\ overall'[r] = "complete" /\ pc'[w] \in {"succeed", "warn"}
    BY <1>2, <1>3 DEF FinalizeComplete, Finalize, Continue, Goto, TypeOK, WorkerTypeOK, AnalysisTypeOK
  <2>2. Recorded(r)'
    BY <1>2, <2>1 DEF Recorded
  <2>3. pc'[w] \in Working /\ Progress(w, r)'
    BY <1>2, <2>1, <2>2 DEF Working, Progress, Analysed
  <2> QED BY <1>1, <2>3, WorkAdvances
<1>4. CASE MetadataFails(w)
  <2>1. qc'[r] = {"technical"} /\ pc'[w] = "warn"
    BY <1>2, <1>4 DEF MetadataFails, Continue, Goto, TypeOK, WorkerTypeOK
  <2>2. pc'[w] \in Working /\ Progress(w, r)'
    BY <1>2, <2>1 DEF Working, Progress, Analysed
  <2> QED BY <1>1, <2>2, WorkAdvances
<1>5. CASE WarnMetadataUnavailable(w)
  <2>1. qc'[r] = {"technical", "ai_unavailable"} /\ pc'[w] = "finalize_partial"
    BY <1>2, <1>5 DEF WarnMetadataUnavailable, Continue, Goto, TypeOK, WorkerTypeOK, AnalysisTypeOK
  <2>2. pc'[w] \in Working /\ Progress(w, r)'
    BY <1>2, <2>1 DEF Working, Progress, Analysed
  <2> QED BY <1>1, <2>2, WorkAdvances
<1>6. CASE FinalizePartial(w)
  <2>1. qc'[r] = {"technical", "ai_unavailable"} /\ overall'[r] = "partial" /\ pc'[w] = "succeed"
    BY <1>2, <1>6 DEF FinalizePartial, Finalize, Continue, Goto, TypeOK, WorkerTypeOK, AnalysisTypeOK
  <2>2. Recorded(r)'
    BY <1>2, <2>1 DEF Recorded
  <2>3. pc'[w] \in Working /\ Progress(w, r)'
    BY <1>2, <2>1, <2>2 DEF Working, Progress, Analysed
  <2> QED BY <1>1, <2>3, WorkAdvances
<1> QED BY <1>3, <1>4, <1>5, <1>6

\* Settlements: the worker owns its lease, or has settled the job as succeeded before.
LEMMA SettlingAdvances ==
  ASSUME TypeOK, NEW w \in Workers, NEW r \in Revisions, rev[w] = r, Orderly(r),
         MarkProcessingJobSucceeded(w) \/ MarkProcessingJobFailed(w), r \notin disturbed'
  PROVE  Advances(w, r)
<1>1. UNCHANGED <<technical, overall, qc>> /\ r # NoRevision
  BY NoRevisionIsNone DEF MarkProcessingJobSucceeded, MarkProcessingJobFailed, analysisVars
<1>2. Recorded(r)' <=> Recorded(r)
  BY <1>1 DEF Recorded
<1>3. CASE MarkProcessingJobSucceeded(w)
  <2>1. OwnsLease(w, r) /\ Recorded(r)
    BY <1>3 DEF MarkProcessingJobSucceeded, Orderly, Undisturbed, Progress, Working
  <2>2. jobStatus'[r] = "succeeded"
    BY <1>3, <2>1 DEF MarkProcessingJobSucceeded, SettleJob, TypeOK, JobTypeOK
  <2>3. CASE Forget(w)
    BY <1>1, <1>2, <2>1, <2>3 DEF Advances, Forget, TypeOK, WorkerTypeOK
  <2>4. CASE Throw(w, TRUE) /\ snapshot[w] # MaxAttempts
    <3>1. pc'[w] = "catch_retryable" /\ snapshot'[w] # MaxAttempts
      BY <2>4 DEF Throw, Continue, Goto, TypeOK, WorkerTypeOK
    <3>2. Undisturbed(w, r)' /\ Progress(w, r)'
      BY <2>2, <3>1 DEF Undisturbed, Progress, Analysed, Reporting
    <3> QED BY <1>2, <2>1, <3>2 DEF Advances
  <2> QED BY <1>3, <2>3, <2>4 DEF MarkProcessingJobSucceeded
<1>4. CASE MarkProcessingJobFailed(w)
  <2>1. CASE OwnsLease(w, r)
    <3>1. \/ jobStatus'[r] = "retry_wait" /\ rev'[w] # r
          \/ jobStatus'[r] = "failed" /\ (rev'[w] = r => pc'[w] = "fail_analysis")
      BY <1>1, <1>4, <2>1 DEF MarkProcessingJobFailed, SettleJob, Forget, Continue, Goto,
                              TypeOK, JobTypeOK, WorkerTypeOK
    <3>2. pc'[w] = "fail_analysis" /\ jobStatus'[r] = "failed"
             => Undisturbed(w, r)' /\ Progress(w, r)'
      BY DEF Undisturbed, Progress, Analysed, Working
    <3> QED BY <3>1, <3>2 DEF Advances
  <2>2. CASE ~OwnsLease(w, r)
    <3>1. pc[w] = "catch_retryable" /\ jobStatus[r] = "succeeded" /\ snapshot[w] < MaxAttempts
      BY <1>4, <2>2 DEF MarkProcessingJobFailed, Orderly, Undisturbed, Working, TypeOK, WorkerTypeOK
    <3>2. rev'[w] # r
      BY <1>1, <1>4, <3>1 DEF MarkProcessingJobFailed, Forget, TypeOK, WorkerTypeOK
    <3> QED BY <1>2, <3>1, <3>2 DEF Advances, Orderly
  <2> QED BY <2>1, <2>2
<1> QED BY <1>3, <1>4

\* Errors, the report of a failure, and the death of the process.
LEMMA FailingAdvances ==
  ASSUME TypeOK, NEW w \in Workers, NEW r \in Revisions, rev[w] = r, Orderly(r),
         StepFails(w) \/ FailTechnicalAnalysis(w) \/ FailCopyrightCheck(w) \/ Crash(w)
  PROVE  Advances(w, r)
<1>1. r # NoRevision /\ UNCHANGED jobVars
  BY NoRevisionIsNone DEF StepFails, FailTechnicalAnalysis, FailCopyrightCheck, Crash
<1>2. CASE StepFails(w)
  BY <1>1, <1>2, ThrowAdvances DEF StepFails
<1>3. CASE FailTechnicalAnalysis(w)
  <2>1. jobStatus'[r] = "failed" /\ pc'[w] = "fail_check"
    BY <1>1, <1>3 DEF FailTechnicalAnalysis, Orderly, Undisturbed, Reporting, Continue, Goto,
                      jobVars, TypeOK, WorkerTypeOK
  <2>2. Undisturbed(w, r)' /\ Progress(w, r)'
    BY <2>1 DEF Undisturbed, Progress, Analysed, Working
  <2> QED BY <2>1, <2>2 DEF Advances
<1>4. CASE FailCopyrightCheck(w) \/ Crash(w)
  <2>1. rev'[w] # r /\ UNCHANGED <<technical, overall, qc>>
    BY <1>1, <1>4 DEF FailCopyrightCheck, Crash, Forget, analysisVars, TypeOK, WorkerTypeOK
  <2>2. Recorded(r)' <=> Recorded(r)
    BY <2>1 DEF Recorded
  <2> QED BY <1>1, <2>1, <2>2 DEF Advances, Orderly, jobVars
<1> QED BY <1>2, <1>3, <1>4

LEMMA WorkerStepRecords ==
  ASSUME RecordInv, NEW w \in Workers, WorkerStep(w) \/ Crash(w),
         NEW r \in Revisions \ disturbed'
  PROVE  Orderly(r)'
<1>1. TypeOK /\ r \in Revisions /\ Orderly(r) /\ r # NoRevision
  BY WorkerWrites, NoRevisionIsNone DEF RecordInv
<1>2. /\ rev'[w] \in {rev[w], NoRevision}
      /\ \A v \in Workers \ {w} : pc'[v] = pc[v] /\ rev'[v] = rev[v] /\ snapshot'[v] = snapshot[v]
  BY <1>1, WorkerWrites, WorkerMoves DEF MovesOnly, TypeOK
<1>3. CASE rev[w] # r
  <2>1. RowKept(r)
    BY <1>1, <1>3, WorkerWrites
  <2>2. \A v \in Workers : rev'[v] = r => rev[v] = r /\ pc'[v] = pc[v] /\ snapshot'[v] = snapshot[v]
    BY <1>1, <1>2, <1>3
  <2> QED BY <1>1, <2>1, <2>2, OrderKept
<1>4. CASE rev[w] = r
  <2>1. Advances(w, r)
    BY <1>1, <1>4, MeasuringAdvances, FinalizingAdvances, SettlingAdvances, FailingAdvances
       DEF WorkerStep
  <2>2. \A v \in Workers \ {w} : rev'[v] # r
    BY <1>1, <1>2, <1>4 DEF Orderly
  <2> QED BY <2>1, <2>2 DEF Orderly, Advances
<1> QED BY <1>3, <1>4

\* A job is claimed that no worker is at: a worker at an undisturbed Revision has its job
\* running under a lease that has not run out, or has settled it.
LEMMA ClaimRecords ==
  ASSUME RecordInv, NEW w \in Workers, NEW q \in Revisions, ClaimNextProcessingJob(w, q),
         NEW r \in Revisions \ disturbed'
  PROVE  Orderly(r)'
<1>1. TypeOK /\ Orderly(r) /\ rev[w] = NoRevision /\ r # NoRevision
  BY NoRevisionIsNone DEF RecordInv, ClaimNextProcessingJob, historyVars, TypeOK, WorkerTypeOK
<1>2. /\ pc'[w] = "begin" /\ rev'[w] = q
      /\ \A v \in Workers \ {w} : pc'[v] = pc[v] /\ rev'[v] = rev[v] /\ snapshot'[v] = snapshot[v]
  BY <1>1 DEF ClaimNextProcessingJob, Goto, TypeOK, WorkerTypeOK
<1>3. CASE q # r
  <2>1. RowKept(r)
    BY <1>1, <1>3 DEF ClaimNextProcessingJob, GrantLease, RowKept, analysisVars, TypeOK, JobTypeOK
  <2> QED BY <1>1, <1>2, <1>3, <2>1, OrderKept
<1>4. CASE q = r
  <2>1. \A v \in Workers : rev[v] # r
    <3> SUFFICES ASSUME NEW v \in Workers, rev[v] = r PROVE FALSE
      OBVIOUS
    <3>1. pc[v] \in Working \cup Reporting
      BY <1>1 DEF TypeOK, WorkerTypeOK
    <3>2. Undisturbed(v, r)
      BY <1>1 DEF Orderly
    <3> QED BY <1>4, <3>1, <3>2 DEF Undisturbed, OwnsLease, ClaimNextProcessingJob, Claimable
  <2>2. jobStatus'[r] = "running" /\ leaseOwner'[r] = w /\ leaseExpired'[r] = FALSE
    BY <1>1, <1>4 DEF ClaimNextProcessingJob, GrantLease, TypeOK, JobTypeOK
  <2>3. Undisturbed(w, r)' /\ Progress(w, r)'
    BY <1>2, <2>2 DEF Undisturbed, OwnsLease, Progress, Analysed, Reporting
  <2> QED BY <1>2, <2>1, <2>2, <2>3 DEF Orderly
<1> QED BY <1>3, <1>4

\* What others do to the rows of a Revision: nothing while a worker is at it, or it is
\* disturbed; and a job that has succeeded, or its analysis, is left alone.
LEMMA OthersRecord ==
  ASSUME RecordInv, UNCHANGED workerVars, disturbed \subseteq disturbed',
         \A r \in Revisions \ disturbed' :
           RowKept(r) \/ /\ \A v \in Workers : rev[v] # r
                         /\ jobStatus'[r] = "succeeded" => RowKept(r)
  PROVE  \A r \in Revisions \ disturbed' : Orderly(r)'
<1> SUFFICES ASSUME NEW r \in Revisions \ disturbed' PROVE Orderly(r)'
  OBVIOUS
<1>1. Orderly(r) /\ \A v \in Workers : pc'[v] = pc[v] /\ rev'[v] = rev[v] /\ snapshot'[v] = snapshot[v]
  BY DEF RecordInv, workerVars
<1>2. CASE RowKept(r)
  BY <1>1, <1>2, OrderKept
<1>3. CASE ~RowKept(r)
  BY <1>1, <1>3 DEF Orderly
<1> QED BY <1>2, <1>3

\* The lease of an undisturbed Revision that has a worker neither runs out nor is expired.
LEMMA AttendedJob ==
  ASSUME RecordInv, NEW r \in Revisions \ disturbed, NEW v \in Workers, rev[v] = r
  PROVE  jobStatus[r] \in {"running", "succeeded", "failed"} /\ ~leaseExpired[r]
<1>1. Undisturbed(v, r) /\ pc[v] \in Working \cup Reporting
  BY NoRevisionIsNone DEF RecordInv, Orderly, TypeOK, WorkerTypeOK
<1> QED BY <1>1 DEF Undisturbed, OwnsLease, RecordInv, TypeOK, JobTypeOK

LEMMA StepRecords == RecordInv /\ [Next]_vars => RecordInv'
<1> SUFFICES ASSUME RecordInv, [Next]_vars PROVE \A r \in Revisions \ disturbed' : Orderly(r)'
  BY StepType DEF RecordInv
<1>0. TypeOK
  BY DEF RecordInv
<1>1. ASSUME NEW w \in Workers, WorkerStep(w) \/ Crash(w)
      PROVE  \A r \in Revisions \ disturbed' : Orderly(r)'
  BY <1>1, WorkerStepRecords
<1>2. ASSUME NEW w \in Workers, NEW q \in Revisions, ClaimNextProcessingJob(w, q)
      PROVE  \A r \in Revisions \ disturbed' : Orderly(r)'
  BY <1>2, ClaimRecords
<1>3. ASSUME NEW q \in Revisions, LeaseExpires(q)
      PROVE  \A r \in Revisions \ disturbed' : Orderly(r)'
  <2>1. UNCHANGED <<workerVars, jobStatus, leaseOwner, technical, overall, qc>> /\ jobStatus[q] = "running"
    BY <1>3 DEF LeaseExpires, analysisVars
  <2>2. /\ \A r \in Revisions \ {q} : leaseExpired'[r] = leaseExpired[r]
        /\ disturbed \subseteq disturbed'
        /\ q \notin disturbed' => \A v \in Workers : rev[v] # q
    BY <1>0, <1>3 DEF LeaseExpires, TypeOK, JobTypeOK
  <2>3. \A r \in Revisions \ {q} : RowKept(r)
    BY <2>1, <2>2 DEF RowKept
  <2> QED BY <2>1, <2>2, <2>3, OthersRecord
<1>4. CASE ReclaimExpiredProcessingJobs
  <2>1. UNCHANGED <<workerVars, disturbed, technical, overall, qc>>
    BY <1>4 DEF ReclaimExpiredProcessingJobs, analysisVars, historyVars
  <2>2. ASSUME NEW r \in Revisions, ~leaseExpired[r] PROVE RowKept(r)
    BY <1>4, <2>1, <2>2 DEF ReclaimExpiredProcessingJobs, RowKept
  <2>3. ASSUME NEW r \in Revisions, leaseExpired[r] PROVE jobStatus'[r] = "retry_wait"
    BY <1>0, <1>4, <2>3 DEF ReclaimExpiredProcessingJobs, TypeOK, JobTypeOK
  <2> QED BY <2>1, <2>2, <2>3, OthersRecord, AttendedJob
<1>5. ASSUME UNCHANGED <<workerVars, disturbed, qc, leaseOwner, leaseExpired>>,
             \A r \in Revisions :
               /\ jobStatus'[r] = IF jobStatus[r] = "absent" THEN jobStatus'[r] ELSE jobStatus[r]
               /\ jobStatus[r] = "absent" => jobStatus'[r] # "succeeded"
               /\ technical[r] = "complete" => technical'[r] = "complete"
               /\ overall[r] \in {"complete", "partial"} => overall'[r] = overall[r]
      PROVE  \A r \in Revisions \ disturbed' : Orderly(r)'
  <2>1. \A r \in Revisions : jobStatus[r] # "absent" => RowKept(r)
    BY <1>5 DEF RowKept
  <2> QED BY <1>5, <2>1, OthersRecord, AttendedJob
<1>6. CASE ReconcileMissingJobs
  <2>1. \A r \in Revisions : jobStatus'[r] # jobStatus[r] => jobStatus[r] = "absent" /\ jobStatus'[r] = "queued"
    BY <1>0, <1>6 DEF ReconcileMissingJobs, EnqueueJob, TypeOK, JobTypeOK
  <2> QED BY <1>5, <1>6, <2>1 DEF ReconcileMissingJobs, EnqueueJob, analysisVars, historyVars
<1>7. CASE SubmitCompletedDraft
  <2>1. \A r \in Revisions : jobStatus'[r] # jobStatus[r] => jobStatus[r] = "absent" /\ jobStatus'[r] = "queued"
    BY <1>0, <1>7 DEF SubmitCompletedDraft, EnqueueJob, TypeOK, JobTypeOK
  <2>2. \A r \in Revisions : /\ technical[r] = "complete" => technical'[r] = "complete"
                             /\ overall[r] \in {"complete", "partial"} => overall'[r] = overall[r]
    BY <1>0, <1>7 DEF SubmitCompletedDraft, TypeOK, AnalysisTypeOK
  <2> QED BY <1>5, <1>7, <2>1, <2>2 DEF SubmitCompletedDraft, EnqueueJob, historyVars
<1>8. ASSUME NEW q \in Revisions, RetryRevisionProcessing(q)
      PROVE  \A r \in Revisions \ disturbed' : Orderly(r)'
  <2>1. UNCHANGED <<workerVars, leaseOwner, leaseExpired, qc>> /\ disturbed \subseteq disturbed'
    BY <1>8 DEF RetryRevisionProcessing
  <2>2. \A r \in Revisions \ {q} : RowKept(r)
    BY <1>0, <1>8, <2>1 DEF RetryRevisionProcessing, RowKept, TypeOK, JobTypeOK, AnalysisTypeOK
  <2>3. CASE jobStatus[q] \in {"failed", "absent"} \/ overall[q] = "failed"
    <3>1. q \notin disturbed' => \A v \in Workers : rev[v] # q
      BY <1>8, <2>3 DEF RetryRevisionProcessing
    <3>2. jobStatus'[q] = "succeeded" => jobStatus[q] = "succeeded" /\ overall[q] = "failed"
      BY <1>0, <1>8, <2>3 DEF RetryRevisionProcessing, TypeOK, JobTypeOK
    <3>3. q \notin disturbed => ~(jobStatus[q] = "succeeded" /\ overall[q] = "failed")
      BY DEF RecordInv, Orderly, Recorded
    <3> QED BY <2>1, <2>2, <3>1, <3>2, <3>3, OthersRecord
  <2>4. CASE ~(jobStatus[q] \in {"failed", "absent"} \/ overall[q] = "failed")
    <3>1. RowKept(q)
      BY <1>0, <1>8, <2>1, <2>4 DEF RetryRevisionProcessing, RowKept, TypeOK, JobTypeOK, AnalysisTypeOK
    <3> QED BY <2>1, <2>2, <3>1, OthersRecord
  <2> QED BY <2>3, <2>4
<1>9. CASE StartReview \/ RequestChanges \/ CreateRevision \/ UNCHANGED vars
  <2>1. UNCHANGED <<workerVars, jobStatus, leaseOwner, leaseExpired, technical, overall, qc, disturbed>>
    BY <1>9 DEF StartReview, RequestChanges, CreateRevision, vars, jobVars, analysisVars, historyVars
  <2> QED BY <1>5, <2>1
<1> QED
  BY <1>1, <1>2, <1>3, <1>4, <1>6, <1>7, <1>8, <1>9 DEF Next, Environment

LEMMA InitRecords == Init => RecordInv
BY InitType, NoRevisionIsNone DEF Init, RecordInv, Orderly

\* For any number of workers, Revisions and attempts: where no two actors' writes could
\* overlap, a succeeded job left a complete analysis, with its issues and its warning.
THEOREM SucceededIsRecorded == Spec => []CompletedWorkIsRecorded
<1>1. RecordInv => CompletedWorkIsRecorded
  BY DEF RecordInv, Orderly, Recorded, CompletedWorkIsRecorded
<1> QED BY <1>1, InitRecords, StepRecords, PTL DEF Spec

-----------------------------------------------------------------------------
(* Steps.                                                                   *)

\* Whatever workers, owner, reviewers and operators do, the submission moves along
\* SUBMISSION_TRANSITIONS: in particular a late worker never takes a submission out of
\* review, and none brings one to review that is not being processed.
THEOREM LifecycleIsRespected == Spec => LifecycleSteps
<1>1. TypeOK /\ [Next]_vars => LifecycleStep
  <2> SUFFICES ASSUME TypeOK, [Next]_vars PROVE LifecycleStep
    OBVIOUS
  <2> USE DEF LifecycleStep, SubmissionTransitions
  <2>1. CASE \E w \in Workers : WorkerStep(w) \/ Crash(w)
    BY <2>1, WorkerSubmission DEF SubmissionStep
  <2>4. CASE \E w \in Workers, r \in Revisions : ClaimNextProcessingJob(w, r)
    BY <2>4 DEF ClaimNextProcessingJob, submissionVars
  <2>5. CASE \E r \in Revisions : LeaseExpires(r)
    BY <2>5 DEF LeaseExpires, submissionVars
  <2>6. CASE ReclaimExpiredProcessingJobs \/ ReconcileMissingJobs
             \/ \E r \in Revisions : RetryRevisionProcessing(r)
    BY <2>6 DEF ReclaimExpiredProcessingJobs, ReconcileMissingJobs, RetryRevisionProcessing, submissionVars
  <2>7. CASE SubmitCompletedDraft \/ StartReview \/ RequestChanges
    BY <2>7 DEF SubmitCompletedDraft, StartReview, RequestChanges
  <2>8. CASE CreateRevision
    <3>1. current + 1 \in Revisions
      BY <2>8 DEF CreateRevision, TypeOK, SubmissionTypeOK, Revisions
    <3> QED BY <2>8, <3>1 DEF CreateRevision, TypeOK, SubmissionTypeOK
  <2>9. CASE UNCHANGED vars
    BY <2>9 DEF vars, submissionVars
  <2> QED BY <2>1, <2>4, <2>5, <2>6, <2>7, <2>8, <2>9 DEF Next, Environment
<1> QED BY <1>1, TypeCorrectness, PTL DEF Spec, LifecycleSteps

\* Nothing reopens a succeeded job: the settling UPDATEs ask for a running one, an
\* enqueue for a missing one, a retry for a failed one.
THEOREM SucceededIsFinal == Spec => SucceededJobIsFinal
<1>1. ASSUME TypeOK, [Next]_vars, NEW r \in Revisions, jobStatus[r] = "succeeded"
      PROVE  jobStatus'[r] = "succeeded"
  <2>1. ASSUME NEW w \in Workers, WorkerStep(w) \/ Crash(w) PROVE jobStatus'[r] = "succeeded"
    <3>1. CASE UNCHANGED jobVars
      BY <1>1, <3>1 DEF jobVars
    <3>2. ASSUME NEW outcome, SettleJob(w, rev[w], outcome) PROVE jobStatus'[r] = "succeeded"
      BY <1>1, <3>2 DEF SettleJob, OwnsLease, TypeOK, JobTypeOK
    <3> QED BY <2>1, <3>1, <3>2, WorkerJobs
  <2>2. CASE \E w \in Workers, s \in Revisions : ClaimNextProcessingJob(w, s)
    BY <1>1, <2>2 DEF ClaimNextProcessingJob, Claimable, GrantLease, TypeOK, JobTypeOK
  <2>3. CASE \E s \in Revisions : LeaseExpires(s)
    BY <1>1, <2>3 DEF LeaseExpires
  <2>4. CASE ReclaimExpiredProcessingJobs
    BY <1>1, <2>4 DEF ReclaimExpiredProcessingJobs
  <2>5. CASE ReconcileMissingJobs \/ SubmitCompletedDraft
    BY <1>1, <2>5 DEF ReconcileMissingJobs, SubmitCompletedDraft, EnqueueJob, TypeOK, JobTypeOK
  <2>6. CASE \E s \in Revisions : RetryRevisionProcessing(s)
    BY <1>1, <2>6 DEF RetryRevisionProcessing, TypeOK, JobTypeOK
  <2>7. CASE StartReview \/ RequestChanges \/ CreateRevision
    BY <1>1, <2>7 DEF StartReview, RequestChanges, CreateRevision, jobVars
  <2>8. CASE UNCHANGED vars
    BY <1>1, <2>8 DEF vars, jobVars
  <2> QED BY <1>1, <2>1, <2>2, <2>3, <2>4, <2>5, <2>6, <2>7, <2>8 DEF Next, Environment
<1>2. TypeOK /\ [Next]_vars =>
        [\A r \in Revisions : jobStatus[r] = "succeeded" => jobStatus'[r] = "succeeded"]_vars
  BY <1>1
<1> QED BY <1>2, TypeCorrectness, PTL DEF Spec, SucceededJobIsFinal

-----------------------------------------------------------------------------
(* The processing queue is a leased queue.                                  *)

\* A Revision nobody enqueued has spent no attempt.
FreshJob == \A r \in Revisions : jobStatus[r] = "absent" => attempts[r] = 0

LEMMA StepFresh == TypeOK /\ FreshJob /\ [Next]_vars => FreshJob'
<1> SUFFICES ASSUME TypeOK, FreshJob, [Next]_vars, NEW r \in Revisions, jobStatus'[r] = "absent"
             PROVE  attempts'[r] = 0
  BY DEF FreshJob
<1> USE DEF FreshJob
<1>1. ASSUME NEW w \in Workers, WorkerStep(w) \/ Crash(w) PROVE attempts'[r] = 0
  <2>1. CASE UNCHANGED jobVars
    BY <2>1 DEF jobVars
  <2>2. ASSUME attempts' = attempts,
               NEW outcome \in {"succeeded", "retry_wait", "failed"}, SettleJob(w, rev[w], outcome)
        PROVE  attempts'[r] = 0
    BY <2>2 DEF SettleJob, TypeOK, JobTypeOK
  <2> QED BY <1>1, <2>1, <2>2, WorkerJobs
<1>2. CASE \E w \in Workers, s \in Revisions : ClaimNextProcessingJob(w, s)
  BY <1>2 DEF ClaimNextProcessingJob, GrantLease, TypeOK, JobTypeOK
<1>3. CASE \E s \in Revisions : LeaseExpires(s)
  BY <1>3 DEF LeaseExpires
<1>4. CASE ReclaimExpiredProcessingJobs
  BY <1>4 DEF ReclaimExpiredProcessingJobs
<1>5. CASE ReconcileMissingJobs \/ SubmitCompletedDraft
  BY <1>5 DEF ReconcileMissingJobs, SubmitCompletedDraft, EnqueueJob, TypeOK, JobTypeOK
<1>6. CASE \E s \in Revisions : RetryRevisionProcessing(s)
  BY <1>6 DEF RetryRevisionProcessing, TypeOK, JobTypeOK
<1>7. CASE StartReview \/ RequestChanges \/ CreateRevision \/ UNCHANGED vars
  BY <1>7 DEF StartReview, RequestChanges, CreateRevision, vars, jobVars
<1> QED
  BY <1>1, <1>2, <1>3, <1>4, <1>5, <1>6, <1>7 DEF Next, Environment

\* What a worker believes is untouched by a step of its own, or lost with it.
LEMMA BeliefStep ==
  ASSUME NEW w \in Workers, TypeOK, MovesOnly(w)
  PROVE  /\ pc'[w] \in Working => UNCHANGED <<HeldJob, HeldAttempt>>
         /\ pc'[w] \notin Working => /\ HeldJob' = [HeldJob EXCEPT ![w] = NoRevision]
                                    /\ HeldAttempt' = [HeldAttempt EXCEPT ![w] = 0]
BY DEF MovesOnly, HeldJob, HeldAttempt

LEMMA BeliefKept == UNCHANGED workerVars => UNCHANGED <<HeldJob, HeldAttempt>>
BY DEF workerVars, HeldJob, HeldAttempt

LEMMA JobStateKept == UNCHANGED jobStatus => UNCHANGED AbstractState
BY DEF AbstractState

\* One row changes its state.
LEMMA JobStateStep ==
  ASSUME NEW r \in Revisions, NEW s \in JobStatuses, TypeOK,
         jobStatus' = [jobStatus EXCEPT ![r] = s]
  PROVE  AbstractState' = [AbstractState EXCEPT ![r] = JobState[s]]
BY DEF AbstractState, TypeOK, JobTypeOK

LEMMA InitAbstract == Init => Abstract!Init
BY DEF Init, Abstract!Init, AbstractState, JobState, HeldJob, HeldAttempt, Working

\* Settling with the guard of the UPDATE satisfied is the abstract settlement ...
LEMMA SettleRefines ==
  ASSUME NEW w \in Workers, TypeOK, LeaseFencing, MovesOnly(w), pc[w] \in Working,
         NEW outcome \in {"succeeded", "retry_wait", "failed"},
         SettleJob(w, rev[w], outcome), attempts' = attempts,
         outcome = "retry_wait" => snapshot[w] < MaxAttempts,
         OwnsLease(w, rev[w])
  PROVE  Abstract!Next
<1> DEFINE r == rev[w]
<1>1. r \in Revisions /\ outcome \in JobStatuses
  BY BusyWorker DEF TypeOK, Working, JobStatuses
<1>2. jobStatus' = [jobStatus EXCEPT ![r] = outcome] /\ leaseOwner' = [leaseOwner EXCEPT ![r] = NoWorker]
  BY DEF SettleJob
<1>3. AbstractState' = [AbstractState EXCEPT ![r] = JobState[outcome]]
  BY <1>1, <1>2, JobStateStep
<1>4. snapshot[w] = attempts[r]
  BY <1>1 DEF LeaseFencing, Holds
<1>5. Abstract!LeaseIsCurrent(w, r)
  BY <1>1, <1>4 DEF Abstract!LeaseIsCurrent, HeldJob, HeldAttempt, AbstractState, JobState, OwnsLease
<1>6. /\ JobState[outcome] \in {"done", "dead", "waiting"}
      /\ JobState[outcome] = "waiting" => outcome = "retry_wait"
  BY DEF JobState
<1>7. \/ UNCHANGED <<HeldJob, HeldAttempt>>
      \/ /\ HeldJob' = [HeldJob EXCEPT ![w] = NoRevision]
         /\ HeldAttempt' = [HeldAttempt EXCEPT ![w] = 0]
  BY BeliefStep
<1>8. Abstract!Settle(w, r, JobState[outcome])
  BY <1>2, <1>3, <1>4, <1>5, <1>6, <1>7 DEF Abstract!Settle
<1> QED BY <1>1, <1>6, <1>8 DEF Abstract!Next

\* ... and every step that leaves the rows alone is a stutter or a lost belief.
LEMMA LoseRefines ==
  ASSUME NEW w \in Workers, TypeOK, MovesOnly(w), UNCHANGED <<jobStatus, attempts, leaseOwner>>
  PROVE  [Abstract!Next]_Abstract!vars
<1>1. CASE pc'[w] \in Working
  BY <1>1, BeliefStep, JobStateKept DEF Abstract!vars
<1>2. CASE pc'[w] \notin Working
  <2>1. Abstract!Lose(w)
    BY <1>2, BeliefStep, JobStateKept DEF Abstract!Lose
  <2> QED BY <2>1 DEF Abstract!Next
<1> QED BY <1>1, <1>2

LEMMA EnqueueRefines ==
  ASSUME NEW r \in Revisions, TypeOK, EnqueueJob(r), UNCHANGED workerVars
  PROVE  [Abstract!Next]_Abstract!vars
<1>1. UNCHANGED <<HeldJob, HeldAttempt, attempts, leaseOwner>>
  BY BeliefKept DEF EnqueueJob
<1>2. CASE jobStatus[r] = "absent"
  <2>1. jobStatus' = [jobStatus EXCEPT ![r] = "queued"]
    BY <1>2 DEF EnqueueJob
  <2>2. AbstractState' = [AbstractState EXCEPT ![r] = "waiting"]
    BY <2>1, JobStateStep DEF JobStatuses, JobState
  <2>3. AbstractState[r] = "none"
    BY <1>2 DEF AbstractState, JobState
  <2> QED BY <1>1, <2>2, <2>3 DEF Abstract!Next, Abstract!Enqueue
<1>3. CASE jobStatus[r] # "absent"
  <2>1. UNCHANGED jobStatus
    BY <1>3 DEF EnqueueJob, TypeOK, JobTypeOK
  <2> QED BY <1>1, <2>1, JobStateKept DEF Abstract!vars
<1> QED BY <1>2, <1>3

LEMMA StepRefines ==
  TypeOK /\ LeaseFencing /\ FreshJob /\ [Next]_vars => [Abstract!Next]_Abstract!vars
<1> SUFFICES ASSUME TypeOK, LeaseFencing, FreshJob, [Next]_vars PROVE [Abstract!Next]_Abstract!vars
  OBVIOUS
<1>1. ASSUME NEW w \in Workers, WorkerStep(w) \/ Crash(w) PROVE [Abstract!Next]_Abstract!vars
  <2>1. MovesOnly(w)
    BY <1>1, WorkerMoves DEF TypeOK
  <2>2. CASE UNCHANGED jobVars
    BY <2>1, <2>2, LoseRefines DEF jobVars
  <2>3. CASE MarkProcessingJobSucceeded(w)
    BY <2>1, <2>3, SettleRefines, LoseRefines DEF MarkProcessingJobSucceeded, SettleJob, Working
  <2>4. CASE MarkProcessingJobFailed(w)
    <3> DEFINE retry == pc[w] = "catch_retryable" /\ snapshot[w] < MaxAttempts
    <3>1. pc[w] \in Working /\ attempts' = attempts
      BY <2>4 DEF MarkProcessingJobFailed, Working
    <3>2. CASE retry
      BY <2>1, <2>4, <3>1, <3>2, SettleRefines, LoseRefines DEF MarkProcessingJobFailed, SettleJob
    <3>3. CASE ~retry
      BY <2>1, <2>4, <3>1, <3>3, SettleRefines, LoseRefines DEF MarkProcessingJobFailed, SettleJob
    <3> QED BY <3>2, <3>3
  <2>5. UNCHANGED jobVars \/ MarkProcessingJobSucceeded(w) \/ MarkProcessingJobFailed(w)
    BY <1>1 DEF WorkerStep, Crash, BeginRevisionProcessing, ClearTechnicalIssues, MeasureSourceFiles,
                UpsertQcIssues, CompleteTechnicalAnalysis, OpenCopyrightCheck, FinalizeComplete,
                MetadataFails, WarnMetadataUnavailable, FinalizePartial, Finalize, StepFails,
                FailTechnicalAnalysis, FailCopyrightCheck, jobVars
  <2> QED BY <2>2, <2>3, <2>4, <2>5
<1>2. ASSUME NEW w \in Workers, NEW r \in Revisions, ClaimNextProcessingJob(w, r)
      PROVE  [Abstract!Next]_Abstract!vars
  <2>1. /\ jobStatus' = [jobStatus EXCEPT ![r] = "running"]
        /\ attempts' = [attempts EXCEPT ![r] = @ + 1]
        /\ leaseOwner' = [leaseOwner EXCEPT ![r] = w]
        /\ attempts[r] < MaxAttempts /\ attempts'[r] = attempts[r] + 1
    BY <1>2 DEF ClaimNextProcessingJob, GrantLease, Claimable, TypeOK, JobTypeOK
  <2>2. AbstractState' = [AbstractState EXCEPT ![r] = "leased"]
    BY <2>1, JobStateStep DEF JobStatuses, JobState
  <2>3. AbstractState[r] \in {"waiting", "leased"}
    BY <1>2 DEF ClaimNextProcessingJob, Claimable, AbstractState, JobState
  <2>4. HeldJob[w] = NoRevision
    BY <1>2 DEF ClaimNextProcessingJob, HeldJob, Working
  <2>5. /\ HeldJob' = [HeldJob EXCEPT ![w] = r]
        /\ HeldAttempt' = [HeldAttempt EXCEPT ![w] = attempts[r] + 1]
    BY <1>2 DEF ClaimNextProcessingJob, Goto, HeldJob, HeldAttempt, Working, TypeOK, WorkerTypeOK
  <2>6. Abstract!Lease(w, r)
    BY <2>1, <2>2, <2>3, <2>4, <2>5 DEF Abstract!Lease
  <2> QED BY <2>6 DEF Abstract!Next
<1>3. CASE \E r \in Revisions : LeaseExpires(r)
  BY <1>3, BeliefKept, JobStateKept DEF LeaseExpires, Abstract!vars
<1>4. CASE ReclaimExpiredProcessingJobs
  <2> DEFINE expired == {r \in Revisions : jobStatus[r] = "running" /\ leaseExpired[r]}
  <2>1. /\ jobStatus' = [r \in Revisions |-> IF r \in expired THEN "retry_wait" ELSE jobStatus[r]]
        /\ leaseOwner' = [r \in Revisions |-> IF r \in expired THEN NoWorker ELSE leaseOwner[r]]
        /\ UNCHANGED <<attempts, workerVars>>
    BY <1>4 DEF ReclaimExpiredProcessingJobs
  <2>2. \A r \in expired : AbstractState[r] = "leased"
    BY DEF AbstractState, JobState
  <2>3. AbstractState' = [r \in Revisions |-> IF r \in expired THEN "waiting" ELSE AbstractState[r]]
    BY <2>1 DEF AbstractState, JobState
  <2>4. Abstract!Reclaim(expired)
    BY <2>1, <2>2, <2>3, BeliefKept DEF Abstract!Reclaim
  <2> QED BY <2>4 DEF Abstract!Next
<1>5. CASE ReconcileMissingJobs \/ SubmitCompletedDraft
  BY <1>5, EnqueueRefines DEF ReconcileMissingJobs, SubmitCompletedDraft, TypeOK, SubmissionTypeOK
<1>6. ASSUME NEW r \in Revisions, RetryRevisionProcessing(r) PROVE [Abstract!Next]_Abstract!vars
  <2>1. UNCHANGED <<HeldJob, HeldAttempt, leaseOwner>>
    BY <1>6, BeliefKept DEF RetryRevisionProcessing
  <2>2. CASE jobStatus[r] \in {"failed", "absent"}
    <3>1. /\ jobStatus' = [jobStatus EXCEPT ![r] = "queued"]
          /\ attempts' = [attempts EXCEPT ![r] = 0]
      BY <1>6, <2>2 DEF RetryRevisionProcessing
    <3>2. AbstractState' = [AbstractState EXCEPT ![r] = "waiting"]
      BY <2>1, <3>1, JobStateStep DEF JobStatuses, JobState
    <3>3. CASE jobStatus[r] = "failed"
      <4>1. AbstractState[r] = "dead"
        BY <2>1, <3>3 DEF AbstractState, JobState
      <4> QED BY <2>1, <3>1, <3>2, <4>1 DEF Abstract!Next, Abstract!Requeue
    <3>4. CASE jobStatus[r] = "absent"
      <4>1. AbstractState[r] = "none" /\ attempts' = attempts
        BY <2>1, <3>1, <3>4 DEF AbstractState, JobState, FreshJob, TypeOK, JobTypeOK
      <4> QED BY <2>1, <3>2, <4>1 DEF Abstract!Next, Abstract!Enqueue
    <3> QED BY <2>2, <3>3, <3>4
  <2>3. CASE jobStatus[r] \notin {"failed", "absent"}
    <3>1. UNCHANGED <<jobStatus, attempts>>
      BY <1>6, <2>3 DEF RetryRevisionProcessing, TypeOK, JobTypeOK
    <3> QED BY <2>1, <3>1, JobStateKept DEF Abstract!vars
  <2> QED BY <2>2, <2>3
<1>7. CASE StartReview \/ RequestChanges \/ CreateRevision \/ UNCHANGED vars
  BY <1>7, BeliefKept, JobStateKept
  DEF StartReview, RequestChanges, CreateRevision, vars, jobVars, Abstract!vars
<1> QED
  BY <1>1, <1>2, <1>3, <1>4, <1>5, <1>6, <1>7 DEF Next, Environment

\* The processing queue implements LeasedJob for every number of workers, Revisions,
\* attempts and requeues: one lease per job, one attempt per lease, settlement by the
\* latest lease only, no lease beyond max_attempts, done for good.
THEOREM QueueIsLeasedQueue == Spec => ImplementsLeasedJob
<1>1. Init => FreshJob
  BY DEF Init, FreshJob
<1>2. Spec => []FreshJob
  BY <1>1, StepFresh, TypeCorrectness, PTL DEF Spec
<1> QED BY <1>2, InitAbstract, StepRefines, TypeCorrectness, LeasesFence, PTL
        DEF Spec, ImplementsLeasedJob, Abstract!Spec
=============================================================================
