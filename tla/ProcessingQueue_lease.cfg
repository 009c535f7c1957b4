\* One Revision, two workers, two attempts, one retry by the owner: expired leases, late workers,
\* crashes, and a retry under a worker that still writes its failure.
SPECIFICATION FairSpec
CONSTANTS
  Workers = {w1, w2}
  MaxRevision = 1
  MaxAttempts = 2
  MaxRequeues = 1
  NoWorker = NoWorker
INVARIANT CompletedWorkIsRecorded
PROPERTIES
  ImplementsLeasedJob
  SubmissionSettles
\* A failed job waits for its owner, who need not come back.
CHECK_DEADLOCK FALSE
