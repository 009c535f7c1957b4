\* Two Revisions, two workers, one attempt and one requeue by the owner: late workers
\* of an earlier Revision.
SPECIFICATION Spec
CONSTANTS
  Workers = {w1, w2}
  MaxRevision = 2
  MaxAttempts = 1
  MaxRequeues = 1
  NoWorker = NoWorker
SYMMETRY Symmetry
INVARIANTS
  ReviewableOnlyAfterTechnical
  SucceededJobIsReviewable
  CopyrightAfterTechnical
PROPERTIES
  LifecycleSteps
CHECK_DEADLOCK FALSE
