\* A worker that outlives its lease and then fails for good.
SPECIFICATION Spec
CONSTANTS
  Workers = {w1, w2}
  MaxRevision = 1
  MaxAttempts = 2
  MaxRequeues = 0
  NoWorker = NoWorker
INVARIANT SucceededAnalysisStands
CHECK_DEADLOCK FALSE
