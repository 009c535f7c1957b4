\* A worker that dies during the last attempt.
SPECIFICATION Spec
CONSTANTS
  Workers = {w1, w2}
  MaxRevision = 1
  MaxAttempts = 2
  MaxRequeues = 0
  NoWorker = NoWorker
INVARIANT ExpiredLeaseIsClaimable
CHECK_DEADLOCK FALSE
