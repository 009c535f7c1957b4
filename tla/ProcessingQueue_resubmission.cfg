\* The producer submits again without uploading a new Revision.
SPECIFICATION Spec
CONSTANTS
  Workers = {w1, w2}
  MaxRevision = 1
  MaxAttempts = 2
  MaxRequeues = 0
  NoWorker = NoWorker
PROPERTY SubmittedRevisionWasDraft
CHECK_DEADLOCK FALSE
