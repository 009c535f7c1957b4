\* Two workers of a job: a lease of the last attempt runs out, or the worker that
\* outlived the one before fails.
SPECIFICATION MediaSpec
CONSTANTS
  MediaWorkers = {w1, w2}
  MaxPackages = 0
  MaxDeliveryJobs = 1
  MaxMediaAttempts = 2
INVARIANT QueuedJobsCanBeClaimed
CHECK_DEADLOCK FALSE
