----------------------------- MODULE LeasedJob -----------------------------
(***************************************************************************)
(* What a durable, leased job queue of SoundVault promises, whatever the   *)
(* job does: a job is leased by one worker at a time, an attempt is spent  *)
(* each time it is leased, only the worker that holds the latest lease can *)
(* settle it, a settled-as-done job is done for good, and a job whose      *)
(* attempts are spent is never leased again until somebody requeues it.    *)
(*                                                                         *)
(* There is no clock here: "leased" jobs may be leased again, which stands *)
(* for a lease that has run out.  The worker that held the old lease does  *)
(* not notice; its belief is heldJob/heldAttempt.                          *)
(***************************************************************************)
EXTENDS Naturals

CONSTANTS
  Jobs,          \* the rows of the job table
  Workers,       \* worker processes
  MaxAttempts,   \* max_attempts of every job
  NoJob,         \* what an idle worker holds
  NoWorker       \* the lease owner of a job nobody leases

VARIABLES
  state,         \* Jobs -> {"none", "waiting", "leased", "done", "dead"}
  attempts,      \* Jobs -> leases granted since the job was last requeued
  holder,        \* Jobs -> the worker the table names as lease owner
  heldJob,       \* Workers -> the job the worker believes it holds
  heldAttempt    \* Workers -> the attempt number it was given with it

vars == <<state, attempts, holder, heldJob, heldAttempt>>

Init ==
  /\ state \in [Jobs -> {"none", "waiting"}]
  /\ attempts = [j \in Jobs |-> 0]
  /\ holder = [j \in Jobs |-> NoWorker]
  /\ heldJob = [w \in Workers |-> NoJob]
  /\ heldAttempt = [w \in Workers |-> 0]

\* The lease a worker believes in is the one the table records.
LeaseIsCurrent(w, j) ==
  /\ heldJob[w] = j
  /\ state[j] = "leased"
  /\ holder[j] = w
  /\ attempts[j] = heldAttempt[w]

Enqueue(j) ==
  /\ state[j] = "none"
  /\ state' = [state EXCEPT ![j] = "waiting"]
  /\ UNCHANGED <<attempts, holder, heldJob, heldAttempt>>

Lease(w, j) ==
  /\ heldJob[w] = NoJob
  /\ state[j] \in {"waiting", "leased"}
  /\ attempts[j] < MaxAttempts
  /\ state' = [state EXCEPT ![j] = "leased"]
  /\ attempts' = [attempts EXCEPT ![j] = @ + 1]
  /\ holder' = [holder EXCEPT ![j] = w]
  /\ heldJob' = [heldJob EXCEPT ![w] = j]
  /\ heldAttempt' = [heldAttempt EXCEPT ![w] = attempts'[j]]

\* The worker forgets its job: it crashed, or it found its lease lost.
Lose(w) ==
  /\ heldJob' = [heldJob EXCEPT ![w] = NoJob]
  /\ heldAttempt' = [heldAttempt EXCEPT ![w] = 0]
  /\ UNCHANGED <<state, attempts, holder>>

\* The current holder settles its job: done, dead, or back in the queue when
\* an attempt is left.  It may miss the acknowledgement and go on believing.
Settle(w, j, outcome) ==
  /\ LeaseIsCurrent(w, j)
  /\ outcome = "waiting" => attempts[j] < MaxAttempts
  /\ state' = [state EXCEPT ![j] = outcome]
  /\ holder' = [holder EXCEPT ![j] = NoWorker]
  /\ \/ /\ heldJob' = [heldJob EXCEPT ![w] = NoJob]
        /\ heldAttempt' = [heldAttempt EXCEPT ![w] = 0]
     \/ UNCHANGED <<heldJob, heldAttempt>>
  /\ UNCHANGED attempts

\* An operator takes expired leases away, of several jobs at once.
Reclaim(expired) ==
  /\ \A j \in expired : state[j] = "leased"
  /\ state' = [j \in Jobs |-> IF j \in expired THEN "waiting" ELSE state[j]]
  /\ holder' = [j \in Jobs |-> IF j \in expired THEN NoWorker ELSE holder[j]]
  /\ UNCHANGED <<attempts, heldJob, heldAttempt>>

\* An operator gives a dead job a fresh set of attempts.
Requeue(j) ==
  /\ state[j] = "dead"
  /\ state' = [state EXCEPT ![j] = "waiting"]
  /\ attempts' = [attempts EXCEPT ![j] = 0]
  /\ UNCHANGED <<holder, heldJob, heldAttempt>>

Next ==
  \/ \E j \in Jobs : Enqueue(j) \/ Requeue(j)
  \/ \E expired \in SUBSET Jobs : Reclaim(expired)
  \/ \E w \in Workers : Lose(w)
  \/ \E w \in Workers, j \in Jobs :
       \/ Lease(w, j)
       \/ \E outcome \in {"done", "dead", "waiting"} : Settle(w, j, outcome)

Spec == Init /\ [][Next]_vars
=============================================================================
