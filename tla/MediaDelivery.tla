---------------------------- MODULE MediaDelivery ----------------------------
(***************************************************************************)
(* Previews and download packages of published Tracks: their queue of      *)
(* delivery jobs, the workers, what they store and what a listener is      *)
(* served (src/lib/media, src/app/api/library, scripts/media-*.ts).        *)
(*                                                                         *)
(* One Track, which is published, withdrawn and republished at its one     *)
(* Revision.  A "subject" is what a job makes: the preview of the Track's  *)
(* audio (a playback artifact) or a download package.  The worker's lease  *)
(* is not renewed (MEDIA_JOB_LEASE_MS is five minutes and                  *)
(* MEDIA_PACKAGE_TIMEOUT_MS thirty), so it may expire at any step of the   *)
(* work.                                                                   *)
(***************************************************************************)
EXTENDS Naturals, FiniteSets

CONSTANTS
  MediaWorkers,      \* delivery workers
  MaxPackages,       \* bound: download packages
  MaxDeliveryJobs,   \* bound: delivery jobs
  MaxMediaAttempts   \* delivery_job.max_attempts

ASSUME MediaBoundAssumption ==
  /\ MaxPackages \in Nat
  /\ MaxDeliveryJobs \in Nat \ {0} /\ MaxMediaAttempts \in Nat \ {0}

Preview == <<"preview", 1>>
DownloadPackages == {"package"} \X (1 .. MaxPackages)
Subjects == {Preview} \cup DownloadPackages
DeliveryJobs == 1 .. MaxDeliveryJobs

VARIABLES
  publication,  \* track.publication_status
  media,        \* status of a playback_artifact or download_package
  delivery,     \* delivery_job: status, attempt_count, subject
  held,         \* delivery jobs whose lease_expires_at > now()
  generated,    \* subjects whose generated object exists
  generatedPart, \* subjects whose <key>.part file exists
  expired,      \* packages whose expires_at <= now()
  sweeping,     \* packages media-cleanup has removed, before it says so
  mediaWorker   \* per worker: step, job, and its claim's attempt_count

workVars == <<delivery, held>>
mediaStorage == <<generated, generatedPart>>
mediaVars == <<publication, media, workVars, mediaStorage, expired, sweeping, mediaWorker>>

NoDelivery == [step |-> "idle", job |-> 0, attempt |-> 0]
NoSubject == <<"none", 0>>

MediaInit ==
  /\ publication = "unpublished"
  /\ media = [s \in Subjects |-> "absent"]
  /\ delivery = [j \in DeliveryJobs |-> [status |-> "absent", attempts |-> 0, subject |-> NoSubject]]
  /\ held = {}
  /\ generated = {} /\ generatedPart = {}
  /\ expired = {} /\ sweeping = {}
  /\ mediaWorker = [w \in MediaWorkers |-> NoDelivery]

-----------------------------------------------------------------------------
(* The queue.                                                               *)

Active(j) == delivery[j].status \in {"queued", "running"}
ActiveFor(s) == {j \in DeliveryJobs : Active(j) /\ delivery[j].subject = s}

FreeJob(j) == delivery[j].status = "absent" /\ \A i \in 1 .. j - 1 : delivery[i].status # "absent"

QueueDelivery(j, s) ==
  delivery' = [delivery EXCEPT ![j] = [status |-> "queued", attempts |-> 0, subject |-> s]]

\* The artifact is inserted unless it is there; a job only for one that is
\* queued or failed, and only if the unique index finds none active.
EnqueuePlaybackArtifact(s) ==
  LET status == IF media[s] = "absent" THEN "queued" ELSE media[s] IN
  /\ media' = [media EXCEPT ![s] = status]
  /\ IF status \in {"queued", "failed"} /\ ActiveFor(s) = {}
     THEN \E j \in DeliveryJobs : FreeJob(j) /\ QueueDelivery(j, s)
     ELSE UNCHANGED delivery

\* publishLocked, whose transaction ends with the preview's artifact and job.
PublishForListening ==
  /\ publication # "published"
  /\ publication' = "published"
  /\ EnqueuePlaybackArtifact(Preview)
  /\ UNCHANGED <<held, mediaStorage, expired, sweeping, mediaWorker>>

WithdrawFromListening ==
  /\ publication = "published"
  /\ publication' = "withdrawn"
  /\ UNCHANGED <<media, delivery, held, mediaStorage, expired, sweeping, mediaWorker>>

\* A package of the same sources that is on its way or ready, once those that
\* have expired are marked.
Reusable(status) == status \in {"queued", "building", "ready"}

\* The index on queued, building and ready packages rejects a second one that
\* another request inserts at the same time: nothing is then written.
RequestDownloadPackage ==
  LET stale == {p \in DownloadPackages : media[p] = "ready" /\ p \in expired}
      swept == [s \in Subjects |-> IF s \in stale THEN "expired" ELSE media[s]]
      reuse == \E p \in DownloadPackages : Reusable(swept[p])
  IN
  /\ publication = "published"
  /\ \/ /\ reuse
        /\ media' = swept
        /\ UNCHANGED delivery
     \/ /\ ~reuse
        /\ \E p \in DownloadPackages, j \in DeliveryJobs :
             /\ media[p] = "absent" /\ \A q \in DownloadPackages : q[2] < p[2] => media[q] # "absent"
             /\ FreeJob(j)
             /\ media' = [swept EXCEPT ![p] = "queued"]
             /\ QueueDelivery(j, p)
  /\ UNCHANGED <<publication, held, mediaStorage, expired, sweeping, mediaWorker>>

\* delivery_job_attempts_check rejects the claim of a job whose attempts are
\* spent: claimJob throws, and nothing is written.
ClaimMediaJob(w, j) ==
  /\ mediaWorker[w].step = "idle"
  /\ delivery[j].status = "queued"
  /\ delivery[j].attempts < MaxMediaAttempts
  /\ delivery' = [delivery EXCEPT ![j].status = "running", ![j].attempts = @ + 1]
  /\ held' = held \cup {j}
  /\ mediaWorker' = [mediaWorker EXCEPT
       ![w] = [step |-> "begin", job |-> j, attempt |-> delivery[j].attempts + 1]]
  /\ UNCHANGED <<publication, media, mediaStorage, expired, sweeping>>

MediaLeaseExpires(j) ==
  /\ j \in held
  /\ held' = held \ {j}
  /\ UNCHANGED <<publication, media, delivery, mediaStorage, expired, sweeping, mediaWorker>>

-----------------------------------------------------------------------------
(* The worker.                                                              *)

SubjectOf(w) == delivery[mediaWorker[w].job].subject
MediaAt(w, step) == mediaWorker[w].step = step
AtWorkOn(s) == {w \in MediaWorkers : ~MediaAt(w, "idle") /\ SubjectOf(w) = s}
MediaGoes(w, step) == mediaWorker' = [mediaWorker EXCEPT ![w].step = step]

\* A tool, a source or a checksum fails while the preview or archive is made.
MediaWorkThrows(w) ==
  /\ MediaAt(w, "store")
  /\ MediaGoes(w, "failing")
  /\ UNCHANGED <<publication, media, workVars, mediaStorage, expired, sweeping>>

\* processPreview and processPackage up to the stored object's first byte.
MediaWorkBegins(w) ==
  LET s == SubjectOf(w) IN
  /\ MediaAt(w, "begin")
  /\ IF media[s] \in {"queued", "building"}
     THEN /\ media' = [media EXCEPT ![s] = "building"]
          /\ MediaGoes(w, IF s \in DownloadPackages /\ publication # "published" THEN "failing" ELSE "store")
     ELSE /\ MediaGoes(w, "failing")
          /\ UNCHANGED media
  /\ UNCHANGED <<publication, workVars, mediaStorage, expired, sweeping>>

\* storeGeneratedObject: the part is opened with "wx", linked and removed; its
\* catch removes the part of whoever is writing it.
OpenGeneratedPart(w) ==
  LET s == SubjectOf(w) IN
  /\ MediaAt(w, "store")
  /\ IF s \in generatedPart
     THEN generatedPart' = generatedPart \ {s} /\ MediaGoes(w, "failing")
     ELSE generatedPart' = generatedPart \cup {s} /\ MediaGoes(w, "link")
  /\ UNCHANGED <<publication, media, workVars, generated, expired, sweeping>>

\* Mutant: storeGeneratedObject removes the object as well when it fails.
DiscardOnConflict(w) ==
  LET s == SubjectOf(w) IN
  /\ MediaAt(w, "link")
  /\ IF s \in generatedPart /\ s \notin generated
     THEN generated' = generated \cup {s} /\ MediaGoes(w, "unlink") /\ UNCHANGED generatedPart
     ELSE generatedPart' = generatedPart \ {s} /\ generated' = generated \ {s} /\ MediaGoes(w, "failing")
  /\ UNCHANGED <<publication, media, workVars, expired, sweeping>>

LinkGeneratedObject(w) ==
  LET s == SubjectOf(w) IN
  /\ MediaAt(w, "link")
  /\ IF s \in generatedPart /\ s \notin generated
     THEN generated' = generated \cup {s} /\ MediaGoes(w, "unlink") /\ UNCHANGED generatedPart
     ELSE generatedPart' = generatedPart \ {s} /\ MediaGoes(w, "failing") /\ UNCHANGED generated
  /\ UNCHANGED <<publication, media, workVars, expired, sweeping>>

UnlinkGeneratedPart(w) ==
  LET s == SubjectOf(w) IN
  /\ MediaAt(w, "unlink")
  /\ generatedPart' = generatedPart \ {s}
  /\ MediaGoes(w, IF s \in generatedPart THEN "record" ELSE "failing")
  /\ UNCHANGED <<publication, media, workVars, generated, expired, sweeping>>

\* The artifact or package is made ready by its id alone.  A worker that gets no answer
\* fails what is recorded; a ROLLBACK throws then, and the object stays.
RecordGeneratedObject(w) ==
  LET s == SubjectOf(w) IN
  /\ MediaAt(w, "record")
  /\ media' = [media EXCEPT ![s] = "ready"]
  /\ expired' = expired \ {s}
  /\ \E answered \in BOOLEAN : MediaGoes(w, IF answered THEN "finish" ELSE "failing")
  /\ UNCHANGED <<publication, workVars, mediaStorage, sweeping>>

\* The preview's transaction fails: its object is removed again, unless the ROLLBACK
\* before that fails too.  A package's statement that fails leaves its object.
RecordingFails(w) ==
  LET s == SubjectOf(w) IN
  /\ MediaAt(w, "record")
  /\ \/ s = Preview /\ generated' = generated \ {s} /\ generatedPart' = generatedPart \ {s}
     \/ UNCHANGED mediaStorage
  /\ MediaGoes(w, "failing")
  /\ UNCHANGED <<publication, media, workVars, expired, sweeping>>

\* finishJob's statement, by the job's id.
JobSucceeds(j) ==
  /\ delivery' = [delivery EXCEPT ![j].status = "succeeded"]
  /\ held' = held \ {j}

FinishMediaJob(w) ==
  /\ MediaAt(w, "finish")
  /\ JobSucceeds(mediaWorker[w].job)
  /\ mediaWorker' = [mediaWorker EXCEPT ![w] = NoDelivery]
  /\ UNCHANGED <<publication, media, mediaStorage, expired, sweeping>>

\* finishJob throws, before or after its statement took effect: work that is ready is failed.
FinishMediaFails(w) ==
  /\ MediaAt(w, "finish")
  /\ JobSucceeds(mediaWorker[w].job) \/ UNCHANGED workVars
  /\ MediaGoes(w, "failing")
  /\ UNCHANGED <<publication, media, mediaStorage, expired, sweeping>>

AttemptsSpent(w) == mediaWorker[w].attempt >= MaxMediaAttempts

\* failJob's first statement decides by the attempt the worker claimed.  To
\* requeue beside another active job of the subject breaks a unique index.
FailMediaJob(w) ==
  LET j == mediaWorker[w].job IN
  /\ MediaAt(w, "failing")
  /\ IF ~AttemptsSpent(w) /\ ActiveFor(SubjectOf(w)) \ {j} # {}
     THEN /\ mediaWorker' = [mediaWorker EXCEPT ![w] = NoDelivery]
          /\ UNCHANGED workVars
     ELSE /\ delivery' = [delivery EXCEPT
               ![j].status = IF AttemptsSpent(w) THEN "failed" ELSE "queued"]
          /\ held' = held \ {j}
          /\ MediaGoes(w, "subject")
  /\ UNCHANGED <<publication, media, mediaStorage, expired, sweeping>>

FailMediaSubject(w) ==
  LET s == SubjectOf(w) IN
  /\ MediaAt(w, "subject")
  /\ media' = [media EXCEPT
       ![s] = IF AttemptsSpent(w) THEN "failed" ELSE IF s = Preview THEN "queued" ELSE @]
  /\ mediaWorker' = [mediaWorker EXCEPT ![w] = NoDelivery]
  /\ UNCHANGED <<publication, workVars, mediaStorage, expired, sweeping>>

MediaWorkerCrashes(w) ==
  /\ ~MediaAt(w, "idle")
  /\ mediaWorker' = [mediaWorker EXCEPT ![w] = NoDelivery]
  /\ UNCHANGED <<publication, media, workVars, mediaStorage, expired, sweeping>>

-----------------------------------------------------------------------------
(* Scripts.                                                                 *)

LeaseLost(j) == delivery[j].status = "running" /\ j \notin held

RecoverMediaLeases ==
  /\ \E j \in DeliveryJobs : LeaseLost(j)
  /\ delivery' = [j \in DeliveryJobs |->
       IF LeaseLost(j)
       THEN [delivery[j] EXCEPT
               !.status = IF delivery[j].attempts >= MaxMediaAttempts THEN "failed" ELSE "queued"]
       ELSE delivery[j]]
  /\ UNCHANGED <<publication, media, held, mediaStorage, expired, sweeping, mediaWorker>>

\* An Admin's reclaimExpiredProcessingJobs: attempts are not looked at.
ReclaimDeliveryJobs ==
  /\ \E j \in DeliveryJobs : LeaseLost(j)
  /\ delivery' = [j \in DeliveryJobs |->
       IF LeaseLost(j) THEN [delivery[j] EXCEPT !.status = "queued"] ELSE delivery[j]]
  /\ UNCHANGED <<publication, media, held, mediaStorage, expired, sweeping, mediaWorker>>

\* The rest of reconcileMediaJobs.
FillMissingMedia ==
  /\ publication = "published"
  /\ EnqueuePlaybackArtifact(Preview)
  /\ UNCHANGED <<publication, held, mediaStorage, expired, sweeping, mediaWorker>>

\* The retention is hours: no worker is still at work on a package when it ends.
PackageExpires(p) ==
  /\ media[p] = "ready" /\ p \notin expired
  /\ AtWorkOn(p) = {}
  /\ expired' = expired \cup {p}
  /\ UNCHANGED <<publication, media, workVars, mediaStorage, sweeping, mediaWorker>>

SweepPackage(p) ==
  /\ media[p] = "ready" /\ p \in expired
  /\ generated' = generated \ {p}
  /\ generatedPart' = generatedPart \ {p}
  /\ sweeping' = sweeping \cup {p}
  /\ UNCHANGED <<publication, media, workVars, expired, mediaWorker>>

RecordSweep(p) ==
  /\ p \in sweeping
  /\ media' = [media EXCEPT ![p] = "expired"]
  /\ sweeping' = sweeping \ {p}
  /\ UNCHANGED <<publication, workVars, mediaStorage, expired, mediaWorker>>

-----------------------------------------------------------------------------
MediaNext ==
  \/ PublishForListening
  \/ WithdrawFromListening
  \/ RequestDownloadPackage
  \/ RecoverMediaLeases
  \/ ReclaimDeliveryJobs
  \/ FillMissingMedia
  \/ \E j \in DeliveryJobs : MediaLeaseExpires(j)
  \/ \E w \in MediaWorkers :
       \/ \E j \in DeliveryJobs : ClaimMediaJob(w, j)
       \/ MediaWorkBegins(w)
       \/ MediaWorkThrows(w)
       \/ OpenGeneratedPart(w)
       \/ LinkGeneratedObject(w)
       \/ UnlinkGeneratedPart(w)
       \/ RecordGeneratedObject(w)
       \/ RecordingFails(w)
       \/ FinishMediaJob(w)
       \/ FinishMediaFails(w)
       \/ FailMediaJob(w)
       \/ FailMediaSubject(w)
       \/ MediaWorkerCrashes(w)
  \/ \E p \in DownloadPackages : PackageExpires(p) \/ SweepPackage(p) \/ RecordSweep(p)

MediaSpec == MediaInit /\ [][MediaNext]_mediaVars

-----------------------------------------------------------------------------
(* What a listener is served, while the Track is published.                 *)

ServedPreviews == {s \in {Preview} : publication = "published" /\ media[s] = "ready"}

ServedPackages ==
  {p \in DownloadPackages : publication = "published" /\ media[p] = "ready" /\ p \notin expired}

\* Every preview and package a listener is offered as ready is stored.  A late
\* worker, a failing transaction and the clean-up all remove or replace
\* objects under the same key.
ReadyMediaIsStored ==
  ServedPreviews \cup ServedPackages \subseteq generated

MediaTypeOK ==
  /\ publication \in {"unpublished", "published", "withdrawn"}
  /\ media \in [Subjects -> {"absent", "queued", "building", "ready", "failed", "expired"}]
  /\ delivery \in [DeliveryJobs ->
       [status : {"absent", "queued", "running", "succeeded", "failed"},
        attempts : 0 .. MaxMediaAttempts, subject : Subjects \cup {NoSubject}]]
  /\ held \subseteq {j \in DeliveryJobs : delivery[j].status # "absent"}
  /\ generated \subseteq Subjects /\ generatedPart \subseteq Subjects
  /\ expired \subseteq DownloadPackages /\ sweeping \subseteq DownloadPackages
  /\ mediaWorker \in [MediaWorkers ->
       [step : {"idle", "begin", "store", "link", "unlink", "record", "finish", "failing", "subject"},
        job : 0 .. MaxDeliveryJobs, attempt : 0 .. MaxMediaAttempts]]
  /\ \A s \in Subjects : Cardinality(ActiveFor(s)) <= 1

\* A job in the queue can be claimed: delivery_job_attempts_check, which bounds
\* the attempts, does not stand in the way of the claim's UPDATE.
QueuedJobsCanBeClaimed ==
  \A j \in DeliveryJobs : delivery[j].status = "queued" => delivery[j].attempts < MaxMediaAttempts

=============================================================================
