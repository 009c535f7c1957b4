------------------------ MODULE MediaDelivery_proofs ------------------------
(***************************************************************************)
(* What a listener is offered is stored, for any number of workers, jobs   *)
(* and packages.                                                           *)
(***************************************************************************)
EXTENDS MediaDelivery, FiniteSetTheorems, TLAPS

MediaStates == {"absent", "queued", "building", "ready", "failed", "expired"}

DeliveryRows ==
  [status : {"absent", "queued", "running", "succeeded", "failed"},
   attempts : 0 .. MaxMediaAttempts, subject : Subjects \cup {NoSubject}]

MediaSteps == {"idle", "begin", "store", "link", "unlink", "record", "finish", "failing", "subject"}

Claims == [step : MediaSteps, job : 0 .. MaxDeliveryJobs, attempt : 0 .. MaxMediaAttempts]

\* MediaTypeOK without what the unique index keeps.
MediaTypes ==
  /\ publication \in {"unpublished", "published", "withdrawn"}
  /\ media \in [Subjects -> MediaStates]
  /\ delivery \in [DeliveryJobs -> DeliveryRows]
  /\ held \subseteq {j \in DeliveryJobs : delivery[j].status # "absent"}
  /\ generated \subseteq Subjects /\ generatedPart \subseteq Subjects
  /\ expired \subseteq DownloadPackages /\ sweeping \subseteq DownloadPackages
  /\ mediaWorker \in [MediaWorkers -> Claims]

\* A job has a subject, a package with a job has been inserted, and a worker has a job.
JobsAreWhole ==
  /\ \A j \in DeliveryJobs : delivery[j].status # "absent" => delivery[j].subject \in Subjects
  /\ \A j \in DeliveryJobs :
       delivery[j].subject \in DownloadPackages => media[delivery[j].subject] # "absent"
  /\ \A w \in MediaWorkers : ~MediaAt(w, "idle") =>
       mediaWorker[w].job \in DeliveryJobs /\ delivery[mediaWorker[w].job].status # "absent"

\* Of the jobs of one subject one is queued or running.
OneIsActive ==
  \A i, j \in DeliveryJobs :
    Active(i) /\ Active(j) /\ delivery[i].subject = delivery[j].subject => i = j

Storing(w) == mediaWorker[w].step \in {"store", "link", "unlink", "record"}
Linked(w) == mediaWorker[w].step \in {"unlink", "record"}

\* Of the workers that a lost lease may have set to the same subject one can link its
\* object.  Until it has recorded it nothing is offered, so the clean-up of its own
\* failure takes away nothing that is; and nobody stores a package that has expired.
LinkedIsAlone ==
  /\ \A w \in MediaWorkers : Linked(w) => SubjectOf(w) \in generated /\ media[SubjectOf(w)] # "ready"
  /\ \A v, w \in MediaWorkers : Linked(v) /\ Linked(w) /\ SubjectOf(v) = SubjectOf(w) => v = w

ExpiredIsLeftAlone ==
  /\ \A p \in expired : media[p] \in {"ready", "expired", "failed"}
  /\ \A w \in MediaWorkers : Storing(w) => SubjectOf(w) \notin expired
  /\ sweeping \subseteq expired

ReadyIsGenerated == \A s \in Subjects : media[s] = "ready" /\ s \notin expired => s \in generated

StoringInv == LinkedIsAlone /\ ExpiredIsLeftAlone /\ ReadyIsGenerated

MediaInv == MediaTypes /\ JobsAreWhole /\ OneIsActive /\ StoringInv

-----------------------------------------------------------------------------
LEMMA SubjectNames ==
  /\ Preview \in Subjects /\ Preview \notin DownloadPackages
  /\ DownloadPackages \subseteq Subjects /\ NoSubject \notin Subjects
  /\ Subjects \ {Preview} = DownloadPackages
BY DEF Subjects, Preview, DownloadPackages, NoSubject

LEMMA MediaStarts == MediaInit => MediaInv
<1> SUFFICES ASSUME MediaInit PROVE MediaInv
  OBVIOUS
<1> USE DEF MediaInit, NoDelivery
<1>1. MediaTypes
  BY MediaBoundAssumption
     DEF MediaTypes, MediaStates, DeliveryRows, Claims, MediaSteps
<1>2. JobsAreWhole
  BY SubjectNames DEF JobsAreWhole, MediaAt
<1>3. OneIsActive
  BY DEF OneIsActive, Active
<1>4. StoringInv
  BY DEF StoringInv, LinkedIsAlone, ExpiredIsLeftAlone, ReadyIsGenerated, Linked, Storing
<1> QED BY <1>1, <1>2, <1>3, <1>4 DEF MediaInv

\* At most one active job, counted.
LEMMA MediaTypesHold == MediaInv => MediaTypeOK
<1> SUFFICES ASSUME MediaInv PROVE MediaTypeOK
  OBVIOUS
<1>1. ASSUME NEW s \in Subjects PROVE Cardinality(ActiveFor(s)) <= 1
  <2>1. CASE ActiveFor(s) = {}
    BY <2>1, FS_EmptySet
  <2>2. ASSUME NEW j \in ActiveFor(s) PROVE Cardinality(ActiveFor(s)) <= 1
    <3>1. ActiveFor(s) = {j}
      BY DEF ActiveFor, MediaInv, OneIsActive
    <3> QED BY <3>1, FS_Singleton
  <2> QED BY <2>1, <2>2
<1> QED BY <1>1 DEF MediaInv, MediaTypes, MediaTypeOK, MediaStates, DeliveryRows, Claims, MediaSteps

\* What is served is ready, and has not expired.
LEMMA GeneratedIsServed == MediaInv => ReadyMediaIsStored
BY SubjectNames
   DEF MediaInv, MediaTypes, StoringInv, ReadyIsGenerated, ReadyMediaIsStored, ServedPreviews, ServedPackages

-----------------------------------------------------------------------------
(* Steps of a worker that leave the queue alone.                            *)

\* The jobs and their subjects are what they were; one worker goes on.
LEMMA WorkerGoes ==
  ASSUME MediaInv, NEW w \in MediaWorkers, ~MediaAt(w, "idle"),
         NEW step \in MediaSteps, MediaGoes(w, step), UNCHANGED <<publication, workVars>>,
         media' \in [Subjects -> MediaStates],
         \A p \in DownloadPackages : media'[p] = "absent" => media[p] = "absent",
         generated' \subseteq Subjects, generatedPart' \subseteq Subjects,
         expired' \subseteq DownloadPackages, sweeping' \subseteq DownloadPackages
  PROVE  /\ MediaTypes' /\ JobsAreWhole' /\ OneIsActive'
         /\ mediaWorker'[w].step = step
         /\ \A v \in MediaWorkers \ {w} : mediaWorker'[v] = mediaWorker[v]
         /\ \A v \in MediaWorkers : SubjectOf(v)' = SubjectOf(v)
         /\ SubjectOf(w) \in Subjects
<1> USE DEF MediaInv, MediaGoes, workVars
<1>1. mediaWorker \in [MediaWorkers -> Claims]
  BY DEF MediaTypes
<1>2. mediaWorker' \in [MediaWorkers -> Claims]
  BY <1>1 DEF Claims
<1>3. MediaTypes'
  BY <1>2 DEF MediaTypes
<1>4. /\ mediaWorker'[w].step = step
      /\ \A v \in MediaWorkers \ {w} : mediaWorker'[v] = mediaWorker[v]
      /\ \A v \in MediaWorkers : mediaWorker'[v].job = mediaWorker[v].job
  BY <1>1 DEF Claims
<1>5. JobsAreWhole'
  <2>1. \A v \in MediaWorkers : mediaWorker'[v].step # "idle" => mediaWorker[v].step # "idle"
    BY <1>4 DEF MediaAt
  <2>2. \A v \in MediaWorkers : ~MediaAt(v, "idle")' =>
          (mediaWorker[v].job \in DeliveryJobs /\ delivery[mediaWorker[v].job].status # "absent")'
    BY <1>4, <2>1 DEF JobsAreWhole, MediaAt
  <2>3. \A j \in DeliveryJobs :
          delivery'[j].subject \in DownloadPackages => media'[delivery'[j].subject] # "absent"
    BY DEF JobsAreWhole
  <2> QED BY <2>2, <2>3 DEF JobsAreWhole
<1>6. OneIsActive'
  BY DEF OneIsActive, Active
<1>7. SubjectOf(w) \in Subjects
  BY DEF SubjectOf, JobsAreWhole
<1> QED BY <1>3, <1>4, <1>5, <1>6, <1>7 DEF SubjectOf

\* The work begins: only what was queued or being built is.
LEMMA BeginKeeps ==
  ASSUME MediaInv, NEW w \in MediaWorkers, MediaWorkBegins(w)
  PROVE  MediaInv'
<1> DEFINE s == SubjectOf(w)
<1>1. ~MediaAt(w, "idle") /\ s \in Subjects
  BY DEF MediaWorkBegins, MediaAt, MediaInv, JobsAreWhole, SubjectOf
<1>2. CASE media[s] \in {"queued", "building"}
  <2> DEFINE step == IF s \in DownloadPackages /\ publication # "published" THEN "failing" ELSE "store"
  <2>1. media' = [media EXCEPT ![s] = "building"] /\ MediaGoes(w, step)
    BY <1>2 DEF MediaWorkBegins
  <2>2. media' \in [Subjects -> MediaStates]
    BY <2>1 DEF MediaInv, MediaTypes, MediaStates
  <2>3. /\ MediaTypes' /\ JobsAreWhole' /\ OneIsActive'
        /\ mediaWorker'[w].step = step
        /\ \A v \in MediaWorkers \ {w} : mediaWorker'[v] = mediaWorker[v]
        /\ \A v \in MediaWorkers : SubjectOf(v)' = SubjectOf(v)
    <3>1. \A p \in DownloadPackages : media'[p] = "absent" => media[p] = "absent"
      BY <2>1, SubjectNames DEF MediaInv, MediaTypes
    <3> QED BY <1>1, <2>1, <2>2, <3>1, WorkerGoes DEF MediaWorkBegins, MediaSteps, MediaInv, MediaTypes, mediaStorage
  <2>4. StoringInv'
    <3>1. s \notin expired
      BY <1>2 DEF MediaInv, StoringInv, ExpiredIsLeftAlone
    <3>2. media \in [Subjects -> MediaStates]
      BY DEF MediaInv, MediaTypes
    <3>3. LinkedIsAlone'
      BY <2>1, <2>3, <3>2 DEF MediaWorkBegins, mediaStorage, LinkedIsAlone, Linked, MediaInv, StoringInv
    <3>4. ExpiredIsLeftAlone'
      <4>1. \A p \in expired' : media'[p] \in {"ready", "expired", "failed"}
        BY <2>1, <3>1, <3>2 DEF MediaWorkBegins, ExpiredIsLeftAlone, MediaInv, StoringInv
      <4>2. \A v \in MediaWorkers : Storing(v)' => SubjectOf(v)' \notin expired'
        BY <2>3, <3>1 DEF MediaWorkBegins, ExpiredIsLeftAlone, Storing, MediaInv, StoringInv
      <4> QED BY <4>1, <4>2 DEF MediaWorkBegins, ExpiredIsLeftAlone, MediaInv, StoringInv
    <3>5. ReadyIsGenerated'
      BY <2>1, <3>2 DEF MediaWorkBegins, mediaStorage, ReadyIsGenerated, MediaInv, StoringInv
    <3> QED BY <3>3, <3>4, <3>5 DEF StoringInv
  <2> QED BY <2>3, <2>4 DEF MediaInv
<1>3. CASE media[s] \notin {"queued", "building"}
  <2>1. UNCHANGED media /\ MediaGoes(w, "failing")
    BY <1>3 DEF MediaWorkBegins
  <2>2. /\ MediaTypes' /\ JobsAreWhole' /\ OneIsActive'
        /\ mediaWorker'[w].step = "failing"
        /\ \A v \in MediaWorkers \ {w} : mediaWorker'[v] = mediaWorker[v]
        /\ \A v \in MediaWorkers : SubjectOf(v)' = SubjectOf(v)
    BY <1>1, <2>1, WorkerGoes DEF MediaWorkBegins, MediaSteps, MediaInv, MediaTypes, mediaStorage
  <2> QED BY <2>1, <2>2
      DEF MediaWorkBegins, mediaStorage, MediaInv, StoringInv, LinkedIsAlone, ExpiredIsLeftAlone, ReadyIsGenerated, Linked, Storing
<1> QED BY <1>2, <1>3

\* A worker that goes on to where it has not linked, or that has linked already, while
\* what is offered and generated stays, disturbs nobody.
LEMMA QuietStep ==
  ASSUME MediaInv, NEW w \in MediaWorkers, ~MediaAt(w, "idle"),
         NEW step \in MediaSteps, MediaGoes(w, step),
         step \in {"store", "link"} => Storing(w),
         step \in {"unlink", "record"} => Linked(w),
         generatedPart' \subseteq Subjects,
         UNCHANGED <<publication, media, workVars, generated, expired, sweeping>>
  PROVE  MediaInv'
<1>1. /\ MediaTypes' /\ JobsAreWhole' /\ OneIsActive'
      /\ mediaWorker'[w].step = step
      /\ \A v \in MediaWorkers \ {w} : mediaWorker'[v] = mediaWorker[v]
      /\ \A v \in MediaWorkers : SubjectOf(v)' = SubjectOf(v)
  BY WorkerGoes DEF MediaInv, MediaTypes
<1>2. \A v \in MediaWorkers : (Linked(v)' => Linked(v)) /\ (Storing(v)' => Storing(v))
  BY <1>1 DEF Linked, Storing
<1>3. LinkedIsAlone'
  BY <1>1, <1>2 DEF LinkedIsAlone, MediaInv, StoringInv
<1>4. ExpiredIsLeftAlone' /\ ReadyIsGenerated'
  BY <1>1, <1>2 DEF ExpiredIsLeftAlone, ReadyIsGenerated, MediaInv, StoringInv
<1> QED BY <1>1, <1>3, <1>4 DEF MediaInv, StoringInv

LEMMA QuietStepsKeep ==
  ASSUME MediaInv, NEW w \in MediaWorkers,
         MediaWorkThrows(w) \/ OpenGeneratedPart(w) \/ UnlinkGeneratedPart(w)
  PROVE  MediaInv'
<1>1. CASE MediaWorkThrows(w)
  BY <1>1, QuietStep DEF MediaWorkThrows, MediaAt, MediaSteps, Storing, Linked, mediaStorage, MediaInv, MediaTypes
<1>2. CASE OpenGeneratedPart(w)
  <2>1. SubjectOf(w) \in Subjects /\ ~MediaAt(w, "idle") /\ Storing(w)
    BY <1>2 DEF OpenGeneratedPart, MediaAt, Storing, MediaInv, JobsAreWhole, SubjectOf
  <2>2. generatedPart' \subseteq Subjects
    BY <1>2, <2>1 DEF OpenGeneratedPart, MediaInv, MediaTypes
  <2>3. MediaGoes(w, "failing") \/ MediaGoes(w, "link")
    BY <1>2 DEF OpenGeneratedPart
  <2> QED BY <1>2, <2>1, <2>2, <2>3, QuietStep DEF OpenGeneratedPart, MediaSteps
<1>3. CASE UnlinkGeneratedPart(w)
  <2>1. SubjectOf(w) \in Subjects /\ ~MediaAt(w, "idle") /\ Linked(w)
    BY <1>3 DEF UnlinkGeneratedPart, MediaAt, Linked, MediaInv, JobsAreWhole, SubjectOf
  <2>2. generatedPart' \subseteq Subjects
    BY <1>3, <2>1 DEF UnlinkGeneratedPart, MediaInv, MediaTypes
  <2>3. MediaGoes(w, "failing") \/ MediaGoes(w, "record")
    BY <1>3 DEF UnlinkGeneratedPart
  <2> QED BY <1>3, <2>1, <2>2, <2>3, QuietStep DEF UnlinkGeneratedPart, MediaSteps
<1> QED BY <1>1, <1>2, <1>3

\* Only one links: an object that is there already makes the second fail.
LEMMA LinkKeeps ==
  ASSUME MediaInv, NEW w \in MediaWorkers, LinkGeneratedObject(w)
  PROVE  MediaInv'
<1> DEFINE s == SubjectOf(w)
<1>1. s \in Subjects /\ ~MediaAt(w, "idle") /\ Storing(w)
  BY DEF LinkGeneratedObject, MediaAt, Storing, MediaInv, JobsAreWhole, SubjectOf
<1>2. CASE s \in generatedPart /\ s \notin generated
  <2>1. generated' = generated \cup {s} /\ MediaGoes(w, "unlink") /\ UNCHANGED generatedPart
    BY <1>2 DEF LinkGeneratedObject
  <2>2. UNCHANGED <<publication, media, workVars, expired, sweeping>>
    BY DEF LinkGeneratedObject
  <2>3. generated' \subseteq Subjects
    BY <1>1, <2>1 DEF MediaInv, MediaTypes
  <2>4. /\ MediaTypes' /\ JobsAreWhole' /\ OneIsActive'
        /\ mediaWorker'[w].step = "unlink"
        /\ \A v \in MediaWorkers \ {w} : mediaWorker'[v] = mediaWorker[v]
        /\ \A v \in MediaWorkers : SubjectOf(v)' = SubjectOf(v)
    BY <1>1, <2>1, <2>2, <2>3, WorkerGoes DEF MediaSteps, MediaInv, MediaTypes
  <2>5. media[s] # "ready"
    BY <1>1, <1>2 DEF MediaInv, StoringInv, ExpiredIsLeftAlone, ReadyIsGenerated
  <2>6. \A v \in MediaWorkers \ {w} : (Linked(v)' <=> Linked(v)) /\ (Storing(v)' <=> Storing(v))
    BY <2>4 DEF Linked, Storing
  <2>7. LinkedIsAlone'
    <3>1. \A v \in MediaWorkers \ {w} : Linked(v) => SubjectOf(v) # s
      BY <1>2 DEF MediaInv, StoringInv, LinkedIsAlone
    <3>2. \A v \in MediaWorkers : Linked(v)' => SubjectOf(v)' \in generated' /\ media'[SubjectOf(v)'] # "ready"
      BY <2>1, <2>2, <2>4, <2>5, <2>6 DEF MediaInv, StoringInv, LinkedIsAlone
    <3>3. \A u, v \in MediaWorkers : Linked(u)' /\ Linked(v)' /\ SubjectOf(u)' = SubjectOf(v)' => u = v
      BY <2>4, <2>6, <3>1 DEF MediaInv, StoringInv, LinkedIsAlone
    <3> QED BY <3>2, <3>3 DEF LinkedIsAlone
  <2>8. ExpiredIsLeftAlone'
    BY <1>1, <2>2, <2>4, <2>6 DEF ExpiredIsLeftAlone, MediaInv, StoringInv
  <2>9. ReadyIsGenerated'
    BY <2>1, <2>2 DEF ReadyIsGenerated, MediaInv, StoringInv
  <2> QED BY <2>4, <2>7, <2>8, <2>9 DEF MediaInv, StoringInv
<1>3. CASE ~(s \in generatedPart /\ s \notin generated)
  <2>1. generatedPart' = generatedPart \ {s} /\ MediaGoes(w, "failing") /\ UNCHANGED generated
    BY <1>3 DEF LinkGeneratedObject
  <2>2. generatedPart' \subseteq Subjects
    BY <2>1 DEF MediaInv, MediaTypes
  <2> QED BY <1>1, <2>1, <2>2, QuietStep DEF LinkGeneratedObject, MediaSteps
<1> QED BY <1>2, <1>3

\* What is recorded as ready is the object that its worker has linked.
LEMMA RecordKeeps ==
  ASSUME MediaInv, NEW w \in MediaWorkers, RecordGeneratedObject(w)
  PROVE  MediaInv'
<1> DEFINE s == SubjectOf(w)
<1>1. s \in Subjects /\ ~MediaAt(w, "idle") /\ Linked(w) /\ Storing(w)
  BY DEF RecordGeneratedObject, MediaAt, Storing, Linked, MediaInv, JobsAreWhole, SubjectOf
<1>2. /\ media' = [media EXCEPT ![s] = "ready"] /\ expired' = expired \ {s}
      /\ UNCHANGED <<publication, workVars, generated, generatedPart, sweeping>>
  BY DEF RecordGeneratedObject, mediaStorage
<1> PICK step \in {"finish", "failing"} : MediaGoes(w, step)
  BY DEF RecordGeneratedObject
<1>3. media \in [Subjects -> MediaStates] /\ media' \in [Subjects -> MediaStates]
  BY <1>2 DEF MediaInv, MediaTypes, MediaStates
<1>4. s \notin expired /\ s \in generated
  BY <1>1 DEF MediaInv, StoringInv, ExpiredIsLeftAlone, LinkedIsAlone
<1>5. /\ MediaTypes' /\ JobsAreWhole' /\ OneIsActive'
      /\ mediaWorker'[w].step = step
      /\ \A v \in MediaWorkers \ {w} : mediaWorker'[v] = mediaWorker[v]
      /\ \A v \in MediaWorkers : SubjectOf(v)' = SubjectOf(v)
  <2>1. \A p \in DownloadPackages : media'[p] = "absent" => media[p] = "absent"
    BY <1>2, <1>3, SubjectNames
  <2>2. expired' \subseteq DownloadPackages
    BY <1>2 DEF MediaInv, MediaTypes
  <2> QED BY <1>1, <1>2, <1>3, <2>1, <2>2, WorkerGoes DEF MediaSteps, MediaInv, MediaTypes
<1>6. \A v \in MediaWorkers : /\ (Linked(v)' => v # w /\ Linked(v))
                              /\ (Storing(v)' => v # w /\ Storing(v))
  BY <1>5 DEF Linked, Storing
<1>7. LinkedIsAlone'
  <2>1. \A v \in MediaWorkers : Linked(v)' => SubjectOf(v) # s
    BY <1>1, <1>6 DEF MediaInv, StoringInv, LinkedIsAlone
  <2> QED BY <1>2, <1>3, <1>5, <1>6, <2>1 DEF MediaInv, StoringInv, LinkedIsAlone
<1>8. ExpiredIsLeftAlone'
  BY <1>2, <1>3, <1>4, <1>5, <1>6 DEF MediaInv, StoringInv, ExpiredIsLeftAlone
<1>9. ReadyIsGenerated'
  BY <1>2, <1>3, <1>4 DEF MediaInv, StoringInv, ReadyIsGenerated
<1> QED BY <1>5, <1>7, <1>8, <1>9 DEF MediaInv, StoringInv

\* A preview whose transaction fails was not offered, and its object was this worker's.
LEMMA RecordingFailsKeeps ==
  ASSUME MediaInv, NEW w \in MediaWorkers, RecordingFails(w)
  PROVE  MediaInv'
<1> DEFINE s == SubjectOf(w)
<1>1. s \in Subjects /\ ~MediaAt(w, "idle") /\ Linked(w) /\ MediaGoes(w, "failing")
  BY DEF RecordingFails, MediaAt, Linked, MediaInv, JobsAreWhole, SubjectOf
<1>2. CASE UNCHANGED mediaStorage
  BY <1>1, <1>2, QuietStep DEF RecordingFails, MediaSteps, mediaStorage, MediaInv, MediaTypes
<1>3. CASE ~ UNCHANGED mediaStorage
  <2>1. generated' = generated \ {s} /\ generatedPart' = generatedPart \ {s}
    BY <1>3 DEF RecordingFails
  <2>2. UNCHANGED <<publication, media, workVars, expired, sweeping>>
    BY DEF RecordingFails
  <2>3. generated' \subseteq Subjects /\ generatedPart' \subseteq Subjects
    BY <2>1 DEF MediaInv, MediaTypes
  <2>4. /\ MediaTypes' /\ JobsAreWhole' /\ OneIsActive'
        /\ mediaWorker'[w].step = "failing"
        /\ \A v \in MediaWorkers \ {w} : mediaWorker'[v] = mediaWorker[v]
        /\ \A v \in MediaWorkers : SubjectOf(v)' = SubjectOf(v)
    BY <1>1, <2>2, <2>3, WorkerGoes DEF MediaSteps, MediaInv, MediaTypes
  <2>5. media[s] # "ready"
    BY <1>1 DEF MediaInv, StoringInv, LinkedIsAlone
  <2>6. \A v \in MediaWorkers : /\ (Linked(v)' => v # w /\ Linked(v))
                                /\ (Storing(v)' => v # w /\ Storing(v))
    BY <2>4 DEF Linked, Storing
  <2>7. LinkedIsAlone'
    <3>1. \A v \in MediaWorkers : Linked(v)' => SubjectOf(v) # s
      BY <1>1, <2>6 DEF MediaInv, StoringInv, LinkedIsAlone
    <3> QED BY <2>1, <2>2, <2>4, <2>6, <3>1 DEF MediaInv, StoringInv, LinkedIsAlone
  <2>8. ExpiredIsLeftAlone'
    BY <2>2, <2>4, <2>6 DEF MediaInv, StoringInv, ExpiredIsLeftAlone
  <2>9. ReadyIsGenerated'
    BY <2>1, <2>2, <2>5 DEF MediaInv, StoringInv, ReadyIsGenerated
  <2> QED BY <2>4, <2>7, <2>8, <2>9 DEF MediaInv, StoringInv
<1> QED BY <1>2, <1>3

-----------------------------------------------------------------------------
(* Steps of the queue and of the scripts.                                   *)

\* What neither moves a worker to storing nor makes anything ready keeps what is stored.
LEMMA StoringKept ==
  ASSUME MediaInv,
         \A w \in MediaWorkers : Storing(w)' =>
           Storing(w) /\ mediaWorker'[w] = mediaWorker[w],
         \A j \in DeliveryJobs : delivery[j].status # "absent" =>
           delivery'[j].subject = delivery[j].subject,
         \A s \in Subjects : media'[s] = "ready" => media[s] = "ready",
         \A p \in expired : media'[p] \in {"ready", "expired", "failed"},
         generated' = generated, expired' = expired, sweeping' \subseteq expired
  PROVE  StoringInv'
<1>1. \A w \in MediaWorkers : Storing(w)' => SubjectOf(w)' = SubjectOf(w)
  BY DEF SubjectOf, Storing, MediaInv, JobsAreWhole, MediaAt
<1>2. \A w \in MediaWorkers : /\ Linked(w)' => Storing(w)'
                              /\ Linked(w)' => Linked(w)
  BY DEF Linked, Storing
<1>3. \A w \in MediaWorkers : Linked(w) => SubjectOf(w) \in Subjects
  BY DEF Linked, MediaAt, MediaInv, JobsAreWhole, SubjectOf
<1>4. LinkedIsAlone'
  BY <1>1, <1>2, <1>3 DEF LinkedIsAlone, MediaInv, StoringInv
<1>5. ExpiredIsLeftAlone'
  BY <1>1 DEF ExpiredIsLeftAlone, MediaInv, StoringInv
<1>6. ReadyIsGenerated'
  BY DEF ReadyIsGenerated, MediaInv, StoringInv
<1> QED BY <1>4, <1>5, <1>6 DEF StoringInv

\* Moving jobs that are there between their states, none of them becoming active
\* beside another of its subject, and workers that put theirs down.
LEMMA QueueMoves ==
  ASSUME MediaInv, delivery' \in [DeliveryJobs -> DeliveryRows],
         \A j \in DeliveryJobs : /\ delivery'[j].subject = delivery[j].subject
                                 /\ delivery'[j].status = "absent" <=> delivery[j].status = "absent",
         \A i, j \in DeliveryJobs : Active(i)' /\ Active(j)' /\ delivery[i].subject = delivery[j].subject => i = j,
         held' \subseteq {j \in DeliveryJobs : delivery[j].status # "absent"},
         mediaWorker' \in [MediaWorkers -> Claims],
         \A w \in MediaWorkers :
           \/ mediaWorker'[w].step = "idle"
           \/ mediaWorker'[w] = mediaWorker[w]
           \/ /\ mediaWorker'[w].step \in {"begin", "failing", "subject"}
              /\ mediaWorker'[w].job \in DeliveryJobs /\ delivery[mediaWorker'[w].job].status # "absent",
         UNCHANGED <<publication, media, mediaStorage, expired, sweeping>>
  PROVE  MediaInv'
<1>1. MediaTypes'
  BY DEF MediaTypes, MediaInv, mediaStorage
<1>2. JobsAreWhole'
  <2>1. \A w \in MediaWorkers : ~MediaAt(w, "idle")' =>
          (mediaWorker[w].job \in DeliveryJobs /\ delivery[mediaWorker[w].job].status # "absent")'
    BY DEF MediaInv, JobsAreWhole, MediaAt
  <2>2. \A j \in DeliveryJobs :
          (delivery[j].subject \in DownloadPackages => media[delivery[j].subject] # "absent")'
    BY DEF MediaInv, JobsAreWhole
  <2>3. \A j \in DeliveryJobs : delivery'[j].status # "absent" => delivery'[j].subject \in Subjects
    BY DEF MediaInv, JobsAreWhole
  <2> QED BY <2>1, <2>2, <2>3 DEF JobsAreWhole
<1>3. OneIsActive'
  BY DEF OneIsActive
<1>4. StoringInv'
  <2>1. \A w \in MediaWorkers : Storing(w)' => Storing(w) /\ mediaWorker'[w] = mediaWorker[w]
    BY DEF Storing
  <2>2. \A p \in expired : media'[p] \in {"ready", "expired", "failed"}
    BY DEF MediaInv, StoringInv, ExpiredIsLeftAlone
  <2>3. sweeping' \subseteq expired
    BY DEF MediaInv, StoringInv, ExpiredIsLeftAlone
  <2> QED BY <2>1, <2>2, <2>3, StoringKept DEF mediaStorage
<1> QED BY <1>1, <1>2, <1>3, <1>4 DEF MediaInv

LEMMA ClaimKeeps ==
  ASSUME MediaInv, NEW w \in MediaWorkers, NEW j \in DeliveryJobs, ClaimMediaJob(w, j)
  PROVE  MediaInv'
<1> USE DEF ClaimMediaJob
<1>1. delivery \in [DeliveryJobs -> DeliveryRows] /\ mediaWorker \in [MediaWorkers -> Claims]
  BY DEF MediaInv, MediaTypes
<1>2. delivery[j].attempts + 1 \in 0 .. MaxMediaAttempts
  BY <1>1, MediaBoundAssumption DEF DeliveryRows
<1>3. /\ delivery'[j] = [delivery[j] EXCEPT !.status = "running", !.attempts = @ + 1]
      /\ \A i \in DeliveryJobs \ {j} : delivery'[i] = delivery[i]
  BY <1>1
<1>4. delivery' \in [DeliveryJobs -> DeliveryRows]
  <2>1. delivery'[j] \in DeliveryRows
    BY <1>1, <1>2, <1>3 DEF DeliveryRows
  <2> QED BY <1>1, <2>1
<1>5. mediaWorker' \in [MediaWorkers -> Claims]
  BY <1>1, <1>2 DEF Claims, MediaSteps, DeliveryJobs
<1>6. \A i \in DeliveryJobs : /\ delivery'[i].subject = delivery[i].subject
                              /\ delivery'[i].status = "absent" <=> delivery[i].status = "absent"
                              /\ Active(i)' <=> Active(i)
  BY <1>1, <1>3 DEF Active, DeliveryRows
<1>7. held' \subseteq {i \in DeliveryJobs : delivery[i].status # "absent"}
  BY DEF MediaInv, MediaTypes
<1>8. \A v \in MediaWorkers :
        \/ mediaWorker'[v] = mediaWorker[v]
        \/ /\ mediaWorker'[v].step \in {"begin", "subject"}
           /\ mediaWorker'[v].job \in DeliveryJobs /\ delivery[mediaWorker'[v].job].status # "absent"
  BY <1>1
<1>9. \A h, i \in DeliveryJobs :
        Active(h)' /\ Active(i)' /\ delivery[h].subject = delivery[i].subject => h = i
  BY <1>6 DEF MediaInv, OneIsActive
<1> QED BY <1>4, <1>5, <1>6, <1>7, <1>8, <1>9, QueueMoves

\* A job is settled, whether or not its worker learns of it.
LEMMA JobSucceedsKeeps ==
  ASSUME MediaInv, NEW w \in MediaWorkers, MediaAt(w, "finish"), JobSucceeds(mediaWorker[w].job),
         mediaWorker' = [mediaWorker EXCEPT ![w] = NoDelivery] \/ MediaGoes(w, "failing"),
         UNCHANGED <<publication, media, mediaStorage, expired, sweeping>>
  PROVE  MediaInv'
<1> DEFINE j == mediaWorker[w].job
<1> USE DEF JobSucceeds
<1>1. delivery \in [DeliveryJobs -> DeliveryRows] /\ mediaWorker \in [MediaWorkers -> Claims]
  BY DEF MediaInv, MediaTypes
<1>2. j \in DeliveryJobs /\ delivery[j].status # "absent"
  BY DEF MediaInv, JobsAreWhole, MediaAt
<1>3. /\ delivery'[j] = [delivery[j] EXCEPT !.status = "succeeded"]
      /\ \A i \in DeliveryJobs \ {j} : delivery'[i] = delivery[i]
  BY <1>1, <1>2
<1>4. delivery' \in [DeliveryJobs -> DeliveryRows]
  BY <1>1, <1>2 DEF DeliveryRows
<1>5. NoDelivery \in Claims /\ NoDelivery.step = "idle"
  BY MediaBoundAssumption DEF NoDelivery, Claims, MediaSteps
<1>6. \A i \in DeliveryJobs : /\ delivery'[i].subject = delivery[i].subject
                              /\ delivery'[i].status = "absent" <=> delivery[i].status = "absent"
                              /\ Active(i)' => Active(i)
  BY <1>1, <1>2, <1>3 DEF Active, DeliveryRows
<1>7. held' \subseteq {i \in DeliveryJobs : delivery[i].status # "absent"}
  BY DEF MediaInv, MediaTypes
<1>8. /\ mediaWorker' \in [MediaWorkers -> Claims]
      /\ \A v \in MediaWorkers :
           \/ mediaWorker'[v].step = "idle" \/ mediaWorker'[v] = mediaWorker[v]
           \/ mediaWorker'[v].step = "failing" /\ mediaWorker'[v].job = j
  <2>1. CASE mediaWorker' = [mediaWorker EXCEPT ![w] = NoDelivery]
    BY <1>1, <1>5, <2>1
  <2>2. CASE MediaGoes(w, "failing")
    BY <1>1, <2>2 DEF MediaGoes, Claims, MediaSteps
  <2> QED BY <2>1, <2>2
<1>9. \A h, i \in DeliveryJobs :
        Active(h)' /\ Active(i)' /\ delivery[h].subject = delivery[i].subject => h = i
  BY <1>6 DEF MediaInv, OneIsActive
<1> QED BY <1>2, <1>4, <1>6, <1>7, <1>8, <1>9, QueueMoves

LEMMA FinishKeeps ==
  ASSUME MediaInv, NEW w \in MediaWorkers, FinishMediaJob(w) \/ FinishMediaFails(w)
  PROVE  MediaInv'
<1>1. CASE FinishMediaJob(w)
  BY <1>1, JobSucceedsKeeps DEF FinishMediaJob
<1>2. CASE FinishMediaFails(w)
  <2>1. CASE JobSucceeds(mediaWorker[w].job)
    BY <1>2, <2>1, JobSucceedsKeeps DEF FinishMediaFails
  <2>2. CASE UNCHANGED workVars
    BY <1>2, <2>2, QuietStep DEF FinishMediaFails, MediaAt, MediaSteps, mediaStorage, MediaInv, MediaTypes
  <2> QED BY <1>2, <2>1, <2>2 DEF FinishMediaFails
<1> QED BY <1>1, <1>2

\* A job is queued again only where no other of its subject is active.
LEMMA FailJobKeeps ==
  ASSUME MediaInv, NEW w \in MediaWorkers, FailMediaJob(w)
  PROVE  MediaInv'
<1>1. delivery \in [DeliveryJobs -> DeliveryRows] /\ mediaWorker \in [MediaWorkers -> Claims]
  BY DEF MediaInv, MediaTypes
<1>2. PICK j \in DeliveryJobs : j = mediaWorker[w].job /\ delivery[j].status # "absent"
  BY DEF MediaInv, JobsAreWhole, MediaAt, FailMediaJob
<1>3. NoDelivery \in Claims /\ NoDelivery.step = "idle"
  BY MediaBoundAssumption DEF NoDelivery, Claims, MediaSteps
<1>4. CASE ~AttemptsSpent(w) /\ ActiveFor(SubjectOf(w)) \ {j} # {}
  <2>1. mediaWorker' = [mediaWorker EXCEPT ![w] = NoDelivery] /\ UNCHANGED workVars
    BY <1>2, <1>4 DEF FailMediaJob
  <2>2. mediaWorker' \in [MediaWorkers -> Claims]
        /\ \A v \in MediaWorkers : mediaWorker'[v].step = "idle" \/ mediaWorker'[v] = mediaWorker[v]
    BY <1>1, <1>3, <2>1
  <2>3. \A h, i \in DeliveryJobs :
          Active(h)' /\ Active(i)' /\ delivery[h].subject = delivery[i].subject => h = i
    BY <2>1 DEF MediaInv, OneIsActive, Active, workVars
  <2> QED BY <1>1, <2>1, <2>2, <2>3, QueueMoves DEF FailMediaJob, workVars, MediaInv, MediaTypes
<1>5. CASE ~(~AttemptsSpent(w) /\ ActiveFor(SubjectOf(w)) \ {j} # {})
  <2> DEFINE status == IF AttemptsSpent(w) THEN "failed" ELSE "queued"
  <2>1. /\ delivery' = [delivery EXCEPT ![j].status = status]
        /\ held' = held \ {j} /\ MediaGoes(w, "subject")
    BY <1>2, <1>5 DEF FailMediaJob
  <2>2. /\ delivery'[j] = [delivery[j] EXCEPT !.status = status]
        /\ \A i \in DeliveryJobs \ {j} : delivery'[i] = delivery[i]
    BY <1>1, <1>2, <2>1
  <2>3. delivery' \in [DeliveryJobs -> DeliveryRows]
    BY <1>1, <1>2, <2>1 DEF DeliveryRows
  <2>4. \A i \in DeliveryJobs : /\ delivery'[i].subject = delivery[i].subject
                                /\ delivery'[i].status = "absent" <=> delivery[i].status = "absent"
    BY <1>1, <1>2, <2>2 DEF DeliveryRows
  <2>5. held' \subseteq {i \in DeliveryJobs : delivery[i].status # "absent"}
    BY <2>1 DEF MediaInv, MediaTypes
  <2>6. /\ mediaWorker' \in [MediaWorkers -> Claims]
        /\ mediaWorker'[w].step = "subject" /\ mediaWorker'[w].job = j
        /\ \A v \in MediaWorkers \ {w} : mediaWorker'[v] = mediaWorker[v]
    BY <1>1, <1>2, <2>1 DEF MediaGoes, Claims, MediaSteps
  <2>7. \A h, i \in DeliveryJobs :
          Active(h)' /\ Active(i)' /\ delivery[h].subject = delivery[i].subject => h = i
    <3>1. \A i \in DeliveryJobs \ {j} : Active(i)' <=> Active(i)
      BY <2>2 DEF Active
    <3>2. CASE AttemptsSpent(w)
      <4>1. ~Active(j)'
        BY <1>1, <1>2, <2>2, <3>2 DEF Active, DeliveryRows
      <4> QED BY <3>1, <4>1 DEF MediaInv, OneIsActive
    <3>3. CASE ~AttemptsSpent(w)
      <4>1. \A i \in DeliveryJobs \ {j} : Active(i) => delivery[i].subject # delivery[j].subject
        BY <1>2, <1>5, <3>3 DEF ActiveFor, SubjectOf
      <4> QED BY <3>1, <4>1 DEF MediaInv, OneIsActive
    <3> QED BY <3>2, <3>3
  <2>8. \A v \in MediaWorkers :
          \/ mediaWorker'[v] = mediaWorker[v]
          \/ /\ mediaWorker'[v].step \in {"begin", "subject"}
             /\ mediaWorker'[v].job \in DeliveryJobs /\ delivery[mediaWorker'[v].job].status # "absent"
    BY <1>2, <2>6
  <2>9. UNCHANGED <<publication, media, mediaStorage, expired, sweeping>>
    BY DEF FailMediaJob
  <2> QED BY <2>3, <2>4, <2>5, <2>6, <2>7, <2>8, <2>9, QueueMoves
<1> QED BY <1>4, <1>5

\* A lease that expires, a worker that dies and jobs that are recovered: an active job
\* stays active or is over.
LEMMA LeasesKeep ==
  ASSUME MediaInv,
         \/ \E j \in DeliveryJobs : MediaLeaseExpires(j)
         \/ \E w \in MediaWorkers : MediaWorkerCrashes(w)
         \/ RecoverMediaLeases \/ ReclaimDeliveryJobs
  PROVE  MediaInv'
<1>1. delivery \in [DeliveryJobs -> DeliveryRows] /\ mediaWorker \in [MediaWorkers -> Claims]
  BY DEF MediaInv, MediaTypes
<1>2. held \subseteq {j \in DeliveryJobs : delivery[j].status # "absent"}
  BY DEF MediaInv, MediaTypes
<1>3. CASE \E j \in DeliveryJobs : MediaLeaseExpires(j)
  <2>1. \A h, i \in DeliveryJobs :
          Active(h)' /\ Active(i)' /\ delivery[h].subject = delivery[i].subject => h = i
    BY <1>3 DEF MediaLeaseExpires, MediaInv, OneIsActive, Active
  <2> QED BY <1>1, <1>2, <1>3, <2>1, QueueMoves DEF MediaLeaseExpires
<1>4. CASE \E w \in MediaWorkers : MediaWorkerCrashes(w)
  <2>1. NoDelivery \in Claims /\ NoDelivery.step = "idle"
    BY MediaBoundAssumption DEF NoDelivery, Claims, MediaSteps
  <2>2. /\ mediaWorker' \in [MediaWorkers -> Claims]
        /\ \A v \in MediaWorkers : mediaWorker'[v].step = "idle" \/ mediaWorker'[v] = mediaWorker[v]
    BY <1>1, <1>4, <2>1 DEF MediaWorkerCrashes
  <2>3. \A h, i \in DeliveryJobs :
          Active(h)' /\ Active(i)' /\ delivery[h].subject = delivery[i].subject => h = i
    BY <1>4 DEF MediaWorkerCrashes, MediaInv, OneIsActive, Active, workVars
  <2>4. UNCHANGED <<publication, media, delivery, held, mediaStorage, expired, sweeping>>
    BY <1>4 DEF MediaWorkerCrashes, workVars
  <2>5. delivery' = delivery /\ held' = held
    BY <2>4
  <2>6. delivery' \in [DeliveryJobs -> DeliveryRows] /\ held' \subseteq {j \in DeliveryJobs : delivery[j].status # "absent"}
    BY <1>1, <1>2, <2>5
  <2>7. \A j \in DeliveryJobs : /\ delivery'[j].subject = delivery[j].subject
                                /\ delivery'[j].status = "absent" <=> delivery[j].status = "absent"
    BY <2>5
  <2> QED BY <2>2, <2>3, <2>4, <2>6, <2>7, QueueMoves
<1>5. CASE RecoverMediaLeases \/ ReclaimDeliveryJobs
  <2>1. \A j \in DeliveryJobs :
          \/ delivery'[j] = delivery[j]
          \/ /\ delivery[j].status = "running"
             /\ \/ delivery'[j] = [delivery[j] EXCEPT !.status = "failed"]
                \/ delivery'[j] = [delivery[j] EXCEPT !.status = "queued"]
    BY <1>1, <1>5 DEF RecoverMediaLeases, ReclaimDeliveryJobs, LeaseLost
  <2>2. ASSUME NEW j \in DeliveryJobs PROVE delivery'[j] \in DeliveryRows
    <3>1. delivery[j] \in DeliveryRows
      BY <1>1
    <3>2. [delivery[j] EXCEPT !.status = "failed"] \in DeliveryRows
      BY <3>1 DEF DeliveryRows
    <3>3. [delivery[j] EXCEPT !.status = "queued"] \in DeliveryRows
      BY <3>1 DEF DeliveryRows
    <3> QED BY <2>1, <3>1, <3>2, <3>3
  <2>3. delivery' \in [DeliveryJobs -> DeliveryRows]
    BY <1>5, <2>2 DEF RecoverMediaLeases, ReclaimDeliveryJobs
  <2>4. \A i \in DeliveryJobs : /\ delivery'[i].subject = delivery[i].subject
                                /\ delivery'[i].status = "absent" <=> delivery[i].status = "absent"
                                /\ Active(i)' => Active(i)
    BY <1>1, <2>1 DEF Active, DeliveryRows
  <2>5. \A h, i \in DeliveryJobs :
          Active(h)' /\ Active(i)' /\ delivery[h].subject = delivery[i].subject => h = i
    BY <2>4 DEF MediaInv, OneIsActive
  <2>6. UNCHANGED <<publication, media, held, mediaStorage, expired, sweeping, mediaWorker>>
    BY <1>5 DEF RecoverMediaLeases, ReclaimDeliveryJobs
  <2> QED BY <1>1, <1>2, <2>3, <2>4, <2>5, <2>6, QueueMoves
<1> QED BY <1>3, <1>4, <1>5

\* An attempt that fails takes away from what is ready, or leaves it.
LEMMA FailSubjectKeeps ==
  ASSUME MediaInv, NEW w \in MediaWorkers, FailMediaSubject(w)
  PROVE  MediaInv'
<1> DEFINE s == SubjectOf(w)
           status == IF AttemptsSpent(w) THEN "failed" ELSE IF s = Preview THEN "queued" ELSE media[s]
<1>1. /\ delivery \in [DeliveryJobs -> DeliveryRows] /\ mediaWorker \in [MediaWorkers -> Claims]
      /\ media \in [Subjects -> MediaStates]
  BY DEF MediaInv, MediaTypes
<1>2. s \in Subjects
  BY DEF FailMediaSubject, MediaAt, MediaInv, JobsAreWhole, SubjectOf
<1>3. media' = [media EXCEPT ![s] = status]
  BY <1>1, <1>2 DEF FailMediaSubject
<1>4. status \in MediaStates
  BY <1>1, <1>2 DEF MediaStates
<1>5. media' \in [Subjects -> MediaStates]
  BY <1>1, <1>3, <1>4
<1>6. UNCHANGED <<publication, delivery, held, mediaStorage, expired, sweeping>>
  BY DEF FailMediaSubject, workVars
<1>7. NoDelivery \in Claims /\ NoDelivery.step = "idle"
  BY MediaBoundAssumption DEF NoDelivery, Claims, MediaSteps
<1>8. /\ mediaWorker' \in [MediaWorkers -> Claims]
      /\ \A v \in MediaWorkers : mediaWorker'[v].step = "idle" \/ mediaWorker'[v] = mediaWorker[v]
  BY <1>1, <1>7 DEF FailMediaSubject
<1>9. MediaTypes'
  BY <1>5, <1>6, <1>8 DEF MediaInv, MediaTypes, mediaStorage
<1>10. \A r \in Subjects : media'[r] = media[r] \/ (r = s /\ media'[r] \in {"failed", "queued"} /\ (media'[r] = "failed" \/ r = Preview))
  BY <1>1, <1>2, <1>3
<1>11. JobsAreWhole'
  <2>1. \A j \in DeliveryJobs :
          delivery'[j].subject \in DownloadPackages => media'[delivery'[j].subject] # "absent"
    BY <1>6, <1>10, SubjectNames DEF MediaInv, JobsAreWhole
  <2>2. \A v \in MediaWorkers : ~MediaAt(v, "idle")' =>
          (mediaWorker[v].job \in DeliveryJobs /\ delivery[mediaWorker[v].job].status # "absent")'
    BY <1>6, <1>8 DEF MediaInv, JobsAreWhole, MediaAt
  <2> QED BY <1>6, <2>1, <2>2 DEF MediaInv, JobsAreWhole
<1>12. OneIsActive'
  BY <1>6 DEF MediaInv, OneIsActive, Active
<1>13. StoringInv'
  <2>1. \A v \in MediaWorkers : Storing(v)' => Storing(v) /\ mediaWorker'[v] = mediaWorker[v]
    BY <1>8 DEF Storing
  <2>2. \A p \in expired : media'[p] \in {"ready", "expired", "failed"}
    BY <1>10, SubjectNames DEF MediaInv, MediaTypes, StoringInv, ExpiredIsLeftAlone
  <2>3. \A r \in Subjects : media'[r] = "ready" => media[r] = "ready"
    BY <1>10
  <2>4. sweeping' \subseteq expired
    BY <1>6 DEF MediaInv, StoringInv, ExpiredIsLeftAlone
  <2> QED BY <1>6, <2>1, <2>2, <2>3, <2>4, StoringKept DEF mediaStorage
<1> QED BY <1>9, <1>11, <1>12, <1>13 DEF MediaInv

\* A new job, for a subject that has none that is active.
LEMMA JobIsQueued ==
  ASSUME MediaInv, NEW j \in DeliveryJobs, NEW s \in Subjects, FreeJob(j), QueueDelivery(j, s),
         \A i \in DeliveryJobs : Active(i) => delivery[i].subject # s,
         publication' \in {"unpublished", "published", "withdrawn"},
         media' \in [Subjects -> MediaStates],
         s \in DownloadPackages => media'[s] # "absent",
         \A r \in Subjects : media'[r] = "absent" => media[r] = "absent",
         \A r \in Subjects : media'[r] = "ready" => media[r] = "ready",
         \A p \in expired : media'[p] \in {"ready", "expired", "failed"},
         UNCHANGED <<held, mediaStorage, expired, sweeping, mediaWorker>>
  PROVE  MediaInv'
<1>1. /\ delivery \in [DeliveryJobs -> DeliveryRows] /\ mediaWorker \in [MediaWorkers -> Claims]
      /\ delivery[j].status = "absent"
  BY DEF MediaInv, MediaTypes, FreeJob
<1>2. /\ delivery'[j] = [status |-> "queued", attempts |-> 0, subject |-> s]
      /\ \A i \in DeliveryJobs \ {j} : delivery'[i] = delivery[i]
  BY <1>1 DEF QueueDelivery
<1>3. delivery' \in [DeliveryJobs -> DeliveryRows]
  <2>1. [status |-> "queued", attempts |-> 0, subject |-> s] \in DeliveryRows
    BY MediaBoundAssumption DEF DeliveryRows
  <2> QED BY <1>1, <2>1 DEF QueueDelivery
<1>4. \A i \in DeliveryJobs : delivery[i].status # "absent" => i # j /\ delivery'[i] = delivery[i]
  BY <1>1, <1>2
<1>5. MediaTypes'
  <2>1. held \subseteq {i \in DeliveryJobs : delivery'[i].status # "absent"}
    BY <1>4 DEF MediaInv, MediaTypes
  <2> QED BY <1>3, <2>1 DEF MediaInv, MediaTypes, mediaStorage
<1>6. JobsAreWhole'
  <2>1. \A i \in DeliveryJobs : delivery'[i].status # "absent" => delivery'[i].subject \in Subjects
    BY <1>2 DEF MediaInv, JobsAreWhole
  <2>2. \A i \in DeliveryJobs :
          delivery'[i].subject \in DownloadPackages => media'[delivery'[i].subject] # "absent"
    BY <1>2, SubjectNames DEF MediaInv, JobsAreWhole
  <2>3. \A w \in MediaWorkers : ~MediaAt(w, "idle")' =>
          (mediaWorker[w].job \in DeliveryJobs /\ delivery[mediaWorker[w].job].status # "absent")'
    BY <1>4 DEF MediaInv, JobsAreWhole, MediaAt
  <2> QED BY <2>1, <2>2, <2>3 DEF JobsAreWhole
<1>7. OneIsActive'
  <2>1. \A i \in DeliveryJobs \ {j} : Active(i)' <=> Active(i)
    BY <1>2 DEF Active
  <2>2. \A i \in DeliveryJobs \ {j} : Active(i)' => delivery'[i].subject # delivery'[j].subject
    BY <1>2, <2>1
  <2>3. \A h, i \in DeliveryJobs \ {j} :
          Active(h)' /\ Active(i)' /\ delivery'[h].subject = delivery'[i].subject => h = i
    BY <1>2, <2>1 DEF MediaInv, OneIsActive
  <2> QED BY <2>2, <2>3 DEF OneIsActive
<1>8. StoringInv'
  <2>1. sweeping' \subseteq expired
    BY DEF MediaInv, StoringInv, ExpiredIsLeftAlone
  <2> QED BY <1>4, <2>1, StoringKept DEF mediaStorage, Storing
<1> QED BY <1>5, <1>6, <1>7, <1>8 DEF MediaInv

\* What only moves the publication and the state of subjects, none to ready.
LEMMA SubjectsMove ==
  ASSUME MediaInv,
         publication' \in {"unpublished", "published", "withdrawn"},
         media' \in [Subjects -> MediaStates],
         \A r \in Subjects : media'[r] = "absent" => media[r] = "absent",
         \A r \in Subjects : media'[r] = "ready" => media[r] = "ready",
         \A p \in expired : media'[p] \in {"ready", "expired", "failed"},
         sweeping' \subseteq sweeping,
         UNCHANGED <<delivery, held, mediaStorage, expired, mediaWorker>>
  PROVE  MediaInv'
<1>1. MediaTypes'
  BY DEF MediaInv, MediaTypes, mediaStorage
<1>2. JobsAreWhole' /\ OneIsActive'
  BY SubjectNames DEF MediaInv, JobsAreWhole, OneIsActive, Active, MediaAt
<1>3. StoringInv'
  <2>1. sweeping' \subseteq expired
    BY DEF MediaInv, StoringInv, ExpiredIsLeftAlone
  <2> QED BY <2>1, StoringKept DEF mediaStorage, Storing
<1> QED BY <1>1, <1>2, <1>3 DEF MediaInv

\* The preview of a publication, or of a Track that has none.
LEMMA EnqueueKeeps ==
  ASSUME MediaInv, publication' \in {"unpublished", "published", "withdrawn"},
         EnqueuePlaybackArtifact(Preview),
         UNCHANGED <<held, mediaStorage, expired, sweeping, mediaWorker>>
  PROVE  MediaInv'
<1> DEFINE status == IF media[Preview] = "absent" THEN "queued" ELSE media[Preview]
<1>1. media' = [media EXCEPT ![Preview] = status] /\ media \in [Subjects -> MediaStates]
  BY DEF EnqueuePlaybackArtifact, MediaInv, MediaTypes
<1>2. status \in MediaStates
  BY <1>1, SubjectNames DEF MediaStates
<1>3. media' \in [Subjects -> MediaStates]
  BY <1>1, <1>2
<1>4. \A r \in Subjects : /\ media'[r] = "absent" => media[r] = "absent"
                          /\ media'[r] = "ready" => media[r] = "ready"
  BY <1>1, SubjectNames
<1>5. \A p \in expired : media'[p] \in {"ready", "expired", "failed"}
  BY <1>1, SubjectNames DEF MediaInv, MediaTypes, StoringInv, ExpiredIsLeftAlone
<1>6. CASE status \in {"queued", "failed"} /\ ActiveFor(Preview) = {}
  <2>1. PICK j \in DeliveryJobs : FreeJob(j) /\ QueueDelivery(j, Preview)
    BY <1>6 DEF EnqueuePlaybackArtifact
  <2>2. \A i \in DeliveryJobs : Active(i) => delivery[i].subject # Preview
    BY <1>6 DEF ActiveFor
  <2> QED BY <1>3, <1>4, <1>5, <2>1, <2>2, JobIsQueued, SubjectNames
<1>7. CASE ~(status \in {"queued", "failed"} /\ ActiveFor(Preview) = {})
  <2>1. UNCHANGED delivery
    BY <1>7 DEF EnqueuePlaybackArtifact
  <2> QED BY <1>3, <1>4, <1>5, <2>1, SubjectsMove
<1> QED BY <1>6, <1>7

LEMMA PublicationKeeps ==
  ASSUME MediaInv, PublishForListening \/ WithdrawFromListening \/ FillMissingMedia
  PROVE  MediaInv'
<1>1. CASE PublishForListening \/ FillMissingMedia
  BY <1>1, EnqueueKeeps DEF PublishForListening, FillMissingMedia
<1>2. CASE WithdrawFromListening
  BY <1>2, SubjectsMove
     DEF WithdrawFromListening, MediaInv, MediaTypes, StoringInv, ExpiredIsLeftAlone
<1> QED BY <1>1, <1>2

\* A package that nobody has asked for yet has no job.
LEMMA RequestKeeps ==
  ASSUME MediaInv, RequestDownloadPackage
  PROVE  MediaInv'
<1> DEFINE stale == {p \in DownloadPackages : media[p] = "ready" /\ p \in expired}
           swept == [s \in Subjects |-> IF s \in stale THEN "expired" ELSE media[s]]
           reuse == \E p \in DownloadPackages : Reusable(swept[p])
<1>1. publication' = publication /\ publication = "published"
      /\ UNCHANGED <<held, mediaStorage, expired, sweeping, mediaWorker>>
  BY DEF RequestDownloadPackage
<1>2. media \in [Subjects -> MediaStates] /\ expired \subseteq DownloadPackages
  BY DEF MediaInv, MediaTypes
<1>3. \A p \in expired : media[p] \in {"ready", "expired", "failed"}
  BY DEF MediaInv, StoringInv, ExpiredIsLeftAlone
<1>4. /\ swept \in [Subjects -> MediaStates]
      /\ \A r \in Subjects : /\ swept[r] = "absent" => media[r] = "absent"
                             /\ swept[r] = "ready" => media[r] = "ready"
      /\ \A p \in expired : swept[p] \in {"expired", "failed"}
  <2>1. \A r \in Subjects : swept[r] = "expired" \/ swept[r] = media[r]
    OBVIOUS
  <2>2. swept \in [Subjects -> MediaStates]
    BY <1>2 DEF MediaStates
  <2>3. \A p \in expired : swept[p] \in {"expired", "failed"}
    BY <1>2, <1>3, SubjectNames
  <2> QED BY <2>1, <2>2, <2>3
<1>5. CASE media' = swept /\ UNCHANGED delivery
  <2> HIDE DEF swept
  <2> QED BY <1>1, <1>4, <1>5, SubjectsMove DEF MediaInv, MediaTypes
<1>6. CASE \E p \in DownloadPackages, j \in DeliveryJobs :
             /\ media[p] = "absent" /\ FreeJob(j)
             /\ media' = [swept EXCEPT ![p] = "queued"] /\ QueueDelivery(j, p)
  <2>1. PICK p \in DownloadPackages, j \in DeliveryJobs :
          /\ media[p] = "absent" /\ FreeJob(j)
          /\ media' = [swept EXCEPT ![p] = "queued"] /\ QueueDelivery(j, p)
    BY <1>6
  <2>2. p \in Subjects /\ p \notin expired
    BY <1>3, <2>1, SubjectNames
  <2> HIDE DEF swept
  <2>3. media' \in [Subjects -> MediaStates]
    BY <1>4, <2>1 DEF MediaStates
  <2>4. \A r \in Subjects : /\ media'[r] = "absent" => media[r] = "absent"
                            /\ media'[r] = "ready" => media[r] = "ready"
    BY <1>4, <2>1
  <2>5. \A q \in expired : media'[q] \in {"ready", "expired", "failed"}
    BY <1>2, <1>4, <2>1, <2>2, SubjectNames
  <2>6. \A i \in DeliveryJobs : Active(i) => delivery[i].subject # p
    BY <2>1 DEF MediaInv, JobsAreWhole
  <2>7. media'[p] # "absent"
    BY <1>4, <2>1, <2>2
  <2> QED BY <1>1, <2>1, <2>2, <2>3, <2>4, <2>5, <2>6, <2>7, JobIsQueued
<1> QED BY <1>5, <1>6 DEF RequestDownloadPackage

\* The clean-up: a package that expires is in nobody's hands, and stays expired.
LEMMA SweepKeeps ==
  ASSUME MediaInv, NEW p \in DownloadPackages, PackageExpires(p) \/ SweepPackage(p) \/ RecordSweep(p)
  PROVE  MediaInv'
<1>1. p \in Subjects
  BY SubjectNames
<1>2. CASE PackageExpires(p)
  <2>1. /\ media[p] = "ready" /\ expired' = expired \cup {p}
        /\ UNCHANGED <<publication, media, delivery, held, generated, generatedPart, sweeping, mediaWorker>>
    BY <1>2 DEF PackageExpires, workVars, mediaStorage
  <2>2. \A w \in MediaWorkers : Storing(w) => SubjectOf(w) # p
    BY <1>2 DEF PackageExpires, AtWorkOn, Storing, MediaAt
  <2>3. MediaTypes'
    BY <2>1 DEF MediaInv, MediaTypes
  <2>4. JobsAreWhole' /\ OneIsActive' /\ LinkedIsAlone'
    BY <2>1 DEF MediaInv, JobsAreWhole, OneIsActive, Active, MediaAt, StoringInv, LinkedIsAlone, Linked, SubjectOf
  <2>5. ExpiredIsLeftAlone' /\ ReadyIsGenerated'
    BY <2>1, <2>2 DEF MediaInv, StoringInv, ExpiredIsLeftAlone, ReadyIsGenerated, Storing, SubjectOf
  <2> QED BY <2>3, <2>4, <2>5 DEF MediaInv, StoringInv
<1>3. CASE SweepPackage(p)
  <2>1. /\ p \in expired /\ generated' = generated \ {p} /\ generatedPart' = generatedPart \ {p}
        /\ sweeping' = sweeping \cup {p}
        /\ UNCHANGED <<publication, media, delivery, held, expired, mediaWorker>>
    BY <1>3 DEF SweepPackage, workVars
  <2>2. \A w \in MediaWorkers : Linked(w) => SubjectOf(w) # p
    BY <2>1 DEF MediaInv, StoringInv, ExpiredIsLeftAlone, Storing, Linked
  <2>3. MediaTypes'
    BY <2>1 DEF MediaInv, MediaTypes
  <2>4. JobsAreWhole' /\ OneIsActive'
    BY <2>1 DEF MediaInv, JobsAreWhole, OneIsActive, Active, MediaAt
  <2>5. LinkedIsAlone'
    BY <2>1, <2>2 DEF MediaInv, StoringInv, LinkedIsAlone, Linked, SubjectOf
  <2>6. ExpiredIsLeftAlone' /\ ReadyIsGenerated'
    BY <2>1 DEF MediaInv, StoringInv, ExpiredIsLeftAlone, ReadyIsGenerated, Storing, SubjectOf
  <2> QED BY <2>3, <2>4, <2>5, <2>6 DEF MediaInv, StoringInv
<1>4. CASE RecordSweep(p)
  <2>1. media' = [media EXCEPT ![p] = "expired"] /\ media \in [Subjects -> MediaStates]
    BY <1>4 DEF RecordSweep, MediaInv, MediaTypes
  <2>2. media' \in [Subjects -> MediaStates]
    BY <2>1 DEF MediaStates
  <2>3. \A q \in expired : media'[q] \in {"ready", "expired", "failed"}
    BY <1>1, <2>1, SubjectNames DEF MediaInv, MediaTypes, StoringInv, ExpiredIsLeftAlone
  <2>4. \A r \in Subjects : /\ media'[r] = "absent" => media[r] = "absent"
                            /\ media'[r] = "ready" => media[r] = "ready"
    BY <1>1, <2>1
  <2>5. UNCHANGED <<publication, delivery, held, mediaStorage, expired, mediaWorker>> /\ sweeping' \subseteq sweeping
    BY <1>4 DEF RecordSweep, workVars
  <2>6. publication' \in {"unpublished", "published", "withdrawn"}
    BY <2>5 DEF MediaInv, MediaTypes
  <2> QED BY <2>2, <2>3, <2>4, <2>5, <2>6, SubjectsMove
<1> QED BY <1>2, <1>3, <1>4

LEMMA MediaStep == MediaInv /\ [MediaNext]_mediaVars => MediaInv'
<1> SUFFICES ASSUME MediaInv, [MediaNext]_mediaVars PROVE MediaInv'
  OBVIOUS
<1>1. CASE UNCHANGED mediaVars
  <2>1. MediaTypes' /\ JobsAreWhole' /\ OneIsActive'
    BY <1>1 DEF mediaVars, workVars, mediaStorage, MediaInv, MediaTypes, JobsAreWhole, OneIsActive, Active, MediaAt
  <2>2. StoringInv'
    BY <1>1 DEF mediaVars, workVars, mediaStorage, MediaInv, StoringInv, LinkedIsAlone,
                ExpiredIsLeftAlone, ReadyIsGenerated, Linked, Storing, SubjectOf
  <2> QED BY <2>1, <2>2 DEF MediaInv
<1>2. CASE PublishForListening \/ WithdrawFromListening \/ FillMissingMedia
  BY <1>2, PublicationKeeps
<1>3. CASE RequestDownloadPackage
  BY <1>3, RequestKeeps
<1>4. CASE RecoverMediaLeases \/ ReclaimDeliveryJobs \/ \E j \in DeliveryJobs : MediaLeaseExpires(j)
  BY <1>4, LeasesKeep
<1>5. ASSUME NEW w \in MediaWorkers, NEW j \in DeliveryJobs, ClaimMediaJob(w, j) PROVE MediaInv'
  BY <1>5, ClaimKeeps
<1>6. ASSUME NEW w \in MediaWorkers,
             \/ MediaWorkBegins(w) \/ MediaWorkThrows(w) \/ OpenGeneratedPart(w)
             \/ LinkGeneratedObject(w) \/ UnlinkGeneratedPart(w) \/ RecordGeneratedObject(w)
             \/ RecordingFails(w)
      PROVE  MediaInv'
  BY <1>6, BeginKeeps, QuietStepsKeep, LinkKeeps, RecordKeeps, RecordingFailsKeeps
<1>7. ASSUME NEW w \in MediaWorkers,
             \/ FinishMediaJob(w) \/ FinishMediaFails(w)
             \/ FailMediaJob(w) \/ FailMediaSubject(w) \/ MediaWorkerCrashes(w)
      PROVE  MediaInv'
  BY <1>7, FinishKeeps, FailJobKeeps, FailSubjectKeeps, LeasesKeep
<1>8. ASSUME NEW p \in DownloadPackages, PackageExpires(p) \/ SweepPackage(p) \/ RecordSweep(p)
      PROVE  MediaInv'
  BY <1>8, SweepKeeps
<1> QED BY <1>1, <1>2, <1>3, <1>4, <1>5, <1>6, <1>7, <1>8 DEF MediaNext

LEMMA MediaInvHolds == MediaSpec => []MediaInv
<1> QED BY MediaStarts, MediaStep, PTL DEF MediaSpec

\* The variables of the delivery queue are in their domains, and the unique index on active
\* jobs is not what a requeue, a recovery or a second request runs into.
THEOREM MediaTypesAreKept == MediaSpec => []MediaTypeOK
<1> QED BY MediaInvHolds, MediaTypesHold, PTL

\* A preview or package that is offered as ready is stored: storeGeneratedObject links under
\* a name that may not exist, so of the workers that a lost lease has set to one subject only
\* one records it, and neither a late one's failure nor the clean-up removes what is offered.
THEOREM OfferedMediaIsStored == MediaSpec => []ReadyMediaIsStored
<1> QED BY MediaInvHolds, GeneratedIsServed, PTL

=============================================================================
