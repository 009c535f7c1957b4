# A TLA+ model of SoundVault

SoundVault is the audio catalogue of a sound-design company. Producers upload
tracks, a worker analyses them, coordinators review and decide, an approved track is
published to the library, previewed, packaged, found by similarity and offered for
demands. It is a Next.js server over PostgreSQL, with several polling worker processes
beside it and a browser in front. There is no message broker, and no memory that two
actors share: the server coordinates through the database, by row locks, conditional
updates, unique indexes, leases and row versions; between a file or a storage provider
and the database, and in the browser, there is not even that. The hard questions are
therefore about what *other* actors do between two transactions, statements, provider
calls or awaits of one, and about processes that die between them.

This directory models those questions. Each action is one transaction, one
autocommitted statement, one effect on a disk or provider, or one event of a page; each
module says which in its header ("Grain"), names the functions it stands for, and
`PROJECT.json` gives the lines.

Source paths below are relative to the repository; code is under `src/`, migrations are
under `migrations/domain/`.

## Running

    tlc -workers 2 -config ProcessingQueue_lease.cfg MCProcessingQueue
    tlc -workers 2 -config ReviewCase_pages.cfg MCReviewCase
    tlc -workers 2 -config SubmissionLifecycle_revisions.cfg MCSubmissionLifecycle
    tlc -workers 2 -config Drafts.cfg MCDrafts
    tlc -workers 2 -config Workspace.cfg MCWorkspace
    for p in *_proofs.tla; do tlapm $p; done

## Inventory

| Component | State | Operations | Shared with | What is hard |
|---|---|---|---|---|
| **Technical processing** (`lib/processing`) | `processing_job` (status, attempts, lease), `revision_analysis`, files' checksums and measurements, `qc_issue`, the copyright check it opens | enqueue, claim, settle, fail; `processRevision`'s separate writes; reconcile, reclaim, owner retry | submission status, copyright check | expiring leases, late workers, crashes, lost acknowledgements, exhausted attempts |
| **Audio tools** (`lib/audio`) | a child process, its pipe, a timer, a promise | run, decode, encode | processing, metadata, media | exit, last output, limit and timer in any order |
| **Metadata analysis** (`lib/analysis`) | provider result, suggestions, `ai_status` | measure, ask models, normalise, persist | processing, review | passes that overlap statement by statement |
| **Uploads** (`lib/domain/uploads`, `features/uploads`) | the page (files, packages, titles), batch, `upload_session`, parts at the provider | select, group, save; start, send, progress, complete, cancel, resume; submit; clean up | storage provider, submissions | provider calls outside the transaction, idempotency key, lost answers, two tabs |
| **Storage providers** (`lib/storage`, `scripts/migrate-storage.ts`) | `STORAGE_PROVIDER`, the row's backend and item id, objects on either | store, open, copy, verify, repoint | uploads, processing, media | a switch of provider, a migration that stops half way |
| **AI generation** (`lib/generation`) | generated objects and records, drafts, a shared temporary directory | generate, save as draft with a compensating delete | uploads, storage, rate limit | failure after storing, saves repeated while the first one runs |
| **Request rate limit** (`lib/http/rate-limit.ts`) | counter per window | consume | generation | the window's edge |
| **Submission lifecycle** (`lib/domain/submissions`) | `submission.status` | the transition table | every component that moves a submission | two components moving one submission |
| **Coordinator review** (`lib/review`) | `review_case` (status, assignee, `row_version`), draft, term selections, checklist, notes | load page, claim, edit, release, reassign, mark ready, reopen, accept all AI suggestions | submission status, taxonomy | stale browsers, pages read in several statements, an unlocked status |
| **Decisions and publication** (`lib/decisions`) | `review_decision`, `change_request`, publication state, canonical metadata | approve, bulk approve, request changes, recommend and resolve rejection, publish, withdraw, republish | review case, submission, copyright check | one decision per case, a gate that reads without locking, lists and pages that must offer what waits |
| **Copyright workflow** (`lib/copyright`) | `copyright_check`, batches, items, jobs, observations, files on disk | prepare batch, build, record observations, scan, reopen, expire, reconcile, clean up | processing, publication gate | at most N builds at once, partial failure, crash between files and rows, decisions from snapshots |
| **Media delivery** (`lib/media`) | `delivery_job`, preview and package artifacts, stored objects | enqueue, claim, finish, fail, reconcile, expire, serve | publication, storage | settlement that ignores the lease; objects without rows |
| **Embeddings** (`lib/embeddings`) | one row that is queue and vector | enqueue missing, claim, complete, fail, reconcile | publication, taxonomy | an input that changes while it is embedded |
| **Catalog search** (`lib/catalog-search`, migration 0007) | search documents | triggers, rebuild script, search, detail, similar | publication, taxonomy, embeddings | a document written from a snapshot that a withdrawal has overtaken |
| **Demand sheet** (`lib/demands`) | demands, responses, the brief | lifecycle, edit, propose, respond, shortlist, accept, withdraw | publication, taxonomy | fit decided twice, by an evaluator and by SQL; Tracks and terms that go |
| **Team access** (`lib/auth`) | `team_access`, identities, sessions | add, activate, change role, suspend, reactivate, bootstrap | every permission check | the last active admin; table and row locks crosswise |
| **Admin operations** (`lib/admin`) | taxonomy terms, maintenance rows | reclaim, activate and deactivate terms | processing, media, review, publication | reclaiming under a live worker |
| **Player and workspace UI** (`components/shell`, `features/*/components`) | the audio element, the Track shown, queue, plays under way; form state of the pages | play, move, toggle, close; the pages' steps | media delivery, uploads, generation, decisions | answers of overlapping requests in any order |
| **Byte ranges and HTTP helpers, migrations** | | | | see *Not modelled* |

What each component must guarantee:

- *Processing*: a job is settled only by the worker with its latest lease; a finished job
  is final; a submission reaches reviewers only after its analysis, and always leaves the
  queue; the issues on record are those the last pass found.
- *Audio tools*: a resolved call is a whole one; a settled call leaves nothing running.
- *Metadata*: suggestions are those of one answer.
- *Uploads*: what the page lets through the server accepts; database, browser and provider
  agree on what is complete; nothing cancelled or half transferred is submitted.
- *Storage*: a row opens with the backend it names, whatever is switched or migrated.
- *Generation*: a preview is saved once and whole.
- *Review*: nobody overwrites what he has not seen; a decision is taken on a complete
  review, once, and what it was taken on stays.
- *Publication*: what is public is the Revision that was approved; a track becomes public
  only through a gate found open; withdrawal and republication follow their rules; the
  lists show what waits.
- *Copyright*: settled batches and completed checks stay; an artifact that is offered
  exists.
- *Media and embeddings*: what is ready is stored, what is queued can be claimed, and a
  vector left behind is found.
- *Search*: a withdrawn Track is not shown, whatever the index says.
- *Demands*: an accepted Track answers the brief; what is offered can be done.
- *Team access*: there is always an active admin.
- *Player*: what sounds is what the player names, or it says that something is wrong.

## Modules

    LeasedJob            what any leased job queue promises (abstract)
        ^ refined by
    ProcessingQueue      queue, workers, submission, Revisions       ProcessingQueue_proofs
    ReviewCase           case, pages, suggestions, primary decision  ReviewCase_proofs
    SubmissionPromise    the transition map and the publication axis (abstract)
        ^ refined by
    SubmissionLifecycle  Revisions, outcomes, gate, publication      SubmissionLifecycle_proofs
    MCProcessingQueue, MCReviewCase, MCSubmissionLifecycle           instances for TLC

    UploadForm           the upload page up to the saved batch
    UploadTransfers      sessions, chunks, completion, cancelling    UploadTransfers_proofs
    GenerationDrafts     generated previews, their saves, the rate limit
    AudioTools           one call of ffmpeg or ffprobe
    TechnicalMeasurement what overlapping passes record of files and issues
    MetadataAnalysis     models, answers, suggestions
    StorageSwitch        which backend holds and opens an object
    Player               the player of the workspace
    MCDrafts             the eight above, one per behaviour          Drafts_proofs

    DemandSheet          Demands, responses, fit
    TeamAccess           assignments, sign-in, locks
    CatalogSearch        search documents and what visitors are shown
    CopyrightWorkflow    checks, batches, builds, observations       CopyrightWorkflow_proofs
    MediaDelivery        previews, packages, their jobs and objects  MediaDelivery_proofs
    EmbeddingQueue       the embedding row, workers, reconciliation
    MCWorkspace          the six above, one per behaviour            Workspace_proofs

`MCDrafts` and `MCWorkspace` put several components into one instance: the variable
`scope` chooses the component that moves, the others keep their initial state, so a run
visits the states of each and no products of them. The components of one instance share
no state that the modules model. Of the parts of an instance the three whose proofs are longest
have a proof module of their own; those of the others stand in `Drafts_proofs` and
`Workspace_proofs`, one after another. Where components do meet, one module has both sides:

- `submission.status`: `ProcessingQueue` brings a submission to `ready_for_review` and
  abstracts the review; `ReviewCase` starts there and goes to the primary decision;
  `SubmissionLifecycle` has the whole of it with processing and review as single steps,
  and goes on to resubmission, resolution and publication.
- Publication is an action of `DemandSheet`, `CatalogSearch`, `MediaDelivery` and
  `EmbeddingQueue` (a Track is published, withdrawn, republished at its one approved
  Revision, as `SubmissionLifecycle` and its theorems have it); the taxonomy likewise.
- The copyright check: opened by `ProcessingQueue`, moved by `CopyrightWorkflow`, read by
  the gate of `SubmissionLifecycle`.
- The lease of a processing job is `ProcessingQueue`'s; that a pass without it goes on is
  what lets passes overlap in `TechnicalMeasurement` and `MetadataAnalysis`.

### LeasedJob

State: for each job `state`, `attempts`, `holder`; for each worker the job and attempt it
*believes* it holds. `Lease` spends an attempt, only a worker whose belief matches the
table may `Settle`, done is final. There is no clock: a leased job may be leased again,
which is a lease that ran out, and the old worker does not notice.

### ProcessingQueue

One submission, its Revisions, one job per Revision (the idempotency key), and workers
with a program counter. The order of a worker's actions is that of `runOneProcessingJob`
and `processRevision`:

| Action | Code |
|---|---|
| `ClaimNextProcessingJob` | `processing/repository.ts` `claimNextProcessingJob`: `Claimable` is its WHERE clause, `GrantLease` its SET |
| `BeginRevisionProcessing`, `ClearTechnicalIssues`, `MeasureSourceFiles`, `UpsertQcIssues` | the writes of `processRevision` up to the measurements |
| `CompleteTechnicalAnalysis`, `OpenCopyrightCheck` | the two statements of `markTechnicalComplete` |
| `Finalize...`, `MetadataFails`, `WarnMetadataUnavailable` | `finalizeRevisionForReview`, and the path without AI metadata |
| `MarkProcessingJobSucceeded`, `MarkProcessingJobFailed` | the settlement, with its acknowledgement possibly lost |
| `FailTechnicalAnalysis`, `FailCopyrightCheck` | the statements of `markTechnicalFailed`, which do not look at the lease |
| `LeaseExpires`, `Crash` | time, and the death of a process at any point |
| `ReclaimExpiredProcessingJobs`, `ReconcileMissingJobs`, `RetryRevisionProcessing` | operator, reconcile script, owner |
| `SubmitCompletedDraft`, `CreateRevision`, `StartReview`, `RequestChanges` | the environment: producer and reviewers |

`disturbed`, `resubmitted` and `requeues` are history variables, read only by properties
and by the bound. Abstracted: measurements and AI answers (success, retryable error,
permanent error), `next_attempt_at` (a delay passes whenever it likes), `ai_status`, the
loop of issue upserts (one step), `max_attempts` (one constant). Approval and rejection
are indistinguishable from `in_review` here.

### ReviewCase

One Revision's case. Every mutation is one transaction that locks the case row; every
statement of a page load is a step of its own, because `loadReviewAggregate` reads the
case first and the terms, checklist and so on afterwards over a pool, and the route
(`app/(workspace)/review/[submissionId]/page.tsx`) reads the decision packet after that.

| Variable | Code |
|---|---|
| `status`, `caseStatus`, `assignee`, `version` | `submission.status`, and `review_case.status`, `.assigned_to_user_id`, `.row_version` (0: no row) |
| `fields`, `selected`, `checks` | draft fields by source kind, selected Use Case terms, checklist |
| `active` | `taxonomy_term.is_active` |
| `decision`, `packet` | the primary `review_decision` and its snapshot, which an approval makes canonical |
| `page` | per reviewer: what the browser shows, which statements are pending, and the versions its forms post |
| `accepting` | per reviewer: an `acceptAllAiSuggestions` request between its statements |

`Edit` is what all forms share (`lockEditableCase`, `bumpCase`, and the page that is
loaded anew); the other actions have the names of their functions. `Decide` is what the
three primary decisions share. Abstracted: a refused request and an idempotent repeat
change nothing and are not steps; a reviewer has one page at a time; values are only their
source; `not_applicable` is `pass`; the track is music; whether the Format field and term
agree is left to chance, so approval is possible at least as often as in the code;
taxonomy activity has no version, so terms are compared only up to activity.

### SubmissionPromise

The transition map of `domain/submissions/lifecycle.ts`, which no repository calls (only its
test does), and the publication axis of `docs/submission-lifecycle.md`: publication moves
while the submission is approved, and approval is final. `archived` is left out: no code
writes it.

### SubmissionLifecycle

Any number of submissions, each with its Revisions, and a review team of admins and
coordinators.

| Variable | Code |
|---|---|
| `status`, `current` | `submission.status`, the number of `current_revision_id` |
| `revisionStatus`, `rights`, `check` | per Revision: `revision_status`, the rights declaration, the current round of its copyright check |
| `decision`, `resolution` | the primary `review_decision` of the Revision's case and the one that resolves it |
| `openRequests`, `resolvedBy` | `change_request` |
| `termsComplete` | what the gate asks of the accepted, active terms |
| `publication`, `publishedRevision` | `catalog.track` |
| `request` | per user: the publication request under way |

A mutation is one transaction that locks the submission, hence one action with the name of
its function. Publication has three: `AskToPublish`, one `LoadPublicationInput` for each
Track, and `Publish`. `loadPublicationInput` locks submission, Revision and Track, but
joins the copyright check and reads the terms and the approval in the same statement. If
that statement waits for a lock, PostgreSQL re-reads the locked rows and keeps the
statement's snapshot for the others; in bulk, the gate of the first Track is read long before the
commit. So the gate is read at any time before the commit (`LoadPublicationInput`), and the
status, the Revision and the publication are those at the commit (`Publishable`).

The gate is moved by observations and corrections, a reopened check, a taxonomy term that
is deactivated, and the end of the rights period. `moved` records, for properties
only, which gates closed after a request had read them. Abstracted: an outcome is `clear` (a
completed check with one of the acceptable outcomes) or `claimed` (any other); the batch an
observation was made in is left out; title and vocal state come with
the approval and stay; a refused request and an idempotent repeat change nothing.

A producer who uploads a requested Revision twice leaves a draft behind. One who submits
without uploading submits the old Revision again (finding 3): its case is decided, so
`StartReview` never starts, and the submission waits in `ready_for_review` for good.

### UploadForm and UploadTransfers

`UploadForm` is the state of `upload-workspace.tsx` (selected files, packages with roles and
titles, the step shown, the batch shown) and the first half of `createUploadDraftBatch`. A
request to save whose connection breaks is still handled, perhaps after a later one, with
the page's idempotency key. On the server it looks for a batch with the key (`LookUpBatch`)
and, in a transaction after that, inserts one (`InsertBatch`), which the unique index lets one
request do; it may have stored its batch and still answer an error. A batch is named by the
request that stored it: `stored` are those, `createdBatch` is the one the page shows. The page
checks less than the schema: titles, the number of Tracks and a second package of a requested
Revision are found out by the server.

`UploadTransfers` follows each file of a draft from the row to the object:

| Variable | Code |
|---|---|
| `stage`, `acknowledged`, `backend` | the submission, its acknowledgement, the provider it was created with |
| `session`, `uploaded`, `keyed`, `itemKnown`, `audio` | `upload_session`, `audio_file` |
| `part`, `object` | what the provider holds of the file: a part, an object, or nothing (`Gone`) |
| `fileStatus`, `controller`, `transfer` | what the workspace shows; per transfer its file, offset and the request under way |
| `cancel`, `cleanup` | a cancellation and the clean-up script between their statement and their provider call |

The local provider appends at an offset it checks, OneDrive answers with the range it
expects; completion asks the provider, then writes the row. The creating POST
(`creation`) takes the files one after another, asks the provider for a session and records
it; it may die between any two of these, and a failure takes the file it is at to `failed`. `cleaned` is a history variable: the operator's clean-up looks
at the row and deletes after that.

### GenerationDrafts

A save of a generated preview reads the record, checks that nobody has saved it, copies
the object through a temporary directory named after the *preview*, commits and, if the
commit fails, deletes what it stored. Two saves of one preview share that directory. The
rate limit is a fixed window (`MaxRequests`, `MaxWindows`).

### AudioTools, TechnicalMeasurement, MetadataAnalysis

`AudioTools` has the events of the child process, its pipe and the timer, and the three
wrappers, which settle at different ones. `TechnicalMeasurement` has what a pass writes -
files, checksums, issues of files, of Stems against their Master and of duplicates - and
`MetadataAnalysis` what the AI half writes; both let passes over one Revision overlap
statement by statement. `MeasureInit` chooses what the uploaded bytes are (a song, a
silent start, no audio), of which the quality checks raise one issue per kind. `lastPass`
and `due` are history variables: the pass that cleared the issues last, and what it had to
find.

### StorageSwitch

`provider` is the configuration, `row` a file's backend and origin, `copies` the backends
its object is on. Readers differ: `openStoredAudio` follows the row, `processRevision`
the configured provider; an item id is recorded with the upload session, a playback
artifact's with the artifact, and a generated draft has neither. The migration copies,
checks, repoints, and may stop between any two of these.

### Player

What JavaScript runs between two awaits is one step. `plays` are the calls of `playTrack`
under way: waiting for the answer, or for `audio.play()`. None is cancelled. Three things
follow from that which are not errors of the property and which the model shows: a play that
is answered after the player was closed opens it again; an answer that comes late may show a
Track the queue does not hold, and when it ends the first of the queue follows; a Track whose
preview is not ready is named, with a message, while the Track before goes on.

### DemandSheet

A Demand, its brief (a number that an edit of what fit depends on raises), its responses,
and Tracks that are published, withdrawn, republished. A transaction locks the Demand's row
and refuses a stale `row_version`, so a request that succeeds acts on what its page showed.
Fit has two definitions, as in the code: the evaluator (`EligibleForAcceptance`) and the
SQL of the list, the covered count and the search for music (`CoveredBy`,
`FoundForDemand`). `OfferedTransitions` are the page's buttons. The page that finds existing
music asks for every Required term at once, and the search accepts fewer terms
(`MaxSelections`, `MAX_CATALOG_FILTER_SELECTIONS`) than a Demand may have (`MaxRequirements`),
and active ones only; otherwise it throws and the page shows nothing (`SearchAccepted`).
So `ReadyCanBeFulfilled` promises only of a Demand with no more than `MaxSelections`
Required terms that its search finds every Track that could be accepted.

### TeamAccess

The grain is a lock: a change takes the table lock, then the row, counts, writes; a sign-in
takes the row and needs the table to write, so the two may wait for each other, and
PostgreSQL aborts one (`AbandonChange`, `RefuseActivation`).

### CatalogSearch

A statement reads the snapshot of its beginning, waits for rows another transaction has
written and then writes what follows from its snapshot. That is how a document of a
withdrawn Track comes to be; what protects the visitor is that every query repeats the
predicate. A visit has as many statements as the page's queries.

### CopyrightWorkflow

Checks in rounds (`round`: a reopening begins one), batches with their job, the files of a
batch, workers between their steps, and the two decisions taken apart into what the
statement's snapshot showed and the commit. A worker builds artifact and manifest into the
store one after the other; the clean-up marks a batch expired and unlinks after that.

### MediaDelivery

One Track; a *subject* is what a job makes, the preview or a download package. A worker
stores the object, links it, records it and settles the job, and its lease, which nothing
renews, may expire at any step. `generated` are the subjects with an object, `expired` the
packages whose time is over, `sweeping` those whose object the clean-up has removed before
it writes so. A statement may throw before or after it took effect, the last one, `finishJob`,
included: the catch block then fails work that is recorded. Both the script's and the Admin's
reclaim are actions.

### EmbeddingQueue

One row per Track is queue and vector. A canonical text is a number and its hash the same
number; a vector is the text it was computed from. A worker that lost its lease is refused
only while another worker's is written in the row; `failEmbeddingJob` goes by id alone.

## Runs

Every passing run finishes within five minutes at two workers.

| Run | Instance | Question |
|---|---|---|
| `processing_lease` | 2 workers, 1 Revision, 2 attempts, 1 requeue | Is the queue a leased queue (`ImplementsLeasedJob`), is completed work recorded, and does a submission settle? |
| `processing_revisions` | 2 workers, 2 Revisions, 1 attempt, 1 requeue; workers symmetric | Can a worker late with one Revision advance, reopen or lose the other? |
| `review_pages` | admin and coordinator, 1 required field, 1 term, 1 check, the coordinator accepts suggestions, 6 versions | Does `row_version` keep forms, suggestions and decisions from acting on what has changed? |
| `lifecycle` | 1 submission with 3 Revisions, or 2 with 1 each (`OneOrShort`); 1 admin; submissions symmetric | Do decisions, change requests, Revisions, lists and the public Track ever contradict each other, can a Track become public through a gate that was not open, alone or in bulk, and does the code follow the transition map? |
| `drafts` | see below | Does what comes in arrive whole and once, and is what is recorded of it of one piece? |
| `workspace` | see below | Do the parts around the library keep what they promise while two of everything race? |
| `processing_exhausted` | violated | docs: abandoned running jobs become claimable |
| `processing_stale_failure` | violated | docs: safe to run more than one worker |
| `processing_resubmission` | violated | docs: submitting requires a draft Revision |
| `review_accept_all` | violated | UI: decided fields are left alone |
| `media_spent_job` | violated | docs: a durable queue with bounded attempts |
| `lifecycle_second_recommendation` | violated | docs: an Admin resolves a pending recommendation |

`drafts` by `scope`: *uploads* one file of two chunks, two transfers of it, each chunk sent
again once; *form* two files, two packages, two save requests; *generation* one preview,
three saves, two requests per window; *tools* three chunks of output and a limit of two;
*measurement* two Revisions of a Master and a Stem, two workers, three passes; *analysis*
two workers, two models, three passes; *storage* two Masters; *player* two Tracks, pages of
up to two, two plays under way.

`workspace` by `scope`: *demand* two Tracks, up to two Required terms of which a search
accepts one, a target up to two, two briefs; *team* two people; *search* two Tracks, two connections, one visitor; *copyright*
one check in up to two rounds, two builders, one observer, two attempts; *media* one Track
with its preview and one package, two workers, two jobs of two attempts; *embeddings* one
Track, two workers, three texts.

`Bounded` of the two instances cuts off combinations, never a single hazard: it says, for
one, that a Revision is uploaded to local storage when it was requested, that a file is not
cancelled and cleaned up at the same moment, that of Tracks withdrawn, rejected or referred
to and responses there are two in all, that the second term is used beside one Track
before anyone responds, that a visitor searches while one of two connections
is idle. The comment beside each names every cut. Sets that the modules treat alike share
names (`a`, `b`), so that one symmetry serves all scopes.

*Why the bounds are enough.* Two workers are what a lease race needs: one late, one
current. Two attempts include a first and a last one; two Revisions an earlier and a
current one. One requeue resets attempts once under a worker that is still writing. In
`ReviewCase` two users make one stale and one fresh page, one of them with the admin's
rights. Six versions are a claim, the required field, the term, ready and a decision, or,
for a case the admin edits without a claim, the same up to a reopening and an edit after
it; an old page and a suggestion under way survive every kind of step. Suggestions are
accepted by the coordinator (`Accepters`), whose right to edit the admin can take away
meanwhile. More fields, terms or checks would only tell apart edits that the version
treats alike; the theorems hold for any number of them.

In `SubmissionLifecycle` three Revisions are an earlier, a skipped (abandoned draft) and a
current one; two submissions are the least bulk publication can tear apart; one admin's
request is overtaken by his own other steps, which need no second person. The copyright
stage is on: off, the gate only has less to say. The theorems hold for both and any sizes.

In `drafts` and `workspace` two chunks are a first and a last one; three saves one that
fails, one that runs and one that begins; three passes one that is late, one current, one
after it; three chunks of output go one beyond the limit; two plays one that is overtaken;
two Tracks one accepted and one that is not; two terms are one more than a search accepts, and
two save requests one that stores and one that overtakes it; three texts one stored, one claimed, one
current. Two people are enough for two Admins to demote each other, which is all the final
Admin can suffer (`TheTeamKeepsAnAdmin` is proved for any number).

*Fairness* (`FairSpec`, `SubmissionSettles` only). Weak fairness of a worker's own steps: a
process runs on or has died (`Crash` is never forced, and a crashed worker is idle). Weak fairness
of `LeaseExpires`: time passes. Weak fairness of `ReconcileMissingJobs`: it runs from a
scheduler. Strong fairness of claiming each Revision's job: workers poll in an endless
loop and the claim orders by due time, so a job that becomes claimable again and again is
claimed. Nothing is assumed about the owner, the reviewers, the reclaiming operator, or the
absence of crashes. `SubmissionSettles` therefore ends in review, in a failed job, or in
the abandoned state of the first finding below. The other components have no liveness
property: what waits in them waits for a person, or for a script nobody schedules in the
code.

Deadlock is checked in `review_pages` and the `lifecycle` runs, where taxonomy, uploads or
publication requests can always go on; it is off where a failed job may wait for its owner,
or a page for its user, for ever.

Every property of a passing run has a mutant, an operator beside the one it varies (a guard
dropped, a lease not compared, a version not bumped, a lock shared) under which TLC finds
the property violated.

## What is proved

For every value of the constants under the modules' named assumptions, by TLAPS.

**ProcessingQueue_proofs** (any number of workers, Revisions, attempts, requeues)

- `TypeCorrectness`. `TypeOK` is inductive: it includes the lease-shape and attempt
  constraints of the schema.
- `LeasesFence`. Together with `TypeOK` the fencing property is inductive: a claim raises
  `attempts` and overwrites `leaseOwner`, so an old holder no longer owns the lease.
- `ReviewFollowsAnalysis`, `CopyrightFollowsAnalysis`. Strengthened by `TechnicalInv`: a
  worker past `markTechnicalComplete` has its own Revision's analysis completed, which
  nothing resets.
- `SucceededIsReviewable`. Strengthened by `QueueInv`: Revisions that do not exist yet
  are blank (`FutureIsBlank`), a draft is neither queued nor analysed
  (`DraftIsUnsubmitted`, `DraftIsNotAnalysed`), and a Revision whose worker has begun
  is either still in the queue's hands or out of it for good (`BegunStaysBegun`).
- `SucceededIsRecorded`. `Orderly`, of every Revision that is not in `disturbed`: it has one
  worker at a time (`ClaimRecords`: a claimable job has none), that worker owns a lease that
  has not run out or has settled the job already (`Undisturbed`), has written what its program
  counter says (`Progress`), and a succeeded job has its record. A worker whose
  acknowledgement was lost believes it returns a job that has succeeded; it does no harm
  because it has an attempt left and so does not report a failure.
- `LifecycleIsRespected`, `SucceededIsFinal`. Action properties from `TypeOK`.
- `QueueIsLeasedQueue`. Refinement of `LeasedJob`: initial states map to initial states,
  every step to a step or a stutter, from `TypeOK`, `LeaseFencing` and `FreshJob` (a job
  that does not exist has spent no attempts).

**ReviewCase_proofs** (any team, fields, terms, checks, sources, bounds)

- `TypeCorrect`.
- `VersionsIdentifyContent`. `PageInv` adds that no page is from the future
  (`PageVersions`) and that a case without a row is blank (`NoRowIsBlank`): a page loaded when there was
  no case reads terms of no case later, when there may be one. Lemma `StepShape` is the
  heart: whoever changes content makes a new version, and only loads fill pages.
- `StaleFormsAreRefused`. From the previous one and `LockEditableCase`.
- `ReadyReviewsAreComplete`, `OutcomesMatchDecisions`, `DecidedPacketsStand`. Inductive
  together (`DecisionInv`), not one by one: a decided case keeps its content because it is not
  in progress, and it is not in progress because its submission has left review.
- `CoordinatorValuesAreKept`. `AcceptInv`: a field about to be saved was no coordinator's
  value at the version it was read at, and that version is not from the future.

**SubmissionLifecycle_proofs** (any submissions, team and number of Revisions, copyright stage
on or off)

- `LifecycleTypes`, `ChangesAreAskedOnce`, `StandingRevision`, `OutcomesAgree`,
  `PublicTracksAreApproved`. None is inductive alone. `Inv` adds that only Revisions up to
  the current one exist (`RevisionsAreNumbered`), that the current Revision is where its
  submission is (`CurrentFitsStatus`), and that only what was submitted has been decided
  (`DraftsAreUndecided`). Lemma `ApprovedIsFinal` is the heart of what concerns
  publication: no upload, review or resolution touches an approved submission.
- `PublicationGoverned`. From `AdmittedWereOpen`: what a request has admitted is approved,
  and either its gate is open or it has closed since (`GateCloses`).
- `ListsAreTrue`. `Inv` with `Waits`: what is in review is undecided, what is approved was
  approved as it is, and nothing that was sent back is later than an open request
  (`SentBackUpToCurrent`), so the latest request, which the page shows, is the open one.
- `LifecycleKeepsPromise`. Refinement of `SubmissionPromise`; a withdrawal maps to a
  publication move only because what is public is approved.

**UploadTransfers_proofs** (any files, transfers, chunks, repeated sends)

- `UploadTypesAreKept`, `CompletionStaysAgreed`, `AvailableStaysStored`. Inductive together, as
  `UploadInv`: the agreement of rows, browser and submission cannot be kept without knowing what
  each request under way may still write. `Fits` says that of a transfer: a request beyond the
  verification has a storage key, and one that has linked its object finds it, unless the session
  was cancelled or the clean-up came. `CreationFits` says it of the creating POST, which comes
  to no file twice. `RowsFit` relates session, storage and browser of one file.
- Lemma `UploadKeeps` is the heart. It carries `UploadInv` over any step that stores, records and
  shows as `Storing`, `Recording` and `Showing` permit (nothing stored is lost, completed and
  cancelled are for good) and leaves each request where it fits; the actions are then taken by
  what they touch.
- This proof found a fault of the model: a creating POST could record a file, and then take it
  up again. In the code each file is handled once (`createUploadDraftBatch`), which `creation.file`
  now says. No run had shown it.

**MediaDelivery_proofs** (any workers, jobs, packages, attempts)

- `MediaTypesAreKept`, with the unique index on active jobs: `OneIsActive` needs that a job has a
  subject and a package its row (`JobsAreWhole`).
- `OfferedMediaIsStored`. The settlement looks at no lease, so any number of workers may hold one
  subject, and each removes what it has stored when it fails. `LinkedIsAlone` says why that takes
  away nothing that is offered: `storeGeneratedObject` links under a name that may not exist, so
  one worker at a time is past it, and its subject is not ready before it has recorded it.
  `ExpiredIsLeftAlone`: nobody stores a package that the clean-up may be removing.

**CopyrightWorkflow_proofs** (any Tracks, rounds, batches, builders, observers)

- `CopyrightTypesAreKept`: a build job is owned just while it runs, by a worker with a batch.
- `SettledWorkIsKept`, an action property, from `SettledInv`: a round that has not been opened
  has no state and nothing refers to it, and a completed check has an observation that stands.
- `OfferedBatchesExist`, from `FilesInv`: an attempt comes to `completeBatchBuild` with both
  files written or with its batch `Gone`, that is, cleaned up, expired or completed by a scan;
  what is gone stays so (`GoneStays`), and an attempt publishes only what is being built.

**Workspace_proofs** (any values of the constants of `MCWorkspace`)

- `TheTeamKeepsAnAdmin`. A check that another Admin is active is still right at the write
  (`CheckStillHolds`): its transaction holds the table, and whoever changes the set of active
  Admins needs the table too. A sign-in of somebody who is already active changes nothing of
  that set and needs no lock. Types from `SessionsAreBound`.
- `StaleVectorsAreFound`. Text and hash travel together from the claimable row to the worker
  and back with the vector (`TextsKeepTheirHash`); a late worker therefore stores an old vector
  under the old hash, and the comparison finds it. Types from: a lease has an owner.
- `AcceptancesStand`, from `DemandInv`: there are no responses before there is a Demand. Of any
  number of Tracks finitely many are accepted, which is what lets them be counted.
- `OfferedIsFulfilled` needs no invariant: in every state the evaluator and the SQL count the
  same acceptances (`CountedAlike`). A Track that has all terms the Demand requires has only
  active ones, and passes a search that asks for one of each category (`EligibleIsFound`),
  unless the search refuses them for their number; the terms it is asked for are just the
  Required ones (`SelectionsAreRequired`).
- `WithdrawnIsHidden`, an action property, from `SearchTypeOK` alone: no property of the index is
  needed, because each last statement of a query looks at the publication itself.
- `EveryPartRuns`: the composition implements the specification of each part, so all of this
  holds of it; `WorkspaceTypesAreKept` is its type invariant.

**Drafts_proofs** (any values of the constants of `MCDrafts`)

- `RepeatedSavesAreOne`, from `InsertsAreValid`: the transaction of a save begins only for what
  the schema has passed, and whoever stores finds nothing stored. That the look at the key is
  outside the transaction does no harm because of the index alone.
- `CheckedFilesAreAccepted`, from `PlacesAreChecked`: what the first two pages have checked still
  holds on the later ones, where no file is moved and no package in use goes away. No run checks
  it.
- `PreviewsAreSavedOnce`, from `SaveFits` and `SavedOnce`: a save that has stored its audio has
  stored it whole, and who commits a draft has found the record uncommitted in the same
  statement. That the temporary directory is shared does no harm because `storeGeneratedObject`
  compares the size of what it copied: a save whose file was removed or is still being written
  by another stores nothing.
- `CallsAreWhole`, from `OutputIsWhole`: as long as nothing was dropped what is kept is what was
  read, within the limit; a process that did its work has written everything; and a
  resolved call has nothing left to read.
- `LastPassIsComplete`, from `FindsWhatIsDue`: what was due when the last pass cleared the issues
  is found by it, file by file, or still to be written by it. Checksums are only added, so that
  what was due stays due (`DueStaysDue`).
- `SuggestionsMatch`, from `ResultsAreKnown`: who is about to store has a result, and the row is
  never emptied.
- `MovingStrandsNothing`, from `StorageInv`: the script's list holds only objects that have a
  row, so that no new object takes the place of one, and the object it is checking is already
  on OneDrive; a row is repointed to nothing else.
- `PlayerIsHonest`. When the player names a Track that the element does not have, it has said so
  or a play without an answer is still to come (`NamesWhatItHas`); the weaker excuse "a play is
  under way" is not inductive.
- `EveryPartRuns` and `DraftsTypesAreKept`, as for the workspace.

The assumptions are those the modules name beside their constants: bounds are natural numbers
(most of them at least one), the value that stands for "none" is none of the values it stands
beside, roles are apart, and special members belong to their set. The sets are any sets, finite
or not.

*Only model-checked*: the liveness property `SubmissionSettles`. Liveness under fairness is out of
the prover's reach, as are ENABLED and induction over recursive definitions; every other property
of a passing run is stated by a theorem.

## Findings

1. **A job whose worker dies in its last attempt is stuck.** The claim requires
   `attempt_count < max_attempts`; the job stays `running` with an expired lease, is never
   claimed and never failed, and only an operator's reclaim changes its
   status (to one that is not claimable either). `processing_exhausted`.
2. **A late worker marks completed work as failed.** `markTechnicalFailed` does not look at the
   lease and `markProcessingJobFailed` answers "failed" even if its UPDATE matched no
   row. `processing_stale_failure`.
3. **The same Revision can be submitted twice** after a change request, and its finished
   job is not run again. `processing_resubmission`.
4. **"Accept all" overwrites confirmed values.** A producer's or embedded value the reviewer
   chose is replaced by the AI's; only values of source `coordinator` are
   skipped. `review_accept_all`.
5. **A delivery job whose attempts are spent can return to the queue**, by the Admin's reclaim or
   by a late worker's failure. Its next claim breaks the attempts check of the table, and
   as it is first in the order, so does every claim after it. `media_spent_job`.
6. **A second recommendation to reject cannot be resolved from the page**, which pairs the
   first recommendation of the whole history with any resolution of it.
   `lifecycle_second_recommendation`.

Seen while modelling, without a run of their own:

- `docs/storage-provider-setup.md` says that a switch of the provider never strands a file;
  `processRevision` opens what it processes with the configured provider, not with the
  row's, so a Revision uploaded before the switch fails its analysis until it is migrated.
  `MovedAudioOpens` states what does hold.
- A review page may show one draft and post another's version: draft and decision packet are
  read at two moments. The window needs reopen, edit and ready between two statements.
- `docs/demand-sheet.md` wants meaningful direction of an open Demand; only `createDemand`
  checks it, not the transition from draft nor an edit.
- `docs/demand-sheet.md:40` says that the find page translates scalar and Required requirements
  into the canonical filters. `demandInputSchema` accepts 100 terms, `catalogSearchSchema` throws
  above 50 selections, and `assertKnownTaxonomyFilters` throws if a term has become inactive:
  the page then fails, although with more than 50 active terms a Track that could be accepted
  may exist.
- `validateRelatedInput` refuses an edit of a Demand that keeps a term or a reference that has
  become inactive or unpublished since.
- `listResumableBatches` also lists sessions whose creation died before they had a storage
  key; their Resume always fails.
- Maintenance jobs are enqueued by the Admin's page and run by no code.
- `finishJob` that throws after a package or preview was recorded sets the subject back to
  queued or failed: what was ready is made again, or is no longer served.
- A COMMIT whose answer is lost while a generated preview is saved makes the catch block delete
  the audio of a draft that exists; `PreviewIsSavedOnceAndWhole` leaves such a save out.
- The upload page makes its idempotency key once. After a save whose answer was lost, files can
  be added or removed; the repeated save is answered with the first batch, and what was added
  is not part of it. A save that overtakes another in the server is refused with the error of
  the unique index, and succeeds when it is repeated.
- What a property leaves out, because the code does not keep it: `CompletedWorkIsRecorded` jobs in
  `disturbed`, `SubmissionSettles` the abandoned state of finding 1, `AvailableAudioIsStored` files
  the operator's clean-up has deleted from under their completion (`cleaned`).
- That only an Admin republishes a withdrawn Track (`PublicationIsGoverned`) shows in the theorem
  `PublicationGoverned` alone: the `lifecycle` run has no coordinators.

## Plan

1. Done: every component of the inventory has a module, except those under *Not modelled*.
2. Done: every invariant and action property of a passing run is proved.
3. `EmbeddingQueue` and `MediaDelivery` against a weaker `LeasedJob` whose settlement may
   ignore the lease.

## Not modelled, and why

Byte ranges and request parsing: pure functions. Migrations: a sequential runner in one
transaction under a table lock; the constraints it creates are used where the modules rest
on them. Ranking, paging and facet counts of the search, the Admin's reports and
diagnostics, and notification of pages: read-only queries. Providers of storage, AI and
copyright scans: external, represented by the outcomes their callers distinguish.
Measurements of signals: numeric, represented by what raises an issue. In the browser:
volume, seeking, focus, navigation and layout, and forms that keep no state between
requests. The seeding of a role for local development (`prepareLocalAssignment`). Row-lock
cycles (`lockReview` locks case then submission, `startOrClaimReview` submission then case):
PostgreSQL aborts one of the two, which is a refused request.
