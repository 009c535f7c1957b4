---------------------------- MODULE UploadTransfers ----------------------------
(***************************************************************************)
(* The files of one draft on their way from the browser to the storage     *)
(* provider: the upload sessions the server keeps, what the provider       *)
(* holds, the transfers of the browser, cancellation, and the operator's   *)
(* cleanup (src/lib/domain/uploads/repository.ts, src/lib/storage,         *)
(* src/features/uploads/components).                                       *)
(*                                                                         *)
(* Grain: one statement, transaction or provider call is one step.  A      *)
(* transfer is an uploadOne of the workspace or a worker of the resume     *)
(* panel; it has one request under way, and an aborted transfer leaves its *)
(* request to run on the server.  Two transfers may carry the same file:   *)
(* Start Upload is not disabled while one runs, and the same batch may be  *)
(* open in another tab.  Bytes are counted in chunks.                      *)
(***************************************************************************)
EXTENDS Integers, FiniteSets

CONSTANTS
  Files,       \* the registered files of the Track package
  Transfers,   \* bound: transfers under way at a time
  ChunkCount,  \* chunks of a file
  MaxSends,    \* times one chunk is sent (uploadOne: 4)
  NoTransfer   \* a model value

ASSUME ChunkAssumption == ChunkCount \in Nat \ {0}
ASSUME SendAssumption == MaxSends \in Nat \ {0}
ASSUME NoTransferAssumption == NoTransfer \notin Transfers \cup Files

Gone == -1     \* no partial upload; as an answer, the upload session expired
Sizes == 0 .. ChunkCount

VARIABLES
  stage,         \* submission.status: "requested" is changes_requested
  backend,       \* config.provider when the draft was created
  acknowledged,  \* a submission_acknowledgement of the Revision
  session,       \* upload_session.status
  uploaded,      \* upload_session.uploaded_byte_size
  keyed,         \* the session's storage reference is recorded
  itemKnown,     \* upload_session.provider_item_id is recorded
  audio,         \* audio_file.technical_status
  part,          \* bytes of the .part file or of the OneDrive upload session
  object,        \* bytes of the finished object, Gone if there is none
  creation,      \* the POST that creates the draft: the file it is at, those still to come
  transfer,      \* per transfer: its file and where its request is
  cancel,        \* per file: the cancel request under way
  cleanup,       \* the operator's cleanup script
  fileStatus,    \* SelectedUploadFile.status in the browser
  controller,    \* abortControllers of the browser
  cleaned        \* history: files whose object the cleanup has removed

sessionVars == <<session, uploaded, keyed, itemKnown, audio>>
storageVars == <<part, object>>
browserVars == <<fileStatus, controller>>
uploadVars == <<stage, backend, acknowledged, sessionVars, storageVars, creation, transfer,
                cancel, cleanup, browserVars, cleaned>>

-----------------------------------------------------------------------------
NoRequest == [step |-> "idle", item |-> FALSE]
NoCreation == [step |-> "idle", file |-> NoTransfer, todo |-> {}]
IdleTransfer == [step |-> "idle", file |-> NoTransfer, panel |-> FALSE, offset |-> 0,
                 seen |-> 0, sends |-> 0, aborted |-> FALSE]

UploadInit ==
  /\ stage = "absent" /\ backend = "none" /\ acknowledged = FALSE
  /\ session = [f \in Files |-> "absent"]
  /\ uploaded = [f \in Files |-> 0]
  /\ keyed = [f \in Files |-> FALSE]
  /\ itemKnown = [f \in Files |-> FALSE]
  /\ audio = [f \in Files |-> "absent"]
  /\ part = [f \in Files |-> Gone]
  /\ object = [f \in Files |-> Gone]
  /\ creation = NoCreation
  /\ transfer = [t \in Transfers |-> IdleTransfer]
  /\ cancel = [f \in Files |-> NoRequest]
  /\ cleanup = [f \in Files |-> NoRequest]
  /\ fileStatus = [f \in Files |-> "waiting"]
  /\ controller = [f \in Files |-> NoTransfer]
  /\ cleaned = {}

\* upload_session_completed_timestamp_check and _cancelled_timestamp_check: an UPDATE that
\* moves a session out of these without clearing the timestamp raises.
Sealed(f) == session[f] \in {"completed", "cancelled"}

-----------------------------------------------------------------------------
(* Creating the draft: one transaction, then a provider session per file.   *)

CreateUploadDraftBatch(kind, provider, ack) ==
  /\ stage = "absent"
  /\ stage' = kind /\ backend' = provider /\ acknowledged' = ack
  /\ session' = [f \in Files |-> "created"]
  /\ audio' = [f \in Files |-> "registered"]
  /\ creation' = [NoCreation EXCEPT !.step = "provider", !.todo = Files]
  /\ UNCHANGED <<uploaded, keyed, itemKnown, storageVars, transfer, cancel, cleanup,
                 browserVars, cleaned>>

\* The response: saveDraft shows the files as ready or failed.  The idempotency key
\* makes a repeated POST answer with the batch as it is.
LoadCreatedBatch ==
  /\ stage # "absent"
  /\ creation.step = "idle" \/ creation.todo = {}
  /\ creation' = NoCreation
  /\ \E f \in Files : fileStatus[f] = "waiting"
  /\ fileStatus' = [f \in Files |->
       IF fileStatus[f] # "waiting" THEN fileStatus[f]
       ELSE IF session[f] = "failed" THEN "failed" ELSE "ready"]
  /\ UNCHANGED <<stage, backend, acknowledged, sessionVars, storageVars, transfer, cancel,
                 cleanup, controller, cleaned>>

CreateProviderSession(f) ==
  /\ creation.step = "provider" /\ f \in creation.todo
  /\ part' = [part EXCEPT ![f] = IF @ = Gone THEN 0 ELSE @]
  /\ creation' = [creation EXCEPT !.step = "record", !.file = f]
  /\ UNCHANGED <<stage, backend, acknowledged, sessionVars, object, transfer, cancel,
                 cleanup, browserVars, cleaned>>

NextFile(f) == creation' = [NoCreation EXCEPT !.step = "provider", !.todo = creation.todo \ {f}]

\* The audio file is labelled whatever the session is; the session only from created.
RecordProviderSession(f) ==
  /\ creation.step = "record" /\ creation.file = f
  /\ audio' = [audio EXCEPT ![f] = "uploading"]
  /\ keyed' = [keyed EXCEPT ![f] = TRUE]
  /\ session' = [session EXCEPT ![f] = IF @ = "created" THEN "uploading" ELSE @]
  /\ \/ NextFile(f)
     \/ creation' = [creation EXCEPT !.step = "unacknowledged"]
  /\ UNCHANGED <<stage, backend, acknowledged, uploaded, itemKnown, storageVars, transfer,
                 cancel, cleanup, browserVars, cleaned>>

\* The catch: failed, whatever the session is by now, unless the constraint refuses.
FailSessionCreation(f) ==
  /\ creation.step # "idle" /\ f \in creation.todo /\ creation.file \in {f, NoTransfer}
  /\ \/ /\ ~Sealed(f)
        /\ session' = [session EXCEPT ![f] = "failed"]
        /\ NextFile(f)
     \/ /\ Sealed(f)
        /\ creation' = NoCreation
        /\ UNCHANGED session
  /\ UNCHANGED <<stage, backend, acknowledged, uploaded, keyed, itemKnown, audio, storageVars,
                 transfer, cancel, cleanup, browserVars, cleaned>>

CreationDies ==
  /\ creation.step # "idle"
  /\ creation' = NoCreation
  /\ UNCHANGED <<stage, backend, acknowledged, sessionVars, storageVars, transfer, cancel,
                 cleanup, browserVars, cleaned>>

-----------------------------------------------------------------------------
(* How a request of a transfer ends, and what the browser makes of it.      *)

\* finally: the file's controller is forgotten, even when another transfer put it there.
LeaveTransfer(t, result) ==
  LET f == transfer[t].file
      silent == transfer[t].aborted \/ transfer[t].panel
  IN
  /\ transfer' = [transfer EXCEPT ![t] = IdleTransfer]
  /\ fileStatus' = IF silent THEN fileStatus ELSE [fileStatus EXCEPT ![f] = result]
  /\ controller' = IF transfer[t].panel THEN controller ELSE [controller EXCEPT ![f] = NoTransfer]

Fail(t) == LeaveTransfer(t, "failed")
Finish(t) == LeaveTransfer(t, "completed")

\* An answer that arrives: an aborted transfer ends, the others go on.
GoOn(t, next) ==
  IF transfer[t].aborted THEN Fail(t)
  ELSE transfer' = [transfer EXCEPT ![t] = next] /\ UNCHANGED browserVars

AfterOffset(n) == IF n < ChunkCount THEN "chunk" ELSE "complete"

\* 429 and 5xx are sent again, other errors are not.
SendAgain(t) ==
  IF transfer[t].sends + 1 < MaxSends /\ ~transfer[t].panel
  THEN GoOn(t, [transfer[t] EXCEPT !.step = "chunk", !.sends = @ + 1])
  ELSE Fail(t)

ServerStep(t, next) ==
  transfer' = [transfer EXCEPT ![t] = next] /\ UNCHANGED browserVars

At(t, step) == transfer[t].step = step

FrameOfTransfer == UNCHANGED <<stage, backend, acknowledged, creation, cancel, cleanup, cleaned>>

\* startUpload queues every file of the batch, also those that are done or under way.
Queued(f) == fileStatus[f] # "waiting"

UploadOne(t, f) ==
  /\ At(t, "idle") /\ Queued(f)
  /\ transfer' = [transfer EXCEPT ![t] = [IdleTransfer EXCEPT !.step = "status", !.file = f]]
  /\ fileStatus' = [fileStatus EXCEPT ![f] = "uploading"]
  /\ controller' = [controller EXCEPT ![f] = t]
  /\ UNCHANGED <<sessionVars, storageVars>> /\ FrameOfTransfer

\* What the panel lists, by the status the page was rendered with.
Pending(f) == session[f] \notin {"absent", "completed", "cancelled"}

ResumeFromPanel(t, f) ==
  /\ At(t, "idle") /\ Pending(f)
  /\ transfer' = [transfer EXCEPT
       ![t] = [IdleTransfer EXCEPT !.step = "status", !.file = f, !.panel = TRUE]]
  /\ UNCHANGED <<sessionVars, storageVars, browserVars>> /\ FrameOfTransfer

-----------------------------------------------------------------------------
(* GET status.                                                              *)

ReadStatus(t) ==
  LET f == transfer[t].file IN
  /\ At(t, "status")
  /\ \/ /\ session[f] = "completed"
        /\ Finish(t)
     \/ /\ session[f] = "cancelled"
        /\ GoOn(t, [transfer[t] EXCEPT !.step = AfterOffset(uploaded[f]), !.offset = uploaded[f]])
     \/ /\ ~Sealed(f) /\ keyed[f]
        /\ ServerStep(t, [transfer[t] EXCEPT !.step = "probe", !.seen = uploaded[f]])
     \/ /\ ~Sealed(f) /\ ~keyed[f]
        /\ Fail(t)
  /\ UNCHANGED <<sessionVars, storageVars>> /\ FrameOfTransfer

GetUploadStatus(f) ==
  IF backend = "onedrive" THEN part[f]
  ELSE IF object[f] # Gone THEN object[f]
  ELSE IF part[f] = Gone THEN 0 ELSE part[f]

ProbeProvider(t) ==
  /\ At(t, "probe")
  /\ ServerStep(t, [transfer[t] EXCEPT !.step = "sync", !.offset = GetUploadStatus(transfer[t].file)])
  /\ UNCHANGED <<sessionVars, storageVars>> /\ FrameOfTransfer

\* Mutant of ProgressAccepted: the UPDATE looks at the id alone.
ProgressAcceptedAlways(f, n) == TRUE

\* updateUploadProgress: never backwards, and only while the session is open.
ProgressAccepted(f, n) ==
  session[f] \in {"uploading", "paused", "failed"} /\ n >= uploaded[f]

UpdateUploadProgress(f, n) ==
  /\ ProgressAccepted(f, n)
  /\ uploaded' = [uploaded EXCEPT ![f] = n]
  /\ session' = [session EXCEPT ![f] = IF @ = "paused" THEN "uploading" ELSE @]

\* The session as the response shows it: its bytes are where the transfer goes on.
AnswerWith(t, sessionStatus, n) ==
  IF sessionStatus = "completed" THEN Finish(t)
  ELSE GoOn(t, [transfer[t] EXCEPT !.step = AfterOffset(n), !.offset = n, !.seen = 0])

SyncStatus(t) ==
  LET f == transfer[t].file
      reported == transfer[t].offset
  IN
  /\ At(t, "sync")
  /\ \/ /\ reported = Gone /\ session[f] # "cancelled"
        /\ session' = [session EXCEPT ![f] = IF @ = "completed" THEN @ ELSE "expired"]
        /\ UNCHANGED uploaded
        /\ AnswerWith(t, session[f], uploaded[f])
     \/ /\ reported \notin {Gone, transfer[t].seen}
        /\ UpdateUploadProgress(f, reported)
        /\ AnswerWith(t, "uploading", reported)
     \/ /\ reported = transfer[t].seen
        /\ UNCHANGED <<session, uploaded>>
        /\ AnswerWith(t, session[f], uploaded[f])
     \/ /\ \/ reported = Gone /\ session[f] = "cancelled"
           \/ reported \notin {Gone, transfer[t].seen} /\ ~ProgressAccepted(f, reported)
        /\ UNCHANGED <<session, uploaded>>
        /\ Fail(t)
  /\ UNCHANGED <<keyed, itemKnown, audio, storageVars>> /\ FrameOfTransfer

-----------------------------------------------------------------------------
(* PUT chunk.                                                               *)

SendChunk(t) ==
  LET f == transfer[t].file IN
  /\ At(t, "chunk")
  /\ \/ /\ ~Sealed(f) /\ session[f] # "expired" /\ keyed[f]
        /\ ServerStep(t, [transfer[t] EXCEPT !.step = IF backend = "local" THEN "stat" ELSE "write"])
     \/ /\ Sealed(f) \/ session[f] = "expired" \/ ~keyed[f]
        /\ Fail(t)
  /\ UNCHANGED <<sessionVars, storageVars>> /\ FrameOfTransfer

\* The local provider compares the start of the range with the size of the file.
StatPart(t) ==
  /\ At(t, "stat")
  /\ \/ /\ part[transfer[t].file] = transfer[t].offset
        /\ ServerStep(t, [transfer[t] EXCEPT !.step = "write"])
     \/ /\ part[transfer[t].file] # transfer[t].offset
        /\ SendAgain(t)
  /\ UNCHANGED <<sessionVars, storageVars>> /\ FrameOfTransfer

Stored(t, n) == ServerStep(t, [transfer[t] EXCEPT !.step = "progress", !.seen = n])

\* Until the part is unlinked, the object is the same file under another name.
SetPartSize(f, n) ==
  /\ part' = [part EXCEPT ![f] = n]
  /\ object' = [object EXCEPT ![f] = IF @ = Gone THEN Gone ELSE n]

\* Writes at its offset; on an error the file is cut back to the size it had before.
WriteChunkLocally(t) ==
  LET f == transfer[t].file
      end == transfer[t].offset + 1
      size == IF part[f] < end THEN end ELSE part[f]
  IN
  /\ At(t, "write") /\ backend = "local"
  /\ \/ part[f] # Gone /\ SetPartSize(f, size) /\ Stored(t, size)
     \/ part[f] # Gone /\ SetPartSize(f, transfer[t].offset) /\ SendAgain(t)
     \/ part[f] = Gone /\ UNCHANGED storageVars /\ SendAgain(t)
  /\ UNCHANGED sessionVars /\ FrameOfTransfer

\* The last chunk turns the upload session into an item.  An answer may be lost.
WriteChunkToOneDrive(t) ==
  LET f == transfer[t].file
      end == transfer[t].offset + 1
  IN
  /\ At(t, "write") /\ backend = "onedrive"
  /\ \/ /\ part[f] = transfer[t].offset
        /\ part' = [part EXCEPT ![f] = IF end = ChunkCount THEN Gone ELSE end]
        /\ object' = [object EXCEPT ![f] = IF end = ChunkCount THEN end ELSE @]
        /\ Stored(t, end) \/ SendAgain(t)
     \/ /\ part[f] \notin {Gone, transfer[t].offset}
        /\ UNCHANGED storageVars
        /\ Stored(t, part[f])
     \/ /\ UNCHANGED storageVars
        /\ SendAgain(t)
  /\ UNCHANGED sessionVars /\ FrameOfTransfer

SaveProgress(t) ==
  LET f == transfer[t].file
      n == transfer[t].seen
  IN
  /\ At(t, "progress")
  /\ \/ /\ UpdateUploadProgress(f, n)
        /\ itemKnown' = [itemKnown EXCEPT ![f] = @ \/ (backend = "onedrive" /\ n = ChunkCount)]
        /\ GoOn(t, [transfer[t] EXCEPT !.step = AfterOffset(n), !.offset = n, !.seen = 0,
                                       !.sends = 0])
     \/ /\ ~ProgressAccepted(f, n)
        /\ UNCHANGED <<session, uploaded, itemKnown>>
        /\ Fail(t)
  /\ UNCHANGED <<keyed, audio, storageVars>> /\ FrameOfTransfer

-----------------------------------------------------------------------------
(* POST complete.                                                           *)

ReadForCompletion(t) ==
  LET f == transfer[t].file IN
  /\ At(t, "complete")
  /\ \/ session[f] = "completed" /\ Finish(t)
     \/ /\ ~Sealed(f) /\ keyed[f] /\ (backend = "local" \/ itemKnown[f])
        /\ ServerStep(t, [transfer[t] EXCEPT !.step = "verify"])
     \/ /\ session[f] = "cancelled" \/ ~keyed[f] \/ (backend = "onedrive" /\ ~itemKnown[f])
        /\ session[f] # "completed"
        /\ Fail(t)
  /\ UNCHANGED <<sessionVars, storageVars>> /\ FrameOfTransfer

\* The size, and a prefix that must be audio.
VerifyCompletedUpload(t) ==
  LET f == transfer[t].file IN
  /\ At(t, "verify")
  /\ \/ /\ backend = "local" /\ part[f] = ChunkCount
        /\ ServerStep(t, [transfer[t] EXCEPT !.step = "link"])
     \/ /\ backend = "onedrive" /\ object[f] = ChunkCount
        /\ ServerStep(t, [transfer[t] EXCEPT !.step = "commit"])
     \/ Fail(t)
  /\ UNCHANGED <<sessionVars, storageVars>> /\ FrameOfTransfer

\* local: link, which fails if the object exists, then unlink.
LinkPart(t) ==
  LET f == transfer[t].file IN
  /\ At(t, "link")
  /\ \/ /\ part[f] # Gone /\ object[f] = Gone
        /\ object' = [object EXCEPT ![f] = part[f]]
        /\ ServerStep(t, [transfer[t] EXCEPT !.step = "unlink"])
     \/ /\ part[f] = Gone \/ object[f] # Gone
        /\ UNCHANGED object
        /\ Fail(t)
  /\ UNCHANGED <<sessionVars, part>> /\ FrameOfTransfer

UnlinkPart(t) ==
  LET f == transfer[t].file IN
  /\ At(t, "unlink")
  /\ part' = [part EXCEPT ![f] = Gone]
  /\ IF part[f] = Gone THEN Fail(t) ELSE ServerStep(t, [transfer[t] EXCEPT !.step = "commit"])
  /\ UNCHANGED <<sessionVars, object>> /\ FrameOfTransfer

\* WHERE status <> 'cancelled'
CompletionAllowed(f) == session[f] # "cancelled"

CommitCompletion(t) ==
  LET f == transfer[t].file IN
  /\ At(t, "commit")
  /\ \/ /\ CompletionAllowed(f)
        /\ audio' = [audio EXCEPT ![f] = "available"]
        /\ session' = [session EXCEPT ![f] = "completed"]
        /\ uploaded' = [uploaded EXCEPT ![f] = ChunkCount]
        /\ itemKnown' = [itemKnown EXCEPT ![f] = @ \/ backend = "onedrive"]
        /\ Finish(t)
     \/ /\ ~CompletionAllowed(f)
        /\ UNCHANGED <<audio, session, uploaded, itemKnown>>
        /\ Fail(t)
  /\ UNCHANGED <<keyed, storageVars>> /\ FrameOfTransfer

\* The server process, the connection or a statement fails.
RequestDies(t) ==
  /\ ~At(t, "idle")
  /\ Fail(t)
  /\ UNCHANGED <<sessionVars, storageVars>> /\ FrameOfTransfer

-----------------------------------------------------------------------------
(* Pausing, cancelling, cleaning up.                                        *)

AbortTransfers(files) ==
  transfer' = [t \in Transfers |->
    [transfer[t] EXCEPT !.aborted = @ \/ \E f \in files : controller[f] = t]]

\* The buttons beside a transfer; Retry is one of the ways to UploadOne.
TransferButtons(f) ==
  CASE fileStatus[f] = "uploading" -> {"pause", "cancel"}
    [] fileStatus[f] \in {"paused", "failed"} -> {"retry", "cancel"}
    [] fileStatus[f] = "ready" -> {"cancel"}
    [] OTHER -> {}

\* The PATCH moves only a session that is uploading; the browser shows paused anyway.
PauseTransfer(f) ==
  /\ "pause" \in TransferButtons(f)
  /\ AbortTransfers({f})
  /\ session' = [session EXCEPT ![f] = IF @ = "uploading" THEN "paused" ELSE @]
  /\ fileStatus' = [fileStatus EXCEPT ![f] = "paused"]
  /\ UNCHANGED <<stage, backend, acknowledged, uploaded, keyed, itemKnown, audio, storageVars,
                 creation, cancel, cleanup, controller, cleaned>>

GoOffline ==
  /\ \E f \in Files : fileStatus[f] = "uploading"
  /\ AbortTransfers(Files)
  /\ fileStatus' = [f \in Files |-> IF fileStatus[f] = "uploading" THEN "paused" ELSE fileStatus[f]]
  /\ UNCHANGED <<stage, backend, acknowledged, sessionVars, storageVars, creation, cancel,
                 cleanup, controller, cleaned>>

ResumeSession(f) ==
  /\ session[f] \in {"paused", "failed"}
  /\ session' = [session EXCEPT ![f] = "uploading"]
  /\ UNCHANGED <<stage, backend, acknowledged, uploaded, keyed, itemKnown, audio, storageVars,
                 creation, transfer, cancel, cleanup, browserVars, cleaned>>

FrameOfCancel == UNCHANGED <<stage, backend, acknowledged, uploaded, keyed, itemKnown, audio,
                             creation, cleanup, controller, cleaned>>

CancelTransfer(f) ==
  /\ "cancel" \in TransferButtons(f) /\ cancel[f].step = "idle"
  /\ stage = "draft" /\ session[f] # "cancelled"
  /\ AbortTransfers({f})
  /\ cancel' = [cancel EXCEPT ![f] =
       [step |-> IF keyed[f] THEN "update" ELSE "updateUnkeyed", item |-> itemKnown[f]]]
  /\ UNCHANGED <<session, storageVars, fileStatus>> /\ FrameOfCancel

\* Mutant of CancelAllowed: the row that was read decides.
CancelAllowedAlways(f) == TRUE

\* WHERE status <> 'completed'
CancelAllowed(f) == session[f] # "completed"

\* A session whose storage was never recorded is cancelled, and the request then fails.
CancelUploadSession(f) ==
  /\ cancel[f].step \in {"update", "updateUnkeyed"}
  /\ \/ /\ CancelAllowed(f)
        /\ session' = [session EXCEPT ![f] = "cancelled"]
        /\ cancel' = IF cancel[f].step = "update" THEN [cancel EXCEPT ![f].step = "delete"]
                     ELSE [cancel EXCEPT ![f] = NoRequest]
     \/ /\ ~CancelAllowed(f)
        /\ UNCHANGED session
        /\ cancel' = [cancel EXCEPT ![f] = NoRequest]
  /\ UNCHANGED <<storageVars, transfer, fileStatus>> /\ FrameOfCancel

\* OneDrive: the item if it was known when the row was read, else the upload session.
DeleteDraftObject(f, item) ==
  IF backend = "local"
  THEN object' = [object EXCEPT ![f] = Gone] /\ part' = [part EXCEPT ![f] = Gone]
  ELSE IF item THEN object' = [object EXCEPT ![f] = Gone] /\ UNCHANGED part
  ELSE part' = [part EXCEPT ![f] = Gone] /\ UNCHANGED object

\* A provider that fails is noted on the session and forgiven.
CancelDeletesObject(f) ==
  /\ cancel[f].step = "delete"
  /\ \/ DeleteDraftObject(f, cancel[f].item)
     \/ UNCHANGED storageVars
  /\ cancel' = [cancel EXCEPT ![f] = NoRequest]
  /\ fileStatus' = [fileStatus EXCEPT ![f] = "cancelled"]
  /\ UNCHANGED <<session, transfer>> /\ FrameOfCancel

CancelDies(f) ==
  /\ cancel[f].step # "idle"
  /\ cancel' = [cancel EXCEPT ![f] = NoRequest]
  /\ UNCHANGED <<session, storageVars, transfer, fileStatus>> /\ FrameOfCancel

FrameOfCleanup == UNCHANGED <<stage, backend, acknowledged, sessionVars, creation, transfer,
                              cancel, browserVars>>

\* cleanupCancelledUpload looks at the row again before it deletes.
CleanupEligible(f) == session[f] \in {"cancelled", "expired"}

CleanupCancelledUpload(f) ==
  /\ cleanup[f].step = "idle"
  /\ CleanupEligible(f) /\ stage = "draft" /\ keyed[f]
  /\ cleanup' = [cleanup EXCEPT ![f] = [step |-> "delete", item |-> itemKnown[f]]]
  /\ UNCHANGED <<storageVars, cleaned>> /\ FrameOfCleanup

CleanupDeletesObject(f) ==
  /\ cleanup[f].step = "delete"
  /\ DeleteDraftObject(f, cleanup[f].item)
  /\ cleanup' = [cleanup EXCEPT ![f] = NoRequest]
  /\ cleaned' = cleaned \cup {f}
  /\ FrameOfCleanup

\* The upload URL of OneDrive has its own lifetime.
ProviderSessionExpires(f) ==
  /\ backend = "onedrive" /\ part[f] # Gone
  /\ part' = [part EXCEPT ![f] = Gone]
  /\ UNCHANGED <<stage, backend, acknowledged, sessionVars, object, creation, transfer, cancel,
                 cleanup, browserVars, cleaned>>

-----------------------------------------------------------------------------
(* Submission, as far as the files decide it.                               *)

FrameOfSubmission == UNCHANGED <<backend, sessionVars, storageVars, creation, transfer, cancel,
                                 cleanup, browserVars, cleaned>>

AcknowledgeUploadRights ==
  /\ stage \in {"draft", "requested"} /\ ~acknowledged
  /\ acknowledged' = TRUE
  /\ UNCHANGED stage /\ FrameOfSubmission

\* Mutant of EveryFileAvailable: what the provider holds is taken for received.
EveryFileStored == \A f \in Files : object[f] = ChunkCount

EveryFileAvailable == \A f \in Files : audio[f] = "available"

SubmitCompletedFiles ==
  /\ stage \in {"draft", "requested"} /\ acknowledged /\ EveryFileAvailable
  /\ stage' = "submitted"
  /\ UNCHANGED acknowledged /\ FrameOfSubmission

UploadNext ==
  \/ \E kind \in {"draft", "requested"}, provider \in {"local", "onedrive"}, ack \in BOOLEAN :
       CreateUploadDraftBatch(kind, provider, ack)
  \/ LoadCreatedBatch \/ CreationDies
  \/ \E t \in Transfers, f \in Files : UploadOne(t, f) \/ ResumeFromPanel(t, f)
  \/ \E t \in Transfers :
       \/ ReadStatus(t) \/ ProbeProvider(t) \/ SyncStatus(t)
       \/ SendChunk(t) \/ StatPart(t) \/ WriteChunkLocally(t) \/ WriteChunkToOneDrive(t)
       \/ SaveProgress(t)
       \/ ReadForCompletion(t) \/ VerifyCompletedUpload(t) \/ LinkPart(t) \/ UnlinkPart(t) \/ CommitCompletion(t)
       \/ RequestDies(t)
  \/ \E f \in Files :
       \/ CreateProviderSession(f) \/ RecordProviderSession(f) \/ FailSessionCreation(f)
       \/ PauseTransfer(f) \/ ResumeSession(f)
       \/ CancelTransfer(f) \/ CancelUploadSession(f) \/ CancelDeletesObject(f) \/ CancelDies(f)
       \/ CleanupCancelledUpload(f) \/ CleanupDeletesObject(f) \/ ProviderSessionExpires(f)
  \/ GoOffline \/ AcknowledgeUploadRights \/ SubmitCompletedFiles

UploadSpec == UploadInit /\ [][UploadNext]_uploadVars

-----------------------------------------------------------------------------
\* Every variable is in its domain, no session counts more than its file has, and a
\* completed session counts all of it (upload_session's CHECK constraints).
UploadTypeOK ==
  /\ stage \in {"absent", "draft", "requested", "submitted"}
  /\ backend \in {"none", "local", "onedrive"} /\ acknowledged \in BOOLEAN
  /\ session \in [Files -> {"absent", "created", "uploading", "paused", "completed", "failed",
                            "cancelled", "expired"}]
  /\ uploaded \in [Files -> Sizes]
  /\ keyed \in [Files -> BOOLEAN] /\ itemKnown \in [Files -> BOOLEAN]
  /\ audio \in [Files -> {"absent", "registered", "uploading", "available"}]
  /\ part \in [Files -> Sizes \cup {Gone}] /\ object \in [Files -> Sizes \cup {Gone}]
  /\ creation \in [step : {"idle", "provider", "record", "unacknowledged"},
                   file : Files \cup {NoTransfer}, todo : SUBSET Files]
  /\ transfer \in [Transfers ->
       [step : {"idle", "status", "probe", "sync", "chunk", "stat", "write", "progress",
                "complete", "verify", "link", "unlink", "commit"},
        file : Files \cup {NoTransfer}, panel : BOOLEAN, offset : Sizes \cup {Gone},
        seen : Sizes, sends : 0 .. MaxSends - 1, aborted : BOOLEAN]]
  /\ cancel \in [Files -> [step : {"idle", "update", "updateUnkeyed", "delete"}, item : BOOLEAN]]
  /\ cleanup \in [Files -> [step : {"idle", "delete"}, item : BOOLEAN]]
  /\ fileStatus \in [Files -> {"waiting", "ready", "uploading", "paused", "completed", "failed",
                               "cancelled"}]
  /\ controller \in [Files -> Transfers \cup {NoTransfer}]
  /\ cleaned \in SUBSET Files
  /\ \A f \in Files : session[f] = "completed" => uploaded[f] = ChunkCount

\* Database, browser and submission agree on what is complete: a file is available exactly
\* when its session is completed, a file the workspace shows as completed or as cancelled
\* is that for good, and a submission has only available files.  Nothing that is cancelled,
\* expired or half transferred is submitted, however completion, cancellation, cleanup and
\* the creating POST interleave.
CompletionIsAgreed ==
  /\ \A f \in Files : audio[f] = "available" <=> session[f] = "completed"
  /\ \A f \in Files : fileStatus[f] \in {"completed", "cancelled"} => session[f] = fileStatus[f]
  /\ stage = "submitted" => EveryFileAvailable

\* The object behind available audio exists: cancelling never removes it.  The operator's
\* cleanup may have: it looks at the row, and deletes after that.
AvailableAudioIsStored ==
  \A f \in Files : audio[f] = "available" => object[f] # Gone \/ f \in cleaned
=============================================================================
