----------------------- MODULE UploadTransfers_proofs -----------------------
(***************************************************************************)
(* Proofs about UploadTransfers, for any number of files, transfers,       *)
(* chunks and repeated sends: browser, database and submission agree on    *)
(* what is complete, and available audio is stored.  The invariant is      *)
(* carried from step to step by one lemma, UploadKeeps, which asks of a    *)
(* step only what it does to the stored objects (Storing), to the rows     *)
(* (Recording), to what is shown (Showing) and to the requests under way   *)
(* (Fits); the actions are then taken by what they touch.                  *)
(***************************************************************************)
EXTENDS UploadTransfers, TLAPS

SessionStates == {"absent", "created", "uploading", "paused", "completed", "failed", "cancelled", "expired"}
AudioStates == {"absent", "registered", "uploading", "available"}
FileStates == {"waiting", "ready", "uploading", "paused", "completed", "failed", "cancelled"}
Bytes == Sizes \cup {Gone}
CreationRows == [step : {"idle", "provider", "record", "unacknowledged"},
                 file : Files \cup {NoTransfer}, todo : SUBSET Files]
TransferRows ==
  [step : {"idle", "status", "probe", "sync", "chunk", "stat", "write", "progress",
           "complete", "verify", "link", "unlink", "commit"},
   file : Files \cup {NoTransfer}, panel : BOOLEAN, offset : Bytes,
   seen : Sizes, sends : 0 .. MaxSends - 1, aborted : BOOLEAN]
CancelRows == [step : {"idle", "update", "updateUnkeyed", "delete"}, item : BOOLEAN]
CleanupRows == [step : {"idle", "delete"}, item : BOOLEAN]

UploadTypes ==
  /\ stage \in {"absent", "draft", "requested", "submitted"}
  /\ backend \in {"none", "local", "onedrive"} /\ acknowledged \in BOOLEAN
  /\ session \in [Files -> SessionStates] /\ uploaded \in [Files -> Sizes]
  /\ keyed \in [Files -> BOOLEAN] /\ itemKnown \in [Files -> BOOLEAN]
  /\ audio \in [Files -> AudioStates]
  /\ part \in [Files -> Bytes] /\ object \in [Files -> Bytes]
  /\ creation \in CreationRows
  /\ transfer \in [Transfers -> TransferRows]
  /\ cancel \in [Files -> CancelRows] /\ cleanup \in [Files -> CleanupRows]
  /\ fileStatus \in [Files -> FileStates]
  /\ controller \in [Files -> Transfers \cup {NoTransfer}]
  /\ cleaned \in SUBSET Files

\* What a request knows when it is about to write: the range is one of the file, its storage
\* has been recorded, and an object that was verified is gone only if it was cancelled or
\* cleaned up.
Fits(x) ==
  /\ x.step # "idle" => x.file \in Files /\ stage # "absent"
  /\ x.step \in {"chunk", "stat", "write"} => x.offset \in 0 .. ChunkCount - 1
  /\ x.step \in {"verify", "link", "unlink", "commit"} => keyed[x.file]
  /\ x.step \in {"unlink", "commit"} =>
       object[x.file] # Gone \/ x.file \in cleaned \/ session[x.file] = "cancelled"

\* The POST that creates the draft is at one file, and never comes to one twice.
CreationFits ==
  /\ stage = "absent" => creation.step = "idle"
  /\ creation.step \in {"idle", "provider"} => creation.file = NoTransfer
  /\ creation.step \in {"record", "unacknowledged"} => creation.file \in creation.todo
  /\ \A f \in creation.todo : keyed[f] => creation.step = "unacknowledged" /\ creation.file = f

\* A completed session has all its bytes and a recorded storage, an object is deleted for a
\* cancelled one only, and before the draft there is nothing.
RowsFit ==
  /\ \A f \in Files : session[f] = "completed" => keyed[f] /\ uploaded[f] = ChunkCount
  /\ \A f \in Files : cancel[f].step = "delete" => session[f] = "cancelled"
  /\ stage = "absent" => \A f \in Files :
       /\ session[f] = "absent" /\ audio[f] = "absent" /\ ~keyed[f]
       /\ fileStatus[f] = "waiting" /\ cancel[f].step = "idle"

\* Why the uploads agree: what the requests under way know, where the creating POST is, and
\* what the rows of one file say together.
UploadInv ==
  /\ UploadTypes
  /\ \A t \in Transfers : Fits(transfer[t])
  /\ CreationFits
  /\ RowsFit
  /\ CompletionIsAgreed
  /\ AvailableAudioIsStored

-----------------------------------------------------------------------------
\* What a step may do to what is stored ...
Storing ==
  /\ part' \in [Files -> Bytes] /\ object' \in [Files -> Bytes]
  /\ \A f \in Files : object[f] # Gone => object'[f] # Gone \/ f \in cleaned' \/ session[f] = "cancelled"

\* ... and to the rows: completed and cancelled are for good, and a session is completed
\* together with its audio, when there is an object.
Recording ==
  /\ session' \in [Files -> SessionStates] /\ uploaded' \in [Files -> Sizes]
  /\ keyed' \in [Files -> BOOLEAN] /\ itemKnown' \in [Files -> BOOLEAN]
  /\ audio' \in [Files -> AudioStates]
  /\ \A f \in Files : session[f] \in {"completed", "cancelled"} => session'[f] = session[f]
  /\ \A f \in Files : keyed[f] => keyed'[f]
  /\ \A f \in Files : session'[f] = "completed" =>
       \/ session[f] = "completed" /\ uploaded'[f] = uploaded[f]
       \/ keyed'[f] /\ uploaded'[f] = ChunkCount /\ (object'[f] # Gone \/ f \in cleaned')
  /\ \A f \in Files :
       \/ audio'[f] = "available" <=> session'[f] = "completed"
       \/ audio'[f] = audio[f] /\ (session'[f] = "completed" <=> session[f] = "completed")

\* What is shown in the browser.
Showing ==
  /\ fileStatus' \in [Files -> FileStates]
  /\ \A f \in Files : fileStatus'[f] \in {"completed", "cancelled"} =>
       fileStatus'[f] = fileStatus[f] \/ session'[f] = fileStatus'[f]
  /\ controller' \in [Files -> Transfers \cup {NoTransfer}]

\* A request that stays where it is.
Waits(t) ==
  /\ transfer'[t].step = transfer[t].step /\ transfer'[t].file = transfer[t].file
  /\ transfer'[t].offset = transfer[t].offset

LEMMA UploadStarts == UploadInit => UploadInv
<1> SUFFICES ASSUME UploadInit PROVE UploadInv
  OBVIOUS
<1>1. 0 \in Sizes /\ Gone \in Bytes /\ 0 \in 0 .. MaxSends - 1 /\ 0 \in Bytes
  BY ChunkAssumption, SendAssumption DEF Sizes, Bytes
<1>2. /\ IdleTransfer \in TransferRows /\ NoRequest \in CancelRows /\ NoRequest \in CleanupRows
      /\ NoCreation \in CreationRows
  BY <1>1 DEF IdleTransfer, TransferRows, NoRequest, CancelRows, CleanupRows, NoCreation, CreationRows
<1>3. UploadTypes
  <2>1. /\ transfer \in [Transfers -> TransferRows] /\ cancel \in [Files -> CancelRows]
        /\ cleanup \in [Files -> CleanupRows] /\ creation \in CreationRows
    BY <1>2 DEF UploadInit
  <2>2. /\ uploaded \in [Files -> Sizes] /\ part \in [Files -> Bytes] /\ object \in [Files -> Bytes]
    BY <1>1 DEF UploadInit
  <2>3. /\ session \in [Files -> SessionStates] /\ keyed \in [Files -> BOOLEAN] /\ itemKnown \in [Files -> BOOLEAN]
        /\ audio \in [Files -> AudioStates] /\ fileStatus \in [Files -> FileStates]
        /\ controller \in [Files -> Transfers \cup {NoTransfer}]
    BY DEF UploadInit, SessionStates, AudioStates, FileStates
  <2>4. /\ stage \in {"absent", "draft", "requested", "submitted"} /\ cleaned \in SUBSET Files
        /\ backend \in {"none", "local", "onedrive"} /\ acknowledged \in BOOLEAN
    BY DEF UploadInit
  <2> QED BY <2>1, <2>2, <2>3, <2>4 DEF UploadTypes
<1>4. \A t \in Transfers : Fits(transfer[t])
  BY DEF UploadInit, IdleTransfer, Fits
<1>5. CreationFits
  BY DEF UploadInit, NoCreation, CreationFits
<1>6. RowsFit
  BY DEF UploadInit, RowsFit, NoRequest
<1>7. CompletionIsAgreed /\ AvailableAudioIsStored
  BY DEF UploadInit, CompletionIsAgreed, AvailableAudioIsStored
<1> QED BY <1>3, <1>4, <1>5, <1>6, <1>7 DEF UploadInv

LEMMA UploadKeeps ==
  ASSUME UploadInv, Storing, Recording, Showing,
         stage' \in {"absent", "draft", "requested", "submitted"},
         stage' = "absent" => stage = "absent" /\ UNCHANGED <<session, audio, keyed, fileStatus, cancel>>,
         stage' = "submitted" => stage = "submitted" \/ EveryFileAvailable,
         backend' \in {"none", "local", "onedrive"}, acknowledged' \in BOOLEAN,
         creation' \in CreationRows, CreationFits',
         transfer' \in [Transfers -> TransferRows],
         \A t \in Transfers : Fits(transfer[t])' \/ Waits(t),
         cancel' \in [Files -> CancelRows],
         \A f \in Files : cancel'[f].step = "delete" => cancel[f].step = "delete" \/ session'[f] = "cancelled",
         cleanup' \in [Files -> CleanupRows],
         cleaned \subseteq cleaned', cleaned' \subseteq Files
  PROVE  UploadInv'
<1>1. UploadTypes'
  BY DEF UploadTypes, Storing, Recording, Showing
<1>2. CompletionIsAgreed /\ AvailableAudioIsStored /\ RowsFit
  BY DEF UploadInv
<1>3. \A f \in Files : audio'[f] = "available" <=> session'[f] = "completed"
  BY <1>2 DEF Recording, CompletionIsAgreed
<1>4. \A f \in Files : fileStatus'[f] \in {"completed", "cancelled"} => session'[f] = fileStatus'[f]
  BY <1>2 DEF Recording, Showing, CompletionIsAgreed
<1>5. \A f \in Files : audio[f] = "available" => audio'[f] = "available"
  BY <1>2, <1>3 DEF Recording, CompletionIsAgreed
<1>6. CompletionIsAgreed'
  BY <1>2, <1>3, <1>4, <1>5 DEF CompletionIsAgreed, EveryFileAvailable
<1>7. AvailableAudioIsStored'
  <2> SUFFICES ASSUME NEW f \in Files, audio'[f] = "available"
               PROVE  object'[f] # Gone \/ f \in cleaned'
    BY DEF AvailableAudioIsStored
  <2>1. CASE session[f] = "completed"
    BY <1>2, <2>1 DEF CompletionIsAgreed, AvailableAudioIsStored, Storing
  <2>2. CASE session[f] # "completed"
    BY <1>3, <2>2 DEF Recording
  <2> QED BY <2>1, <2>2
<1>8. RowsFit'
  BY <1>2 DEF RowsFit, Recording
<1>9. ASSUME NEW t \in Transfers PROVE Fits(transfer[t])'
  <2> SUFFICES ASSUME Waits(t) PROVE Fits(transfer[t])'
    OBVIOUS
  <2>1. Fits(transfer[t])
    BY DEF UploadInv
  <2>2. stage # "absent" => stage' # "absent"
    OBVIOUS
  <2> QED BY <2>1, <2>2 DEF Fits, Waits, Storing, Recording
<1> QED BY <1>1, <1>6, <1>7, <1>8, <1>9 DEF UploadInv

-----------------------------------------------------------------------------
\* A request of one transfer ends ...
Ends(t, result) ==
  /\ transfer' = [transfer EXCEPT ![t] = IdleTransfer]
  /\ fileStatus' \in {fileStatus, [fileStatus EXCEPT ![transfer[t].file] = result]}
  /\ controller' \in {controller, [controller EXCEPT ![transfer[t].file] = NoTransfer]}

\* ... or goes on.
GoesOn(t, next) == transfer' = [transfer EXCEPT ![t] = next] /\ UNCHANGED browserVars

LEMMA WaysToGoOn ==
  ASSUME NEW t \in Transfers, NEW next
  PROVE  /\ Fail(t) => Ends(t, "failed")
         /\ Finish(t) => Ends(t, "completed")
         /\ ServerStep(t, next) => GoesOn(t, next)
         /\ GoOn(t, next) => Ends(t, "failed") \/ GoesOn(t, next)
<1>1. ASSUME NEW result, LeaveTransfer(t, result) PROVE Ends(t, result)
  BY <1>1 DEF LeaveTransfer, Ends
<1> QED BY <1>1 DEF Fail, Finish, ServerStep, GoOn, GoesOn

LEMMA CreationWaits ==
  ASSUME UploadInv, UNCHANGED <<creation, keyed>>, stage' = "absent" => stage = "absent"
  PROVE  creation' \in CreationRows /\ CreationFits'
<1>1. CreationFits /\ creation \in CreationRows
  BY DEF UploadInv, UploadTypes
<1> QED BY <1>1 DEF CreationFits

LEMMA TransferMoves ==
  ASSUME UploadInv, NEW t \in Transfers, NEW y \in TransferRows, stage # "absent",
         transfer' = [transfer EXCEPT ![t] = y], Fits(y)',
         Storing, Recording, Showing, FrameOfTransfer, keyed' = keyed
  PROVE  UploadInv'
<1>1. /\ UNCHANGED <<stage, backend, acknowledged, creation, cancel, cleanup, cleaned>>
  BY DEF FrameOfTransfer
<1>2. UploadTypes
  BY DEF UploadInv
<1>3. /\ transfer' \in [Transfers -> TransferRows] /\ transfer'[t] = y
      /\ \A v \in Transfers \ {t} : transfer'[v] = transfer[v]
  BY <1>2 DEF UploadTypes
<1>4. Fits(transfer[t])'
  BY <1>3
<1>5. \A v \in Transfers : Fits(transfer[v])' \/ Waits(v)
  BY <1>3, <1>4 DEF Waits
<1>6. creation' \in CreationRows /\ CreationFits'
  BY <1>1, CreationWaits
<1>7. stage' \in {"absent", "draft", "requested", "submitted"} /\ backend' \in {"none", "local", "onedrive"}
      /\ acknowledged' \in BOOLEAN /\ cancel' \in [Files -> CancelRows]
      /\ cleanup' \in [Files -> CleanupRows] /\ cleaned' \subseteq Files
  BY <1>1, <1>2 DEF UploadTypes
<1> HIDE DEF CreationRows, TransferRows, CancelRows, CleanupRows
<1> QED BY <1>1, <1>3, <1>5, <1>6, <1>7, UploadKeeps

\* Rows and objects that are left as they are.
LEMMA RowsKept == UploadInv /\ UNCHANGED sessionVars => Recording
<1> SUFFICES ASSUME UploadInv, UNCHANGED sessionVars PROVE Recording
  OBVIOUS
<1>1. UploadTypes /\ CompletionIsAgreed
  BY DEF UploadInv
<1> QED BY <1>1 DEF UploadTypes, CompletionIsAgreed, Recording, sessionVars

LEMMA ObjectsKept == UploadInv /\ UNCHANGED storageVars => Storing
<1> QED BY DEF UploadInv, UploadTypes, Storing, storageVars

LEMMA BrowserKept == UploadInv /\ UNCHANGED browserVars => Showing
<1> QED BY DEF UploadInv, UploadTypes, Showing, browserVars

\* What a request that is under way is.
LEMMA UnderWay ==
  ASSUME UploadInv, NEW t \in Transfers, transfer[t].step # "idle"
  PROVE  /\ transfer[t] \in TransferRows /\ Fits(transfer[t])
         /\ transfer[t].file \in Files /\ stage # "absent"
<1> QED BY DEF UploadInv, UploadTypes, Fits

LEMMA TransferEnds ==
  ASSUME UploadInv, NEW t \in Transfers, transfer[t].step # "idle",
         Ends(t, "failed") \/ (Ends(t, "completed") /\ session'[transfer[t].file] = "completed"),
         Storing, Recording, FrameOfTransfer, keyed' = keyed
  PROVE  UploadInv'
<1>1. PICK f \in Files : f = transfer[t].file
  BY UnderWay
<1>2. PICK result \in {"failed", "completed"} :
        /\ transfer' = [transfer EXCEPT ![t] = IdleTransfer]
        /\ fileStatus' \in {fileStatus, [fileStatus EXCEPT ![f] = result]}
        /\ controller' \in {controller, [controller EXCEPT ![f] = NoTransfer]}
        /\ result = "completed" => session'[f] = "completed"
  BY <1>1 DEF Ends
<1>3. UploadTypes
  BY DEF UploadInv
<1>4. Showing
  BY <1>2, <1>3 DEF UploadTypes, Showing, FileStates
<1>5. IdleTransfer \in TransferRows
  BY ChunkAssumption, SendAssumption DEF IdleTransfer, TransferRows, Bytes, Sizes
<1>6. Fits(IdleTransfer)'
  BY DEF Fits, IdleTransfer
<1> QED BY <1>2, <1>4, <1>5, <1>6, TransferMoves, UnderWay

LEMMA TransferGoes ==
  ASSUME UploadInv, NEW t \in Transfers, transfer[t].step # "idle",
         NEW y \in TransferRows, GoesOn(t, y), y.file = transfer[t].file,
         y.step \in {"chunk", "stat", "write"} => y.offset \in 0 .. ChunkCount - 1,
         y.step \in {"verify", "link", "unlink", "commit"} => keyed[y.file],
         y.step \in {"unlink", "commit"} =>
           object'[y.file] # Gone \/ y.file \in cleaned' \/ session'[y.file] = "cancelled",
         Storing, Recording, FrameOfTransfer, keyed' = keyed
  PROVE  UploadInv'
<1>1. Fits(y)'
  BY UnderWay DEF Fits, FrameOfTransfer
<1> QED BY <1>1, TransferMoves, BrowserKept, UnderWay DEF GoesOn

-----------------------------------------------------------------------------
\* Where a request may go on from a number of bytes, and what sending a chunk again is.
LEMMA AfterOffsetGoes ==
  ASSUME NEW n \in Sizes
  PROVE  /\ AfterOffset(n) \in {"chunk", "complete"} /\ n \in Bytes
         /\ AfterOffset(n) = "chunk" => n \in 0 .. ChunkCount - 1
BY ChunkAssumption DEF AfterOffset, Sizes, Bytes

LEMMA ContinuedRow ==
  ASSUME NEW x \in TransferRows, NEW n \in Sizes
  PROVE  LET y == [x EXCEPT !.step = AfterOffset(n), !.offset = n] IN
         /\ y \in TransferRows /\ y.file = x.file /\ y.step \in {"chunk", "complete"}
         /\ y.step = "chunk" => y.offset \in 0 .. ChunkCount - 1
<1>1. PICK s \in {"chunk", "complete"} : s = AfterOffset(n)
  BY AfterOffsetGoes
<1>2. n \in Bytes /\ (s = "chunk" => n \in 0 .. ChunkCount - 1)
  BY <1>1, AfterOffsetGoes
<1> QED BY <1>1, <1>2 DEF TransferRows

LEMMA RepeatedRow ==
  ASSUME NEW x \in TransferRows, x.sends + 1 < MaxSends
  PROVE  LET z == [x EXCEPT !.step = "chunk", !.sends = @ + 1] IN
         z \in TransferRows /\ z.step = "chunk" /\ z.file = x.file /\ z.offset = x.offset
<1>1. PICK n \in 0 .. MaxSends - 1 : n = x.sends + 1
  BY SendAssumption DEF TransferRows
<1>2. [x EXCEPT !.step = "chunk", !.sends = n] \in TransferRows
  BY DEF TransferRows
<1> QED BY <1>1, <1>2 DEF TransferRows

-----------------------------------------------------------------------------
\* Requests that write neither rows nor objects.
LEMMA StartKeeps ==
  ASSUME UploadInv, NEW t \in Transfers, NEW f \in Files, UploadOne(t, f) \/ ResumeFromPanel(t, f)
  PROVE  UploadInv'
<1>1. stage # "absent"
  BY DEF UploadOne, ResumeFromPanel, Queued, Pending, UploadInv, RowsFit
<1>2. UNCHANGED <<sessionVars, storageVars>> /\ FrameOfTransfer
  BY DEF UploadOne, ResumeFromPanel
<1>3. IdleTransfer \in TransferRows
  BY ChunkAssumption, SendAssumption DEF IdleTransfer, TransferRows, Bytes, Sizes
<1>4. PICK y \in TransferRows :
        transfer' = [transfer EXCEPT ![t] = y] /\ y.step = "status" /\ y.file = f
  <2> DEFINE one == [IdleTransfer EXCEPT !.step = "status", !.file = f]
             other == [IdleTransfer EXCEPT !.step = "status", !.file = f, !.panel = TRUE]
  <2>1. one \in TransferRows /\ one.step = "status" /\ one.file = f
    BY <1>3 DEF TransferRows
  <2>2. other \in TransferRows /\ other.step = "status" /\ other.file = f
    BY <1>3 DEF TransferRows
  <2>3. transfer' = [transfer EXCEPT ![t] = one] \/ transfer' = [transfer EXCEPT ![t] = other]
    BY DEF UploadOne, ResumeFromPanel
  <2> HIDE DEF one, other
  <2> QED BY <2>1, <2>2, <2>3
<1>5. Fits(y)'
  BY <1>1, <1>2, <1>4 DEF Fits, FrameOfTransfer
<1>6. Showing
  <2>1. UploadTypes
    BY DEF UploadInv
  <2>2. /\ fileStatus' \in {fileStatus, [fileStatus EXCEPT ![f] = "uploading"]}
        /\ controller' \in {controller, [controller EXCEPT ![f] = t]}
    BY DEF UploadOne, ResumeFromPanel, browserVars
  <2> QED BY <2>1, <2>2 DEF UploadTypes, Showing, FileStates
<1>8. Storing /\ Recording /\ keyed' = keyed
  BY <1>2, RowsKept, ObjectsKept DEF sessionVars
<1> QED BY <1>1, <1>2, <1>4, <1>5, <1>6, <1>8, TransferMoves

LEMMA ReadKeeps ==
  ASSUME UploadInv, NEW t \in Transfers,
         \/ ReadStatus(t) \/ ProbeProvider(t) \/ SendChunk(t) \/ StatPart(t)
         \/ ReadForCompletion(t) \/ VerifyCompletedUpload(t) \/ RequestDies(t)
  PROVE  UploadInv'
<1> DEFINE x == transfer[t]
           f == transfer[t].file
<1>1. x.step # "idle"
  BY DEF ReadStatus, ProbeProvider, SendChunk, StatPart, ReadForCompletion, VerifyCompletedUpload,
         RequestDies, At
<1>2. x \in TransferRows /\ Fits(x) /\ f \in Files
  BY <1>1, UnderWay
<1>3. UNCHANGED <<sessionVars, storageVars>> /\ FrameOfTransfer
  BY DEF ReadStatus, ProbeProvider, SendChunk, StatPart, ReadForCompletion, VerifyCompletedUpload,
         RequestDies
<1>4. Storing /\ Recording /\ UNCHANGED <<session, uploaded, keyed, itemKnown, audio, part, object>>
  BY <1>3, RowsKept, ObjectsKept DEF sessionVars, storageVars
<1>5. UploadTypes
  BY DEF UploadInv
<1>6. ASSUME Ends(t, "failed") \/ (Ends(t, "completed") /\ session[f] = "completed")
      PROVE  UploadInv'
  BY <1>1, <1>3, <1>4, <1>6, TransferEnds
<1>7. ASSUME NEW y \in TransferRows, GoesOn(t, y), y.file = f,
             y.step \in {"chunk", "stat", "write"} => y.offset \in 0 .. ChunkCount - 1,
             y.step \in {"verify", "link", "unlink", "commit"} => keyed[f],
             y.step \in {"unlink", "commit"} => object[f] # Gone
      PROVE  UploadInv'
  BY <1>1, <1>3, <1>4, <1>7, TransferGoes
<1>8. CASE ReadStatus(t)
  <2> DEFINE y == [x EXCEPT !.step = AfterOffset(uploaded[f]), !.offset = uploaded[f]]
             z == [x EXCEPT !.step = "probe", !.seen = uploaded[f]]
  <2>1. uploaded[f] \in Sizes
    BY <1>2, <1>5 DEF UploadTypes
  <2>2. /\ y \in TransferRows /\ y.step \in {"chunk", "complete"} /\ y.file = f
        /\ y.step = "chunk" => y.offset \in 0 .. ChunkCount - 1
    BY <1>2, <2>1, ContinuedRow
  <2>3. z \in TransferRows /\ z.step = "probe" /\ z.file = f
    BY <1>2, <2>1 DEF TransferRows
  <2>4. \/ Finish(t) /\ session[f] = "completed"
        \/ GoOn(t, y) \/ ServerStep(t, z) \/ Fail(t)
    BY <1>8 DEF ReadStatus
  <2> HIDE DEF x, y, z
  <2> QED BY <1>6, <1>7, <2>2, <2>3, <2>4, WaysToGoOn
<1>9. CASE ProbeProvider(t)
  <2> DEFINE y == [x EXCEPT !.step = "sync", !.offset = GetUploadStatus(f)]
  <2>1. GetUploadStatus(f) \in Bytes
    BY <1>2, <1>5, ChunkAssumption DEF UploadTypes, GetUploadStatus, Bytes, Sizes
  <2>2. y \in TransferRows /\ y.step = "sync" /\ y.file = f
    BY <1>2, <2>1 DEF TransferRows
  <2>3. ServerStep(t, y)
    BY <1>9 DEF ProbeProvider
  <2> HIDE DEF x, y
  <2> QED BY <1>7, <2>2, <2>3, WaysToGoOn
<1>10. CASE SendChunk(t)
  <2> DEFINE y == [x EXCEPT !.step = IF backend = "local" THEN "stat" ELSE "write"]
  <2>1. /\ y \in TransferRows /\ y.step \in {"stat", "write"} /\ y.file = f /\ y.offset = x.offset
    BY <1>2 DEF TransferRows
  <2>2. x.offset \in 0 .. ChunkCount - 1
    BY <1>2, <1>10 DEF SendChunk, At, Fits
  <2>3. ServerStep(t, y) \/ Fail(t)
    BY <1>10 DEF SendChunk
  <2> HIDE DEF x, y
  <2> QED BY <1>6, <1>7, <2>1, <2>2, <2>3, WaysToGoOn
<1>11. CASE StatPart(t)
  <2> DEFINE y == [x EXCEPT !.step = "write"]
             z == [x EXCEPT !.step = "chunk", !.sends = @ + 1]
  <2>1. y \in TransferRows /\ y.step = "write" /\ y.file = f /\ y.offset = x.offset
    BY <1>2 DEF TransferRows
  <2>2. x.sends + 1 < MaxSends => z \in TransferRows /\ z.step = "chunk" /\ z.file = f /\ z.offset = x.offset
    BY <1>2, RepeatedRow
  <2>3. x.offset \in 0 .. ChunkCount - 1
    BY <1>2, <1>11 DEF StatPart, At, Fits
  <2>4. ServerStep(t, y) \/ (x.sends + 1 < MaxSends /\ GoOn(t, z)) \/ Fail(t)
    BY <1>11 DEF StatPart, SendAgain
  <2> HIDE DEF x, y, z
  <2> QED BY <1>6, <1>7, <2>1, <2>2, <2>3, <2>4, WaysToGoOn
<1>12. CASE ReadForCompletion(t)
  <2> DEFINE y == [x EXCEPT !.step = "verify"]
  <2>1. y \in TransferRows /\ y.step = "verify" /\ y.file = f
    BY <1>2 DEF TransferRows
  <2>2. \/ Finish(t) /\ session[f] = "completed"
        \/ keyed[f] /\ ServerStep(t, y)
        \/ Fail(t)
    BY <1>12 DEF ReadForCompletion
  <2> HIDE DEF x, y
  <2> QED BY <1>6, <1>7, <2>1, <2>2, WaysToGoOn
<1>13. CASE VerifyCompletedUpload(t)
  <2> DEFINE y == [x EXCEPT !.step = "link"]
             z == [x EXCEPT !.step = "commit"]
  <2>1. y \in TransferRows /\ y.step = "link" /\ y.file = f /\ z \in TransferRows /\ z.step = "commit" /\ z.file = f
    BY <1>2 DEF TransferRows
  <2>2. keyed[f]
    BY <1>2, <1>13 DEF VerifyCompletedUpload, At, Fits
  <2>3. \/ ServerStep(t, y)
        \/ object[f] = ChunkCount /\ ServerStep(t, z)
        \/ Fail(t)
    BY <1>13 DEF VerifyCompletedUpload
  <2>4. ChunkCount # Gone
    BY ChunkAssumption DEF Gone
  <2> HIDE DEF x, y, z
  <2> QED BY <1>6, <1>7, <2>1, <2>2, <2>3, <2>4, WaysToGoOn
<1>14. CASE RequestDies(t)
  BY <1>6, <1>14, WaysToGoOn DEF RequestDies
<1> QED BY <1>8, <1>9, <1>10, <1>11, <1>12, <1>13, <1>14

-----------------------------------------------------------------------------
\* Requests that write to the provider.
LEMMA StoreKeeps ==
  ASSUME UploadInv, NEW t \in Transfers,
         \/ WriteChunkLocally(t) \/ WriteChunkToOneDrive(t) \/ LinkPart(t) \/ UnlinkPart(t)
  PROVE  UploadInv'
<1> DEFINE x == transfer[t]
           f == transfer[t].file
<1>1. x.step # "idle"
  BY DEF WriteChunkLocally, WriteChunkToOneDrive, LinkPart, UnlinkPart, At
<1>2. x \in TransferRows /\ Fits(x) /\ f \in Files
  BY <1>1, UnderWay
<1>3. UNCHANGED sessionVars /\ FrameOfTransfer
  BY DEF WriteChunkLocally, WriteChunkToOneDrive, LinkPart, UnlinkPart
<1>4. Recording /\ UNCHANGED <<session, uploaded, keyed, itemKnown, audio, cleaned>>
  BY <1>3, RowsKept DEF sessionVars, FrameOfTransfer
<1>5. /\ part \in [Files -> Bytes] /\ object \in [Files -> Bytes]
  BY DEF UploadInv, UploadTypes
<1>6. ASSUME Storing, Ends(t, "failed")
      PROVE  UploadInv'
  BY <1>1, <1>3, <1>4, <1>6, TransferEnds
<1>7. ASSUME Storing, NEW y \in TransferRows, GoesOn(t, y), y.file = f,
             y.step \in {"chunk", "stat", "write"} => y.offset \in 0 .. ChunkCount - 1,
             y.step \in {"verify", "link", "unlink", "commit"} => keyed[f],
             y.step \in {"unlink", "commit"} => object'[f] # Gone \/ f \in cleaned \/ session[f] = "cancelled"
      PROVE  UploadInv'
  BY <1>1, <1>3, <1>4, <1>7, TransferGoes
<1>8. ASSUME Storing, x.step = "write", SendAgain(t)
      PROVE  UploadInv'
  <2> DEFINE z == [x EXCEPT !.step = "chunk", !.sends = @ + 1]
  <2>1. x.sends + 1 < MaxSends => z \in TransferRows /\ z.step = "chunk" /\ z.file = f /\ z.offset = x.offset
    BY <1>2, RepeatedRow
  <2>2. x.offset \in 0 .. ChunkCount - 1
    BY <1>2, <1>8 DEF Fits
  <2>3. (x.sends + 1 < MaxSends /\ GoOn(t, z)) \/ Fail(t)
    BY <1>8 DEF SendAgain
  <2> HIDE DEF x, z
  <2> QED BY <1>6, <1>7, <1>8, <2>1, <2>2, <2>3, WaysToGoOn
<1>9. ASSUME Storing, NEW n \in Sizes, Stored(t, n)
      PROVE  UploadInv'
  <2> DEFINE y == [x EXCEPT !.step = "progress", !.seen = n]
  <2>1. y \in TransferRows /\ y.step = "progress" /\ y.file = f
    BY <1>2 DEF TransferRows
  <2>2. ServerStep(t, y)
    BY <1>9 DEF Stored
  <2> HIDE DEF x, y
  <2> QED BY <1>7, <1>9, <2>1, <2>2, WaysToGoOn
<1>10. ASSUME NEW n \in Sizes, SetPartSize(f, n)
       PROVE  Storing
  <2>1. n # Gone /\ n \in Bytes /\ Gone \in Bytes
    BY ChunkAssumption DEF Sizes, Bytes, Gone
  <2> QED BY <1>2, <1>5, <1>10, <2>1 DEF SetPartSize, Storing
<1>11. ASSUME UNCHANGED storageVars PROVE Storing
  BY <1>11, ObjectsKept
<1>12. x.step = "write" => /\ x.offset \in Sizes /\ x.offset + 1 \in Sizes /\ x.offset # Gone
                           /\ x.offset \in 0 .. ChunkCount - 1
  BY <1>2, ChunkAssumption DEF Fits, Sizes, Gone
<1>13. CASE WriteChunkLocally(t)
  <2> DEFINE end == x.offset + 1
             size == IF part[f] < end THEN end ELSE part[f]
  <2>1. x.step = "write"
    BY <1>13 DEF WriteChunkLocally, At
  <2>2. part[f] # Gone => size \in Sizes
    BY <1>2, <1>5, <1>12, <2>1 DEF Bytes
  <2>3. \/ part[f] # Gone /\ SetPartSize(f, size) /\ Stored(t, size)
        \/ SetPartSize(f, x.offset) /\ SendAgain(t)
        \/ UNCHANGED storageVars /\ SendAgain(t)
    BY <1>13 DEF WriteChunkLocally
  <2> HIDE DEF x, f, size
  <2> QED BY <1>8, <1>9, <1>10, <1>11, <1>12, <2>1, <2>2, <2>3
<1>14. CASE WriteChunkToOneDrive(t)
  <2> DEFINE end == x.offset + 1
  <2>1. x.step = "write"
    BY <1>14 DEF WriteChunkToOneDrive, At
  <2>2. ASSUME part' = [part EXCEPT ![f] = IF end = ChunkCount THEN Gone ELSE end],
               object' = [object EXCEPT ![f] = IF end = ChunkCount THEN end ELSE @]
        PROVE  Storing
    <3>1. end \in Sizes /\ end # Gone /\ Gone \in Bytes /\ end \in Bytes
      BY <1>12, <2>1, ChunkAssumption DEF Sizes, Bytes, Gone
    <3> QED BY <1>2, <1>5, <2>2, <3>1 DEF Storing
  <2>3. \/ /\ part' = [part EXCEPT ![f] = IF end = ChunkCount THEN Gone ELSE end]
           /\ object' = [object EXCEPT ![f] = IF end = ChunkCount THEN end ELSE @]
           /\ Stored(t, end) \/ SendAgain(t)
        \/ UNCHANGED storageVars /\ part[f] # Gone /\ Stored(t, part[f])
        \/ UNCHANGED storageVars /\ SendAgain(t)
    BY <1>14 DEF WriteChunkToOneDrive
  <2>4. part[f] # Gone => part[f] \in Sizes
    BY <1>2, <1>5 DEF Bytes
  <2>5. end \in Sizes
    BY <1>12, <2>1
  <2>6. CASE /\ part' = [part EXCEPT ![f] = IF end = ChunkCount THEN Gone ELSE end]
             /\ object' = [object EXCEPT ![f] = IF end = ChunkCount THEN end ELSE @]
             /\ Stored(t, end) \/ SendAgain(t)
    <3>1. Storing
      BY <2>2, <2>6
    <3> QED BY <1>8, <1>9, <2>1, <2>5, <2>6, <3>1
  <2> HIDE DEF x, f, end
  <2> QED BY <1>8, <1>9, <1>11, <2>1, <2>3, <2>4, <2>6
<1>15. CASE LinkPart(t)
  <2> DEFINE y == [x EXCEPT !.step = "unlink"]
  <2>1. y \in TransferRows /\ y.step = "unlink" /\ y.file = f
    BY <1>2 DEF TransferRows
  <2>2. keyed[f]
    BY <1>2, <1>15 DEF LinkPart, At, Fits
  <2>3. CASE part[f] # Gone /\ object' = [object EXCEPT ![f] = part[f]] /\ part' = part /\ ServerStep(t, y)
    <3>1. Storing /\ object'[f] # Gone
      BY <1>2, <1>5, <2>3 DEF Storing
    <3> HIDE DEF x, y
    <3> QED BY <1>7, <2>1, <2>2, <2>3, <3>1, WaysToGoOn
  <2>4. CASE UNCHANGED storageVars /\ Fail(t)
    BY <1>6, <1>11, <2>4, WaysToGoOn
  <2> QED BY <1>15, <2>3, <2>4 DEF LinkPart, storageVars
<1>16. CASE UnlinkPart(t)
  <2> DEFINE y == [x EXCEPT !.step = "commit"]
  <2>1. y \in TransferRows /\ y.step = "commit" /\ y.file = f
    BY <1>2 DEF TransferRows
  <2>2. keyed[f] /\ (object[f] # Gone \/ f \in cleaned \/ session[f] = "cancelled")
    BY <1>2, <1>16 DEF UnlinkPart, At, Fits
  <2>3. part' = [part EXCEPT ![f] = Gone] /\ object' = object /\ (Fail(t) \/ ServerStep(t, y))
    BY <1>16 DEF UnlinkPart
  <2>4. Storing
    BY <1>5, <2>3 DEF Storing, Bytes
  <2> HIDE DEF x, y
  <2> QED BY <1>6, <1>7, <2>1, <2>2, <2>3, <2>4, WaysToGoOn
<1> QED BY <1>13, <1>14, <1>15, <1>16

-----------------------------------------------------------------------------
\* Requests that write the rows of the session.
LEMMA ProgressRecords ==
  ASSUME UploadInv, NEW f \in Files, NEW n \in Sizes, UpdateUploadProgress(f, n),
         itemKnown' \in [Files -> BOOLEAN], UNCHANGED <<keyed, audio>>
  PROVE  Recording
<1>1. UploadTypes /\ CompletionIsAgreed
  BY DEF UploadInv
<1>2. /\ session[f] \in {"uploading", "paused", "failed"}
      /\ uploaded' = [uploaded EXCEPT ![f] = n]
      /\ session' = [session EXCEPT ![f] = IF @ = "paused" THEN "uploading" ELSE @]
  BY DEF UpdateUploadProgress, ProgressAccepted
<1>3. session' \in [Files -> SessionStates] /\ uploaded' \in [Files -> Sizes]
  BY <1>1, <1>2 DEF UploadTypes, SessionStates
<1> QED BY <1>1, <1>2, <1>3 DEF Recording, UploadTypes, CompletionIsAgreed

LEMMA RecordKeeps ==
  ASSUME UploadInv, NEW t \in Transfers,
         SyncStatus(t) \/ SaveProgress(t) \/ CommitCompletion(t)
  PROVE  UploadInv'
<1> DEFINE x == transfer[t]
           f == transfer[t].file
<1>1. x.step # "idle"
  BY DEF SyncStatus, SaveProgress, CommitCompletion, At
<1>2. x \in TransferRows /\ Fits(x) /\ f \in Files
  BY <1>1, UnderWay
<1>3. UNCHANGED storageVars /\ UNCHANGED keyed /\ FrameOfTransfer
  BY DEF SyncStatus, SaveProgress, CommitCompletion, storageVars
<1>4. Storing /\ UNCHANGED <<object, cleaned, stage>>
  BY <1>3, ObjectsKept DEF storageVars, FrameOfTransfer
<1>5. UploadTypes /\ CompletionIsAgreed
  BY DEF UploadInv
<1>6. ASSUME Recording, Ends(t, "failed") \/ (Ends(t, "completed") /\ session'[f] = "completed")
      PROVE  UploadInv'
  BY <1>1, <1>3, <1>4, <1>6, TransferEnds
<1>7. ASSUME Recording, NEW y \in TransferRows, GoesOn(t, y), y.file = f, y.step \in {"chunk", "complete"},
             y.step = "chunk" => y.offset \in 0 .. ChunkCount - 1
      PROVE  UploadInv'
  BY <1>1, <1>3, <1>4, <1>7, TransferGoes
<1>8. uploaded[f] \in Sizes /\ 0 \in Sizes /\ 0 \in 0 .. MaxSends - 1
  BY <1>2, <1>5, ChunkAssumption, SendAssumption DEF UploadTypes, Sizes
<1>9. CASE SyncStatus(t)
  <2>1. ASSUME Recording, NEW answer, NEW n \in Sizes, AnswerWith(t, answer, n),
               answer = "completed" => session'[f] = "completed"
        PROVE  UploadInv'
    <3> DEFINE y == [x EXCEPT !.step = AfterOffset(n), !.offset = n, !.seen = 0]
               z == [x EXCEPT !.seen = 0]
    <3>1. z \in TransferRows /\ z.file = f
      BY <1>2, <1>8 DEF TransferRows
    <3>2. y = [z EXCEPT !.step = AfterOffset(n), !.offset = n]
      BY <1>2 DEF TransferRows
    <3>3. /\ y \in TransferRows /\ y.file = f /\ y.step \in {"chunk", "complete"}
          /\ y.step = "chunk" => y.offset \in 0 .. ChunkCount - 1
      <4> HIDE DEF y, z
      <4> QED BY <3>1, <3>2, ContinuedRow
    <3>4. (answer = "completed" /\ Finish(t)) \/ GoOn(t, y)
      BY <2>1 DEF AnswerWith
    <3> HIDE DEF x, y
    <3> QED BY <1>6, <1>7, <2>1, <3>3, <3>4, WaysToGoOn
  <2>2. CASE /\ x.offset = Gone /\ session[f] # "cancelled"
             /\ session' = [session EXCEPT ![f] = IF @ = "completed" THEN @ ELSE "expired"]
             /\ UNCHANGED uploaded
             /\ AnswerWith(t, session[f], uploaded[f])
    <3>1. UNCHANGED <<keyed, itemKnown, audio>>
      BY <1>9 DEF SyncStatus
    <3>2. session' \in [Files -> SessionStates]
      BY <1>5, <2>2 DEF UploadTypes, SessionStates
    <3>3. Recording
      BY <1>5, <2>2, <3>1, <3>2 DEF UploadTypes, Recording, CompletionIsAgreed
    <3>4. session[f] = "completed" => session'[f] = "completed"
      BY <1>2, <1>5, <2>2 DEF UploadTypes
    <3> QED BY <1>8, <2>1, <2>2, <3>3, <3>4
  <2>3. CASE /\ x.offset # Gone
             /\ UpdateUploadProgress(f, x.offset) /\ AnswerWith(t, "uploading", x.offset)
    <3>1. x.offset \in Sizes
      BY <1>2, <2>3 DEF TransferRows, Bytes
    <3>2. Recording
      BY <1>2, <1>5, <1>9, <2>3, <3>1, ProgressRecords DEF SyncStatus, UploadTypes
    <3> QED BY <2>1, <2>3, <3>1, <3>2
  <2>4. CASE UNCHANGED <<session, uploaded>> /\ (AnswerWith(t, session[f], uploaded[f]) \/ Fail(t))
    <3>1. Recording
      BY <1>9, <2>4, RowsKept DEF SyncStatus, sessionVars
    <3>2. CASE AnswerWith(t, session[f], uploaded[f])
      BY <1>8, <2>1, <2>4, <3>1, <3>2
    <3>3. CASE Fail(t)
      BY <1>6, <3>1, <3>3, WaysToGoOn
    <3> QED BY <2>4, <3>2, <3>3
  <2> QED BY <1>9, <2>2, <2>3, <2>4 DEF SyncStatus
<1>10. CASE SaveProgress(t)
  <2> DEFINE n == x.seen
             z == [x EXCEPT !.seen = 0, !.sends = 0]
             y == [x EXCEPT !.step = AfterOffset(n), !.offset = n, !.seen = 0, !.sends = 0]
  <2>1. n \in Sizes
    BY <1>2 DEF TransferRows
  <2>2. CASE /\ UpdateUploadProgress(f, n)
             /\ itemKnown' = [itemKnown EXCEPT ![f] = @ \/ (backend = "onedrive" /\ n = ChunkCount)]
             /\ GoOn(t, y)
    <3>1. itemKnown' \in [Files -> BOOLEAN]
      BY <1>5, <2>2 DEF UploadTypes
    <3>2. Recording
      BY <1>2, <1>10, <2>1, <2>2, <3>1, ProgressRecords DEF SaveProgress
    <3>3. z \in TransferRows /\ z.file = f
      BY <1>2, <1>8 DEF TransferRows
    <3>4. y = [z EXCEPT !.step = AfterOffset(n), !.offset = n]
      BY <1>2 DEF TransferRows
    <3>5. /\ y \in TransferRows /\ y.file = f /\ y.step \in {"chunk", "complete"}
          /\ y.step = "chunk" => y.offset \in 0 .. ChunkCount - 1
      <4> HIDE DEF y, z, n
      <4> QED BY <2>1, <3>3, <3>4, ContinuedRow
    <3> HIDE DEF x, y
    <3> QED BY <1>6, <1>7, <2>2, <3>2, <3>5, WaysToGoOn
  <2>3. CASE UNCHANGED <<session, uploaded, itemKnown>> /\ Fail(t)
    <3>1. Recording
      BY <1>10, <2>3, RowsKept DEF SaveProgress, sessionVars
    <3> QED BY <1>6, <2>3, <3>1, WaysToGoOn
  <2> QED BY <1>10, <2>2, <2>3 DEF SaveProgress
<1>11. CASE CommitCompletion(t)
  <2>1. keyed[f] /\ (object[f] # Gone \/ f \in cleaned \/ session[f] = "cancelled")
    BY <1>2, <1>11 DEF CommitCompletion, At, Fits
  <2>2. CASE /\ CompletionAllowed(f)
             /\ audio' = [audio EXCEPT ![f] = "available"]
             /\ session' = [session EXCEPT ![f] = "completed"]
             /\ uploaded' = [uploaded EXCEPT ![f] = ChunkCount]
             /\ itemKnown' = [itemKnown EXCEPT ![f] = @ \/ backend = "onedrive"]
             /\ Finish(t)
    <3>1. /\ session' \in [Files -> SessionStates] /\ uploaded' \in [Files -> Sizes]
          /\ itemKnown' \in [Files -> BOOLEAN] /\ audio' \in [Files -> AudioStates]
          /\ keyed' \in [Files -> BOOLEAN]
      <4>1. ChunkCount \in Sizes
        BY ChunkAssumption DEF Sizes
      <4>2. itemKnown' \in [Files -> BOOLEAN]
        BY <1>5, <2>2 DEF UploadTypes
      <4> QED BY <1>3, <1>5, <2>2, <4>1, <4>2 DEF UploadTypes, SessionStates, AudioStates
    <3>2. session[f] # "cancelled"
      BY <2>2 DEF CompletionAllowed
    <3>3. /\ session'[f] = "completed" /\ audio'[f] = "available" /\ uploaded'[f] = ChunkCount
          /\ \A g \in Files \ {f} : session'[g] = session[g] /\ audio'[g] = audio[g] /\ uploaded'[g] = uploaded[g]
      BY <1>2, <1>5, <2>2 DEF UploadTypes
    <3> HIDE DEF x, f
    <3>4. Recording
      BY <1>3, <1>4, <2>1, <3>1, <3>2, <3>3 DEF Recording
    <3> QED BY <1>6, <2>2, <3>3, <3>4, WaysToGoOn
  <2>3. CASE UNCHANGED <<audio, session, uploaded, itemKnown>> /\ Fail(t)
    <3>1. Recording
      BY <1>3, <2>3, RowsKept DEF sessionVars
    <3> QED BY <1>6, <2>3, <3>1, WaysToGoOn
  <2> QED BY <1>11, <2>2, <2>3 DEF CommitCompletion
<1> QED BY <1>9, <1>10, <1>11

-----------------------------------------------------------------------------
\* A step that leaves the draft's own row as it is, and the requests of the transfers where they are.
LEMMA DraftKept ==
  ASSUME UploadInv, Storing, Recording, Showing, UNCHANGED <<stage, backend, acknowledged>>,
         stage = "absent" => UNCHANGED <<session, audio, keyed, fileStatus, cancel>>,
         creation' \in CreationRows, CreationFits',
         transfer' \in [Transfers -> TransferRows], \A t \in Transfers : Waits(t),
         cancel' \in [Files -> CancelRows],
         \A f \in Files : cancel'[f].step = "delete" => cancel[f].step = "delete" \/ session'[f] = "cancelled",
         cleanup' \in [Files -> CleanupRows],
         cleaned \subseteq cleaned', cleaned' \subseteq Files
  PROVE  UploadInv'
<1>1. /\ stage' \in {"absent", "draft", "requested", "submitted"} /\ backend' \in {"none", "local", "onedrive"}
      /\ acknowledged' \in BOOLEAN
  BY DEF UploadInv, UploadTypes
<1> HIDE DEF CreationRows, TransferRows, CancelRows, CleanupRows
<1> QED BY <1>1, UploadKeeps

LEMMA TransfersWait ==
  ASSUME UploadInv, UNCHANGED transfer
  PROVE  transfer' \in [Transfers -> TransferRows] /\ \A t \in Transfers : Waits(t)
BY DEF UploadInv, UploadTypes, Waits

LEMMA RequestsKept ==
  ASSUME UploadInv
  PROVE  /\ UNCHANGED cancel => /\ cancel' \in [Files -> CancelRows]
                               /\ \A f \in Files : cancel'[f].step = "delete" => cancel[f].step = "delete"
         /\ UNCHANGED cleanup => cleanup' \in [Files -> CleanupRows]
         /\ UNCHANGED cleaned => cleaned \subseteq cleaned' /\ cleaned' \subseteq Files
BY DEF UploadInv, UploadTypes

-----------------------------------------------------------------------------
\* The POST that creates the draft.
LEMMA DraftIsCreated ==
  ASSUME UploadInv, NEW kind \in {"draft", "requested"}, NEW provider \in {"local", "onedrive"},
         NEW ack \in BOOLEAN, CreateUploadDraftBatch(kind, provider, ack)
  PROVE  UploadInv'
<1>1. UploadTypes /\ RowsFit /\ CompletionIsAgreed
  BY DEF UploadInv
<1>2. /\ stage = "absent" /\ stage' = kind /\ backend' = provider /\ acknowledged' = ack
      /\ session' = [f \in Files |-> "created"] /\ audio' = [f \in Files |-> "registered"]
      /\ creation' = [NoCreation EXCEPT !.step = "provider", !.todo = Files]
      /\ UNCHANGED <<uploaded, keyed, itemKnown, storageVars, transfer, cancel, cleanup, browserVars, cleaned>>
  BY DEF CreateUploadDraftBatch
<1>3. \A f \in Files : session[f] = "absent" /\ ~keyed[f] /\ audio[f] = "absent"
  BY <1>1, <1>2 DEF RowsFit
<1>4. Recording
  BY <1>1, <1>2, <1>3 DEF Recording, UploadTypes, SessionStates, AudioStates
<1>5. /\ creation' \in CreationRows /\ creation'.step = "provider" /\ creation'.file = NoTransfer
  BY <1>2 DEF CreationRows, NoCreation
<1>6. CreationFits'
  BY <1>2, <1>3, <1>5 DEF CreationFits, CreationRows
<1>7. Storing /\ Showing
  BY <1>2, ObjectsKept, BrowserKept
<1> HIDE DEF CreationRows, TransferRows, CancelRows, CleanupRows
<1>8. stage' \in {"absent", "draft", "requested", "submitted"} /\ stage' # "absent" /\ stage' # "submitted"
  BY <1>2
<1> QED BY <1>2, <1>4, <1>5, <1>6, <1>7, <1>8, TransfersWait, RequestsKept, UploadKeeps

LEMMA CreationGoesOn ==
  ASSUME UploadInv, NEW f \in Files,
         \/ LoadCreatedBatch
         \/ CreateProviderSession(f) \/ RecordProviderSession(f) \/ FailSessionCreation(f)
  PROVE  UploadInv'
<1>1. UploadTypes /\ RowsFit /\ CreationFits /\ CompletionIsAgreed
  BY DEF UploadInv
<1>2. /\ UNCHANGED <<stage, backend, acknowledged, transfer, cancel, cleanup, cleaned>> /\ stage # "absent"
  BY <1>1 DEF LoadCreatedBatch, CreateProviderSession, RecordProviderSession,
              FailSessionCreation, CreationFits
<1>3. SUFFICES Storing /\ Recording /\ Showing /\ creation' \in CreationRows /\ CreationFits'
  <2> HIDE DEF CreationRows, TransferRows, CancelRows, CleanupRows
  <2> QED BY <1>2, TransfersWait, RequestsKept, DraftKept
<1>4. creation' = NoCreation => creation' \in CreationRows /\ CreationFits'
  BY <1>2 DEF NoCreation, CreationRows, CreationFits
<1>5. ASSUME f \in creation.todo, NextFile(f),
             \A g \in creation.todo \ {f} : keyed'[g] = keyed[g],
             creation.step = "unacknowledged" => creation.file \in {f, NoTransfer}
      PROVE  creation' \in CreationRows /\ CreationFits'
  <2>1. creation' \in CreationRows /\ creation'.step = "provider" /\ creation'.file = NoTransfer
    BY <1>1, <1>5 DEF UploadTypes, NextFile, CreationRows, NoCreation
  <2>2. creation'.todo = creation.todo \ {f}
    BY <1>5 DEF NextFile, NoCreation
  <2>3. creation.todo \subseteq Files
    BY <1>1 DEF UploadTypes, CreationRows
  <2>4. ASSUME NEW g \in creation'.todo, keyed'[g] PROVE FALSE
    <3>1. g \in creation.todo /\ g # f /\ g \in Files
      BY <2>2, <2>3
    <3>2. keyed[g]
      BY <1>5, <2>4, <3>1
    <3>3. creation.step = "unacknowledged" /\ creation.file = g
      BY <1>1, <3>1, <3>2 DEF CreationFits
    <3> QED BY <1>5, <3>1, <3>3, NoTransferAssumption
  <2> QED BY <1>2, <2>1, <2>4 DEF CreationFits
<1>6. CASE LoadCreatedBatch
  <2>1. Storing /\ Recording
    BY <1>6, RowsKept, ObjectsKept DEF LoadCreatedBatch
  <2>2. Showing
    BY <1>1, <1>6 DEF LoadCreatedBatch, UploadTypes, Showing, FileStates
  <2> QED BY <1>4, <1>6, <2>1, <2>2 DEF LoadCreatedBatch
<1>8. CASE CreateProviderSession(f)
  <2>1. Recording /\ Showing /\ keyed' = keyed
    BY <1>8, RowsKept, BrowserKept DEF CreateProviderSession, sessionVars
  <2>2. Storing
    <3>1. 0 \in Bytes
      BY ChunkAssumption DEF Bytes, Sizes
    <3> QED BY <1>1, <1>8, <3>1 DEF CreateProviderSession, Storing, UploadTypes
  <2>3. /\ creation.step = "provider" /\ f \in creation.todo
        /\ creation' = [creation EXCEPT !.step = "record", !.file = f]
    BY <1>8 DEF CreateProviderSession
  <2>4. /\ creation' \in CreationRows /\ creation'.step = "record" /\ creation'.file = f
        /\ creation'.todo = creation.todo
    BY <1>1, <2>3 DEF UploadTypes, CreationRows
  <2>5. CreationFits'
    BY <1>1, <1>2, <2>1, <2>3, <2>4 DEF CreationFits
  <2> QED BY <2>1, <2>2, <2>4, <2>5
<1>9. CASE RecordProviderSession(f)
  <2>1. Storing /\ Showing
    BY <1>9, ObjectsKept, BrowserKept DEF RecordProviderSession
  <2>2. /\ creation.step = "record" /\ creation.file = f
        /\ audio' = [audio EXCEPT ![f] = "uploading"] /\ keyed' = [keyed EXCEPT ![f] = TRUE]
        /\ session' = [session EXCEPT ![f] = IF @ = "created" THEN "uploading" ELSE @]
        /\ UNCHANGED <<uploaded, itemKnown>>
    BY <1>9 DEF RecordProviderSession
  <2>3. f \in creation.todo /\ \A g \in creation.todo : ~keyed[g]
    BY <1>1, <2>2 DEF CreationFits
  <2>4. session[f] # "completed" /\ audio[f] # "available"
    BY <1>1, <2>3 DEF RowsFit, CompletionIsAgreed
  <2>5. /\ session' \in [Files -> SessionStates] /\ audio' \in [Files -> AudioStates]
        /\ keyed' \in [Files -> BOOLEAN]
    BY <1>1, <2>2 DEF UploadTypes, SessionStates, AudioStates
  <2>6. Recording
    BY <1>1, <2>2, <2>4, <2>5 DEF Recording, UploadTypes, CompletionIsAgreed
  <2>7. \A g \in Files \ {f} : keyed'[g] = keyed[g]
    BY <1>1, <2>2 DEF UploadTypes
  <2>8. creation.todo \subseteq Files
    BY <1>1 DEF UploadTypes, CreationRows
  <2>9. CASE NextFile(f)
    BY <1>5, <2>1, <2>2, <2>3, <2>6, <2>7, <2>8, <2>9
  <2>10. CASE creation' = [creation EXCEPT !.step = "unacknowledged"]
    <3>1. /\ creation' \in CreationRows /\ creation'.step = "unacknowledged" /\ creation'.file = f
          /\ creation'.todo = creation.todo
      BY <1>1, <2>2, <2>10 DEF UploadTypes, CreationRows
    <3>2. CreationFits'
      BY <1>2, <2>3, <2>7, <2>8, <3>1 DEF CreationFits
    <3> QED BY <2>1, <2>6, <3>1, <3>2
  <2> QED BY <1>9, <2>9, <2>10 DEF RecordProviderSession
<1>10. CASE FailSessionCreation(f)
  <2>1. Storing /\ Showing /\ UNCHANGED <<uploaded, keyed, itemKnown, audio>>
    BY <1>10, ObjectsKept, BrowserKept DEF FailSessionCreation
  <2>2. CASE ~Sealed(f) /\ session' = [session EXCEPT ![f] = "failed"] /\ NextFile(f)
    <3>1. session' \in [Files -> SessionStates]
      BY <1>1, <2>2 DEF UploadTypes, SessionStates
    <3>2. Recording
      BY <1>1, <2>1, <2>2, <3>1 DEF Recording, Sealed, UploadTypes, CompletionIsAgreed
    <3>3. f \in creation.todo /\ creation.file \in {f, NoTransfer}
      BY <1>10 DEF FailSessionCreation
    <3> QED BY <1>5, <2>1, <2>2, <3>2, <3>3
  <2>3. CASE creation' = NoCreation /\ UNCHANGED session
    BY <1>4, <2>1, <2>3, RowsKept DEF sessionVars
  <2> QED BY <1>10, <2>2, <2>3 DEF FailSessionCreation
<1> QED BY <1>6, <1>8, <1>9, <1>10

LEMMA CreationStops ==
  ASSUME UploadInv, CreationDies
  PROVE  UploadInv'
<1>1. /\ UNCHANGED <<stage, backend, acknowledged, sessionVars, storageVars, transfer, cancel, cleanup,
                     browserVars, cleaned>>
      /\ creation' = NoCreation /\ stage # "absent"
  BY DEF CreationDies, UploadInv, CreationFits
<1>2. creation' \in CreationRows /\ CreationFits'
  BY <1>1 DEF NoCreation, CreationRows, CreationFits
<1> HIDE DEF CreationRows, TransferRows, CancelRows, CleanupRows
<1> QED BY <1>1, <1>2, RowsKept, ObjectsKept, BrowserKept, TransfersWait, RequestsKept, DraftKept

-----------------------------------------------------------------------------
\* Pausing, resuming, cancelling and cleaning up.
LEMMA AbortKeeps ==
  ASSUME UploadInv, NEW files, AbortTransfers(files)
  PROVE  transfer' \in [Transfers -> TransferRows] /\ \A t \in Transfers : Waits(t)
<1>1. \A t \in Transfers : transfer[t] \in TransferRows
  BY DEF UploadInv, UploadTypes
<1>2. ASSUME NEW t \in Transfers
      PROVE  transfer'[t] \in TransferRows /\ Waits(t)
  <2>1. PICK b \in BOOLEAN : b = (transfer[t].aborted \/ \E f \in files : controller[f] = t)
    BY <1>1 DEF TransferRows
  <2>2. transfer'[t] = [transfer[t] EXCEPT !.aborted = b]
    BY <2>1 DEF AbortTransfers
  <2>3. /\ [transfer[t] EXCEPT !.aborted = b] \in TransferRows
        /\ [transfer[t] EXCEPT !.aborted = b].step = transfer[t].step
        /\ [transfer[t] EXCEPT !.aborted = b].file = transfer[t].file
        /\ [transfer[t] EXCEPT !.aborted = b].offset = transfer[t].offset
    BY <1>1 DEF TransferRows
  <2> QED BY <2>2, <2>3 DEF Waits
<1>3. transfer' = [t \in Transfers |-> transfer'[t]]
  BY DEF AbortTransfers
<1> HIDE DEF TransferRows
<1> QED BY <1>2, <1>3

LEMMA PausingKeeps ==
  ASSUME UploadInv, NEW f \in Files, PauseTransfer(f) \/ GoOffline \/ ResumeSession(f)
  PROVE  UploadInv'
<1>1. UploadTypes /\ RowsFit /\ CompletionIsAgreed
  BY DEF UploadInv
<1>2. /\ UNCHANGED <<stage, backend, acknowledged, storageVars, creation, cancel, cleanup, cleaned>>
      /\ UNCHANGED <<uploaded, keyed, itemKnown, audio, controller>>
  BY DEF PauseTransfer, GoOffline, ResumeSession, sessionVars, browserVars
<1>3. stage # "absent"
  BY <1>1 DEF PauseTransfer, GoOffline, ResumeSession, TransferButtons, RowsFit
<1>4. transfer' \in [Transfers -> TransferRows] /\ \A t \in Transfers : Waits(t)
  BY AbortKeeps, TransfersWait DEF PauseTransfer, GoOffline, ResumeSession
<1>5. /\ session' \in [Files -> SessionStates]
      /\ \A g \in Files : session'[g] = session[g]
           \/ {session[g], session'[g]} \subseteq {"uploading", "paused", "failed"}
  BY <1>1 DEF PauseTransfer, GoOffline, ResumeSession, UploadTypes, SessionStates, sessionVars
<1>6. Recording
  BY <1>1, <1>2, <1>5 DEF Recording, UploadTypes, CompletionIsAgreed
<1>7. /\ fileStatus' \in [Files -> FileStates]
      /\ \A g \in Files : fileStatus'[g] \in {fileStatus[g], "paused"}
  BY <1>1 DEF PauseTransfer, GoOffline, ResumeSession, UploadTypes, FileStates, browserVars
<1>8. Showing
  BY <1>1, <1>2, <1>7 DEF Showing, UploadTypes
<1>9. creation' \in CreationRows /\ CreationFits'
  BY <1>2, CreationWaits
<1> HIDE DEF CreationRows, TransferRows, CancelRows, CleanupRows
<1> QED BY <1>2, <1>3, <1>4, <1>6, <1>8, <1>9, ObjectsKept, RequestsKept, DraftKept

LEMMA DeletingStores ==
  ASSUME UploadInv, NEW f \in Files, NEW item \in BOOLEAN,
         DeleteDraftObject(f, item) \/ UNCHANGED storageVars,
         session[f] = "cancelled" \/ f \in cleaned'
  PROVE  Storing
<1>1. UploadTypes /\ Gone \in Bytes
  BY DEF UploadInv, Bytes
<1>2. /\ part' \in {part, [part EXCEPT ![f] = Gone]}
      /\ object' \in {object, [object EXCEPT ![f] = Gone]}
  BY DEF DeleteDraftObject, storageVars
<1> QED BY <1>1, <1>2 DEF UploadTypes, Storing

LEMMA CancelKeeps ==
  ASSUME UploadInv, NEW f \in Files,
         CancelTransfer(f) \/ CancelUploadSession(f) \/ CancelDeletesObject(f) \/ CancelDies(f)
  PROVE  UploadInv'
<1>1. UploadTypes /\ RowsFit /\ CompletionIsAgreed
  BY DEF UploadInv
<1>2. /\ UNCHANGED <<stage, backend, acknowledged, creation, cleanup, cleaned>>
      /\ UNCHANGED <<uploaded, keyed, itemKnown, audio, controller>>
  BY DEF CancelTransfer, CancelUploadSession, CancelDeletesObject, CancelDies, FrameOfCancel
<1>3. stage # "absent"
  BY <1>1 DEF CancelTransfer, CancelUploadSession, CancelDeletesObject, CancelDies, RowsFit
<1>4. creation' \in CreationRows /\ CreationFits'
  BY <1>2, CreationWaits
<1>5. SUFFICES /\ Storing /\ Recording /\ Showing
               /\ transfer' \in [Transfers -> TransferRows] /\ \A t \in Transfers : Waits(t)
               /\ cancel' \in [Files -> CancelRows]
               /\ \A g \in Files : cancel'[g].step = "delete" =>
                    cancel[g].step = "delete" \/ session'[g] = "cancelled"
  <2> HIDE DEF CreationRows, TransferRows, CancelRows, CleanupRows
  <2> QED BY <1>2, <1>3, <1>4, <1>5, RequestsKept, DraftKept
<1>6. ASSUME NEW y \in CancelRows, cancel' = [cancel EXCEPT ![f] = y],
             y.step = "delete" => session'[f] = "cancelled"
      PROVE  /\ cancel' \in [Files -> CancelRows]
             /\ \A g \in Files : cancel'[g].step = "delete" =>
                  cancel[g].step = "delete" \/ session'[g] = "cancelled"
  <2> HIDE DEF CancelRows
  <2> QED BY <1>1, <1>6 DEF UploadTypes
<1>7. NoRequest \in CancelRows /\ NoRequest.step = "idle"
  BY DEF NoRequest, CancelRows
<1>8. UNCHANGED session => Recording
  BY <1>2, RowsKept DEF sessionVars
<1>9. UNCHANGED fileStatus => Showing
  BY <1>2, BrowserKept DEF browserVars
<1>10. cancel[f] \in CancelRows
  BY <1>1 DEF UploadTypes
<1>11. CASE CancelTransfer(f)
  <2>1. PICK y \in CancelRows : cancel' = [cancel EXCEPT ![f] = y] /\ y.step # "delete"
    <3> DEFINE y == [step |-> IF keyed[f] THEN "update" ELSE "updateUnkeyed", item |-> itemKnown[f]]
    <3>1. y \in CancelRows /\ y.step # "delete"
      BY <1>1 DEF UploadTypes, CancelRows
    <3>2. cancel' = [cancel EXCEPT ![f] = y]
      BY <1>11 DEF CancelTransfer
    <3> QED BY <3>1, <3>2
  <2>2. UNCHANGED <<session, storageVars, fileStatus>> /\ AbortTransfers({f})
    BY <1>11 DEF CancelTransfer
  <2> HIDE DEF CancelRows, TransferRows
  <2> QED BY <1>6, <1>8, <1>9, <2>1, <2>2, ObjectsKept, AbortKeeps
<1>12. CASE CancelUploadSession(f)
  <2>1. UNCHANGED <<storageVars, transfer, fileStatus>>
    BY <1>12 DEF CancelUploadSession
  <2>2. CASE CancelAllowed(f) /\ session' = [session EXCEPT ![f] = "cancelled"]
    <3>1. session[f] # "completed" /\ session' \in [Files -> SessionStates]
      BY <1>1, <2>2 DEF CancelAllowed, UploadTypes, SessionStates
    <3>2. Recording
      BY <1>1, <1>2, <2>2, <3>1 DEF Recording, UploadTypes, CompletionIsAgreed
    <3>3. PICK y \in CancelRows : cancel' = [cancel EXCEPT ![f] = y]
      <4> DEFINE y == [cancel[f] EXCEPT !.step = "delete"]
      <4>1. y \in CancelRows
        BY <1>10 DEF CancelRows
      <4>2. cancel' = [cancel EXCEPT ![f] = y] \/ cancel' = [cancel EXCEPT ![f] = NoRequest]
        BY <1>12, <2>2 DEF CancelUploadSession, CancelAllowed
      <4> QED BY <1>7, <4>1, <4>2
    <3>4. session'[f] = "cancelled"
      BY <1>1, <2>2 DEF UploadTypes
    <3> HIDE DEF CancelRows, TransferRows
    <3> QED BY <1>6, <1>9, <2>1, <3>2, <3>3, <3>4, ObjectsKept, TransfersWait
  <2>3. CASE UNCHANGED session /\ cancel' = [cancel EXCEPT ![f] = NoRequest]
    <3> HIDE DEF CancelRows, TransferRows
    <3> QED BY <1>6, <1>7, <1>8, <1>9, <2>1, <2>3, ObjectsKept, TransfersWait
  <2> QED BY <1>12, <2>2, <2>3 DEF CancelUploadSession
<1>13. CASE CancelDeletesObject(f)
  <2>1. /\ cancel[f].step = "delete" /\ UNCHANGED <<session, transfer>>
        /\ cancel' = [cancel EXCEPT ![f] = NoRequest]
        /\ fileStatus' = [fileStatus EXCEPT ![f] = "cancelled"]
        /\ DeleteDraftObject(f, cancel[f].item) \/ UNCHANGED storageVars
    BY <1>13 DEF CancelDeletesObject
  <2>2. session[f] = "cancelled" /\ cancel[f].item \in BOOLEAN
    BY <1>1, <1>10, <2>1 DEF RowsFit, CancelRows
  <2>3. Storing
    BY <2>1, <2>2, DeletingStores
  <2>4. Showing
    BY <1>1, <1>2, <2>1, <2>2 DEF Showing, UploadTypes, FileStates
  <2> HIDE DEF CancelRows, TransferRows
  <2> QED BY <1>6, <1>7, <1>8, <2>1, <2>3, <2>4, TransfersWait
<1>14. CASE CancelDies(f)
  <2>1. UNCHANGED <<session, storageVars, transfer, fileStatus>> /\ cancel' = [cancel EXCEPT ![f] = NoRequest]
    BY <1>14 DEF CancelDies
  <2> HIDE DEF CancelRows, TransferRows
  <2> QED BY <1>6, <1>7, <1>8, <1>9, <2>1, ObjectsKept, TransfersWait
<1> QED BY <1>11, <1>12, <1>13, <1>14

LEMMA CleanupKeeps ==
  ASSUME UploadInv, NEW f \in Files,
         CleanupCancelledUpload(f) \/ CleanupDeletesObject(f) \/ ProviderSessionExpires(f)
  PROVE  UploadInv'
<1>1. UploadTypes /\ RowsFit /\ CompletionIsAgreed
  BY DEF UploadInv
<1>2. UNCHANGED <<stage, backend, acknowledged, sessionVars, creation, transfer, cancel, browserVars>>
  BY DEF CleanupCancelledUpload, CleanupDeletesObject, ProviderSessionExpires, FrameOfCleanup
<1>3. creation' \in CreationRows /\ CreationFits'
  BY <1>2, CreationWaits DEF sessionVars
<1>4. SUFFICES /\ Storing /\ cleanup' \in [Files -> CleanupRows]
               /\ cleaned \subseteq cleaned' /\ cleaned' \subseteq Files
  <2>1. Recording /\ Showing /\ UNCHANGED <<session, audio, keyed, fileStatus>>
    BY <1>2, RowsKept, BrowserKept DEF sessionVars, browserVars
  <2> HIDE DEF CreationRows, TransferRows, CancelRows, CleanupRows
  <2> QED BY <1>2, <1>3, <1>4, <2>1, TransfersWait, RequestsKept, DraftKept
<1>5. cleanup[f] \in CleanupRows /\ NoRequest \in CleanupRows
  BY <1>1 DEF UploadTypes, NoRequest, CleanupRows
<1>6. CASE CleanupCancelledUpload(f)
  <2> DEFINE y == [step |-> "delete", item |-> itemKnown[f]]
  <2>1. y \in CleanupRows
    BY <1>1 DEF UploadTypes, CleanupRows
  <2>2. cleanup' = [cleanup EXCEPT ![f] = y] /\ UNCHANGED <<storageVars, cleaned>>
    BY <1>6 DEF CleanupCancelledUpload
  <2> HIDE DEF y, CleanupRows
  <2> QED BY <1>1, <2>1, <2>2, ObjectsKept DEF UploadTypes
<1>7. CASE CleanupDeletesObject(f)
  <2>1. /\ DeleteDraftObject(f, cleanup[f].item) /\ cleanup' = [cleanup EXCEPT ![f] = NoRequest]
        /\ cleaned' = cleaned \cup {f}
    BY <1>7 DEF CleanupDeletesObject
  <2>2. cleanup[f].item \in BOOLEAN
    BY <1>5 DEF CleanupRows
  <2>3. Storing
    BY <2>1, <2>2, DeletingStores
  <2> HIDE DEF CleanupRows
  <2> QED BY <1>1, <1>5, <2>1, <2>3 DEF UploadTypes
<1>8. CASE ProviderSessionExpires(f)
  <2>1. part' = [part EXCEPT ![f] = Gone] /\ UNCHANGED <<object, cleanup, cleaned>>
    BY <1>8 DEF ProviderSessionExpires
  <2>2. Storing
    BY <1>1, <2>1 DEF Storing, UploadTypes, Bytes
  <2> QED BY <2>1, <2>2, RequestsKept
<1> QED BY <1>6, <1>7, <1>8

-----------------------------------------------------------------------------
\* Submission.
LEMMA SubmittingKeeps ==
  ASSUME UploadInv, AcknowledgeUploadRights \/ SubmitCompletedFiles \/ UNCHANGED uploadVars
  PROVE  UploadInv'
<1>1. UNCHANGED <<backend, sessionVars, storageVars, creation, transfer, cancel, cleanup, browserVars, cleaned>>
  BY DEF AcknowledgeUploadRights, SubmitCompletedFiles, FrameOfSubmission, uploadVars
<1>2. UploadTypes
  BY DEF UploadInv
<1>3. /\ stage' \in {"absent", "draft", "requested", "submitted"} /\ backend' \in {"none", "local", "onedrive"}
      /\ acknowledged' \in BOOLEAN /\ (stage' = "absent" => stage = "absent")
      /\ stage' = "submitted" => stage = "submitted" \/ EveryFileAvailable
  BY <1>1, <1>2 DEF UploadTypes, AcknowledgeUploadRights, SubmitCompletedFiles, uploadVars
<1>4. Recording /\ Showing /\ Storing /\ UNCHANGED <<session, audio, keyed, fileStatus>>
  BY <1>1, RowsKept, BrowserKept, ObjectsKept DEF sessionVars, browserVars
<1>5. creation' \in CreationRows /\ CreationFits'
  BY <1>1, <1>3, <1>4, CreationWaits
<1> HIDE DEF CreationRows, TransferRows, CancelRows, CleanupRows
<1> QED BY <1>1, <1>3, <1>4, <1>5, TransfersWait, RequestsKept, UploadKeeps

LEMMA UploadStep == UploadInv /\ [UploadNext]_uploadVars => UploadInv'
<1> SUFFICES ASSUME UploadInv, [UploadNext]_uploadVars PROVE UploadInv'
  OBVIOUS
<1>1. CASE \E kind \in {"draft", "requested"}, provider \in {"local", "onedrive"}, ack \in BOOLEAN :
             CreateUploadDraftBatch(kind, provider, ack)
  BY <1>1, DraftIsCreated
<1>2. CASE LoadCreatedBatch \/ GoOffline
  <2>1. PICK f \in Files : TRUE
    BY <1>2 DEF LoadCreatedBatch, GoOffline
  <2> QED BY <1>2, <2>1, CreationGoesOn, PausingKeeps
<1>3. CASE \E t \in Transfers, f \in Files : UploadOne(t, f) \/ ResumeFromPanel(t, f)
  BY <1>3, StartKeeps
<1>4. ASSUME NEW t \in Transfers,
             \/ ReadStatus(t) \/ ProbeProvider(t) \/ SyncStatus(t)
             \/ SendChunk(t) \/ StatPart(t) \/ WriteChunkLocally(t) \/ WriteChunkToOneDrive(t)
             \/ SaveProgress(t)
             \/ ReadForCompletion(t) \/ VerifyCompletedUpload(t) \/ LinkPart(t) \/ UnlinkPart(t)
             \/ CommitCompletion(t) \/ RequestDies(t)
      PROVE  UploadInv'
  BY <1>4, ReadKeeps, StoreKeeps, RecordKeeps
<1>5. ASSUME NEW f \in Files,
             \/ CreateProviderSession(f) \/ RecordProviderSession(f) \/ FailSessionCreation(f)
             \/ PauseTransfer(f) \/ ResumeSession(f)
             \/ CancelTransfer(f) \/ CancelUploadSession(f) \/ CancelDeletesObject(f) \/ CancelDies(f)
             \/ CleanupCancelledUpload(f) \/ CleanupDeletesObject(f) \/ ProviderSessionExpires(f)
      PROVE  UploadInv'
  BY <1>5, CreationGoesOn, PausingKeeps, CancelKeeps, CleanupKeeps
<1>6. CASE AcknowledgeUploadRights \/ SubmitCompletedFiles \/ UNCHANGED uploadVars
  BY <1>6, SubmittingKeeps
<1>7. CASE CreationDies
  BY <1>7, CreationStops
<1> QED BY <1>1, <1>2, <1>3, <1>4, <1>5, <1>6, <1>7 DEF UploadNext

LEMMA UploadInvHolds == UploadSpec => []UploadInv
BY UploadStarts, UploadStep, PTL DEF UploadSpec

LEMMA UploadTypesHold == UploadInv => UploadTypeOK
BY DEF UploadInv, UploadTypes, RowsFit, UploadTypeOK, SessionStates, AudioStates, FileStates, Bytes,
       CreationRows, TransferRows, CancelRows, CleanupRows

\* Every variable of the uploads is in its domain, no session counts more bytes than its file
\* has, and a completed one counts all of them (upload_session's CHECK constraints).
THEOREM UploadTypesAreKept == UploadSpec => []UploadTypeOK
BY UploadInvHolds, UploadTypesHold, PTL

\* Browser, database and submission agree on what is complete, for any number of transfers of
\* any number of files: completed and cancelled are for good, because completion, progress,
\* cancellation and the creating POST each look at the session in the statement that moves it.
THEOREM CompletionStaysAgreed == UploadSpec => []CompletionIsAgreed
<1>1. UploadInv => CompletionIsAgreed
  BY DEF UploadInv
<1> QED BY <1>1, UploadInvHolds, PTL

\* The object behind available audio is there unless the operator's cleanup has removed it:
\* between linking and committing a request's object goes only with a cancelled session, for
\* which the commit is refused.
THEOREM AvailableStaysStored == UploadSpec => []AvailableAudioIsStored
<1>1. UploadInv => AvailableAudioIsStored
  BY DEF UploadInv
<1> QED BY <1>1, UploadInvHolds, PTL
=============================================================================
