---------------------------- MODULE StorageSwitch -----------------------------
(***************************************************************************)
(* Where stored audio is and what reads it (lib/storage,                   *)
(* audio/stored-audio.ts, processing/service.ts, media/worker.ts,          *)
(* scripts/migrate-storage.ts).  STORAGE_PROVIDER says where new objects   *)
(* go; a row of catalog.audio_file records the backend its object is on.   *)
(* An object on OneDrive is found by its item id, which is recorded with   *)
(* the upload session of an uploaded file and with the playback artifact   *)
(* of a preview.  The script storage:migrate copies local objects to       *)
(* OneDrive, checks the copies and repoints the rows.                      *)
(***************************************************************************)
EXTENDS Naturals, FiniteSets

CONSTANTS
  StoredMasters  \* the source files of Revisions, each with at most one preview

Backends == {"local", "onedrive"}
AudioFiles == StoredMasters \X {"source", "preview"}

VARIABLES
  provider,   \* STORAGE_PROVIDER of the running processes
  row,        \* row[o]: the audio_file row: its origin, its backend, whether an item id is known
  copies,     \* copies[o]: the backends that hold o's bytes under its storage key
  analysed,   \* analysed[m]: what became of the processing of the Master m
  candidates, \* the objects the migration script still has in its list
  unchecked      \* the object it has stored on OneDrive and not yet checked, in a set

storedVars == <<provider, row, copies, analysed, candidates, unchecked>>

NoRow == [origin |-> "none", backend |-> "local", itemKnown |-> FALSE]
HasRow(o) == row[o].origin # "none"

-------------------------------------------------------------------------------
(* The providers.                                                          *)

\* A provider finds an object: the local one by its key, OneDrive by its item id.
Finds(backend, o) ==
  /\ backend \in copies[o]
  /\ backend = "onedrive" => row[o].itemKnown

\* The provider a listener's request, the media worker and the labelling of files use.
OpensStoredAudio(o) == HasRow(o) /\ Finds(row[o].backend, o)

\* The provider the processing worker uses.
MaterializesForAnalysis(o) == Finds(provider, o)

\* Whether the id of an item on OneDrive has a place to be recorded in: the upload session
\* of an uploaded file, the playback artifact of a preview.  A generated draft has neither.
RecordsItem(origin) == origin \in {"upload", "preview"}

\* A row for an object that has just been stored with a backend.
NewRow(origin, backend) ==
  [origin |-> origin, backend |-> backend,
   itemKnown |-> backend = "onedrive" /\ RecordsItem(origin)]

-------------------------------------------------------------------------------
(* New objects.                                                            *)

StoreNew(o, origin, backend) ==
  /\ ~HasRow(o)
  /\ row' = [row EXCEPT ![o] = NewRow(origin, backend)]
  /\ copies' = [copies EXCEPT ![o] = {backend}]
  /\ UNCHANGED <<provider, analysed, candidates, unchecked>>

\* An upload is complete, a generated draft is saved: with the configured provider.
CompleteUpload(m) == StoreNew(<<m, "source">>, "upload", provider)
SaveGeneration(m) == StoreNew(<<m, "source">>, "generated", provider)

\* The media worker makes the preview with the provider of its source.
ProcessPreview(m) ==
  /\ OpensStoredAudio(<<m, "source">>)
  /\ StoreNew(<<m, "preview">>, "preview", row[<<m, "source">>].backend)

\* The processing worker measures a Master, or cannot read it and the attempt fails.
ProcessRevision(m) ==
  /\ HasRow(<<m, "source">>) /\ analysed[m] # "measured"
  /\ analysed' = [analysed EXCEPT ![m] =
       IF MaterializesForAnalysis(<<m, "source">>) THEN "measured" ELSE "unreadable"]
  /\ UNCHANGED <<provider, row, copies, candidates, unchecked>>

\* The operator switches the provider and restarts the processes, the script not among them.
SwitchProvider ==
  /\ provider' \in Backends \ {provider}
  /\ UNCHANGED <<row, copies, analysed, candidates, unchecked>>

-------------------------------------------------------------------------------
(* scripts/migrate-storage.ts.                                             *)

\* It lists the rows on the local backend once.
SelectCandidates ==
  /\ provider = "onedrive" /\ candidates = {} /\ unchecked = {}
  /\ candidates' = {o \in AudioFiles : HasRow(o) /\ row[o].backend = "local"}
  /\ candidates' # {}
  /\ UNCHANGED <<provider, row, copies, analysed, unchecked>>

\* The next candidate is stored on OneDrive, which refuses a name that is taken.
CopyCandidate(o) ==
  /\ unchecked = {} /\ o \in candidates
  /\ "onedrive" \notin copies[o]
  /\ copies' = [copies EXCEPT ![o] = @ \cup {"onedrive"}]
  /\ unchecked' = {o}
  /\ UNCHANGED <<provider, row, analysed, candidates>>

\* The upload is refused or breaks off, or its last answer is lost and the object is there
\* all the same; the script goes on with the next candidate.
CopyFails(o) ==
  /\ unchecked = {} /\ o \in candidates
  /\ \/ UNCHANGED copies
     \/ copies' = [copies EXCEPT ![o] = @ \cup {"onedrive"}]
  /\ candidates' = candidates \ {o}
  /\ UNCHANGED <<provider, row, analysed, unchecked>>

\* Mutant: only the upload sessions are repointed.
RepointedSessionsOnly(o) ==
  [row[o] EXCEPT !.backend = "onedrive", !.itemKnown = row[o].origin = "upload"]

\* The row after it: the backend, and the item id wherever it is recorded.
Repointed(o) ==
  [row[o] EXCEPT !.backend = "onedrive", !.itemKnown = RecordsItem(row[o].origin)]

\* The copy is read back, its hash agrees, and one transaction repoints the row.
RepointRow(o) ==
  /\ o \in unchecked
  /\ row' = [row EXCEPT ![o] = Repointed(o)]
  /\ candidates' = candidates \ {o} /\ unchecked' = {}
  /\ UNCHANGED <<provider, copies, analysed>>

\* The copy cannot be read back or differs, or the transaction fails: the row stays.
LeaveOnLocal(o) ==
  /\ o \in unchecked
  /\ candidates' = candidates \ {o} /\ unchecked' = {}
  /\ UNCHANGED <<provider, row, copies, analysed>>

\* The script is interrupted.
MigrationStops ==
  /\ candidates # {}
  /\ candidates' = {} /\ unchecked' = {}
  /\ UNCHANGED <<provider, row, copies, analysed>>

-------------------------------------------------------------------------------
StorageInit ==
  /\ provider \in Backends
  /\ row = [o \in AudioFiles |-> NoRow]
  /\ copies = [o \in AudioFiles |-> {}]
  /\ analysed = [m \in StoredMasters |-> "no"]
  /\ candidates = {} /\ unchecked = {}

StorageNext ==
  \/ \E m \in StoredMasters :
       CompleteUpload(m) \/ SaveGeneration(m) \/ ProcessPreview(m) \/ ProcessRevision(m)
  \/ SwitchProvider \/ SelectCandidates \/ MigrationStops
  \/ \E o \in AudioFiles :
       CopyCandidate(o) \/ CopyFails(o) \/ RepointRow(o) \/ LeaveOnLocal(o)

StorageSpec == StorageInit /\ [][StorageNext]_storedVars

StorageTypeOK ==
  /\ provider \in Backends
  /\ row \in [AudioFiles -> [origin : {"none", "upload", "generated", "preview"},
                             backend : Backends, itemKnown : BOOLEAN]]
  /\ copies \in [AudioFiles -> SUBSET Backends]
  /\ analysed \in [StoredMasters -> {"no", "measured", "unreadable"}]
  /\ candidates \subseteq AudioFiles
  /\ unchecked \subseteq candidates /\ Cardinality(unchecked) <= 1

\* Whatever is switched, migrated or interrupted, an uploaded file and a preview open with
\* the backend their row names; a row leaves the local backend only for a copy that is
\* there, and the local file stays (scripts/migrate-storage.ts, audio/stored-audio.ts).
MovedAudioOpens ==
  \A o \in AudioFiles : HasRow(o) =>
    /\ row[o].backend \in copies[o]
    /\ RecordsItem(row[o].origin) => OpensStoredAudio(o)
=============================================================================
