-------------------------- MODULE GenerationDrafts --------------------------
(***************************************************************************)
(* Generated audio: the page that asks for it, the stored preview with its *)
(* record, and the saves that turn a preview into a draft Submission       *)
(* (src/lib/generation, src/features/generation, src/lib/http/rate-limit). *)
(*                                                                         *)
(* Grain: an effect on the disk or in the database.  The saves of one      *)
(* preview share a temporary directory, named after it; a page whose fetch *)
(* broke off lets its user save again while the server is still at the     *)
(* first save.                                                             *)
(***************************************************************************)
EXTENDS Integers, FiniteSets

CONSTANTS
  Previews,    \* generation ids
  Saves,       \* save requests; each makes a Submission id of its own
  MaxRequests, \* RATE_LIMITS: requests allowed per window
  MaxWindows,  \* bound: windows of the rate limit
  Nothing      \* model value

ASSUME NothingAssumption == Nothing \notin Previews \cup Saves
ASSUME RateAssumption == MaxRequests \in Nat /\ MaxWindows \in Nat

VARIABLES
  record,   \* per preview: ai_generation_record.status ("none": no row)
  preview,  \* the previews whose object is in storage
  page,     \* the page: result shown, submission shown as saved, requests it waits for
  save,     \* per save: how far the server is and the preview it saves
  answer,   \* per save: what the server's handler ended with
  temp,     \* per preview: the temporary file, its writer and whether it is whole
  draft,    \* per save: the preview of the Submission it committed
  copied,    \* per save: the audio stored for that Submission: "none", "short" or "whole"
  rate      \* per bucket: system.rate_limit_counter of the page's user, windows gone by

generationVars == <<record, preview, page, save, answer, temp, draft, copied, rate>>

Buckets == {"generation", "generation.commit"}
NoFile == [by |-> Nothing, whole |-> FALSE]
IdlePage == [result |-> Nothing, saved |-> Nothing, generating |-> Nothing, saving |-> Nothing]

GenerationInit ==
  /\ record = [g \in Previews |-> "none"]
  /\ preview = {}
  /\ page = IdlePage
  /\ save = [w \in Saves |-> [step |-> "unused", of |-> Nothing]]
  /\ answer = [w \in Saves |-> "none"]
  /\ temp = [g \in Previews |-> NoFile]
  /\ draft = [w \in Saves |-> Nothing]
  /\ copied = [w \in Saves |-> "none"]
  /\ rate = [bucket \in Buckets |-> [used |-> 0, windows |-> 0]]

\* consumeRateLimit: one upsert counts and answers.
ConsumeRateLimit(bucket) ==
  rate' = [rate EXCEPT ![bucket].used = IF @ > MaxRequests THEN @ ELSE @ + 1]
WithinRateLimit(bucket) == rate[bucket].used < MaxRequests

RateWindowEnds(bucket) ==
  /\ rate[bucket].used > 0 /\ rate[bucket].windows < MaxWindows
  /\ rate' = [rate EXCEPT ![bucket] = [used |-> 0, windows |-> @.windows + 1]]
  /\ UNCHANGED <<record, preview, page, save, answer, temp, draft, copied>>

-----------------------------------------------------------------------------
(* Generating.                                                              *)

\* handleGenerate; a request over the limit is answered 429.
Generate(g) ==
  /\ page.generating = Nothing /\ record[g] = "none" /\ g \notin preview
  /\ page' = [page EXCEPT !.saved = Nothing,
                          !.generating = IF WithinRateLimit("generation") THEN g ELSE @]
  /\ ConsumeRateLimit("generation")
  /\ UNCHANGED <<record, preview, save, answer, temp, draft, copied>>

PersistGenerationPreview(g) ==
  /\ page.generating = g /\ g \notin preview
  /\ preview' = preview \cup {g}
  /\ UNCHANGED <<record, page, save, answer, temp, draft, copied, rate>>

RecordGeneration(g) ==
  /\ g \in preview /\ record[g] = "none"
  /\ record' = [record EXCEPT ![g] = "completed"]
  /\ UNCHANGED <<preview, page, save, answer, temp, draft, copied, rate>>

\* The provider or the store fails, or the INSERT: the object is deleted again.
GenerationFails(g) ==
  /\ page.generating = g /\ record[g] = "none"
  /\ preview' = preview \ {g}
  /\ record' = [record EXCEPT ![g] = "failed"]
  /\ page' = [page EXCEPT !.generating = Nothing]
  /\ UNCHANGED <<save, answer, temp, draft, copied, rate>>

GenerationAnswered(g) ==
  /\ page.generating = g /\ record[g] # "none"
  /\ page' = [page EXCEPT !.generating = Nothing, !.result = g]
  /\ UNCHANGED <<record, preview, save, answer, temp, draft, copied, rate>>

\* changeAssetKind, changeProvider and the choice of another model.
ChangeSelection ==
  /\ page.result # Nothing
  /\ page' = [page EXCEPT !.result = Nothing, !.saved = Nothing]
  /\ UNCHANGED <<record, preview, save, answer, temp, draft, copied, rate>>

-----------------------------------------------------------------------------
(* Saving: the page.                                                        *)

\* The output shows a preview until another choice is made, and its form until a
\* submission is shown as saved.
SaveOffered == page.result # Nothing /\ page.saved = Nothing /\ page.saving = Nothing

\* handleSaveDraft.
SaveDraft(w) ==
  /\ SaveOffered
  /\ save[w].step = "unused"
  /\ ConsumeRateLimit("generation.commit")
  /\ IF WithinRateLimit("generation.commit")
       THEN /\ page' = [page EXCEPT !.saving = w]
            /\ save' = [save EXCEPT ![w] = [step |-> "asked", of |-> page.result]]
       ELSE UNCHANGED <<page, save>>
  /\ UNCHANGED <<record, preview, answer, temp, draft, copied>>

\* setSavedSubmission, whatever the page shows by now.
SaveAnswered(w) ==
  /\ page.saving = w /\ answer[w] # "none"
  /\ page' = [page EXCEPT !.saving = Nothing,
                          !.saved = IF answer[w] = "ok" THEN w ELSE @]
  /\ UNCHANGED <<record, preview, save, answer, temp, draft, copied, rate>>

\* The fetch fails; the server goes on.
SaveBreaksOff(w) ==
  /\ page.saving = w
  /\ page' = [page EXCEPT !.saving = Nothing]
  /\ UNCHANGED <<record, preview, save, answer, temp, draft, copied, rate>>

-----------------------------------------------------------------------------
(* Saving: saveGeneratedTrackAsDraft.                                       *)

SaveAt(w, step) == save[w].step = step
Goes(w, step) == save' = [save EXCEPT ![w].step = step]

LoadGenerationRecord(w) ==
  /\ SaveAt(w, "asked")
  /\ IF record[save[w].of] = "completed"
       THEN Goes(w, "loaded") /\ UNCHANGED answer
       ELSE Goes(w, "done") /\ answer' = [answer EXCEPT ![w] = "error"]
  /\ UNCHANGED <<record, preview, page, temp, draft, copied, rate>>

\* The local provider opens the file exclusively; when that fails it removes what is there.
OpenTemporaryFile(w) ==
  LET g == save[w].of IN
  /\ SaveAt(w, "loaded")
  /\ IF temp[g] = NoFile
       THEN temp' = [temp EXCEPT ![g] = [by |-> w, whole |-> FALSE]] /\ Goes(w, "writing")
       ELSE temp' = [temp EXCEPT ![g] = NoFile] /\ Goes(w, "failing")
  /\ UNCHANGED <<record, preview, page, answer, draft, copied, rate>>

\* A file that was removed meanwhile takes the rest of the bytes with it.
FinishTemporaryFile(w) ==
  LET g == save[w].of IN
  /\ SaveAt(w, "writing")
  /\ temp' = IF temp[g].by = w THEN [temp EXCEPT ![g].whole = TRUE] ELSE temp
  /\ Goes(w, "written")
  /\ UNCHANGED <<record, preview, page, answer, draft, copied, rate>>

\* stat, readFile and the checksum.
VerifyTemporaryFile(w) ==
  /\ SaveAt(w, "written")
  /\ Goes(w, IF temp[save[w].of].whole THEN "verified" ELSE "failing")
  /\ UNCHANGED <<record, preview, page, answer, temp, draft, copied, rate>>

\* Mutant: what was copied is taken to be as long as what was verified.
StoreDraftAudioUnsized(w) ==
  LET g == save[w].of IN
  /\ SaveAt(w, "verified")
  /\ IF temp[g] # NoFile
       THEN /\ Goes(w, "stored")
            /\ copied' = [copied EXCEPT ![w] = IF temp[g].whole THEN "whole" ELSE "short"]
       ELSE Goes(w, "failing") /\ UNCHANGED copied
  /\ UNCHANGED <<record, preview, page, answer, temp, draft, rate>>

\* storeGeneratedObject copies the temporary file, whoever wrote it, and compares its size.
StoreDraftAudio(w) ==
  /\ SaveAt(w, "verified")
  /\ IF temp[save[w].of].whole
       THEN Goes(w, "stored") /\ copied' = [copied EXCEPT ![w] = "whole"]
       ELSE Goes(w, "failing") /\ UNCHANGED copied
  /\ UNCHANGED <<record, preview, page, answer, temp, draft, rate>>

CommitsDraft(w) ==
  /\ record' = [record EXCEPT ![save[w].of] = "draft_committed"]
  /\ draft' = [draft EXCEPT ![w] = save[w].of]

\* Mutant: the UPDATE does not ask for a record that is still to be saved.
CommitDraftAgain(w) ==
  /\ SaveAt(w, "stored")
  /\ CommitsDraft(w) /\ Goes(w, "committed")
  /\ UNCHANGED <<preview, page, answer, temp, copied, rate>>

CommitDraft(w) ==
  /\ SaveAt(w, "stored") /\ record[save[w].of] = "completed"
  /\ CommitsDraft(w) /\ Goes(w, "committed")
  /\ UNCHANGED <<preview, page, answer, temp, copied, rate>>

\* The transaction fails or finds the record committed.
CommitFails(w) ==
  /\ SaveAt(w, "stored")
  /\ copied' = [copied EXCEPT ![w] = "none"] /\ Goes(w, "failing")
  /\ UNCHANGED <<record, preview, page, answer, temp, draft, rate>>

\* COMMIT takes effect, and its acknowledgement is lost.
CommitGoesUnanswered(w) ==
  /\ SaveAt(w, "stored") /\ record[save[w].of] = "completed"
  /\ CommitsDraft(w)
  /\ copied' = [copied EXCEPT ![w] = "none"] /\ Goes(w, "failing")
  /\ UNCHANGED <<preview, page, answer, temp, rate>>

\* finally: the directory is removed with whatever is in it.
LeaveSave(w) ==
  /\ SaveAt(w, "committed") \/ SaveAt(w, "failing")
  /\ temp' = [temp EXCEPT ![save[w].of] = NoFile]
  /\ answer' = [answer EXCEPT ![w] = IF SaveAt(w, "committed") THEN "ok" ELSE "error"]
  /\ Goes(w, "done")
  /\ UNCHANGED <<record, preview, page, draft, copied, rate>>

\* The process ends; the directory stays.
SaveCrashes(w) ==
  /\ save[w].step \notin {"unused", "done"}
  /\ Goes(w, "done") /\ answer' = [answer EXCEPT ![w] = "error"]
  /\ UNCHANGED <<record, preview, page, temp, draft, copied, rate>>

-----------------------------------------------------------------------------
GenerationNext ==
  \/ \E bucket \in Buckets : RateWindowEnds(bucket)
  \/ ChangeSelection
  \/ \E g \in Previews :
       \/ Generate(g)
       \/ PersistGenerationPreview(g)
       \/ RecordGeneration(g)
       \/ GenerationFails(g)
       \/ GenerationAnswered(g)
  \/ \E w \in Saves :
       \/ SaveDraft(w)
       \/ SaveAnswered(w)
       \/ SaveBreaksOff(w)
       \/ LoadGenerationRecord(w)
       \/ OpenTemporaryFile(w)
       \/ FinishTemporaryFile(w)
       \/ VerifyTemporaryFile(w)
       \/ StoreDraftAudio(w)
       \/ CommitDraft(w)
       \/ CommitFails(w)
       \/ CommitGoesUnanswered(w)
       \/ LeaveSave(w)
       \/ SaveCrashes(w)

GenerationSpec == GenerationInit /\ [][GenerationNext]_generationVars

-----------------------------------------------------------------------------
GenerationTypeOK ==
  /\ record \in [Previews -> {"none", "completed", "draft_committed", "failed"}]
  /\ preview \subseteq Previews
  /\ page \in [result : Previews \cup {Nothing}, saved : Saves \cup {Nothing},
               generating : Previews \cup {Nothing}, saving : Saves \cup {Nothing}]
  /\ save \in [Saves -> [step : {"unused", "asked", "loaded", "writing", "written", "verified",
                                 "stored", "committed", "failing", "done"},
                         of : Previews \cup {Nothing}]]
  /\ answer \in [Saves -> {"none", "ok", "error"}]
  /\ temp \in [Previews -> [by : Saves \cup {Nothing}, whole : BOOLEAN]]
  /\ draft \in [Saves -> Previews \cup {Nothing}]
  /\ copied \in [Saves -> {"none", "short", "whole"}]
  /\ rate \in [Buckets -> [used : 0 .. MaxRequests + 1, windows : 0 .. MaxWindows]]

\* "The server reloads that stored object, verifies the checksum and byte size, copies it
\* into the Submission": what is stored for a Submission is whole, however many saves of
\* the preview remove and rewrite one another's temporary file; a save that was answered
\* has stored and committed it; and a preview is saved once, also by saves that read its
\* record at the same moment.
PreviewIsSavedOnceAndWhole ==
  /\ \A w \in Saves :
       /\ copied[w] # "short"
       /\ answer[w] = "ok" => draft[w] # Nothing /\ copied[w] = "whole"
  /\ \A v, w \in Saves : v # w /\ draft[v] # Nothing => draft[v] # draft[w]
=============================================================================
