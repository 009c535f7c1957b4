------------------------------ MODULE UploadForm ------------------------------
(***************************************************************************)
(* The upload page before anything is transferred: files are selected,     *)
(* grouped into Track packages, described and saved as one draft batch     *)
(* (src/features/uploads/components/upload-workspace.tsx, the schema of    *)
(* src/lib/domain/uploads/validation.ts and the first half of              *)
(* createUploadDraftBatch).                                                *)
(*                                                                         *)
(* Grain: an event of the page, and for a request its look at the batches  *)
(* and its transaction, which are apart on the server.  A request whose    *)
(* connection breaks is still handled, perhaps after the next one.  A      *)
(* batch is named by the request that made it.  Of a package's metadata    *)
(* only the title matters here, which the schema wants and the page does   *)
(* not; of a Stem type whether it is missing, one of the list, or Other,   *)
(* which wants a label of its own.                                         *)
(***************************************************************************)
EXTENDS Naturals, FiniteSets

CONSTANTS
  LocalFiles,   \* files of the producer's disk that may be selected
  PackageIds,   \* ids of groups
  SaveRequests, \* bound: POSTs the page sends
  MaxStems,     \* config.maxStemsPerTrack
  MaxTracks,    \* config.maxTracksPerBatch
  NoPackage     \* model value: the file or the page has none

ASSUME NoPackageAssumption == NoPackage \notin PackageIds \cup SaveRequests
ASSUME UploadLimitAssumption == MaxStems \in Nat /\ MaxTracks \in Nat \ {0}

VARIABLES
  requested,    \* revisionContext: the group of the requested Revision, or none
  placed,       \* SelectedUploadFile: there, sound, groupId, role, stemType, is it labelled
  titles,       \* TrackGroupState.title: "absent", "blank" or "titled"
  formStep,     \* step
  request,      \* per POST: its state, is its payload valid, the batch of its answer
  awaited,      \* the POST the page waits for (saving)
  createdBatch, \* the batch the page shows, named by the POST that made it
  stored        \* the POSTs that made a batch, all under the page's idempotency key

formVars == <<requested, placed, titles, formStep, request, awaited, createdBatch, stored>>

Unselected == [there |-> FALSE, sound |-> TRUE, group |-> NoPackage, role |-> "unassigned",
               stem |-> "none", labelled |-> FALSE]
Unsent == [at |-> "unsent", valid |-> FALSE, batch |-> NoPackage]
revising == requested # NoPackage

FormInit ==
  /\ requested \in PackageIds \cup {NoPackage}
  /\ placed = [f \in LocalFiles |-> Unselected]
  /\ titles = [g \in PackageIds |-> IF g = requested THEN "titled" ELSE "absent"]
  /\ formStep = 1
  /\ request = [r \in SaveRequests |-> Unsent]
  /\ awaited = NoPackage /\ createdBatch = NoPackage /\ stored = {}

Selected == {f \in LocalFiles : placed[f].there}
FilesOf(g) == {f \in Selected : placed[f].group = g}
Packages == {g \in PackageIds : titles[g] # "absent" /\ FilesOf(g) # {}}
Stems(g) == {f \in FilesOf(g) : placed[f].role = "stem"}
Masters(g) == {f \in FilesOf(g) : placed[f].role = "master"}

-----------------------------------------------------------------------------
(* What the page asks for, and what the server does.                        *)

\* validateBrowserFile has passed every file.
CanContinueFromFiles == Selected # {} /\ \A f \in Selected : placed[f].sound

\* groupingErrors is empty.
GroupingAccepted ==
  /\ \A f \in Selected : placed[f].group # NoPackage /\ placed[f].role # "unassigned"
  /\ \A g \in Packages :
       /\ Cardinality(Masters(g)) = 1
       /\ \A f \in Stems(g) : placed[f].stem # "none"
       /\ \A f \in FilesOf(g) : placed[f].stem = "other" => placed[f].labelled
       /\ Cardinality(Stems(g)) <= MaxStems

\* uploadFileInputSchema, of the payload: a Master is sent without a Stem type.
FileAccepted(f) ==
  /\ placed[f].sound
  /\ placed[f].role \in {"master", "stem"}
  /\ placed[f].role = "stem" =>
       placed[f].stem # "none" /\ (placed[f].stem = "other" => placed[f].labelled)

\* The loop of validateUploadBatchLimits.
PackageAccepted(g) == Cardinality(Masters(g)) = 1 /\ Cardinality(Stems(g)) <= MaxStems

FilesAccepted ==
  Packages # {} /\ \A g \in Packages : PackageAccepted(g) /\ \A f \in FilesOf(g) : FileAccepted(f)

\* createUploadBatchSchema and validateUploadBatchLimits.
PayloadAccepted ==
  /\ FilesAccepted
  /\ \A g \in Packages : titles[g] = "titled"
  /\ Cardinality(Packages) <= MaxTracks
  /\ revising => Cardinality(Packages) = 1

-----------------------------------------------------------------------------
(* Step 1 and 2: files and packages.                                        *)

FrameOfSaving == UNCHANGED <<requested, request, awaited, createdBatch, stored>>

\* suggestFileAssignment reads the name: a group with a role, or nothing.
Suggestions ==
  {[group |-> g, role |-> role, stem |-> IF role = "stem" THEN "plain" ELSE "none"] :
     g \in PackageIds, role \in {"master", "stem"}}
  \cup {[group |-> NoPackage, role |-> "unassigned", stem |-> "none"]}

\* The single first file is a Track of its own; the group of a suggestion is made.
AddFile(f, sound) ==
  /\ formStep = 1 /\ createdBatch = NoPackage /\ f \notin Selected
  /\ \E s \in Suggestions, fresh \in PackageIds :
       LET single == Selected = {}
           g == IF revising THEN requested ELSE IF single THEN fresh ELSE s.group
       IN
       /\ single /\ ~revising => titles[fresh] = "absent"
       /\ placed' = [placed EXCEPT
            ![f] = [there |-> TRUE, sound |-> sound, group |-> g, labelled |-> FALSE,
                    role |-> IF single THEN "master" ELSE s.role, stem |-> s.stem]]
       /\ titles' = IF g # NoPackage /\ titles[g] = "absent"
                    THEN [titles EXCEPT ![g] = "titled"] ELSE titles
  /\ UNCHANGED formStep /\ FrameOfSaving

RemoveFile(f) ==
  /\ formStep = 1 /\ createdBatch = NoPackage /\ f \in Selected
  /\ placed' = [placed EXCEPT ![f] = Unselected]
  /\ UNCHANGED <<titles, formStep>> /\ FrameOfSaving

NewTrack(g) ==
  /\ formStep = 2 /\ titles[g] = "absent"
  /\ titles' = [titles EXCEPT ![g] = "titled"]
  /\ UNCHANGED <<placed, formStep>> /\ FrameOfSaving

Place(f, row) ==
  /\ formStep = 2 /\ f \in Selected
  /\ placed' = [placed EXCEPT ![f] = row]
  /\ UNCHANGED <<titles, formStep>> /\ FrameOfSaving

AssignTrack(f, g) ==
  /\ g \in {NoPackage} \cup {p \in PackageIds : titles[p] # "absent"}
  /\ Place(f, [placed[f] EXCEPT !.group = g])

\* A Master loses its Stem type, a file that is unassigned again keeps it.
AssignRole(f, role) ==
  Place(f, [placed[f] EXCEPT !.role = role, !.stem = IF role = "master" THEN "none" ELSE @])

ChooseStemType(f, stem) ==
  placed[f].role = "stem" /\ Place(f, [placed[f] EXCEPT !.stem = stem])

LabelStem(f) ==
  placed[f].stem = "other" /\ Place(f, [placed[f] EXCEPT !.labelled = ~@])

\* Step 3; of the fields of a Track the title stands for those the server may refuse.
EditPackage(g) ==
  /\ formStep = 3 /\ g \in Packages
  /\ titles' = [titles EXCEPT ![g] = IF @ = "blank" THEN "titled" ELSE "blank"]
  /\ UNCHANGED <<placed, formStep>> /\ FrameOfSaving

Continue ==
  /\ formStep < 4
  /\ formStep = 1 => CanContinueFromFiles
  /\ formStep = 2 => GroupingAccepted
  /\ formStep' = formStep + 1
  /\ UNCHANGED <<placed, titles>> /\ FrameOfSaving

GoBack ==
  /\ formStep > 1
  /\ formStep' = formStep - 1
  /\ UNCHANGED <<placed, titles>> /\ FrameOfSaving

-----------------------------------------------------------------------------
(* Saving.                                                                  *)

\* Save Draft, or Start Upload, which saves first.  The idempotency key is the page's: every
\* save of it sends the same.
SaveDraftBatch(r) ==
  /\ formStep = 4 /\ awaited = NoPackage /\ createdBatch = NoPackage
  /\ request[r].at = "unsent"
  /\ request' = [request EXCEPT ![r].at = "sent", ![r].valid = PayloadAccepted]
  /\ awaited' = r
  /\ UNCHANGED <<requested, placed, titles, formStep, createdBatch, stored>>

FrameOfPage == UNCHANGED <<requested, placed, titles, formStep, awaited, createdBatch>>

\* A batch with the key is the answer; whether there is one is asked before the transaction.
LookUpBatch(r) ==
  /\ request[r].at = "sent" /\ request[r].valid
  /\ \/ \E b \in stored :
          request' = [request EXCEPT ![r].at = "created", ![r].batch = b]
     \/ stored = {} /\ request' = [request EXCEPT ![r].at = "inserting"]
  /\ UNCHANGED stored /\ FrameOfPage

\* The batch is stored, with its rows, in the one transaction; an error of the commit, or of
\* the storage sessions opened after it, is answered as a failure all the same.
BatchStored(r) ==
  /\ request[r].at = "inserting"
  /\ stored' = stored \cup {r}
  /\ \/ request' = [request EXCEPT ![r].at = "created", ![r].batch = r]
     \/ request' = [request EXCEPT ![r].at = "refused"]
  /\ FrameOfPage

\* Mutant: no unique index on the owner and the key.
InsertWithoutIndex(r) == BatchStored(r)

InsertBatch(r) == stored = {} /\ BatchStored(r)

\* The schema, the unique index, a Revision no longer requested, or an error.
RefuseBatch(r) ==
  /\ request[r].at \in {"sent", "inserting"}
  /\ request' = [request EXCEPT ![r].at = "refused"]
  /\ UNCHANGED stored /\ FrameOfPage

BatchAnswered(r) ==
  /\ awaited = r /\ request[r].at \in {"created", "refused"}
  /\ awaited' = NoPackage
  /\ createdBatch' = IF request[r].at = "created" THEN request[r].batch ELSE createdBatch
  /\ UNCHANGED <<requested, placed, titles, formStep, request, stored>>

SaveConnectionBreaks(r) ==
  /\ awaited = r
  /\ awaited' = NoPackage
  /\ UNCHANGED <<requested, placed, titles, formStep, request, createdBatch, stored>>

-----------------------------------------------------------------------------
FormNext ==
  \/ \E f \in LocalFiles :
       \/ \E sound \in BOOLEAN : AddFile(f, sound)
       \/ RemoveFile(f)
       \/ \E g \in PackageIds \cup {NoPackage} : AssignTrack(f, g)
       \/ \E role \in {"unassigned", "master", "stem"} : AssignRole(f, role)
       \/ \E stem \in {"none", "plain", "other"} : ChooseStemType(f, stem)
       \/ LabelStem(f)
  \/ \E g \in PackageIds : NewTrack(g) \/ EditPackage(g)
  \/ Continue \/ GoBack
  \/ \E r \in SaveRequests :
       \/ SaveDraftBatch(r) \/ LookUpBatch(r) \/ InsertBatch(r) \/ RefuseBatch(r)
       \/ BatchAnswered(r) \/ SaveConnectionBreaks(r)

FormSpec == FormInit /\ [][FormNext]_formVars

-----------------------------------------------------------------------------
FormTypeOK ==
  /\ requested \in PackageIds \cup {NoPackage} /\ formStep \in 1 .. 4
  /\ placed \in [LocalFiles ->
       [there : BOOLEAN, sound : BOOLEAN, group : PackageIds \cup {NoPackage},
        role : {"unassigned", "master", "stem"}, stem : {"none", "plain", "other"},
        labelled : BOOLEAN]]
  /\ titles \in [PackageIds -> {"absent", "blank", "titled"}]
  /\ request \in [SaveRequests ->
       [at : {"unsent", "sent", "inserting", "created", "refused"}, valid : BOOLEAN,
        batch : SaveRequests \cup {NoPackage}]]
  /\ awaited \in SaveRequests \cup {NoPackage}
  /\ createdBatch \in SaveRequests \cup {NoPackage}
  /\ stored \subseteq SaveRequests

\* However often a save is repeated after its answer was lost, and however the requests
\* overtake one another between the look at the batches and the insert, the page's draft is
\* registered once: every answer that names a batch names that one, the page shows no
\* other, and what it was made from had passed the schema.
SavesAreOneBatch ==
  /\ \A q, r \in stored : q = r
  /\ \A r \in SaveRequests : request[r].at = "created" => request[r].batch \in stored
  /\ createdBatch # NoPackage => createdBatch \in stored
  /\ \A r \in stored : request[r].valid

\* What gets past the page's own checks has packages the server accepts, however the
\* producer went back and forth, moved files and changed roles: the two sets of rules
\* agree on files, though not on titles, the number of Tracks and a second package of a
\* requested Revision.
LastPageIsAccepted == formStep >= 3 => FilesAccepted
=============================================================================
