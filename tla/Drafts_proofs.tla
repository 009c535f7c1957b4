---------------------------- MODULE Drafts_proofs ----------------------------
(***************************************************************************)
(* Proofs about the parts that make a draft and describe its audio, one    *)
(* after another: the page that registers a draft, generated audio, the    *)
(* audio tools, the technical and the AI half of the analysis, the place   *)
(* of the stored objects, and the player; last their composition with the  *)
(* transfers, whose proofs have a module of their own.                     *)
(***************************************************************************)
EXTENDS MCDrafts, UploadTransfers_proofs, FiniteSetTheorems, TLAPS

-----------------------------------------------------------------------------
(***************************************************************************)
(* UploadForm: what gets past the checks of the page is accepted, for any  *)
(* files, packages and saves.                                              *)
(***************************************************************************)
PlacedFiles == [there : BOOLEAN, sound : BOOLEAN, group : PackageIds \cup {NoPackage},
                role : {"unassigned", "master", "stem"}, stem : {"none", "plain", "other"},
                labelled : BOOLEAN]
Posts == [at : {"unsent", "sent", "inserting", "created", "refused"}, valid : BOOLEAN,
          batch : SaveRequests \cup {NoPackage}]

\* What the page has checked of the files stays so on the pages after: nothing is moved
\* there, and no group ever goes away that a file is in.
PlacesAreChecked ==
  /\ \A f \in Selected : placed[f].group # NoPackage => titles[placed[f].group] # "absent"
  /\ formStep >= 2 => CanContinueFromFiles
  /\ formStep >= 3 => GroupingAccepted

\* Only what the schema passed gets to the insert, and only what was inserted is stored.
InsertsAreValid ==
  /\ \A r \in SaveRequests : request[r].at = "inserting" => request[r].valid
  /\ \A r \in stored : request[r].at \in {"created", "refused"}

FormInv == FormTypeOK /\ PlacesAreChecked /\ InsertsAreValid /\ SavesAreOneBatch

LEMMA FormTypes ==
  ASSUME FormTypeOK
  PROVE  /\ placed \in [LocalFiles -> PlacedFiles]
         /\ titles \in [PackageIds -> {"absent", "blank", "titled"}]
         /\ request \in [SaveRequests -> Posts]
         /\ createdBatch \in SaveRequests \cup {NoPackage} /\ stored \subseteq SaveRequests
         /\ formStep \in 1 .. 4 /\ requested \in PackageIds \cup {NoPackage}
         /\ awaited \in SaveRequests \cup {NoPackage}
<1> QED BY DEF FormTypeOK, PlacedFiles, Posts

\* The server's rules follow from the page's.
LEMMA CheckedIsAccepted ==
  ASSUME FormInv, formStep >= 3
  PROVE  FilesAccepted
<1>1. CanContinueFromFiles /\ GroupingAccepted /\ formStep \in 1 .. 4
  BY DEF FormInv, PlacesAreChecked, FormTypeOK
<1>2. placed \in [LocalFiles -> PlacedFiles]
  BY FormTypes DEF FormInv
<1>3. PICK f \in Selected : TRUE
  BY <1>1 DEF CanContinueFromFiles
<1>4. placed[f].group \in PackageIds
  BY <1>1, <1>2 DEF GroupingAccepted, PlacedFiles, Selected
<1>5. placed[f].group \in Packages
  BY <1>1, <1>4 DEF GroupingAccepted, Packages, FilesOf, FormInv, PlacesAreChecked
<1>6. ASSUME NEW g \in Packages PROVE PackageAccepted(g)
  BY <1>1 DEF GroupingAccepted, PackageAccepted
<1>7. ASSUME NEW g \in Packages, NEW x \in FilesOf(g) PROVE FileAccepted(x)
  <2>1. x \in Selected /\ x \in LocalFiles
    BY DEF FilesOf, Selected
  <2>2. placed[x].sound
    BY <1>1, <2>1 DEF CanContinueFromFiles
  <2>3. placed[x].role \in {"master", "stem"}
    BY <1>1, <1>2, <2>1 DEF GroupingAccepted, PlacedFiles
  <2>4. placed[x].role = "stem" => placed[x].stem # "none"
    BY <1>1 DEF GroupingAccepted, Stems
  <2>5. placed[x].stem = "other" => placed[x].labelled
    BY <1>1 DEF GroupingAccepted
  <2> QED BY <2>2, <2>3, <2>4, <2>5 DEF FileAccepted
<1> QED BY <1>5, <1>6, <1>7 DEF FilesAccepted

LEMMA FormStarts == FormInit => FormInv
<1> SUFFICES ASSUME FormInit PROVE FormInv
  OBVIOUS
<1>1. Unselected \in PlacedFiles /\ Unsent \in Posts /\ Unsent.at = "unsent"
  BY DEF Unselected, PlacedFiles, Unsent, Posts
<1>2. placed \in [LocalFiles -> PlacedFiles] /\ request \in [SaveRequests -> Posts]
  BY <1>1 DEF FormInit
<1>3. titles \in [PackageIds -> {"absent", "blank", "titled"}]
  BY DEF FormInit
<1>4. formStep \in 1 .. 4 /\ ~(formStep >= 2) /\ ~(formStep >= 3)
  BY DEF FormInit
<1>5. createdBatch = NoPackage /\ stored = {} /\ awaited = NoPackage
      /\ requested \in PackageIds \cup {NoPackage}
  BY DEF FormInit
<1>6. FormTypeOK
  BY <1>2, <1>3, <1>4, <1>5 DEF FormTypeOK, PlacedFiles, Posts
<1>7. Selected = {}
  BY DEF FormInit, Selected, Unselected
<1>8. InsertsAreValid /\ SavesAreOneBatch
  BY <1>1, <1>5 DEF FormInit, InsertsAreValid, SavesAreOneBatch
<1> QED BY <1>4, <1>6, <1>7, <1>8 DEF FormInv, PlacesAreChecked

\* A step of the page that is no save.
LEMMA SavingStays ==
  ASSUME FormInv, FrameOfSaving
  PROVE  InsertsAreValid' /\ SavesAreOneBatch'
<1> QED BY DEF FormInv, FrameOfSaving, InsertsAreValid, SavesAreOneBatch

\* A step that leaves files and groups where they are.
LEMMA PlacesKeep ==
  ASSUME FormInv, FormTypeOK', placed' = placed,
         \A g \in PackageIds : titles'[g] = "absent" <=> titles[g] = "absent",
         \/ formStep' = formStep
         \/ formStep' < formStep
         \/ formStep = 1 /\ formStep' = 2 /\ CanContinueFromFiles
         \/ formStep = 2 /\ formStep' = 3 /\ GroupingAccepted
         \/ formStep = 3
  PROVE  PlacesAreChecked'
<1>0. formStep \in 1 .. 4 /\ formStep' \in 1 .. 4 /\ placed \in [LocalFiles -> PlacedFiles]
  BY FormTypes DEF FormInv, FormTypeOK
<1>1. Selected' = Selected
  BY DEF Selected
<1>2. \A g : FilesOf(g)' = FilesOf(g) /\ Stems(g)' = Stems(g) /\ Masters(g)' = Masters(g)
  BY <1>1 DEF FilesOf, Stems, Masters
<1>3. Packages' = Packages
  BY <1>2 DEF Packages
<1>4. GroupingAccepted => GroupingAccepted'
  BY <1>1, <1>2, <1>3 DEF GroupingAccepted
<1>5. CanContinueFromFiles => CanContinueFromFiles'
  BY <1>1 DEF CanContinueFromFiles
<1>6. \A f \in Selected' : placed'[f].group # NoPackage => titles'[placed'[f].group] # "absent"
  <2> SUFFICES ASSUME NEW f \in Selected, placed[f].group # NoPackage
               PROVE  titles'[placed[f].group] # "absent"
    BY <1>1
  <2>1. placed[f].group \in PackageIds
    BY <1>0 DEF Selected, PlacedFiles
  <2> QED BY <2>1 DEF FormInv, PlacesAreChecked
<1>7. formStep' >= 2 => CanContinueFromFiles'
  BY <1>0, <1>5 DEF FormInv, PlacesAreChecked
<1>8. formStep' >= 3 => GroupingAccepted'
  BY <1>0, <1>4 DEF FormInv, PlacesAreChecked
<1> QED BY <1>6, <1>7, <1>8 DEF PlacesAreChecked

\* One file gets another entry, on one of the first two pages.
LEMMA PlaceKeeps ==
  ASSUME FormInv, NEW f \in LocalFiles, NEW entry \in PlacedFiles,
         placed' = [placed EXCEPT ![f] = entry],
         titles' \in [PackageIds -> {"absent", "blank", "titled"}],
         \A g \in PackageIds : titles[g] # "absent" => titles'[g] # "absent",
         entry.there /\ entry.group # NoPackage => titles'[entry.group] # "absent",
         formStep = 1 \/ (formStep = 2 /\ f \in Selected /\ entry.there /\ entry.sound = placed[f].sound),
         UNCHANGED formStep, FrameOfSaving
  PROVE  FormInv'
<1>0. placed \in [LocalFiles -> PlacedFiles]
  BY FormTypes DEF FormInv
<1>1. placed' \in [LocalFiles -> PlacedFiles] /\ placed'[f] = entry
      /\ \A x \in LocalFiles \ {f} : placed'[x] = placed[x]
  BY <1>0
<1>2. FormTypeOK'
  BY <1>1 DEF FormInv, FormTypeOK, FrameOfSaving, PlacedFiles
<1>3. \A x \in Selected' : placed'[x].group # NoPackage => titles'[placed'[x].group] # "absent"
  <2> SUFFICES ASSUME NEW x \in LocalFiles, placed'[x].there, placed'[x].group # NoPackage
               PROVE  titles'[placed'[x].group] # "absent"
    BY DEF Selected
  <2>1. CASE x = f
    BY <1>1, <2>1
  <2>2. CASE x # f
    <3>1. placed'[x] = placed[x] /\ placed[x].group \in PackageIds /\ x \in Selected
      BY <1>0, <1>1, <2>2 DEF Selected, PlacedFiles
    <3> QED BY <3>1 DEF FormInv, PlacesAreChecked
  <2> QED BY <2>1, <2>2
<1>4. formStep' >= 2 => CanContinueFromFiles'
  <2> SUFFICES ASSUME formStep = 2, f \in Selected, entry.there, entry.sound = placed[f].sound
               PROVE  CanContinueFromFiles'
    OBVIOUS
  <2>1. CanContinueFromFiles
    BY DEF FormInv, PlacesAreChecked
  <2>2. Selected' = Selected
    BY <1>1 DEF Selected
  <2>3. ASSUME NEW x \in Selected PROVE placed'[x].sound
    <3>1. placed[x].sound /\ x \in LocalFiles
      BY <2>1 DEF CanContinueFromFiles, Selected
    <3> QED BY <1>1, <3>1
  <2> QED BY <2>1, <2>2, <2>3 DEF CanContinueFromFiles
<1> QED BY <1>2, <1>3, <1>4, SavingStays DEF FormInv, PlacesAreChecked

LEMMA AddFileKeeps ==
  ASSUME FormInv, NEW f \in LocalFiles, NEW sound \in BOOLEAN, AddFile(f, sound)
  PROVE  FormInv'
<1>1. PICK s \in Suggestions, fresh \in PackageIds :
        LET single == Selected = {}
            g == IF revising THEN requested ELSE IF single THEN fresh ELSE s.group
        IN  /\ placed' = [placed EXCEPT
                 ![f] = [there |-> TRUE, sound |-> sound, group |-> g, labelled |-> FALSE,
                         role |-> IF single THEN "master" ELSE s.role, stem |-> s.stem]]
            /\ titles' = IF g # NoPackage /\ titles[g] = "absent"
                         THEN [titles EXCEPT ![g] = "titled"] ELSE titles
  BY DEF AddFile
<1> DEFINE group == IF revising THEN requested ELSE IF Selected = {} THEN fresh ELSE s.group
           entry == [there |-> TRUE, sound |-> sound, group |-> group, labelled |-> FALSE,
                   role |-> IF Selected = {} THEN "master" ELSE s.role, stem |-> s.stem]
<1>2. /\ s.group \in PackageIds \cup {NoPackage} /\ s.role \in {"unassigned", "master", "stem"}
      /\ s.stem \in {"none", "plain", "other"}
  BY DEF Suggestions
<1>3. group \in PackageIds \cup {NoPackage}
  BY <1>2, FormTypes DEF FormInv
<1>4. entry \in PlacedFiles /\ entry.group = group /\ entry.there
  BY <1>2, <1>3 DEF PlacedFiles
<1>5. /\ placed' = [placed EXCEPT ![f] = entry]
      /\ titles' = IF group # NoPackage /\ titles[group] = "absent"
                   THEN [titles EXCEPT ![group] = "titled"] ELSE titles
  BY <1>1
<1> HIDE DEF group, entry
<1>6. /\ titles' \in [PackageIds -> {"absent", "blank", "titled"}]
      /\ \A g \in PackageIds : titles[g] # "absent" => titles'[g] # "absent"
      /\ group # NoPackage => titles'[group] # "absent"
  BY <1>3, <1>5, FormTypes DEF FormInv
<1>7. formStep = 1 /\ UNCHANGED formStep /\ FrameOfSaving
  BY DEF AddFile
<1> QED BY <1>4, <1>5, <1>6, <1>7, PlaceKeeps

LEMMA PlacingKeeps ==
  ASSUME FormInv, NEW f \in LocalFiles,
         \/ RemoveFile(f)
         \/ \E g \in PackageIds \cup {NoPackage} : AssignTrack(f, g)
         \/ \E role \in {"unassigned", "master", "stem"} : AssignRole(f, role)
         \/ \E stem \in {"none", "plain", "other"} : ChooseStemType(f, stem)
         \/ LabelStem(f)
  PROVE  FormInv'
<1>0. /\ placed[f] \in PlacedFiles /\ titles \in [PackageIds -> {"absent", "blank", "titled"}]
  BY FormTypes DEF FormInv
<1>1. CASE RemoveFile(f)
  <2>1. Unselected \in PlacedFiles /\ ~Unselected.there
    BY DEF Unselected, PlacedFiles
  <2>2. /\ placed' = [placed EXCEPT ![f] = Unselected] /\ titles' = titles
        /\ formStep = 1 /\ UNCHANGED formStep /\ FrameOfSaving
    BY <1>1 DEF RemoveFile
  <2> HIDE DEF Unselected
  <2> QED BY <1>0, <2>1, <2>2, PlaceKeeps
<1>2. ASSUME NEW entry \in PlacedFiles, Place(f, entry), entry.there = placed[f].there,
             entry.sound = placed[f].sound,
             entry.group = placed[f].group \/ entry.group = NoPackage \/ titles[entry.group] # "absent"
      PROVE  FormInv'
  <2>1. /\ placed' = [placed EXCEPT ![f] = entry] /\ titles' = titles /\ f \in Selected
        /\ formStep = 2 /\ UNCHANGED formStep /\ FrameOfSaving
    BY <1>2 DEF Place
  <2>2. placed[f].group # NoPackage => titles[placed[f].group] # "absent"
    BY <2>1 DEF FormInv, PlacesAreChecked
  <2>3. entry.there
    BY <1>2, <2>1 DEF Selected
  <2> QED BY <1>0, <1>2, <2>1, <2>2, <2>3, PlaceKeeps
<1>3. ASSUME NEW g \in PackageIds \cup {NoPackage}, AssignTrack(f, g) PROVE FormInv'
  <2> DEFINE entry == [placed[f] EXCEPT !.group = g]
  <2>1. entry \in PlacedFiles /\ entry.there = placed[f].there /\ entry.sound = placed[f].sound /\ entry.group = g
    BY <1>0 DEF PlacedFiles
  <2>2. Place(f, entry) /\ (g = NoPackage \/ titles[g] # "absent")
    BY <1>3 DEF AssignTrack
  <2> HIDE DEF entry
  <2> QED BY <1>2, <2>1, <2>2
<1>4. ASSUME NEW role \in {"unassigned", "master", "stem"}, AssignRole(f, role) PROVE FormInv'
  <2> DEFINE entry == [placed[f] EXCEPT !.role = role, !.stem = IF role = "master" THEN "none" ELSE @]
  <2>1. /\ entry \in PlacedFiles /\ entry.there = placed[f].there /\ entry.sound = placed[f].sound
        /\ entry.group = placed[f].group
    BY <1>0 DEF PlacedFiles
  <2>2. Place(f, entry)
    BY <1>4 DEF AssignRole
  <2> HIDE DEF entry
  <2> QED BY <1>2, <2>1, <2>2
<1>5. ASSUME NEW stem \in {"none", "plain", "other"}, ChooseStemType(f, stem) PROVE FormInv'
  <2> DEFINE entry == [placed[f] EXCEPT !.stem = stem]
  <2>1. /\ entry \in PlacedFiles /\ entry.there = placed[f].there /\ entry.sound = placed[f].sound
        /\ entry.group = placed[f].group
    BY <1>0 DEF PlacedFiles
  <2>2. Place(f, entry)
    BY <1>5 DEF ChooseStemType
  <2> HIDE DEF entry
  <2> QED BY <1>2, <2>1, <2>2
<1>6. ASSUME LabelStem(f) PROVE FormInv'
  <2> DEFINE entry == [placed[f] EXCEPT !.labelled = ~@]
  <2>1. /\ entry \in PlacedFiles /\ entry.there = placed[f].there /\ entry.sound = placed[f].sound
        /\ entry.group = placed[f].group
    BY <1>0 DEF PlacedFiles
  <2>2. Place(f, entry)
    BY <1>6 DEF LabelStem
  <2> HIDE DEF entry
  <2> QED BY <1>2, <2>1, <2>2
<1> QED BY <1>1, <1>3, <1>4, <1>5, <1>6

LEMMA FormSavingKeeps ==
  ASSUME FormInv, NEW r \in SaveRequests,
         \/ SaveDraftBatch(r) \/ LookUpBatch(r) \/ InsertBatch(r) \/ RefuseBatch(r)
         \/ BatchAnswered(r) \/ SaveConnectionBreaks(r)
  PROVE  FormInv'
<1> USE DEF FrameOfPage, BatchStored
<1>1. UNCHANGED <<requested, placed, titles, formStep>>
  BY DEF SaveDraftBatch, LookUpBatch, InsertBatch, RefuseBatch, BatchAnswered, SaveConnectionBreaks
<1>2. /\ request[r] \in Posts /\ request \in [SaveRequests -> Posts] /\ stored \subseteq SaveRequests
      /\ createdBatch \in SaveRequests \cup {NoPackage} /\ awaited \in SaveRequests \cup {NoPackage}
      /\ InsertsAreValid /\ SavesAreOneBatch
  BY FormTypes DEF FormInv
<1>3. ASSUME NEW post \in Posts, request' = [request EXCEPT ![r] = post],
             post.at = "inserting" => post.valid,
             post.at = "created" => post.batch \in stored',
             r \in stored' => post.valid /\ post.at \in {"created", "refused"},
             \/ stored' = stored
             \/ stored = {} /\ stored' = {r},
             createdBatch' = createdBatch, awaited' \in SaveRequests \cup {NoPackage}
      PROVE  FormInv'
  <2>1. request' \in [SaveRequests -> Posts] /\ stored' \subseteq SaveRequests /\ request'[r] = post
        /\ \A q \in SaveRequests \ {r} : request'[q] = request[q]
    BY <1>2, <1>3
  <2>2. FormTypeOK'
    BY <1>1, <1>2, <1>3, <2>1 DEF FormInv, FormTypeOK, Posts
  <2>3. InsertsAreValid'
    BY <1>2, <1>3, <2>1 DEF InsertsAreValid
  <2>4. SavesAreOneBatch'
    BY <1>2, <1>3, <2>1 DEF SavesAreOneBatch
  <2>5. PlacesAreChecked'
    BY <1>1, <2>2, PlacesKeep
  <2> QED BY <2>2, <2>3, <2>4, <2>5 DEF FormInv
<1>4. CASE SaveDraftBatch(r)
  <2> DEFINE post == [request[r] EXCEPT !.at = "sent", !.valid = PayloadAccepted]
  <2>1. PayloadAccepted \in BOOLEAN
    BY DEF PayloadAccepted
  <2>2. post \in Posts /\ post.at = "sent" /\ post.valid = PayloadAccepted
    BY <1>2, <2>1 DEF Posts
  <2>3. request' = [request EXCEPT ![r] = post] /\ UNCHANGED <<createdBatch, stored>> /\ awaited' = r
        /\ request[r].at = "unsent"
    BY <1>2, <1>4 DEF SaveDraftBatch
  <2>4. r \notin stored
    BY <1>2, <2>3 DEF InsertsAreValid
  <2> HIDE DEF post
  <2> QED BY <1>3, <2>2, <2>3, <2>4
<1>5. ASSUME NEW b \in stored, request[r].at = "sent",
             request' = [request EXCEPT ![r].at = "created", ![r].batch = b],
             UNCHANGED <<createdBatch, stored, awaited>>
      PROVE  FormInv'
  <2> DEFINE post == [request[r] EXCEPT !.at = "created", !.batch = b]
  <2>1. post \in Posts /\ post.at = "created" /\ post.batch = b /\ post.valid = request[r].valid
    BY <1>2 DEF Posts
  <2>2. request' = [request EXCEPT ![r] = post]
    BY <1>2, <1>5
  <2>3. r \notin stored
    BY <1>2, <1>5 DEF InsertsAreValid
  <2> HIDE DEF post
  <2> QED BY <1>2, <1>3, <1>5, <2>1, <2>2, <2>3
<1>6. ASSUME NEW at \in {"inserting", "refused"}, request[r].at \in {"sent", "inserting"},
             request' = [request EXCEPT ![r].at = at], at = "inserting" => request[r].valid,
             UNCHANGED <<createdBatch, stored, awaited>>
      PROVE  FormInv'
  <2> DEFINE post == [request[r] EXCEPT !.at = at]
  <2>1. post \in Posts /\ post.at = at /\ post.valid = request[r].valid
    BY <1>2 DEF Posts
  <2>2. request' = [request EXCEPT ![r] = post]
    BY <1>2, <1>6
  <2>3. r \notin stored
    BY <1>2, <1>6 DEF InsertsAreValid
  <2> HIDE DEF post
  <2> QED BY <1>2, <1>3, <1>6, <2>1, <2>2, <2>3
<1>7. CASE InsertBatch(r)
  <2>1. /\ request[r].at = "inserting" /\ request[r].valid /\ stored = {} /\ stored' = {r}
        /\ UNCHANGED <<createdBatch, awaited>>
    BY <1>2, <1>7 DEF InsertBatch, InsertsAreValid
  <2>2. CASE request' = [request EXCEPT ![r].at = "created", ![r].batch = r]
    <3> DEFINE post == [request[r] EXCEPT !.at = "created", !.batch = r]
    <3>1. post \in Posts /\ post.at = "created" /\ post.batch = r /\ post.valid
      BY <1>2, <2>1 DEF Posts
    <3>2. request' = [request EXCEPT ![r] = post]
      BY <1>2, <2>2
    <3> HIDE DEF post
    <3> QED BY <1>2, <1>3, <2>1, <3>1, <3>2
  <2>3. CASE request' = [request EXCEPT ![r].at = "refused"]
    <3> DEFINE post == [request[r] EXCEPT !.at = "refused"]
    <3>1. post \in Posts /\ post.at = "refused" /\ post.valid
      BY <1>2, <2>1 DEF Posts
    <3>2. request' = [request EXCEPT ![r] = post]
      BY <1>2, <2>3
    <3> HIDE DEF post
    <3> QED BY <1>2, <1>3, <2>1, <3>1, <3>2
  <2> QED BY <1>7, <2>2, <2>3 DEF InsertBatch
<1>8. CASE BatchAnswered(r) \/ SaveConnectionBreaks(r)
  <2>1. /\ UNCHANGED <<request, stored>> /\ awaited' = NoPackage
        /\ \/ createdBatch' = createdBatch
           \/ request[r].at = "created" /\ createdBatch' = request[r].batch
    BY <1>8 DEF BatchAnswered, SaveConnectionBreaks
  <2>2. createdBatch' # NoPackage => createdBatch' \in stored
    BY <1>2, <2>1 DEF SavesAreOneBatch
  <2>3. FormTypeOK'
    BY <1>1, <1>2, <2>1, <2>2 DEF FormInv, FormTypeOK
  <2>4. InsertsAreValid' /\ SavesAreOneBatch'
    BY <1>2, <2>1, <2>2 DEF InsertsAreValid, SavesAreOneBatch
  <2>5. PlacesAreChecked'
    BY <1>1, <2>3, PlacesKeep
  <2> QED BY <2>3, <2>4, <2>5 DEF FormInv
<1>9. CASE LookUpBatch(r)
  <2>1. /\ request[r].at = "sent" /\ request[r].valid /\ UNCHANGED <<createdBatch, stored, awaited>>
        /\ \/ \E b \in stored : request' = [request EXCEPT ![r].at = "created", ![r].batch = b]
           \/ request' = [request EXCEPT ![r].at = "inserting"]
    BY <1>9 DEF LookUpBatch
  <2> QED BY <1>5, <1>6, <2>1
<1>10. CASE RefuseBatch(r)
  <2>1. /\ request[r].at \in {"sent", "inserting"} /\ UNCHANGED <<createdBatch, stored, awaited>>
        /\ request' = [request EXCEPT ![r].at = "refused"]
    BY <1>10 DEF RefuseBatch
  <2> QED BY <1>6, <2>1
<1> QED BY <1>4, <1>7, <1>8, <1>9, <1>10

LEMMA FormStepKeeps == FormInv /\ [FormNext]_formVars => FormInv'
<1> SUFFICES ASSUME FormInv, [FormNext]_formVars PROVE FormInv'
  OBVIOUS
<1>0. formStep \in 1 .. 4 /\ titles \in [PackageIds -> {"absent", "blank", "titled"}]
  BY FormTypes DEF FormInv
<1>1. CASE UNCHANGED formVars
  <2>1. FormTypeOK'
    BY <1>1 DEF formVars, FormInv, FormTypeOK
  <2>2. FrameOfSaving
    BY <1>1 DEF formVars, FrameOfSaving
  <2>3. PlacesAreChecked'
    BY <1>1, <2>1, PlacesKeep DEF formVars
  <2> QED BY <2>1, <2>2, <2>3, SavingStays DEF FormInv
<1>2. ASSUME NEW g \in PackageIds, NewTrack(g) PROVE FormInv'
  <2>1. /\ titles' = [titles EXCEPT ![g] = "titled"] /\ formStep = 2
        /\ UNCHANGED <<placed, formStep>> /\ FrameOfSaving
    BY <1>2 DEF NewTrack
  <2>2. titles' \in [PackageIds -> {"absent", "blank", "titled"}]
        /\ \A x \in PackageIds : titles[x] # "absent" => titles'[x] # "absent"
    BY <1>0, <2>1
  <2>3. FormTypeOK'
    BY <2>1, <2>2 DEF FormInv, FormTypeOK, FrameOfSaving
  <2>4. Selected' = Selected /\ placed \in [LocalFiles -> PlacedFiles]
    BY <2>1, FormTypes DEF Selected, FormInv
  <2>5. \A f \in Selected' : placed'[f].group # NoPackage => titles'[placed'[f].group] # "absent"
    BY <2>1, <2>2, <2>4 DEF FormInv, PlacesAreChecked, Selected, PlacedFiles
  <2>6. CanContinueFromFiles'
    BY <2>1, <2>4 DEF FormInv, PlacesAreChecked, CanContinueFromFiles
  <2> QED BY <2>1, <2>3, <2>5, <2>6, SavingStays DEF FormInv, PlacesAreChecked
<1>3. ASSUME NEW g \in PackageIds, EditPackage(g) PROVE FormInv'
  <2>1. /\ titles' = [titles EXCEPT ![g] = IF @ = "blank" THEN "titled" ELSE "blank"]
        /\ titles[g] # "absent" /\ UNCHANGED <<placed, formStep>> /\ FrameOfSaving
    BY <1>3 DEF EditPackage, Packages
  <2>2. titles' \in [PackageIds -> {"absent", "blank", "titled"}]
        /\ \A x \in PackageIds : titles[x] = "absent" <=> titles'[x] = "absent"
    BY <1>0, <2>1
  <2>3. FormTypeOK'
    BY <2>1, <2>2 DEF FormInv, FormTypeOK, FrameOfSaving
  <2>4. PlacesAreChecked'
    BY <2>1, <2>2, <2>3, PlacesKeep
  <2> QED BY <2>1, <2>3, <2>4, SavingStays DEF FormInv
<1>4. CASE Continue \/ GoBack
  <2>1. UNCHANGED <<placed, titles>> /\ FrameOfSaving /\ formStep' \in 1 .. 4
    BY <1>0, <1>4 DEF Continue, GoBack
  <2>2. FormTypeOK'
    BY <2>1 DEF FormInv, FormTypeOK, FrameOfSaving
  <2>3. \/ formStep' < formStep \/ formStep = 3
        \/ formStep = 1 /\ formStep' = 2 /\ CanContinueFromFiles
        \/ formStep = 2 /\ formStep' = 3 /\ GroupingAccepted
    BY <1>0, <1>4 DEF Continue, GoBack
  <2>4. PlacesAreChecked'
    BY <2>1, <2>2, <2>3, PlacesKeep
  <2> QED BY <2>1, <2>2, <2>4, SavingStays DEF FormInv
<1> QED BY <1>1, <1>2, <1>3, <1>4, AddFileKeeps, PlacingKeeps, FormSavingKeeps DEF FormNext

LEMMA FormInvHolds == FormSpec => []FormInv
<1> QED BY FormStarts, FormStepKeeps, PTL DEF FormSpec

\* What gets past the page's own checks is accepted by the server's rules for files, for any
\* number of files and packages, in whatever order the producer moved them.
THEOREM CheckedFilesAreAccepted == FormSpec => []LastPageIsAccepted
<1>1. FormInv => LastPageIsAccepted
  BY CheckedIsAccepted DEF LastPageIsAccepted
<1> QED BY <1>1, FormInvHolds, PTL

\* A page's draft is registered once, for any number of saves: a request that looked before
\* the first batch was stored is refused by the index when it inserts, one that looks later
\* is answered with it.
THEOREM RepeatedSavesAreOne == FormSpec => []SavesAreOneBatch
<1>1. FormInv => SavesAreOneBatch
  BY DEF FormInv
<1> QED BY <1>1, FormInvHolds, PTL

-----------------------------------------------------------------------------
(***************************************************************************)
(* GenerationDrafts: a preview is saved once and whole, for any previews   *)
(* and saves.                                                              *)
(***************************************************************************)
SaveSteps == {"unused", "asked", "loaded", "writing", "written", "verified", "stored", "committed",
              "failing", "done"}
SaveRows == [step : SaveSteps, of : Previews \cup {Nothing}]
PageStates == [result : Previews \cup {Nothing}, saved : Saves \cup {Nothing},
               generating : Previews \cup {Nothing}, saving : Saves \cup {Nothing}]
TempFiles == [by : Saves \cup {Nothing}, whole : BOOLEAN]
Counters == [used : 0 .. MaxRequests + 1, windows : 0 .. MaxWindows]

\* What a save has reached is true of its files and of the record of its preview.
SaveFits(w) ==
  /\ save[w].step # "unused" => save[w].of \in Previews
  /\ save[w].step \in {"stored", "committed"} => copied[w] = "whole"
  /\ save[w].step = "committed" => draft[w] # Nothing
  /\ answer[w] = "ok" => save[w].step = "done" /\ copied[w] = "whole" /\ draft[w] # Nothing
  /\ draft[w] # Nothing =>
       save[w].step \in {"committed", "failing", "done"} /\ record[draft[w]] = "draft_committed"
  /\ copied[w] # "short"

SavedOnce == \A v, w \in Saves : v # w /\ draft[v] # Nothing => draft[v] # draft[w]

GenerationInv == GenerationTypeOK /\ (\A w \in Saves : SaveFits(w)) /\ SavedOnce

-----------------------------------------------------------------------------
LEMMA GenerationTypes ==
  GenerationTypeOK <=>
    /\ record \in [Previews -> {"none", "completed", "draft_committed", "failed"}]
    /\ preview \subseteq Previews
    /\ page \in PageStates
    /\ save \in [Saves -> SaveRows]
    /\ answer \in [Saves -> {"none", "ok", "error"}]
    /\ temp \in [Previews -> TempFiles]
    /\ draft \in [Saves -> Previews \cup {Nothing}]
    /\ copied \in [Saves -> {"none", "short", "whole"}]
    /\ rate \in [Buckets -> Counters]
<1> QED BY DEF GenerationTypeOK, PageStates, SaveRows, SaveSteps, TempFiles, Counters

LEMMA GenerationStarts == GenerationInit => GenerationInv
<1> SUFFICES ASSUME GenerationInit PROVE GenerationInv
  OBVIOUS
<1>1. /\ IdlePage \in PageStates /\ NoFile \in TempFiles
      /\ [step |-> "unused", of |-> Nothing] \in SaveRows
      /\ [used |-> 0, windows |-> 0] \in Counters
  BY RateAssumption DEF IdlePage, PageStates, NoFile, TempFiles, SaveRows, SaveSteps, Counters
<1>2. GenerationTypeOK
  <2>1. /\ save \in [Saves -> SaveRows] /\ temp \in [Previews -> TempFiles] /\ page \in PageStates
        /\ rate \in [Buckets -> Counters]
    BY <1>1 DEF GenerationInit
  <2>2. /\ record \in [Previews -> {"none", "completed", "draft_committed", "failed"}]
        /\ preview \subseteq Previews /\ answer \in [Saves -> {"none", "ok", "error"}]
        /\ draft \in [Saves -> Previews \cup {Nothing}]
        /\ copied \in [Saves -> {"none", "short", "whole"}]
    BY DEF GenerationInit
  <2> QED BY <2>1, <2>2, GenerationTypes
<1>3. \A w \in Saves : SaveFits(w)
  BY DEF GenerationInit, SaveFits
<1>4. SavedOnce
  BY DEF GenerationInit, SavedOnce
<1> QED BY <1>2, <1>3, <1>4 DEF GenerationInv

\* Counting a request keeps the counter in its bounds.
LEMMA CounterStays ==
  ASSUME rate \in [Buckets -> Counters], NEW bucket \in Buckets, ConsumeRateLimit(bucket)
  PROVE  rate' \in [Buckets -> Counters]
<1> DEFINE used == IF rate[bucket].used > MaxRequests THEN rate[bucket].used ELSE rate[bucket].used + 1
<1>1. rate[bucket] \in Counters
  OBVIOUS
<1>2. used \in 0 .. MaxRequests + 1
  BY <1>1, RateAssumption DEF Counters
<1>3. [rate[bucket] EXCEPT !.used = used] \in Counters
  BY <1>1, <1>2 DEF Counters
<1>4. rate' = [rate EXCEPT ![bucket] = [rate[bucket] EXCEPT !.used = used]]
  BY DEF ConsumeRateLimit
<1> HIDE DEF used
<1> QED BY <1>3, <1>4

\* Steps that no save takes part in.
LEMMA PageKeeps ==
  ASSUME GenerationInv, GenerationTypeOK',
         UNCHANGED <<save, answer, draft, copied>>,
         \A g \in Previews : record[g] = "draft_committed" => record'[g] = "draft_committed"
  PROVE  GenerationInv'
<1>1. ASSUME NEW w \in Saves PROVE SaveFits(w)'
  <2>1. draft[w] \in Previews \cup {Nothing}
    BY GenerationTypes DEF GenerationInv
  <2> QED BY <2>1 DEF GenerationInv, SaveFits
<1>2. SavedOnce'
  BY DEF GenerationInv, SavedOnce
<1> QED BY <1>1, <1>2 DEF GenerationInv

LEMMA GeneratingKeeps ==
  ASSUME GenerationInv, NEW g \in Previews,
         \/ Generate(g) \/ PersistGenerationPreview(g) \/ RecordGeneration(g)
         \/ GenerationFails(g) \/ GenerationAnswered(g)
  PROVE  GenerationInv'
<1>0. /\ record \in [Previews -> {"none", "completed", "draft_committed", "failed"}]
      /\ preview \subseteq Previews /\ page \in PageStates /\ rate \in [Buckets -> Counters]
  BY GenerationTypes DEF GenerationInv
<1>1. page' \in PageStates
  BY <1>0 DEF Generate, PersistGenerationPreview, RecordGeneration, GenerationFails, GenerationAnswered,
         PageStates
<1>2. rate' \in [Buckets -> Counters]
  <2>1. CASE Generate(g)
    BY <1>0, <2>1, CounterStays DEF Generate, Buckets
  <2> QED BY <1>0, <2>1 DEF PersistGenerationPreview, RecordGeneration, GenerationFails, GenerationAnswered
<1>3. /\ record' \in [Previews -> {"none", "completed", "draft_committed", "failed"}]
      /\ preview' \subseteq Previews
      /\ \A x \in Previews : record[x] = "draft_committed" => record'[x] = "draft_committed"
  BY <1>0 DEF Generate, PersistGenerationPreview, RecordGeneration, GenerationFails, GenerationAnswered
<1>4. UNCHANGED <<save, answer, temp, draft, copied>>
  BY DEF Generate, PersistGenerationPreview, RecordGeneration, GenerationFails, GenerationAnswered
<1>5. GenerationTypeOK'
  BY <1>1, <1>2, <1>3, <1>4 DEF GenerationInv, GenerationTypeOK, PageStates, Counters
<1> QED BY <1>3, <1>4, <1>5, PageKeeps

LEMMA ShowingKeeps ==
  ASSUME GenerationInv,
         \/ ChangeSelection
         \/ \E bucket \in Buckets : RateWindowEnds(bucket)
         \/ \E w \in Saves : SaveAnswered(w) \/ SaveBreaksOff(w)
         \/ UNCHANGED generationVars
  PROVE  GenerationInv'
<1>0. page \in PageStates /\ rate \in [Buckets -> Counters]
  BY GenerationTypes DEF GenerationInv
<1>1. /\ UNCHANGED <<record, preview, save, answer, temp, draft, copied>>
  BY DEF ChangeSelection, RateWindowEnds, SaveAnswered, SaveBreaksOff, generationVars
<1>2. page' \in PageStates
  BY <1>0 DEF ChangeSelection, RateWindowEnds, SaveAnswered, SaveBreaksOff, generationVars, PageStates
<1>3. rate' \in [Buckets -> Counters]
  <2>1. ASSUME NEW bucket \in Buckets, RateWindowEnds(bucket)
        PROVE  rate' \in [Buckets -> Counters]
    <3>1. rate[bucket] \in Counters /\ rate[bucket].windows < MaxWindows
      BY <1>0, <2>1 DEF RateWindowEnds
    <3>2. [used |-> 0, windows |-> rate[bucket].windows + 1] \in Counters
      BY <3>1, RateAssumption DEF Counters
    <3> QED BY <1>0, <2>1, <3>2 DEF RateWindowEnds
  <2> QED BY <1>0, <2>1 DEF ChangeSelection, SaveAnswered, SaveBreaksOff, generationVars
<1>4. GenerationTypeOK'
  BY <1>1, <1>2, <1>3 DEF GenerationInv, GenerationTypeOK, PageStates, Counters
<1> QED BY <1>1, <1>4, PageKeeps

\* A step of one save that commits nothing.
LEMMA SaveKeeps ==
  ASSUME GenerationInv, NEW w \in Saves, NEW entry \in SaveRows,
         save' = [save EXCEPT ![w] = entry],
         answer' \in [Saves -> {"none", "ok", "error"}],
         copied' \in [Saves -> {"none", "short", "whole"}],
         \A v \in Saves \ {w} : answer'[v] = answer[v] /\ copied'[v] = copied[v],
         page' \in PageStates, temp' \in [Previews -> TempFiles], rate' \in [Buckets -> Counters],
         UNCHANGED <<record, preview, draft>>,
         SaveFits(w)'
  PROVE  GenerationInv'
<1>1. save \in [Saves -> SaveRows]
  BY GenerationTypes DEF GenerationInv
<1>2. save' \in [Saves -> SaveRows] /\ \A v \in Saves \ {w} : save'[v] = save[v]
  BY <1>1
<1>3. GenerationTypeOK'
  BY <1>2 DEF GenerationInv, GenerationTypeOK, PageStates, Counters, SaveRows, SaveSteps, TempFiles
<1>4. ASSUME NEW v \in Saves PROVE SaveFits(v)'
  <2>1. CASE v = w
    BY <2>1
  <2>2. CASE v # w
    BY <1>2, <2>2 DEF GenerationInv, SaveFits
  <2> QED BY <2>1, <2>2
<1>5. SavedOnce'
  BY DEF GenerationInv, SavedOnce
<1> QED BY <1>3, <1>4, <1>5 DEF GenerationInv

\* What a save that is under way is.
LEMMA SaveUnderWay ==
  ASSUME GenerationInv, NEW w \in Saves, save[w].step # "unused", NEW to \in SaveSteps
  PROVE  /\ save \in [Saves -> SaveRows] /\ save[w].of \in Previews
         /\ [save[w] EXCEPT !.step = to] \in SaveRows
         /\ [save[w] EXCEPT !.step = to].step = to /\ [save[w] EXCEPT !.step = to].of = save[w].of
         /\ [save EXCEPT ![w].step = to] = [save EXCEPT ![w] = [save[w] EXCEPT !.step = to]]
         /\ [save EXCEPT ![w].step = to][w] = [save[w] EXCEPT !.step = to]
<1>1. save \in [Saves -> SaveRows] /\ save[w].of \in Previews
  BY GenerationTypes DEF GenerationInv, SaveFits
<1>2. save[w] \in SaveRows
  BY <1>1
<1> QED BY <1>1, <1>2 DEF SaveRows

LEMMA SaveDraftKeeps ==
  ASSUME GenerationInv, NEW w \in Saves, SaveDraft(w)
  PROVE  GenerationInv'
<1>0. /\ page \in PageStates /\ rate \in [Buckets -> Counters] /\ save \in [Saves -> SaveRows]
      /\ answer \in [Saves -> {"none", "ok", "error"}] /\ copied \in [Saves -> {"none", "short", "whole"}]
      /\ temp \in [Previews -> TempFiles]
  BY GenerationTypes DEF GenerationInv
<1>1. rate' \in [Buckets -> Counters]
  BY <1>0, CounterStays DEF SaveDraft, Buckets
<1>2. UNCHANGED <<record, preview, answer, temp, draft, copied>>
  BY DEF SaveDraft
<1>3. CASE UNCHANGED <<page, save>>
  <2>1. GenerationTypeOK'
    BY <1>1, <1>2, <1>3 DEF GenerationInv, GenerationTypeOK, Counters
  <2> QED BY <1>2, <1>3, <2>1, PageKeeps
<1>4. CASE /\ page' = [page EXCEPT !.saving = w]
           /\ save' = [save EXCEPT ![w] = [step |-> "asked", of |-> page.result]]
  <2> DEFINE entry == [step |-> "asked", of |-> page.result]
  <2>1. page' \in PageStates /\ page.result \in Previews
    BY <1>0, <1>4 DEF SaveDraft, SaveOffered, PageStates
  <2>2. entry \in SaveRows /\ entry.step = "asked" /\ entry.of \in Previews
    BY <2>1 DEF SaveRows, SaveSteps
  <2>3. save' = [save EXCEPT ![w] = entry] /\ save'[w] = entry
    BY <1>0, <1>4
  <2>4. save[w].step = "unused"
    BY DEF SaveDraft
  <2> HIDE DEF entry
  <2>5. SaveFits(w)'
    BY <1>2, <2>2, <2>3, <2>4 DEF GenerationInv, SaveFits
  <2> QED BY <1>0, <1>1, <1>2, <2>1, <2>2, <2>3, <2>5, SaveKeeps
<1> QED BY <1>3, <1>4 DEF SaveDraft

LEMMA SavingKeeps ==
  ASSUME GenerationInv, NEW w \in Saves,
         \/ LoadGenerationRecord(w) \/ OpenTemporaryFile(w) \/ FinishTemporaryFile(w)
         \/ VerifyTemporaryFile(w) \/ StoreDraftAudio(w) \/ CommitFails(w) \/ LeaveSave(w)
         \/ SaveCrashes(w)
  PROVE  GenerationInv'
<1>0. /\ page \in PageStates /\ rate \in [Buckets -> Counters] /\ save \in [Saves -> SaveRows]
      /\ answer \in [Saves -> {"none", "ok", "error"}] /\ copied \in [Saves -> {"none", "short", "whole"}]
      /\ temp \in [Previews -> TempFiles] /\ draft \in [Saves -> Previews \cup {Nothing}]
  BY GenerationTypes DEF GenerationInv
<1>1. save[w].step \notin {"unused", "done"}
  BY DEF LoadGenerationRecord, OpenTemporaryFile, FinishTemporaryFile, VerifyTemporaryFile,
         StoreDraftAudio, CommitFails, LeaveSave, SaveCrashes, SaveAt
<1>2. UNCHANGED <<record, preview, page, draft, rate>>
  BY DEF LoadGenerationRecord, OpenTemporaryFile, FinishTemporaryFile, VerifyTemporaryFile,
         StoreDraftAudio, CommitFails, LeaveSave, SaveCrashes
<1>3. save[w].of \in Previews
  BY <1>1 DEF GenerationInv, SaveFits
<1>4. temp' \in [Previews -> TempFiles]
  <2>1. NoFile \in TempFiles /\ [by |-> w, whole |-> FALSE] \in TempFiles
    BY DEF NoFile, TempFiles
  <2>2. [temp[save[w].of] EXCEPT !.whole = TRUE] \in TempFiles
    BY <1>0, <1>3 DEF TempFiles
  <2>3. temp' \in {temp, [temp EXCEPT ![save[w].of] = NoFile],
                   [temp EXCEPT ![save[w].of] = [by |-> w, whole |-> FALSE]],
                   [temp EXCEPT ![save[w].of] = [temp[save[w].of] EXCEPT !.whole = TRUE]]}
    BY DEF LoadGenerationRecord, OpenTemporaryFile, FinishTemporaryFile, VerifyTemporaryFile,
         StoreDraftAudio, CommitFails, LeaveSave, SaveCrashes
  <2> QED BY <1>0, <1>3, <2>1, <2>2, <2>3
<1>5. ASSUME NEW to \in SaveSteps, Goes(w, to),
             answer' \in [Saves -> {"none", "ok", "error"}],
             copied' \in [Saves -> {"none", "short", "whole"}],
             \A v \in Saves \ {w} : answer'[v] = answer[v] /\ copied'[v] = copied[v],
             to # "unused",
             to \in {"stored", "committed"} => copied'[w] = "whole",
             to = "committed" => draft[w] # Nothing,
             answer'[w] = "ok" => to = "done" /\ copied'[w] = "whole" /\ draft[w] # Nothing,
             draft[w] # Nothing => to \in {"failing", "done"},
             copied'[w] # "short"
      PROVE  GenerationInv'
  <2> DEFINE entry == [save[w] EXCEPT !.step = to]
  <2>1. entry \in SaveRows /\ entry.step = to /\ entry.of \in Previews
    BY <1>1, SaveUnderWay
  <2>2. save' = [save EXCEPT ![w] = entry] /\ save'[w] = entry
    BY <1>1, <1>5, SaveUnderWay DEF Goes
  <2> HIDE DEF entry
  <2>3. SaveFits(w)'
    BY <1>2, <1>5, <2>1, <2>2 DEF GenerationInv, SaveFits
  <2> QED BY <1>0, <1>2, <1>4, <1>5, <2>1, <2>2, <2>3, SaveKeeps
<1>6. /\ copied[w] # "short" /\ answer[w] # "ok"
      /\ draft[w] # Nothing => save[w].step \in {"committed", "failing"}
      /\ save[w].step = "committed" => copied[w] = "whole" /\ draft[w] # Nothing
  BY <1>1 DEF GenerationInv, SaveFits
<1>7. CASE LoadGenerationRecord(w) \/ OpenTemporaryFile(w) \/ FinishTemporaryFile(w) \/ VerifyTemporaryFile(w)
  <2>1. PICK to \in {"loaded", "done", "writing", "failing", "written", "verified"} : Goes(w, to)
    BY <1>7 DEF LoadGenerationRecord, OpenTemporaryFile, FinishTemporaryFile, VerifyTemporaryFile
  <2>2. /\ copied' = copied /\ answer' \in {answer, [answer EXCEPT ![w] = "error"]}
        /\ save[w].step \in {"asked", "loaded", "writing", "written"}
    BY <1>7 DEF LoadGenerationRecord, OpenTemporaryFile, FinishTemporaryFile, VerifyTemporaryFile, SaveAt
  <2> QED BY <1>0, <1>5, <1>6, <2>1, <2>2 DEF SaveSteps
<1>8. CASE StoreDraftAudio(w)
  <2>1. /\ save[w].step = "verified" /\ answer' = answer
        /\ \/ Goes(w, "stored") /\ copied' = [copied EXCEPT ![w] = "whole"]
           \/ Goes(w, "failing") /\ copied' = copied
    BY <1>8 DEF StoreDraftAudio, SaveAt
  <2> QED BY <1>0, <1>5, <1>6, <2>1 DEF SaveSteps
<1>9. CASE CommitFails(w)
  <2>1. /\ save[w].step = "stored" /\ answer' = answer
        /\ Goes(w, "failing") /\ copied' = [copied EXCEPT ![w] = "none"]
    BY <1>9 DEF CommitFails, SaveAt
  <2> QED BY <1>0, <1>5, <1>6, <2>1 DEF SaveSteps
<1>10. CASE LeaveSave(w)
  <2>1. /\ Goes(w, "done") /\ copied' = copied
        /\ answer' = [answer EXCEPT ![w] = IF save[w].step = "committed" THEN "ok" ELSE "error"]
    BY <1>10 DEF LeaveSave, SaveAt
  <2>2. answer' \in [Saves -> {"none", "ok", "error"}] /\ (answer'[w] = "ok" => save[w].step = "committed")
        /\ \A v \in Saves \ {w} : answer'[v] = answer[v]
    BY <1>0, <2>1
  <2> QED BY <1>0, <1>5, <1>6, <2>1, <2>2 DEF SaveSteps
<1>11. CASE SaveCrashes(w)
  <2>1. Goes(w, "done") /\ copied' = copied /\ answer' = [answer EXCEPT ![w] = "error"]
    BY <1>11 DEF SaveCrashes
  <2> QED BY <1>0, <1>5, <1>6, <2>1 DEF SaveSteps
<1> QED BY <1>7, <1>8, <1>9, <1>10, <1>11

\* The UPDATE asks for a record that is still to be saved: no save has committed its preview.
LEMMA CommitKeeps ==
  ASSUME GenerationInv, NEW w \in Saves, CommitDraft(w) \/ CommitGoesUnanswered(w)
  PROVE  GenerationInv'
<1> DEFINE g == save[w].of
<1>0. /\ record \in [Previews -> {"none", "completed", "draft_committed", "failed"}]
      /\ save \in [Saves -> SaveRows]
      /\ copied \in [Saves -> {"none", "short", "whole"}]
      /\ draft \in [Saves -> Previews \cup {Nothing}]
  BY GenerationTypes DEF GenerationInv
<1>1. /\ save[w].step = "stored" /\ record[g] = "completed"
      /\ record' = [record EXCEPT ![g] = "draft_committed"]
      /\ draft' = [draft EXCEPT ![w] = g]
      /\ UNCHANGED <<preview, page, answer, temp, rate>>
  BY DEF CommitDraft, CommitGoesUnanswered, CommitsDraft, SaveAt
<1>2. PICK to \in {"committed", "failing"} :
        /\ Goes(w, to)
        /\ copied' \in {copied, [copied EXCEPT ![w] = "none"]}
        /\ to = "committed" => copied' = copied
  BY DEF CommitDraft, CommitGoesUnanswered
<1> DEFINE moved == [save[w] EXCEPT !.step = to]
<1>3. /\ g \in Previews /\ moved \in SaveRows /\ moved.step = to /\ moved.of = g
      /\ save' = [save EXCEPT ![w] = moved]
  <2>1. save[w].step # "unused" /\ to \in SaveSteps
    BY <1>1 DEF SaveSteps
  <2>2. save' = [save EXCEPT ![w].step = to]
    BY <1>2 DEF Goes
  <2> HIDE DEF SaveSteps
  <2> QED BY <2>1, <2>2, SaveUnderWay
<1>4. /\ save' \in [Saves -> SaveRows] /\ save'[w] = moved
      /\ \A v \in Saves \ {w} : save'[v] = save[v]
  BY <1>0, <1>3
<1> HIDE DEF moved
<1>5. /\ record' \in [Previews -> {"none", "completed", "draft_committed", "failed"}]
      /\ record'[g] = "draft_committed"
      /\ \A x \in Previews : record[x] = "draft_committed" => record'[x] = "draft_committed"
  BY <1>0, <1>1, <1>3
<1>6. /\ draft' \in [Saves -> Previews \cup {Nothing}] /\ draft'[w] = g
      /\ \A v \in Saves \ {w} : draft'[v] = draft[v]
  BY <1>0, <1>1, <1>3
<1>7. /\ copied' \in [Saves -> {"none", "short", "whole"}]
      /\ copied'[w] \in {copied[w], "none"} /\ (to = "committed" => copied'[w] = copied[w])
      /\ \A v \in Saves \ {w} : copied'[v] = copied[v]
  BY <1>0, <1>2
<1>8. GenerationTypeOK'
  <2>1. /\ preview' \subseteq Previews /\ page' \in PageStates
        /\ answer' \in [Saves -> {"none", "ok", "error"}]
        /\ temp' \in [Previews -> TempFiles] /\ rate' \in [Buckets -> Counters]
    BY <1>1, GenerationTypes DEF GenerationInv
  <2> QED BY <1>4, <1>5, <1>6, <1>7, <2>1 DEF GenerationTypeOK, PageStates, SaveRows, SaveSteps,
               TempFiles, Counters
<1>9. SaveFits(w)'
  <2>1. /\ copied[w] = "whole" /\ answer[w] # "ok"
    BY <1>1 DEF GenerationInv, SaveFits
  <2> QED BY <1>1, <1>3, <1>4, <1>5, <1>6, <1>7, <2>1, NothingAssumption DEF SaveFits
<1>10. ASSUME NEW v \in Saves \ {w} PROVE SaveFits(v)'
  <2>1. SaveFits(v)
    BY DEF GenerationInv
  <2>2. draft[v] \in Previews \cup {Nothing}
    BY <1>0
  <2> QED BY <1>1, <1>4, <1>5, <1>6, <1>7, <2>1, <2>2 DEF SaveFits
<1>11. SavedOnce'
  <2>1. \A v \in Saves : draft[v] # g
    BY <1>1, <1>3, NothingAssumption DEF GenerationInv, SaveFits
  <2> QED BY <1>6, <2>1 DEF GenerationInv, SavedOnce
<1> QED BY <1>8, <1>9, <1>10, <1>11 DEF GenerationInv

LEMMA GenerationStep == GenerationInv /\ [GenerationNext]_generationVars => GenerationInv'
<1> QED BY GeneratingKeeps, ShowingKeeps, SaveDraftKeeps, SavingKeeps, CommitKeeps DEF GenerationNext

LEMMA GenerationInvHolds == GenerationSpec => []GenerationInv
<1> QED BY GenerationStarts, GenerationStep, PTL DEF GenerationSpec

\* A preview becomes at most one Submission, with its audio whole, however many saves of it
\* run at once, break off, crash or lose the answer to their COMMIT.
THEOREM PreviewsAreSavedOnce == GenerationSpec => []PreviewIsSavedOnceAndWhole
<1>1. GenerationInv => PreviewIsSavedOnceAndWhole
  BY DEF GenerationInv, SaveFits, SavedOnce, PreviewIsSavedOnceAndWhole
<1> QED BY <1>1, GenerationInvHolds, PTL

-----------------------------------------------------------------------------
(***************************************************************************)
(* AudioTools: what a resolved call hands over is whole, for any amount of *)
(* output and any limit.                                                   *)
(***************************************************************************)
\* Why a resolved call is whole.  A process that did its work has written everything; as long
\* as nothing was dropped what is kept is what was read, and no more than the limit; and
\* after a call is resolved nothing is left to read.
NothingDropped == kept = read /\ read <= OutputLimit

OutputIsWhole ==
  /\ child = "exited_0" => written = total
  /\ wrapper = "tool" /\ ~exceeded => NothingDropped
  /\ wrapper # "tool" /\ outcome = "pending" => NothingDropped
  /\ outcome = "resolved" => kept = total /\ read = total /\ total <= OutputLimit /\ child = "exited_0"
  /\ outcome # "pending" => ~armed /\ child # "running"

ToolInv == ToolTypeOK /\ OutputIsWhole

-------------------------------------------------------------------------------
\* The invariant holds when the tool is called.
LEMMA ToolStarts == ToolInit => ToolInv
<1> SUFFICES ASSUME ToolInit PROVE ToolInv
  OBVIOUS
<1>1. ToolTypeOK
  <2>1. total \in 0 .. MaxOutput /\ written \in 0 .. total /\ read \in 0 .. written /\ kept \in 0 .. read
    BY OutputBounds DEF ToolInit
  <2>2. /\ exceeded \in BOOLEAN /\ armed \in BOOLEAN /\ closed \in BOOLEAN
        /\ wrapper \in {"tool", "pcm", "excerpt"} /\ outcome = "pending"
        /\ child \in {"running", "not_started"}
    BY DEF ToolInit
  <2> QED BY <2>1, <2>2 DEF ToolTypeOK
<1>2. OutputIsWhole
  BY OutputBounds DEF ToolInit, OutputIsWhole, NothingDropped
<1> QED BY <1>1, <1>2 DEF ToolInv

\* A data event keeps the invariant, whichever wrapper gets it.
LEMMA OutputKeeps ==
  ASSUME ToolInv, OutputArrives
  PROVE  ToolInv'
<1> USE OutputBounds DEF ToolInv, ToolTypeOK, OutputIsWhole, NothingDropped
<1>1. /\ read \in Nat /\ kept \in Nat /\ written \in Nat /\ total \in Nat
      /\ read < written /\ read' = read + 1
      /\ UNCHANGED <<wrapper, total, written, closed>>
  BY DEF OutputArrives
<1>2. outcome # "resolved"
  BY <1>1
<1>3. CASE Keep /\ read' <= OutputLimit
  BY <1>1, <1>2, <1>3 DEF Keep
<1>4. CASE Keep /\ wrapper = "pcm" /\ outcome # "pending"
  BY <1>1, <1>2, <1>4 DEF Keep
<1>5. CASE wrapper # "tool" /\ GiveUp("limit") /\ UNCHANGED <<kept, exceeded>>
  <2>1. child' # "running" /\ (child = "exited_0" <=> child' = "exited_0")
    BY <1>5 DEF GiveUp, Kill
  <2>2. child' \in {"not_started", "exited_0", "exited_1", "killed"}
    BY <1>5 DEF GiveUp, Kill
  <2>3. outcome' # "pending" /\ outcome' # "resolved" /\ armed' = FALSE
    BY <1>2, <1>5 DEF GiveUp, SettleCall
  <2>4. outcome' \in {"failed", "timeout", "limit"}
    BY <1>2, <1>5, <2>3 DEF GiveUp, SettleCall
  <2>5. kept' \in 0 .. read' /\ read' \in 0 .. written' /\ exceeded' \in BOOLEAN
    BY <1>1, <1>5
  <2>6. ToolTypeOK'
    BY <1>1, <2>2, <2>3, <2>4, <2>5
  <2>7. OutputIsWhole'
    BY <1>1, <1>5, <2>1, <2>3
  <2> QED BY <2>6, <2>7
<1>6. CASE wrapper = "tool" /\ exceeded' = TRUE /\ Kill /\ UNCHANGED <<kept, armed, outcome>>
  <2>1. child' # "running" /\ (child = "exited_0" <=> child' = "exited_0")
    BY <1>6 DEF Kill
  <2>2. child' \in {"not_started", "exited_0", "exited_1", "killed"}
    BY <1>6 DEF Kill
  <2>3. ToolTypeOK'
    <3>1. kept' \in 0 .. read' /\ read' \in 0 .. written' /\ exceeded' \in BOOLEAN
      BY <1>1, <1>6
    <3>2. armed' \in BOOLEAN /\ outcome' \in {"pending", "resolved", "failed", "timeout", "limit"}
      BY <1>6
    <3> QED BY <1>1, <2>2, <3>1, <3>2
  <2>4. OutputIsWhole'
    BY <1>1, <1>2, <1>6, <2>1
  <2> QED BY <2>3, <2>4
<1>7. CASE wrapper = "tool"
  <2>1. CaptureOutput
    BY <1>7 DEF OutputArrives
  <2>2. CASE read' > OutputLimit
    BY <1>6, <1>7, <2>1, <2>2 DEF CaptureOutput
  <2>3. CASE ~(read' > OutputLimit)
    <3>1. Keep
      BY <2>1, <2>3 DEF CaptureOutput
    <3>2. read' <= OutputLimit
      BY <1>1, <2>3
    <3> QED BY <1>3, <3>1, <3>2
  <2> QED BY <2>2, <2>3
<1>8. CASE wrapper = "pcm"
  <2>1. CollectPcm
    BY <1>8 DEF OutputArrives
  <2>2. CASE read' > OutputLimit /\ outcome = "pending"
    BY <1>5, <1>8, <2>1, <2>2 DEF CollectPcm
  <2>3. CASE ~(read' > OutputLimit /\ outcome = "pending")
    <3>1. Keep
      BY <2>1, <2>3 DEF CollectPcm
    <3>2. read' <= OutputLimit \/ outcome # "pending"
      BY <1>1, <2>3
    <3> QED BY <1>3, <1>4, <1>8, <3>1, <3>2
  <2> QED BY <2>2, <2>3
<1>9. CASE wrapper = "excerpt"
  <2>1. CollectExcerpt
    BY <1>9 DEF OutputArrives
  <2> QED BY <1>1, <1>3, <1>5, <1>9, <2>1 DEF CollectExcerpt
<1> QED BY <1>7, <1>8, <1>9

\* The close event keeps it: what is resolved then was not dropped before.
LEMMA CloseKeeps ==
  ASSUME ToolInv, CallCloses
  PROVE  ToolInv'
<1> USE OutputBounds DEF ToolInv, ToolTypeOK, OutputIsWhole, NothingDropped
<1>1. /\ child # "running" /\ read = written /\ armed' = FALSE /\ closed' = TRUE
      /\ UNCHANGED <<wrapper, total, child, written, read, kept, exceeded>>
  BY DEF CallCloses
<1>2. CASE outcome # "pending"
  <2>1. outcome' = outcome
    BY <1>2 DEF CallCloses, SettleCall
  <2>2. ToolTypeOK'
    BY <1>1, <2>1
  <2>3. OutputIsWhole'
    BY <1>1, <1>2, <2>1
  <2> QED BY <2>2, <2>3
<1>3. CASE outcome = "pending" /\ wrapper = "tool"
  <2>1. outcome' = VerdictOfTool
    BY <1>3 DEF CallCloses, SettleCall
  <2>2. outcome' = "resolved" => ~exceeded /\ child = "exited_0"
    BY <1>1, <2>1 DEF VerdictOfTool, VerdictOfProcess
  <2>3. outcome' \in {"resolved", "failed", "timeout", "limit"}
    BY <1>1, <2>1 DEF VerdictOfTool, VerdictOfProcess
  <2>4. outcome' = "resolved" =>
          kept = total /\ read = total /\ total <= OutputLimit /\ child = "exited_0"
    BY <1>1, <1>3, <2>2
  <2> QED BY <1>1, <1>3, <2>3, <2>4
<1>4. CASE outcome = "pending" /\ wrapper # "tool"
  <2>1. outcome' = VerdictOfStream
    BY <1>4 DEF CallCloses, SettleCall
  <2> QED BY <1>1, <1>4, <2>1 DEF VerdictOfStream
<1> QED BY <1>2, <1>3, <1>4

\* Every step keeps it.
LEMMA ToolStep == ToolInv /\ [ToolNext]_toolVars => ToolInv'
<1> SUFFICES ASSUME ToolInv, [ToolNext]_toolVars PROVE ToolInv'
  OBVIOUS
<1> USE OutputBounds DEF ToolInv, ToolTypeOK, OutputIsWhole, NothingDropped
<1>1. CASE SpawnFails
  BY <1>1 DEF SpawnFails, SettleCall
<1>2. CASE ChildWrites
  BY <1>2 DEF ChildWrites
<1>3. CASE ChildEnds
  BY <1>3 DEF ChildEnds
<1>4. CASE OutputArrives
  BY <1>4, OutputKeeps
<1>5. CASE TimerFires
  BY <1>5 DEF TimerFires, SettleCall, Kill
<1>6. CASE CallCloses
  BY <1>6, CloseKeeps
<1>7. CASE UNCHANGED toolVars
  BY <1>7 DEF toolVars
<1> QED
  BY <1>1, <1>2, <1>3, <1>4, <1>5, <1>6, <1>7 DEF ToolNext

-------------------------------------------------------------------------------
\* Whatever order the exit, the output, the limit and the timer come in, a call that is
\* resolved hands over all that a process wrote that did its work, and a settled call
\* leaves neither a process nor a timer behind (audio/process.ts, audio/pcm.ts,
\* audio/analysis-excerpt.ts).
THEOREM CallsAreWhole == ToolSpec => []ResolvedCallIsWhole
<1>1. ToolInv => ResolvedCallIsWhole
  BY DEF ToolInv, OutputIsWhole, ResolvedCallIsWhole
<1> QED BY <1>1, ToolStarts, ToolStep, PTL DEF ToolSpec

-----------------------------------------------------------------------------
(***************************************************************************)
(* TechnicalMeasurement: a Revision has the issues of its last pass, for   *)
(* any Revisions and workers.                                              *)
(***************************************************************************)
IssueRows == SourceFiles \X IssueCodes
MeasuringRows == [at : {"idle", "clear", "measure", "persist", "issues"}, of : SUBSET MeasuredRevisions,
                  role : SourceRoles, found : SUBSET IssueRows, unwritten : SUBSET IssueRows]

MeasureTypes ==
  /\ bytes \in [SourceFiles -> {"none", "song", "silent_start"}]
  /\ checksum \in [SourceFiles -> {"none", "song", "silent_start"}]
  /\ \A f \in SourceFiles : checksum[f] \in {"none", bytes[f]}
  /\ issues \in [MeasuredRevisions -> SUBSET IssueRows]
  /\ technicalOf \in [MeasuredRevisions -> {"pending", "processing", "complete", "failed"}]
  /\ measuring \in [MeasuringWorkers -> MeasuringRows]
  /\ measurements \in 0 .. MaxMeasurements
  /\ lastPass \in [MeasuredRevisions -> SUBSET MeasuringWorkers]
  /\ due \in [MeasuredRevisions -> SUBSET IssueRows]

PassIsOfOne(w) ==
  /\ measuring[w].at = "idle" => measuring[w].of = {}
  /\ measuring[w].at # "idle" => \E r \in MeasuredRevisions : measuring[w].of = {r}
  /\ measuring[w].at = "clear" => measuring[w].role = "master"
  /\ measuring[w].unwritten \subseteq measuring[w].found

\* What a pass that cleared the issues last has found so far.
FindsWhatIsDue(w) ==
  \A r \in MeasuredRevisions :
    measuring[w].of = {r} /\ w \in lastPass[r] =>
      /\ measuring[w].at \in {"measure", "persist"} /\ measuring[w].role = "stem" =>
           \A i \in due[r] : i[1] = <<r, "master">> => i \in measuring[w].found
      /\ measuring[w].at = "persist" =>
           \A i \in due[r] : i = <<<<r, measuring[w].role>>, "possible_duplicate">> => i \in measuring[w].found
      /\ measuring[w].at = "issues" => due[r] \subseteq measuring[w].unwritten \cup issues[r]

\* Checksums are only added: what was due stays so.
DueStaysDue == \A r \in MeasuredRevisions : due[r] \subseteq IssuesDue(r)

MeasureInv ==
  /\ MeasureTypes
  /\ \A w \in MeasuringWorkers : PassIsOfOne(w) /\ FindsWhatIsDue(w)
  /\ DueStaysDue
  /\ LastPassIssuesStand

-----------------------------------------------------------------------------
LEMMA DueIssues ==
  ASSUME NEW r \in MeasuredRevisions, NEW i \in IssuesDue(r)
  PROVE  \/ i \in BuildStemAlignmentIssue(r) /\ i[1] = <<r, "stem">>
         \/ \E f \in LoadProcessingSourceFiles(r) :
              /\ i[1] = f
              /\ i \in BuildFileQcIssues(f)
                 \/ (i = <<f, "possible_duplicate">> /\ FindAudioFileIdsByChecksum(f) # {})
<1>1. CASE i \in BuildStemAlignmentIssue(r)
  <2>1. PICK f \in LoadProcessingSourceFiles(r) : i = <<f, "stem_duration_mismatch">> /\ f[2] = "stem"
    BY <1>1 DEF BuildStemAlignmentIssue
  <2>2. f \in SourceFiles /\ f[1] = r
    BY DEF LoadProcessingSourceFiles
  <2>3. f = <<r, "stem">>
    BY <2>1, <2>2 DEF SourceFiles
  <2> QED BY <1>1, <2>1, <2>3
<1>2. CASE i \notin BuildStemAlignmentIssue(r)
  <2>1. PICK f \in LoadProcessingSourceFiles(r) : i \in BuildFileQcIssues(f) \/ i \in PossibleDuplicateIssue(f)
    BY <1>2 DEF IssuesDue
  <2> QED BY <2>1 DEF BuildFileQcIssues, PossibleDuplicateIssue
<1> QED BY <1>1, <1>2

LEMMA IssuesAreRows ==
  ASSUME NEW r \in MeasuredRevisions, NEW f \in SourceFiles
  PROVE  /\ BuildStemAlignmentIssue(r) \subseteq IssueRows
         /\ BuildFileQcIssues(f) \subseteq IssueRows /\ PossibleDuplicateIssue(f) \subseteq IssueRows
         /\ IssuesDue(r) \subseteq IssueRows
<1>1. /\ BuildStemAlignmentIssue(r) \subseteq IssueRows
      /\ \A g \in SourceFiles : BuildFileQcIssues(g) \subseteq IssueRows /\ PossibleDuplicateIssue(g) \subseteq IssueRows
  BY DEF BuildStemAlignmentIssue, BuildFileQcIssues, PossibleDuplicateIssue, IssueRows, IssueCodes,
         LoadProcessingSourceFiles
<1> QED BY <1>1 DEF IssuesDue, LoadProcessingSourceFiles

LEMMA DueGrows ==
  ASSUME bytes' = bytes, \A f \in SourceFiles : checksum[f] = "none" \/ checksum'[f] = checksum[f]
  PROVE  \A r \in MeasuredRevisions : IssuesDue(r) \subseteq IssuesDue(r)'
<1> SUFFICES ASSUME NEW r \in MeasuredRevisions, NEW i \in IssuesDue(r) PROVE i \in IssuesDue(r)'
  OBVIOUS
<1>1. LoadProcessingSourceFiles(r)' = LoadProcessingSourceFiles(r)
  BY DEF LoadProcessingSourceFiles
<1>2. BuildStemAlignmentIssue(r)' = BuildStemAlignmentIssue(r)
  BY <1>1 DEF BuildStemAlignmentIssue
<1>3. ASSUME NEW f \in LoadProcessingSourceFiles(r), FindAudioFileIdsByChecksum(f) # {}
      PROVE  (FindAudioFileIdsByChecksum(f) # {})'
  <2>1. bytes[f] # "none"
    BY DEF LoadProcessingSourceFiles
  <2>2. PICK g \in SourceFiles \ {f} : checksum[g] = bytes[f]
    BY <1>3 DEF FindAudioFileIdsByChecksum
  <2>3. checksum'[g] = bytes'[f]
    BY <2>1, <2>2
  <2> QED BY <2>3 DEF FindAudioFileIdsByChecksum
<1>4. \A f \in LoadProcessingSourceFiles(r) :
        /\ BuildFileQcIssues(f)' = BuildFileQcIssues(f)
        /\ PossibleDuplicateIssue(f) \subseteq PossibleDuplicateIssue(f)'
  BY <1>3 DEF BuildFileQcIssues, PossibleDuplicateIssue
<1> QED BY <1>1, <1>2, <1>4 DEF IssuesDue

LEMMA PassIsOf ==
  ASSUME MeasureInv, NEW w \in MeasuringWorkers, measuring[w].at # "idle"
  PROVE  RevisionOf(w) \in MeasuredRevisions /\ measuring[w].of = {RevisionOf(w)}
<1>1. PICK r \in MeasuredRevisions : measuring[w].of = {r}
  BY DEF MeasureInv, PassIsOfOne
<1>2. RevisionOf(w) = r
  BY <1>1 DEF RevisionOf
<1> QED BY <1>1, <1>2

LEMMA MeasureStarts == MeasureInit => MeasureInv
<1> SUFFICES ASSUME MeasureInit PROVE MeasureInv
  OBVIOUS
<1>1. NoPass \in MeasuringRows
  BY DEF NoPass, MeasuringRows, SourceRoles
<1>2. /\ measuring \in [MeasuringWorkers -> MeasuringRows] /\ measurements \in 0 .. MaxMeasurements
  BY <1>1, MeasurementAssumption DEF MeasureInit
<1>3. MeasureTypes
  <2>1. /\ issues \in [MeasuredRevisions -> SUBSET IssueRows] /\ due \in [MeasuredRevisions -> SUBSET IssueRows]
        /\ lastPass \in [MeasuredRevisions -> SUBSET MeasuringWorkers]
        /\ technicalOf \in [MeasuredRevisions -> {"pending", "processing", "complete", "failed"}]
    BY DEF MeasureInit
  <2>2. /\ bytes \in [SourceFiles -> {"none", "song", "silent_start"}]
        /\ checksum \in [SourceFiles -> {"none", "song", "silent_start"}]
        /\ \A f \in SourceFiles : checksum[f] \in {"none", bytes[f]}
    BY DEF MeasureInit
  <2> QED BY <1>2, <2>1, <2>2 DEF MeasureTypes
<1>4. \A w \in MeasuringWorkers : PassIsOfOne(w) /\ FindsWhatIsDue(w)
  BY DEF MeasureInit, PassIsOfOne, FindsWhatIsDue, NoPass
<1>5. DueStaysDue /\ LastPassIssuesStand
  BY DEF MeasureInit, DueStaysDue, LastPassIssuesStand
<1> QED BY <1>3, <1>4, <1>5 DEF MeasureInv

\* A step of one pass after which no issue is gone.
LEMMA PassKeeps ==
  ASSUME MeasureInv, NEW w \in MeasuringWorkers, NEW entry \in MeasuringRows,
         measuring' = [measuring EXCEPT ![w] = entry],
         UNCHANGED <<bytes, due>>,
         checksum' \in [SourceFiles -> {"none", "song", "silent_start"}],
         \A f \in SourceFiles : checksum'[f] = checksum[f] \/ (checksum[f] \in {"none", bytes[f]} /\ checksum'[f] = bytes[f]),
         issues' \in [MeasuredRevisions -> SUBSET IssueRows],
         \A r \in MeasuredRevisions : issues[r] \subseteq issues'[r],
         technicalOf' \in [MeasuredRevisions -> {"pending", "processing", "complete", "failed"}],
         measurements' \in 0 .. MaxMeasurements,
         lastPass' \in [MeasuredRevisions -> SUBSET MeasuringWorkers],
         \A r \in MeasuredRevisions : lastPass'[r] \subseteq lastPass[r],
         \A r \in MeasuredRevisions : lastPass'[r] = {} /\ lastPass[r] # {} => due[r] \subseteq issues'[r],
         PassIsOfOne(w)', FindsWhatIsDue(w)'
  PROVE  MeasureInv'
<1>1. measuring \in [MeasuringWorkers -> MeasuringRows]
  BY DEF MeasureInv, MeasureTypes
<1>2. measuring' \in [MeasuringWorkers -> MeasuringRows]
      /\ \A v \in MeasuringWorkers \ {w} : measuring'[v] = measuring[v]
  BY <1>1
<1>3. MeasureTypes'
  BY <1>2 DEF MeasureInv, MeasureTypes
<1>4. ASSUME NEW v \in MeasuringWorkers PROVE PassIsOfOne(v)' /\ FindsWhatIsDue(v)'
  <2>1. CASE v = w
    BY <2>1
  <2>2. CASE v # w
    <3>1. measuring'[v] = measuring[v]
      BY <1>2, <2>2
    <3>2. PassIsOfOne(v)'
      BY <3>1 DEF MeasureInv, PassIsOfOne
    <3>3. FindsWhatIsDue(v)'
      <4>1. FindsWhatIsDue(v)
        BY DEF MeasureInv
      <4> QED BY <3>1, <4>1 DEF FindsWhatIsDue
    <3> QED BY <3>2, <3>3
  <2> QED BY <2>1, <2>2
<1>5. DueStaysDue'
  <2>1. \A f \in SourceFiles : checksum[f] = "none" \/ checksum'[f] = checksum[f]
    BY DEF MeasureInv, MeasureTypes
  <2>2. \A r \in MeasuredRevisions : IssuesDue(r) \subseteq IssuesDue(r)'
    BY <2>1, DueGrows
  <2> QED BY <2>2 DEF MeasureInv, DueStaysDue
<1>6. LastPassIssuesStand'
  BY DEF MeasureInv, LastPassIssuesStand
<1> QED BY <1>3, <1>4, <1>5, <1>6 DEF MeasureInv

LEMMA BeginKeeps ==
  ASSUME MeasureInv, NEW w \in MeasuringWorkers, NEW r \in MeasuredRevisions, BeginMeasuring(w, r)
  PROVE  MeasureInv'
<1> DEFINE entry == [NoPass EXCEPT !.at = "clear", !.of = {r}]
<1>1. /\ entry \in MeasuringRows /\ entry.at = "clear" /\ entry.of = {r} /\ entry.role = "master"
      /\ entry.unwritten = {}
  BY DEF NoPass, MeasuringRows, SourceRoles
<1>2. /\ measuring' = [measuring EXCEPT ![w] = entry] /\ measurements < MaxMeasurements
      /\ measurements' = measurements + 1
      /\ technicalOf' = [technicalOf EXCEPT ![r] = IF @ = "complete" THEN @ ELSE "processing"]
      /\ UNCHANGED <<bytes, checksum, issues, lastPass, due>>
  BY DEF BeginMeasuring, MeasureStep
<1> HIDE DEF entry
<1>3. MeasureTypes
  BY DEF MeasureInv
<1>4. /\ technicalOf' \in [MeasuredRevisions -> {"pending", "processing", "complete", "failed"}]
      /\ measurements' \in 0 .. MaxMeasurements
      /\ measuring'[w] = entry
  BY <1>2, <1>3, MeasurementAssumption DEF MeasureTypes
<1>5. PassIsOfOne(w)' /\ FindsWhatIsDue(w)'
  BY <1>1, <1>4 DEF PassIsOfOne, FindsWhatIsDue
<1> QED BY <1>1, <1>2, <1>3, <1>4, <1>5, PassKeeps DEF MeasureTypes

\* The pass that clears the issues becomes the last, and all that is due is still before it.
LEMMA ClearKeeps ==
  ASSUME MeasureInv, NEW w \in MeasuringWorkers, ClearIssuesOf(w)
  PROVE  MeasureInv'
<1>1. measuring[w].at = "clear"
  BY DEF ClearIssuesOf, MeasureStep
<1>2. PICK r \in MeasuredRevisions : r = RevisionOf(w) /\ measuring[w].of = {r}
  BY <1>1, PassIsOf
<1> DEFINE entry == [measuring[w] EXCEPT !.at = "measure"]
<1>3. /\ measuring' = [measuring EXCEPT ![w] = entry]
      /\ issues' = [issues EXCEPT ![r] = {}] /\ lastPass' = [lastPass EXCEPT ![r] = {w}]
      /\ due' = [due EXCEPT ![r] = IssuesDue(r)]
      /\ UNCHANGED <<bytes, checksum, technicalOf, measurements>>
  BY <1>2 DEF ClearIssuesOf, MeasureStep
<1>4. MeasureTypes /\ PassIsOfOne(w)
  BY DEF MeasureInv
<1>5. measuring[w] \in MeasuringRows
  BY <1>4 DEF MeasureTypes
<1>6. /\ entry \in MeasuringRows /\ entry.at = "measure" /\ entry.of = {r} /\ entry.role = "master"
      /\ entry.unwritten \subseteq entry.found
  BY <1>1, <1>2, <1>4, <1>5 DEF MeasuringRows, PassIsOfOne
<1> HIDE DEF entry
<1>7. /\ measuring' \in [MeasuringWorkers -> MeasuringRows] /\ measuring'[w] = entry
      /\ \A v \in MeasuringWorkers \ {w} : measuring'[v] = measuring[v]
  BY <1>3, <1>4, <1>6 DEF MeasureTypes
<1>8. /\ issues' \in [MeasuredRevisions -> SUBSET IssueRows]
      /\ lastPass' \in [MeasuredRevisions -> SUBSET MeasuringWorkers] /\ lastPass'[r] = {w}
      /\ \A q \in MeasuredRevisions \ {r} :
           lastPass'[q] = lastPass[q] /\ issues'[q] = issues[q] /\ due'[q] = due[q]
      /\ due'[r] = IssuesDue(r)
  BY <1>3, <1>4 DEF MeasureTypes
<1>9. due' \in [MeasuredRevisions -> SUBSET IssueRows]
  <2>1. IssuesDue(r) \subseteq IssueRows
    <3>1. <<r, "master">> \in SourceFiles
      BY DEF SourceFiles, SourceRoles
    <3> QED BY <3>1, IssuesAreRows
  <2> QED BY <1>3, <1>4, <2>1 DEF MeasureTypes
<1>10. MeasureTypes'
  BY <1>3, <1>4, <1>7, <1>8, <1>9 DEF MeasureTypes
<1>11. ASSUME NEW v \in MeasuringWorkers PROVE PassIsOfOne(v)' /\ FindsWhatIsDue(v)'
  <2>1. CASE v = w
    BY <1>6, <1>7, <2>1 DEF PassIsOfOne, FindsWhatIsDue
  <2>2. CASE v # w
    <3>1. measuring'[v] = measuring[v] /\ v \notin lastPass'[r]
      BY <1>7, <1>8, <2>2
    <3>2. PassIsOfOne(v)'
      BY <3>1 DEF MeasureInv, PassIsOfOne
    <3>3. FindsWhatIsDue(v)
      BY DEF MeasureInv
    <3>4. FindsWhatIsDue(v)'
      BY <1>8, <3>1, <3>3 DEF FindsWhatIsDue
    <3> QED BY <3>2, <3>4
  <2> QED BY <2>1, <2>2
<1>12. \A q \in MeasuredRevisions : IssuesDue(q)' = IssuesDue(q)
  BY <1>3 DEF IssuesDue, LoadProcessingSourceFiles, BuildStemAlignmentIssue, BuildFileQcIssues,
       PossibleDuplicateIssue, FindAudioFileIdsByChecksum
<1>13. DueStaysDue'
  BY <1>8, <1>12 DEF MeasureInv, DueStaysDue
<1>14. LastPassIssuesStand'
  BY <1>8 DEF MeasureInv, LastPassIssuesStand
<1> QED BY <1>10, <1>11, <1>13, <1>14 DEF MeasureInv

LEMMA MeasureKeeps ==
  ASSUME MeasureInv, NEW w \in MeasuringWorkers, MeasureAudioFile(w)
  PROVE  MeasureInv'
<1>1. measuring[w].at = "measure"
  BY DEF MeasureAudioFile, MeasureStep
<1>2. PICK r \in MeasuredRevisions : r = RevisionOf(w) /\ measuring[w].of = {r}
  BY <1>1, PassIsOf
<1>3. MeasureTypes /\ PassIsOfOne(w) /\ FindsWhatIsDue(w)
  BY DEF MeasureInv
<1>4. measuring[w] \in MeasuringRows
  BY <1>3 DEF MeasureTypes
<1> DEFINE f == <<r, measuring[w].role>>
           found == measuring[w].found \cup PossibleDuplicateIssue(f)
           entry == [measuring[w] EXCEPT !.at = "persist", !.found = found]
<1>5. f \in SourceFiles /\ f = FileOf(w)
  BY <1>2, <1>4 DEF SourceFiles, MeasuringRows, FileOf
<1>6. /\ measuring' = [measuring EXCEPT ![w] = entry]
      /\ UNCHANGED <<bytes, checksum, issues, technicalOf, measurements, lastPass, due>>
  BY <1>5 DEF MeasureAudioFile, MeasureStep
<1>7. found \in SUBSET IssueRows
  BY <1>2, <1>4, <1>5, IssuesAreRows DEF MeasuringRows
<1>8. /\ entry \in MeasuringRows /\ entry.at = "persist" /\ entry.of = {r} /\ entry.role = measuring[w].role
      /\ entry.found = found /\ entry.unwritten = measuring[w].unwritten
  BY <1>2, <1>4, <1>7 DEF MeasuringRows
<1>9. measuring'[w] = entry
  BY <1>3, <1>6 DEF MeasureTypes
<1>10. <<f, "possible_duplicate">> \in due[r] => <<f, "possible_duplicate">> \in found
  <2> SUFFICES ASSUME <<f, "possible_duplicate">> \in due[r] PROVE FindAudioFileIdsByChecksum(f) # {}
    BY DEF PossibleDuplicateIssue
  <2>1. <<f, "possible_duplicate">> \in IssuesDue(r)
    BY DEF MeasureInv, DueStaysDue
  <2> QED BY <2>1, DueIssues DEF BuildStemAlignmentIssue, BuildFileQcIssues
<1>11. PassIsOfOne(w)'
  BY <1>3, <1>8, <1>9 DEF PassIsOfOne
<1> HIDE DEF entry
<1>12. FindsWhatIsDue(w)'
  <2> SUFFICES ASSUME NEW q \in MeasuredRevisions, measuring'[w].of = {q}, w \in lastPass'[q]
               PROVE  /\ measuring'[w].role = "stem" =>
                           \A i \in due'[q] : i[1] = <<q, "master">> => i \in measuring'[w].found
                      /\ \A i \in due'[q] :
                           i = <<<<q, measuring'[w].role>>, "possible_duplicate">> => i \in measuring'[w].found
    BY <1>8, <1>9 DEF FindsWhatIsDue
  <2>1. q = r
    BY <1>8, <1>9
  <2>2. measuring[w].role = "stem" => \A i \in due[r] : i[1] = <<r, "master">> => i \in measuring[w].found
    BY <1>1, <1>2, <1>3, <1>6, <2>1 DEF FindsWhatIsDue
  <2> QED BY <1>6, <1>8, <1>9, <1>10, <2>1, <2>2
<1> QED BY <1>3, <1>6, <1>8, <1>11, <1>12, PassKeeps DEF MeasureTypes

\* After the last file all that is due has been found.
LEMMA PersistKeeps ==
  ASSUME MeasureInv, NEW w \in MeasuringWorkers, PersistTechnicalResult(w)
  PROVE  MeasureInv'
<1>1. measuring[w].at = "persist"
  BY DEF PersistTechnicalResult, MeasureStep
<1>2. PICK r \in MeasuredRevisions : r = RevisionOf(w) /\ measuring[w].of = {r}
  BY <1>1, PassIsOf
<1>3. MeasureTypes /\ PassIsOfOne(w) /\ FindsWhatIsDue(w)
  BY DEF MeasureInv
<1>4. measuring[w] \in MeasuringRows
  BY <1>3 DEF MeasureTypes
<1> DEFINE f == <<r, measuring[w].role>>
           stemLeft == measuring[w].role = "master" /\ bytes[<<r, "stem">>] # "none"
           found == measuring[w].found \cup BuildFileQcIssues(f)
           all == found \cup BuildStemAlignmentIssue(r)
           entry == IF stemLeft
                  THEN [measuring[w] EXCEPT !.at = "measure", !.role = "stem", !.found = found]
                  ELSE [measuring[w] EXCEPT !.at = "issues", !.found = all, !.unwritten = all]
<1>5. f \in SourceFiles /\ f = FileOf(w)
  BY <1>2, <1>4 DEF SourceFiles, MeasuringRows, FileOf
<1>6. /\ measuring' = [measuring EXCEPT ![w] = entry]
      /\ checksum' = [checksum EXCEPT ![f] = bytes[f]]
      /\ UNCHANGED <<bytes, issues, technicalOf, measurements, lastPass, due>>
  BY <1>2, <1>5 DEF PersistTechnicalResult, MeasureStep
<1>7. found \in SUBSET IssueRows /\ all \in SUBSET IssueRows
  BY <1>2, <1>4, <1>5, IssuesAreRows DEF MeasuringRows
<1>8. entry.of = {r} /\ entry \in MeasuringRows
  BY <1>2, <1>4, <1>7 DEF MeasuringRows, SourceRoles
<1>9. stemLeft => /\ entry.at = "measure" /\ entry.role = "stem" /\ entry.found = found
                  /\ entry.unwritten = measuring[w].unwritten
  BY <1>4 DEF MeasuringRows
<1>10. ~stemLeft => entry.at = "issues" /\ entry.found = all /\ entry.unwritten = all
  BY <1>4 DEF MeasuringRows
<1>11. measuring'[w] = entry
  BY <1>3, <1>6 DEF MeasureTypes
<1> HIDE DEF entry
<1>12. PassIsOfOne(w)'
  BY <1>3, <1>8, <1>9, <1>10, <1>11 DEF PassIsOfOne
<1>13. ASSUME NEW i \in due[r], w \in lastPass[r], i[1] = f
       PROVE  i \in all /\ (stemLeft => i \in found)
  <2>1. i \in IssuesDue(r)
    BY DEF MeasureInv, DueStaysDue
  <2>2. i = <<f, "possible_duplicate">> => i \in measuring[w].found
    BY <1>1, <1>2, <1>3, <1>13 DEF FindsWhatIsDue
  <2>3. i \in BuildStemAlignmentIssue(r) => i \in all
    OBVIOUS
  <2>4. stemLeft => i[1] # <<r, "stem">>
    BY <1>13
  <2> QED BY <1>13, <2>1, <2>2, <2>3, <2>4, DueIssues
<1>14. ASSUME NEW i \in due[r], w \in lastPass[r], ~stemLeft
       PROVE  i \in all
  <2>1. i \in IssuesDue(r)
    BY DEF MeasureInv, DueStaysDue
  <2>2. CASE i \in BuildStemAlignmentIssue(r)
    BY <2>2
  <2>3. CASE i[1] = f
    BY <1>13, <1>14, <2>3
  <2>4. ASSUME NEW g \in LoadProcessingSourceFiles(r), i[1] = g, g # f PROVE i \in all
    <3>1. g \in SourceFiles /\ g[1] = r /\ bytes[g] # "none"
      BY DEF LoadProcessingSourceFiles
    <3>2. g = <<r, "master">> \/ g = <<r, "stem">>
      BY <3>1 DEF SourceFiles, SourceRoles
    <3>3. measuring[w].role \in {"master", "stem"}
      BY <1>4 DEF MeasuringRows, SourceRoles
    <3>4. measuring[w].role = "stem" /\ g = <<r, "master">>
      BY <1>14, <2>4, <3>1, <3>2, <3>3
    <3> QED BY <1>1, <1>2, <1>3, <1>14, <2>4, <3>4 DEF FindsWhatIsDue
  <2> QED BY <2>1, <2>2, <2>3, <2>4, DueIssues
<1>15. FindsWhatIsDue(w)'
  <2> SUFFICES ASSUME NEW q \in MeasuredRevisions, measuring'[w].of = {q}, w \in lastPass'[q]
               PROVE  /\ measuring'[w].at \in {"measure", "persist"} /\ measuring'[w].role = "stem" =>
                           \A i \in due'[q] : i[1] = <<q, "master">> => i \in measuring'[w].found
                      /\ measuring'[w].at # "persist"
                      /\ measuring'[w].at = "issues" => due'[q] \subseteq measuring'[w].unwritten \cup issues'[q]
    BY DEF FindsWhatIsDue
  <2>1. q = r
    BY <1>8, <1>11
  <2>2. CASE stemLeft
    BY <1>6, <1>9, <1>11, <1>13, <2>1, <2>2
  <2>3. CASE ~stemLeft
    BY <1>6, <1>10, <1>11, <1>14, <2>1, <2>3
  <2> QED BY <2>2, <2>3
<1>16. /\ checksum' \in [SourceFiles -> {"none", "song", "silent_start"}]
       /\ \A g \in SourceFiles :
            checksum'[g] = checksum[g] \/ (checksum[g] \in {"none", bytes[g]} /\ checksum'[g] = bytes[g])
  BY <1>3, <1>5, <1>6 DEF MeasureTypes
<1> QED BY <1>3, <1>6, <1>8, <1>12, <1>15, <1>16, PassKeeps DEF MeasureTypes

LEMMA WriteKeeps ==
  ASSUME MeasureInv, NEW w \in MeasuringWorkers, NEW i, WriteQcIssue(w, i)
  PROVE  MeasureInv'
<1>1. measuring[w].at = "issues" /\ i \in measuring[w].unwritten
  BY DEF WriteQcIssue, MeasureStep
<1>2. PICK r \in MeasuredRevisions : r = RevisionOf(w) /\ measuring[w].of = {r}
  BY <1>1, PassIsOf
<1>3. MeasureTypes /\ PassIsOfOne(w) /\ FindsWhatIsDue(w)
  BY DEF MeasureInv
<1>4. measuring[w] \in MeasuringRows
  BY <1>3 DEF MeasureTypes
<1> DEFINE entry == [measuring[w] EXCEPT !.unwritten = @ \ {i}]
<1>5. /\ entry \in MeasuringRows /\ entry.at = "issues" /\ entry.of = {r}
      /\ entry.found = measuring[w].found /\ entry.unwritten = measuring[w].unwritten \ {i}
      /\ i \in IssueRows
  BY <1>1, <1>2, <1>4 DEF MeasuringRows
<1>6. /\ measuring' = [measuring EXCEPT ![w] = entry]
      /\ issues' = [issues EXCEPT ![r] = issues[r] \cup {i}]
      /\ UNCHANGED <<bytes, checksum, technicalOf, measurements, lastPass, due>>
  BY <1>2 DEF WriteQcIssue, MeasureStep, InsertIssue
<1> HIDE DEF entry
<1>7. /\ measuring'[w] = entry /\ issues' \in [MeasuredRevisions -> SUBSET IssueRows]
      /\ issues'[r] = issues[r] \cup {i}
      /\ \A q \in MeasuredRevisions : issues[q] \subseteq issues'[q]
  BY <1>3, <1>5, <1>6 DEF MeasureTypes
<1>8. PassIsOfOne(w)' /\ FindsWhatIsDue(w)'
  <2>1. PassIsOfOne(w)'
    BY <1>3, <1>5, <1>7 DEF PassIsOfOne
  <2>2. w \in lastPass[r] => due[r] \subseteq measuring[w].unwritten \cup issues[r]
    BY <1>1, <1>2, <1>3 DEF FindsWhatIsDue
  <2>3. w \in lastPass'[r] => due'[r] \subseteq measuring'[w].unwritten \cup issues'[r]
    BY <1>5, <1>6, <1>7, <2>2
  <2> QED BY <1>5, <1>7, <2>1, <2>3 DEF FindsWhatIsDue
<1> QED BY <1>3, <1>5, <1>6, <1>7, <1>8, PassKeeps DEF MeasureTypes

LEMMA EndKeeps ==
  ASSUME MeasureInv, NEW w \in MeasuringWorkers, MarkTechnicalComplete(w) \/ MeasuringFails(w)
  PROVE  MeasureInv'
<1>1. measuring[w].at # "idle"
  BY DEF MarkTechnicalComplete, MeasuringFails, MeasureStep
<1>2. PICK r \in MeasuredRevisions : r = RevisionOf(w) /\ measuring[w].of = {r}
  BY <1>1, PassIsOf
<1>3. MeasureTypes /\ FindsWhatIsDue(w)
  BY DEF MeasureInv
<1>4. /\ NoPass \in MeasuringRows /\ NoPass.at = "idle" /\ NoPass.of = {} /\ NoPass.unwritten = {}
  BY DEF NoPass, MeasuringRows, SourceRoles
<1>5. /\ measuring' = [measuring EXCEPT ![w] = NoPass]
      /\ \/ \E to \in {"complete", "failed"} : technicalOf' = [technicalOf EXCEPT ![r] = to]
         \/ UNCHANGED technicalOf
      /\ UNCHANGED <<bytes, checksum, issues, measurements, due>>
  BY <1>2 DEF MarkTechnicalComplete, MeasuringFails, MeasureStep
<1>6. /\ technicalOf' \in [MeasuredRevisions -> {"pending", "processing", "complete", "failed"}]
      /\ measuring'[w] = NoPass
  BY <1>3, <1>5 DEF MeasureTypes
<1>7. PassIsOfOne(w)' /\ FindsWhatIsDue(w)'
  BY <1>4, <1>6 DEF PassIsOfOne, FindsWhatIsDue
<1>8. /\ lastPass' \in [MeasuredRevisions -> SUBSET MeasuringWorkers]
      /\ \A q \in MeasuredRevisions : lastPass'[q] \subseteq lastPass[q]
      /\ \A q \in MeasuredRevisions : lastPass'[q] = {} /\ lastPass[q] # {} => due[q] \subseteq issues[q]
  <2>1. CASE MeasuringFails(w)
    BY <1>3, <2>1 DEF MeasuringFails, MeasureTypes
  <2>2. CASE MarkTechnicalComplete(w)
    <3>1. /\ lastPass' = [lastPass EXCEPT ![r] = lastPass[r] \ {w}]
          /\ measuring[w].at = "issues" /\ measuring[w].unwritten = {}
      BY <1>2, <2>2 DEF MarkTechnicalComplete, MeasureStep
    <3>2. w \in lastPass[r] => due[r] \subseteq issues[r]
      BY <1>2, <1>3, <3>1 DEF FindsWhatIsDue
    <3> QED BY <1>3, <3>1, <3>2 DEF MeasureTypes
  <2> QED BY <2>1, <2>2
<1> HIDE DEF NoPass
<1> QED BY <1>3, <1>4, <1>5, <1>6, <1>7, <1>8, PassKeeps DEF MeasureTypes

LEMMA MeasureInvStep == MeasureInv /\ [MeasureNext]_measureVars => MeasureInv'
<1> SUFFICES ASSUME MeasureInv, [MeasureNext]_measureVars PROVE MeasureInv'
  OBVIOUS
<1>1. CASE UNCHANGED measureVars
  <2>1. MeasureTypes'
    BY <1>1 DEF measureVars, MeasureInv, MeasureTypes
  <2>2. \A w \in MeasuringWorkers : PassIsOfOne(w)' /\ FindsWhatIsDue(w)'
    BY <1>1 DEF measureVars, MeasureInv, PassIsOfOne, FindsWhatIsDue
  <2>3. \A r \in MeasuredRevisions : IssuesDue(r) \subseteq IssuesDue(r)'
    BY <1>1, DueGrows DEF measureVars
  <2>4. DueStaysDue' /\ LastPassIssuesStand'
    BY <1>1, <2>3 DEF measureVars, MeasureInv, DueStaysDue, LastPassIssuesStand
  <2> QED BY <2>1, <2>2, <2>4 DEF MeasureInv
<1> QED BY <1>1, BeginKeeps, ClearKeeps, MeasureKeeps, PersistKeeps, WriteKeeps, EndKeeps DEF MeasureNext

LEMMA MeasureInvHolds == MeasureSpec => []MeasureInv
<1> QED BY MeasureStarts, MeasureInvStep, PTL DEF MeasureSpec

LEMMA MeasureTypesHold == MeasureInv => MeasureTypeOK
<1> SUFFICES ASSUME MeasureInv PROVE MeasureTypeOK
  OBVIOUS
<1>1. ASSUME NEW w \in MeasuringWorkers
      PROVE  /\ measuring[w].at \in {"idle", "clear", "measure", "persist", "issues"}
             /\ Cardinality(measuring[w].of) = IF measuring[w].at = "idle" THEN 0 ELSE 1
             /\ measuring[w].role \in SourceRoles
             /\ measuring[w].unwritten \subseteq measuring[w].found
  <2>1. measuring[w] \in MeasuringRows /\ PassIsOfOne(w)
    BY DEF MeasureInv, MeasureTypes
  <2>2. measuring[w].at # "idle" => Cardinality(measuring[w].of) = 1
    BY <2>1, FS_Singleton DEF PassIsOfOne
  <2>3. measuring[w].at = "idle" => Cardinality(measuring[w].of) = 0
    BY <2>1, FS_EmptySet DEF PassIsOfOne
  <2> QED BY <2>1, <2>2, <2>3 DEF MeasuringRows, PassIsOfOne
<1> QED BY <1>1 DEF MeasureInv, MeasureTypes, MeasureTypeOK, IssueRows

\* A Revision has every issue its last pass had to find when that pass is through, for any
\* number of Revisions and of workers that lost their lease and go on.
THEOREM LastPassIsComplete == MeasureSpec => []LastPassIssuesStand
<1>1. MeasureInv => LastPassIssuesStand
  BY DEF MeasureInv
<1> QED BY <1>1, MeasureInvHolds, PTL

-----------------------------------------------------------------------------
(***************************************************************************)
(* MetadataAnalysis: suggestions are those of the stored result, for any   *)
(* number of workers and models.                                           *)
(***************************************************************************)
Passes == [at : {"idle", "measure", "ask", "persist", "finalize", "report", "finalize_partial"},
           asked : 0 .. ModelCount, result : MetadataResults]

\* A pass that is about to store a result has one, and it is in the row when the pass says
\* that the analysis is complete, for nothing takes it out again.
ResultsAreKnown ==
  \A w \in AnalysisWorkers :
    /\ pass[w].at = "persist" => pass[w].result # NoResult
    /\ pass[w].at = "finalize" => providerRun # NoResult

MetadataInv == MetadataTypeOK /\ SuggestionsAreOfOneResult /\ ResultsAreKnown

LEMMA ResultsOfAnswers ==
  ASSUME NEW reply \in Answers
  PROVE  NormalizeMetadata(reply) \in MetadataResults \ {NoResult}
<1>1. \/ reply.tempo = "heard" /\ reply.key = "heard"
      \/ reply.tempo = "heard" /\ reply.useCase = "listed"
      \/ reply.key = "heard" /\ reply.useCase = "listed"
  BY DEF Answers, PlainAnswer
<1>2. /\ reply.tempo \in {"absent", "blank", "heard"} /\ reply.key \in {"absent", "blank", "heard"}
      /\ reply.useCase \in {"absent", "listed", "unlisted"}
  BY DEF Answers, PlainAnswer
<1>3. Measured \in {"none", "measured"}
  BY DEF Measured
<1>4. NullableNumber(reply.tempo) \in {"none", "zero", "heard"}
  BY <1>2 DEF NullableNumber
<1>5. NormalizeMetadata(reply) \in MetadataResults
  BY <1>2, <1>3, <1>4 DEF NormalizeMetadata, MetadataResults, CleanedText
<1>6. reply.key = "heard" => NormalizeMetadata(reply) # NoResult
  BY DEF NormalizeMetadata, NoResult, CleanedText
<1>7. reply.useCase = "listed" => NormalizeMetadata(reply) # NoResult
  BY DEF NormalizeMetadata, NoResult
<1> QED BY <1>1, <1>5, <1>6, <1>7

LEMMA SuggestionsOfResults ==
  ASSUME NEW result \in MetadataResults
  PROVE  HasSuggestionValue(result) \subseteq
           {"tempo", "key", "useCase"} \X {"zero", "measured", "heard", "listed", "unlisted"}
<1>1. DOMAIN result = {"tempo", "key", "useCase"}
  BY DEF MetadataResults
<1>2. \A f \in DOMAIN result :
        result[f] \in {"none", "zero", "measured", "heard", "listed", "unlisted"}
  BY DEF MetadataResults
<1> QED BY <1>1, <1>2 DEF HasSuggestionValue

LEMMA MetadataStarts == MetadataInit => MetadataInv
<1> SUFFICES ASSUME MetadataInit PROVE MetadataInv
  OBVIOUS
<1>1. NoResult \in MetadataResults
  BY DEF NoResult, MetadataResults
<1>2. MetadataTypeOK
  <2>1. IdlePass \in Passes
    BY <1>1, AnalysisBounds DEF IdlePass, Passes
  <2>2. pass \in [AnalysisWorkers -> Passes]
    BY <2>1 DEF MetadataInit
  <2>3. passes \in 0 .. MaxPasses /\ providerRun \in MetadataResults /\ suggestions = {}
    BY <1>1, AnalysisBounds DEF MetadataInit
  <2>4. /\ measurable \in BOOLEAN /\ termActive \in BOOLEAN /\ assigned \in BOOLEAN
        /\ unavailable \in BOOLEAN /\ aiStatus \in {"not_started", "disabled", "complete", "failed"}
    BY DEF MetadataInit
  <2> QED BY <2>2, <2>3, <2>4 DEF MetadataTypeOK, Passes
<1>3. HasSuggestionValue(NoResult) = {}
  <2>1. \A f \in DOMAIN NoResult : NoResult[f] = "none"
    BY DEF NoResult
  <2> QED BY <2>1 DEF HasSuggestionValue
<1>4. SuggestionsAreOfOneResult
  BY <1>3 DEF MetadataInit, SuggestionsAreOfOneResult
<1>5. ResultsAreKnown
  BY DEF MetadataInit, ResultsAreKnown, IdlePass
<1> QED BY <1>2, <1>4, <1>5 DEF MetadataInv

\* A step of one pass that leaves the rows alone.
LEMMA AskingKeeps ==
  ASSUME MetadataInv, NEW w \in AnalysisWorkers, NEW p \in Passes,
         pass' = [pass EXCEPT ![w] = p],
         p.at = "persist" => p.result # NoResult,
         p.at = "finalize" => providerRun # NoResult,
         UNCHANGED <<measurable, termActive, providerRun, suggestions, assigned>>,
         passes' \in 0 .. MaxPasses, unavailable' \in BOOLEAN,
         aiStatus' \in {"not_started", "disabled", "complete", "failed"},
         aiStatus' = "complete" => aiStatus = "complete" \/ pass[w].at = "finalize"
  PROVE  MetadataInv'
<1>1. pass \in [AnalysisWorkers -> Passes]
  BY DEF MetadataInv, MetadataTypeOK, Passes
<1>2. pass' \in [AnalysisWorkers -> Passes] /\ pass'[w] = p
      /\ \A v \in AnalysisWorkers \ {w} : pass'[v] = pass[v]
  BY <1>1
<1>3. MetadataTypeOK'
  BY <1>2 DEF MetadataInv, MetadataTypeOK, Passes
<1>4. SuggestionsAreOfOneResult'
  BY DEF MetadataInv, SuggestionsAreOfOneResult, ResultsAreKnown
<1>5. ResultsAreKnown'
  BY <1>2 DEF MetadataInv, ResultsAreKnown
<1> QED BY <1>3, <1>4, <1>5 DEF MetadataInv

LEMMA AnswerKeeps ==
  ASSUME MetadataInv, NEW w \in AnalysisWorkers, PersistUnifiedAiMetadata(w)
  PROVE  MetadataInv'
<1> DEFINE result == pass[w].result
<1>1. pass \in [AnalysisWorkers -> Passes] /\ termActive \in BOOLEAN /\ assigned \in BOOLEAN
  BY DEF MetadataInv, MetadataTypeOK, Passes
<1>2. pass[w] \in Passes
  BY <1>1
<1>3. result \in MetadataResults
  BY <1>2 DEF Passes
<1>4. /\ pass[w].at = "persist" /\ pass' = [pass EXCEPT ![w].at = "finalize"]
      /\ providerRun' = result /\ suggestions' = HasSuggestionValue(result)
      /\ UNCHANGED <<measurable, termActive, passes, unavailable, aiStatus>>
  BY DEF PersistUnifiedAiMetadata, PassStep, PersistMetadataSuggestions
<1>5. result # NoResult
  BY <1>4 DEF MetadataInv, ResultsAreKnown
<1>6. assigned' \in BOOLEAN
  BY <1>1 DEF PersistUnifiedAiMetadata, PersistKnownTaxonomySuggestions
<1>7. pass' \in [AnalysisWorkers -> Passes]
  <2>1. [pass[w] EXCEPT !.at = "finalize"] \in Passes
    BY <1>2 DEF Passes
  <2> QED BY <1>1, <1>4, <2>1
<1>8. MetadataTypeOK'
  BY <1>3, <1>4, <1>6, <1>7, SuggestionsOfResults DEF MetadataInv, MetadataTypeOK, Passes
<1>9. SuggestionsAreOfOneResult'
  <2>1. suggestions' = HasSuggestionValue(result)
    BY <1>4
  <2>2. providerRun' = result
    BY <1>4
  <2> QED BY <1>5, <2>1, <2>2 DEF SuggestionsAreOfOneResult
<1>10. ResultsAreKnown'
  BY <1>1, <1>4, <1>5 DEF MetadataInv, ResultsAreKnown, Passes
<1> QED BY <1>8, <1>9, <1>10 DEF MetadataInv

LEMMA MetadataStep == MetadataInv /\ [MetadataNext]_metadataVars => MetadataInv'
<1> SUFFICES ASSUME MetadataInv, [MetadataNext]_metadataVars PROVE MetadataInv'
  OBVIOUS
<1>0. /\ pass \in [AnalysisWorkers -> Passes] /\ passes \in 0 .. MaxPasses
      /\ termActive \in BOOLEAN /\ unavailable \in BOOLEAN
      /\ aiStatus \in {"not_started", "disabled", "complete", "failed"}
  BY DEF MetadataInv, MetadataTypeOK, Passes
<1>1. CASE SetTermActive \/ UNCHANGED metadataVars
  <2>1. UNCHANGED <<measurable, pass, passes, analysisRows, unavailable, aiStatus>> /\ termActive' \in BOOLEAN
    BY <1>0, <1>1 DEF SetTermActive, metadataVars
  <2>2. MetadataTypeOK'
    BY <2>1 DEF MetadataInv, MetadataTypeOK, analysisRows
  <2> QED BY <2>1, <2>2 DEF MetadataInv, SuggestionsAreOfOneResult, ResultsAreKnown, analysisRows
<1>2. ASSUME NEW w \in AnalysisWorkers, NEW from, NEW to, PassStep(w, from, to),
             to \in {"measure", "ask", "report", "finalize_partial", "idle"},
             UNCHANGED <<measurable, termActive, providerRun, suggestions, assigned>>,
             passes' \in 0 .. MaxPasses, unavailable' \in BOOLEAN,
             aiStatus' \in {aiStatus, "disabled"}
      PROVE  MetadataInv'
  <2> DEFINE p == [pass[w] EXCEPT !.at = to]
  <2>1. pass[w] \in Passes
    BY <1>0
  <2>2. p \in Passes /\ p.at = to
    BY <1>2, <2>1 DEF Passes
  <2>3. pass' = [pass EXCEPT ![w] = p]
    BY <1>2 DEF PassStep
  <2> HIDE DEF p
  <2> QED BY <1>0, <1>2, <2>2, <2>3, AskingKeeps
<1>3. ASSUME NEW w \in AnalysisWorkers,
             \/ ClearIssues(w) \/ FinalizeDisabled(w) \/ ExtractLocalMusicFeatures(w)
             \/ CreateUnifiedAiMetadata(w) \/ PersistFails(w) \/ ReportUnavailable(w)
      PROVE  MetadataInv'
  <2>1. passes' \in 0 .. MaxPasses
    BY <1>0, <1>3, AnalysisBounds DEF ClearIssues, FinalizeDisabled, ExtractLocalMusicFeatures,
         CreateUnifiedAiMetadata, PersistFails, ReportUnavailable
  <2>2. /\ unavailable' \in BOOLEAN /\ aiStatus' \in {aiStatus, "disabled"}
        /\ UNCHANGED <<measurable, termActive, providerRun, suggestions, assigned>>
    BY <1>0, <1>3 DEF ClearIssues, FinalizeDisabled, ExtractLocalMusicFeatures,
         CreateUnifiedAiMetadata, PersistFails, ReportUnavailable, analysisRows
  <2>3. PICK to \in {"measure", "ask", "report", "finalize_partial", "idle"} :
          \E from \in {"idle", "measure", "ask", "persist", "report"} : PassStep(w, from, to)
    BY <1>3 DEF ClearIssues, FinalizeDisabled, ExtractLocalMusicFeatures,
         CreateUnifiedAiMetadata, PersistFails, ReportUnavailable
  <2> QED BY <1>2, <2>1, <2>2, <2>3
<1>4. ASSUME NEW w \in AnalysisWorkers, ModelAnswers(w) PROVE MetadataInv'
  <2>1. PICK reply \in Answers :
          pass' = [pass EXCEPT ![w].at = "persist", ![w].result = NormalizeMetadata(reply)]
    BY <1>4 DEF ModelAnswers
  <2> DEFINE p == [pass[w] EXCEPT !.at = "persist", !.result = NormalizeMetadata(reply)]
  <2>2. pass[w] \in Passes
    BY <1>0
  <2>3. NormalizeMetadata(reply) \in MetadataResults /\ NormalizeMetadata(reply) # NoResult
    BY ResultsOfAnswers
  <2>4. p \in Passes /\ p.at = "persist" /\ p.result = NormalizeMetadata(reply)
    BY <2>2, <2>3 DEF Passes
  <2>5. pass' = [pass EXCEPT ![w] = p]
    BY <1>0, <2>1
  <2>6. /\ UNCHANGED <<measurable, termActive, providerRun, suggestions, assigned>>
        /\ UNCHANGED <<passes, unavailable, aiStatus>>
    BY <1>4 DEF ModelAnswers, analysisRows
  <2> HIDE DEF p
  <2> QED BY <1>0, <2>3, <2>4, <2>5, <2>6, AskingKeeps
<1>5. ASSUME NEW w \in AnalysisWorkers, ModelFails(w) PROVE MetadataInv'
  <2> DEFINE p == [pass[w] EXCEPT !.asked = @ + 1]
  <2>1. pass[w] \in Passes /\ pass[w].at = "ask" /\ pass[w].asked < ModelCount
    BY <1>0, <1>5 DEF ModelFails
  <2>2. pass[w].asked + 1 \in 0 .. ModelCount
    BY <2>1, AnalysisBounds DEF Passes
  <2>3. p \in Passes /\ p.at = "ask"
    BY <2>1, <2>2 DEF Passes
  <2>4. pass' = [pass EXCEPT ![w] = p]
    BY <1>0, <1>5 DEF ModelFails
  <2>5. /\ UNCHANGED <<measurable, termActive, providerRun, suggestions, assigned>>
        /\ UNCHANGED <<passes, unavailable, aiStatus>>
    BY <1>5 DEF ModelFails, analysisRows
  <2> HIDE DEF p
  <2> QED BY <1>0, <2>3, <2>4, <2>5, AskingKeeps
<1>6. ASSUME NEW w \in AnalysisWorkers, FinalizeComplete(w) \/ FinalizePartial(w) \/ AnalysisCrashes(w)
      PROVE  MetadataInv'
  <2>1. IdlePass \in Passes /\ IdlePass.at = "idle"
    BY AnalysisBounds DEF IdlePass, Passes, NoResult, MetadataResults
  <2>2. pass' = [pass EXCEPT ![w] = IdlePass]
        /\ UNCHANGED <<measurable, termActive, providerRun, suggestions, assigned>>
        /\ UNCHANGED <<passes, unavailable>>
    BY <1>6 DEF FinalizeComplete, FinalizePartial, AnalysisCrashes, analysisRows
  <2>3. aiStatus' \in {aiStatus, "complete", "failed"}
        /\ (aiStatus' = "complete" => aiStatus = "complete" \/ pass[w].at = "finalize")
    BY <1>6 DEF FinalizeComplete, FinalizePartial, AnalysisCrashes
  <2> HIDE DEF IdlePass
  <2> QED BY <1>0, <2>1, <2>2, <2>3, AskingKeeps
<1> QED BY <1>1, <1>3, <1>4, <1>5, <1>6, AnswerKeeps DEF MetadataNext

LEMMA MetadataInvHolds == MetadataSpec => []MetadataInv
<1> QED BY MetadataStarts, MetadataStep, PTL DEF MetadataSpec

\* The suggestions that are shown are those of the one result that is stored, whatever
\* number of workers pass over the Revision, in any order, with any number of models.
THEOREM SuggestionsMatch == MetadataSpec => []SuggestionsAreOfOneResult
<1>1. MetadataInv => SuggestionsAreOfOneResult
  BY DEF MetadataInv
<1> QED BY <1>1, MetadataInvHolds, PTL

-----------------------------------------------------------------------------
(***************************************************************************)
(* StorageSwitch: what a row names can be opened, for any set of Masters.  *)
(* Every object of the script's list has a row, so that no new object      *)
(* takes its place, and the object it is checking is already stored on     *)
(* OneDrive.                                                               *)
(***************************************************************************)
\* A row names a place that has the object, and OneDrive only with the item id, where one
\* is recorded; the script handles objects with a row, and checks one that it has copied.
StorageInv ==
  /\ row \in [AudioFiles -> [origin : {"none", "upload", "generated", "preview"},
                             backend : Backends, itemKnown : BOOLEAN]]
  /\ copies \in [AudioFiles -> SUBSET Backends]
  /\ provider \in Backends
  /\ candidates \subseteq {o \in AudioFiles : HasRow(o)}
  /\ unchecked \subseteq {o \in candidates : "onedrive" \in copies[o]}
  /\ \A o \in AudioFiles : HasRow(o) =>
       /\ row[o].backend \in copies[o]
       /\ RecordsItem(row[o].origin) /\ row[o].backend = "onedrive" => row[o].itemKnown

\* What the invariant is for: the place of a row finds the object.
LEMMA InvOpens == StorageInv => MovedAudioOpens
  BY DEF StorageInv, MovedAudioOpens, OpensStoredAudio, Finds

\* An object is stored with the place that its row then names.
LEMMA StoringKeeps ==
  ASSUME StorageInv, NEW o \in AudioFiles, NEW place \in Backends,
         NEW origin \in {"upload", "generated", "preview"},
         StoreNew(o, origin, place)
  PROVE  StorageInv'
<1>1. NewRow(origin, place) \in [origin : {"none", "upload", "generated", "preview"},
                                   backend : Backends, itemKnown : BOOLEAN]
  BY DEF NewRow, RecordsItem
<1>2. /\ row' = [row EXCEPT ![o] = NewRow(origin, place)]
      /\ copies' = [copies EXCEPT ![o] = {place}]
      /\ o \notin candidates
      /\ UNCHANGED <<provider, candidates, unchecked>>
  BY DEF StoreNew, StorageInv
<1>3. /\ row' \in [AudioFiles -> [origin : {"none", "upload", "generated", "preview"},
                                  backend : Backends, itemKnown : BOOLEAN]]
      /\ copies' \in [AudioFiles -> SUBSET Backends]
      /\ provider' \in Backends
  BY <1>1, <1>2 DEF StorageInv
<1>4. \A p \in AudioFiles \ {o} : row'[p] = row[p] /\ copies'[p] = copies[p]
  BY <1>2 DEF StorageInv
<1>5. row'[o] = NewRow(origin, place) /\ copies'[o] = {place}
  BY <1>2 DEF StorageInv
<1>6. candidates' \subseteq {p \in AudioFiles : HasRow(p)'}
  BY <1>2, <1>4 DEF StorageInv, HasRow
<1>7. unchecked' \subseteq {p \in candidates' : "onedrive" \in copies'[p]}
  BY <1>2, <1>4 DEF StorageInv
<1>8. ASSUME NEW p \in AudioFiles, HasRow(p)'
      PROVE  /\ row'[p].backend \in copies'[p]
             /\ RecordsItem(row'[p].origin) /\ row'[p].backend = "onedrive" => row'[p].itemKnown
  <2>1. CASE p = o
    <3>1. /\ row'[p].backend = place
          /\ row'[p].itemKnown = (place = "onedrive" /\ RecordsItem(origin))
          /\ row'[p].origin = origin /\ copies'[p] = {place}
      BY <1>5, <2>1 DEF NewRow
    <3>2. QED
      BY <3>1
  <2>2. CASE p # o
    BY <1>4, <1>8, <2>2 DEF StorageInv, HasRow
  <2>3. QED
    BY <2>1, <2>2
<1>9. QED
  BY <1>3, <1>6, <1>7, <1>8 DEF StorageInv

\* A further copy takes nothing away; what is being checked afterwards has its copy.
LEMMA CopyingKeeps ==
  ASSUME StorageInv, NEW o \in AudioFiles,
         copies' \in {copies, [copies EXCEPT ![o] = @ \cup {"onedrive"}]},
         candidates' \subseteq candidates,
         unchecked' \subseteq {p \in candidates' : "onedrive" \in copies'[p]},
         UNCHANGED <<provider, row>>
  PROVE  StorageInv'
<1>1. copies' \in [AudioFiles -> SUBSET Backends]
  BY DEF StorageInv, Backends
<1>2. \A p \in AudioFiles : copies[p] \subseteq copies'[p]
  BY DEF StorageInv
<1>3. \A p \in AudioFiles : HasRow(p)' <=> HasRow(p)
  BY DEF HasRow
<1>4. QED
  BY <1>1, <1>2, <1>3 DEF StorageInv

\* A row is repointed to the copy that was checked, with the item id that is recorded.
LEMMA RepointingKeeps ==
  ASSUME StorageInv, NEW o \in AudioFiles, RepointRow(o)
  PROVE  StorageInv'
<1>1. /\ o \in candidates /\ "onedrive" \in copies[o]
      /\ row' = [row EXCEPT ![o] = Repointed(o)]
      /\ candidates' \subseteq candidates /\ unchecked' = {}
      /\ UNCHANGED <<provider, copies>>
  BY DEF RepointRow, StorageInv
<1>2. /\ Repointed(o) \in [origin : {"none", "upload", "generated", "preview"},
                           backend : Backends, itemKnown : BOOLEAN]
      /\ Repointed(o).origin = row[o].origin
      /\ Repointed(o).backend = "onedrive"
      /\ Repointed(o).itemKnown = RecordsItem(row[o].origin)
  <2>1. row[o] \in [origin : {"none", "upload", "generated", "preview"},
                    backend : Backends, itemKnown : BOOLEAN]
    BY DEF StorageInv
  <2>2. RecordsItem(row[o].origin) \in BOOLEAN /\ "onedrive" \in Backends
    BY DEF RecordsItem, Backends
  <2>3. QED
    BY <2>1, <2>2 DEF Repointed
<1>3. /\ row' \in [AudioFiles -> [origin : {"none", "upload", "generated", "preview"},
                                  backend : Backends, itemKnown : BOOLEAN]]
      /\ row'[o] = Repointed(o)
      /\ \A p \in AudioFiles \ {o} : row'[p] = row[p]
  BY <1>1, <1>2 DEF StorageInv
<1>4. \A p \in AudioFiles : HasRow(p)' <=> HasRow(p)
  BY <1>2, <1>3 DEF HasRow
<1>5. ASSUME NEW p \in AudioFiles, HasRow(p)'
      PROVE  /\ row'[p].backend \in copies'[p]
             /\ RecordsItem(row'[p].origin) /\ row'[p].backend = "onedrive" => row'[p].itemKnown
  <2>1. CASE p = o
    BY <1>1, <1>2, <1>3, <2>1
  <2>2. CASE p # o
    BY <1>1, <1>3, <1>4, <1>5, <2>2 DEF StorageInv
  <2>3. QED
    BY <2>1, <2>2
<1>6. QED
  BY <1>1, <1>3, <1>4, <1>5 DEF StorageInv

\* Every step keeps the invariant: of new objects, of the script, of the operator.
LEMMA StorageStep == StorageInv /\ [StorageNext]_storedVars => StorageInv'
<1> SUFFICES ASSUME StorageInv, [StorageNext]_storedVars
             PROVE  StorageInv'
  OBVIOUS
<1>1. ASSUME NEW m \in StoredMasters,
             CompleteUpload(m) \/ SaveGeneration(m) \/ ProcessPreview(m)
      PROVE  StorageInv'
  <2>1. <<m, "source">> \in AudioFiles /\ <<m, "preview">> \in AudioFiles
    BY DEF AudioFiles
  <2>2. provider \in Backends /\ row[<<m, "source">>].backend \in Backends
    BY <2>1 DEF StorageInv
  <2>3. CASE CompleteUpload(m)
    BY <2>1, <2>2, <2>3, StoringKeeps DEF CompleteUpload
  <2>4. CASE SaveGeneration(m)
    BY <2>1, <2>2, <2>4, StoringKeeps DEF SaveGeneration
  <2>5. CASE ProcessPreview(m)
    BY <2>1, <2>2, <2>5, StoringKeeps DEF ProcessPreview
  <2>6. QED
    BY <1>1, <2>3, <2>4, <2>5
<1>2. ASSUME NEW o \in AudioFiles,
             CopyCandidate(o) \/ CopyFails(o) \/ RepointRow(o) \/ LeaveOnLocal(o)
      PROVE  StorageInv'
  <2>1. CASE CopyCandidate(o)
    <3>1. "onedrive" \in copies'[o] /\ unchecked' = {o} /\ o \in candidates'
      BY <2>1 DEF CopyCandidate, StorageInv
    <3>2. QED
      BY <2>1, <3>1, CopyingKeeps DEF CopyCandidate
  <2>2. CASE CopyFails(o)
    BY <2>2, CopyingKeeps DEF CopyFails
  <2>3. CASE RepointRow(o)
    BY <2>3, RepointingKeeps
  <2>4. CASE LeaveOnLocal(o)
    BY <2>4, CopyingKeeps DEF LeaveOnLocal
  <2>5. QED
    BY <1>2, <2>1, <2>2, <2>3, <2>4
<1>3. CASE SelectCandidates
  BY <1>3 DEF SelectCandidates, StorageInv, HasRow
<1>4. CASE SwitchProvider
  BY <1>4 DEF SwitchProvider, StorageInv, HasRow
<1>5. CASE MigrationStops
  BY <1>5 DEF MigrationStops, StorageInv, HasRow
<1>6. CASE \E m \in StoredMasters : ProcessRevision(m)
  BY <1>6 DEF ProcessRevision, StorageInv, HasRow
<1>7. CASE UNCHANGED storedVars
  BY <1>7 DEF storedVars, StorageInv, HasRow
<1>8. QED
  BY <1>1, <1>2, <1>3, <1>4, <1>5, <1>6, <1>7 DEF StorageNext

\* For any Masters: whatever is switched, migrated or interrupted, an uploaded file and a
\* preview open with the place their row names (MovedAudioOpens).
THEOREM MovingStrandsNothing == StorageSpec => []MovedAudioOpens
<1>1. StorageInit => StorageInv
  BY DEF StorageInit, StorageInv, NoRow, HasRow, Backends
<1>2. QED
  BY <1>1, StorageStep, InvOpens, PTL DEF StorageSpec

\* The script checks one object at a time.
OneIsChecked ==
  /\ analysed \in [StoredMasters -> {"no", "measured", "unreadable"}]
  /\ unchecked = {} \/ \E o \in AudioFiles : unchecked = {o}

LEMMA OneIsCheckedStep == OneIsChecked /\ [StorageNext]_storedVars => OneIsChecked'
<1> SUFFICES ASSUME OneIsChecked, [StorageNext]_storedVars PROVE OneIsChecked'
  OBVIOUS
<1>1. ASSUME NEW m \in StoredMasters,
             CompleteUpload(m) \/ SaveGeneration(m) \/ ProcessPreview(m) \/ ProcessRevision(m)
      PROVE  OneIsChecked'
  BY <1>1 DEF CompleteUpload, SaveGeneration, ProcessPreview, ProcessRevision, StoreNew, OneIsChecked
<1>2. CASE SwitchProvider \/ SelectCandidates \/ MigrationStops \/ UNCHANGED storedVars
  BY <1>2 DEF SwitchProvider, SelectCandidates, MigrationStops, storedVars, OneIsChecked
<1>3. ASSUME NEW o \in AudioFiles,
             CopyCandidate(o) \/ CopyFails(o) \/ RepointRow(o) \/ LeaveOnLocal(o)
      PROVE  OneIsChecked'
  BY <1>3 DEF CopyCandidate, CopyFails, RepointRow, LeaveOnLocal, OneIsChecked
<1> QED BY <1>1, <1>2, <1>3 DEF StorageNext

\* The variables of the storage switch are in their domains, and the script checks at most one
\* object, one of its list.
THEOREM StorageTypesAreKept == StorageSpec => []StorageTypeOK
<1>1. StorageInit => StorageInv /\ OneIsChecked
  BY DEF StorageInit, StorageInv, NoRow, HasRow, Backends, OneIsChecked
<1>2. StorageInv /\ OneIsChecked => StorageTypeOK
  <2> SUFFICES ASSUME StorageInv, OneIsChecked PROVE StorageTypeOK
    OBVIOUS
  <2>1. Cardinality(unchecked) <= 1
    <3>1. CASE unchecked = {}
      BY <3>1, FS_EmptySet
    <3>2. ASSUME NEW o \in AudioFiles, unchecked = {o} PROVE Cardinality(unchecked) <= 1
      <4>1. Cardinality({o}) = 1
        BY FS_Singleton
      <4> QED BY <3>2, <4>1
    <3> QED BY <3>1, <3>2 DEF OneIsChecked
  <2> QED BY <2>1 DEF StorageInv, OneIsChecked, StorageTypeOK
<1> QED BY <1>1, <1>2, StorageStep, OneIsCheckedStep, PTL DEF StorageSpec

-----------------------------------------------------------------------------
(***************************************************************************)
(* Player: the player tells what sounds, for any Tracks and any number of  *)
(* plays under way.                                                        *)
(***************************************************************************)
\* Why the player is right about what sounds: when it names a Track that the element does
\* not have, it has said so, or an answer that says so is still to come.  A play that has
\* its answer (step "start") can not excuse it: the element had its Track then.
NamesWhatItHas ==
  /\ \A p \in Plays : plays[p].step # "idle" => plays[p].track \in PlayedTracks
  /\ element.playing => shownTrack # NoTrack
  /\ shownTrack # NoTrack /\ element.src # shownTrack =>
       playerError \/ \E p \in Plays : plays[p].step = "fetch"
  /\ loading => \E p \in Plays : plays[p].step # "idle"

PlayerInv == PlayerTypeOK /\ NamesWhatItHas

-----------------------------------------------------------------------------
\* What the queue holds are Tracks of the Library.
LEMMA QueueHoldsTracks ==
  ASSUME PlayerTypeOK, NEW i \in DOMAIN playQueue
  PROVE  playQueue[i] \in PlayedTracks
<1>1. CASE playQueue = <<>>
  BY <1>1
<1>2. CASE playQueue \in ResultPages
  BY <1>2 DEF ResultPages, Injection
<1>3. CASE playQueue \in {<<t>> : t \in PlayedTracks}
  BY <1>3
<1> QED BY <1>1, <1>2, <1>3 DEF PlayerTypeOK

\* A call of playTrack, from whichever button, keeps the invariant.
LEMMA PlayTrackKeeps ==
  ASSUME PlayerInv, NEW p \in Plays, NEW t \in PlayedTracks, PlayTrack(p, t),
         element' \in [src : PlayedTracks \cup {NoTrack}, by : Plays \cup {NoTrack}, playing : BOOLEAN],
         element'.playing => element.playing, element'.src = element.src,
         playQueue' = <<>> \/ playQueue' \in ResultPages \cup {<<s>> : s \in PlayedTracks}
  PROVE  PlayerInv'
<1>1. PlayerTypeOK'
  BY DEF PlayerInv, PlayerTypeOK, PlayTrack
<1>2. plays' = [plays EXCEPT ![p] = [step |-> "fetch", track |-> t]]
  BY DEF PlayTrack
<1>3. plays'[p].step = "fetch" /\ plays'[p].track = t
  BY <1>2 DEF PlayerInv, PlayerTypeOK
<1>4. \A q \in Plays \ {p} : plays'[q] = plays[q]
  BY <1>2 DEF PlayerInv, PlayerTypeOK
<1>5. NamesWhatItHas'
  BY <1>3, <1>4 DEF PlayerInv, NamesWhatItHas, PlayTrack
<1> QED BY <1>1, <1>5 DEF PlayerInv

\* The invariant holds at first.
LEMMA PlayerStarts == PlayerInit => PlayerInv
<1> SUFFICES ASSUME PlayerInit PROVE PlayerInv
  OBVIOUS
<1>1. shownTrack = NoTrack /\ ~element.playing /\ playQueue = <<>> /\ ~loading
  BY DEF PlayerInit
<1>2. \A p \in Plays : plays[p].step = "idle"
  BY DEF PlayerInit, IdlePlay
<1>3. PlayerTypeOK
  <2>1. element \in [src : PlayedTracks \cup {NoTrack}, by : Plays \cup {NoTrack}, playing : BOOLEAN]
    BY DEF PlayerInit
  <2>2. plays \in [Plays -> [step : {"idle", "fetch", "start"}, track : PlayedTracks \cup {NoTrack}]]
    BY DEF PlayerInit, IdlePlay
  <2> QED BY <1>1, <2>1, <2>2 DEF PlayerInit, PlayerTypeOK
<1>4. NamesWhatItHas
  BY <1>1, <1>2 DEF NamesWhatItHas
<1> QED BY <1>3, <1>4 DEF PlayerInv

\* Every step keeps it.
LEMMA PlayerStep == PlayerInv /\ [PlayerNext]_playerVars => PlayerInv'
<1> SUFFICES ASSUME PlayerInv, [PlayerNext]_playerVars PROVE PlayerInv'
  OBVIOUS
<1> USE NoTrackAssumption
<1>1. ASSUME NEW p \in Plays, PlaybackRefused(p) PROVE PlayerInv'
  BY <1>1 DEF PlaybackRefused, PlayerInv, PlayerTypeOK, NamesWhatItHas, IdlePlay
<1>2. ASSUME NEW p \in Plays, ShowPreparing(p) PROVE PlayerInv'
  BY <1>2 DEF ShowPreparing, PlayerInv, PlayerTypeOK, NamesWhatItHas, IdlePlay
<1>3. ASSUME NEW p \in Plays, SelectSource(p) PROVE PlayerInv'
  BY <1>3 DEF SelectSource, PlayerInv, PlayerTypeOK, NamesWhatItHas, IdlePlay
<1>4. ASSUME NEW p \in Plays, PlaySettles(p) PROVE PlayerInv'
  BY <1>4 DEF PlaySettles, PlayerInv, PlayerTypeOK, NamesWhatItHas, IdlePlay
<1>5. ASSUME NEW p \in Plays, NEW t \in PlayedTracks, PlayFromTrackPage(p, t) PROVE PlayerInv'
  <2>1. playQueue' = <<t>> /\ PlayTrack(p, t) /\ element' = element
    BY <1>5 DEF PlayFromTrackPage
  <2> QED BY <2>1, PlayTrackKeeps DEF PlayerInv, PlayerTypeOK
<1>6. ASSUME NEW p \in Plays, NEW t \in PlayedTracks, NEW result \in ResultPages,
             PlayFromLibrary(p, result, t)
      PROVE  PlayerInv'
  <2>1. playQueue' = result /\ PlayTrack(p, t) /\ element' = element
    BY <1>6 DEF PlayFromLibrary
  <2> QED BY <2>1, PlayTrackKeeps DEF PlayerInv, PlayerTypeOK
<1>7. ASSUME NEW p \in Plays, NEW direction \in {-1, 1}, Move(p, direction) PROVE PlayerInv'
  <2>1. playQueue[QueueIndex + direction] \in PlayedTracks
    BY <1>7, QueueHoldsTracks DEF Move, PlayerInv
  <2>2. /\ PlayTrack(p, playQueue[QueueIndex + direction])
        /\ playQueue' = playQueue /\ element' = element
    BY <1>7 DEF Move
  <2> QED BY <2>1, <2>2, PlayTrackKeeps DEF PlayerInv, PlayerTypeOK
<1>8. ASSUME NEW p \in Plays, NEW i \in DOMAIN playQueue, SelectQueueItem(p, i) PROVE PlayerInv'
  <2>1. playQueue[i] \in PlayedTracks
    BY QueueHoldsTracks DEF PlayerInv
  <2>2. PlayTrack(p, playQueue[i]) /\ playQueue' = playQueue /\ element' = element
    BY <1>8 DEF SelectQueueItem
  <2> QED BY <2>1, <2>2, PlayTrackKeeps DEF PlayerInv, PlayerTypeOK
<1>9. ASSUME NEW p \in Plays, TrackEnds(p) PROVE PlayerInv'
  <2>1. element' = [element EXCEPT !.playing = FALSE]
    BY <1>9 DEF TrackEnds
  <2>2. CASE shownTrack # NoTrack /\ QueueIndex + 1 \in DOMAIN playQueue
    <3>1. playQueue[QueueIndex + 1] \in PlayedTracks
      BY <2>2, QueueHoldsTracks DEF PlayerInv
    <3>2. PlayTrack(p, playQueue[QueueIndex + 1]) /\ playQueue' = playQueue
      BY <1>9, <2>2 DEF TrackEnds
    <3> QED BY <2>1, <3>1, <3>2, PlayTrackKeeps DEF PlayerInv, PlayerTypeOK
  <2>3. CASE ~(shownTrack # NoTrack /\ QueueIndex + 1 \in DOMAIN playQueue)
    <3>1. UNCHANGED <<shownTrack, shownSource, playQueue, playerError, loading, plays>>
      BY <1>9, <2>3 DEF TrackEnds
    <3> QED BY <2>1, <3>1 DEF PlayerInv, PlayerTypeOK, NamesWhatItHas
  <2> QED BY <2>2, <2>3
<1>10. CASE TogglePlayback
  <2>1. UNCHANGED <<shownTrack, shownSource, playQueue, loading, plays>> /\ shownTrack # NoTrack
    BY <1>10 DEF TogglePlayback
  <2>2. CASE element' = [element EXCEPT !.playing = ~@] /\ playerError' = playerError
    <3>1. /\ element' \in [src : PlayedTracks \cup {NoTrack}, by : Plays \cup {NoTrack}, playing : BOOLEAN]
          /\ element'.src = element.src
      BY <2>2 DEF PlayerInv, PlayerTypeOK
    <3> QED BY <2>1, <2>2, <3>1 DEF PlayerInv, PlayerTypeOK, NamesWhatItHas
  <2>3. CASE playerError' = TRUE /\ element' = element
    BY <2>1, <2>3 DEF PlayerInv, PlayerTypeOK, NamesWhatItHas
  <2> QED BY <1>10, <2>2, <2>3 DEF TogglePlayback
<1>11. CASE AudioFails
  BY <1>11 DEF AudioFails, PlayerInv, PlayerTypeOK, NamesWhatItHas
<1>12. CASE Close
  BY <1>12 DEF Close, PlayerInv, PlayerTypeOK, NamesWhatItHas
<1>13. CASE UNCHANGED playerVars
  BY <1>13 DEF playerVars, PlayerInv, PlayerTypeOK, NamesWhatItHas, ResultPages
<1> QED
  BY <1>1, <1>2, <1>3, <1>4, <1>5, <1>6, <1>7, <1>8, <1>9, <1>10, <1>11, <1>12, <1>13
  DEF PlayerNext

-----------------------------------------------------------------------------
\* Whatever order the answers of any number of plays come in, nothing sounds without a player
\* that names it, or says that there is a problem, or is about to; and no button waits for
\* a play that is over (player-provider.tsx).
THEOREM PlayerIsHonest == PlayerSpec => []PlayerTellsWhatSounds
<1>1. PlayerInv => PlayerTellsWhatSounds
  BY DEF PlayerInv, PlayerTypeOK, NamesWhatItHas, PlayerTellsWhatSounds
<1> QED BY <1>1, PlayerStarts, PlayerStep, PTL DEF PlayerSpec

-----------------------------------------------------------------------------
(***************************************************************************)
(* The composition.                                                        *)
(***************************************************************************)
\* Side by side every part keeps to its own specification: what is proved of one alone holds
\* of it in the composition.
THEOREM EveryPartRuns ==
  Spec => /\ UploadSpec /\ FormSpec /\ GenerationSpec /\ ToolSpec
          /\ MeasureSpec /\ MetadataSpec /\ StorageSpec /\ PlayerSpec
<1>1. Init => /\ UploadInit /\ FormInit /\ GenerationInit /\ ToolInit
              /\ MeasureInit /\ MetadataInit /\ StorageInit /\ PlayerInit
  BY DEF Init
<1>2. ASSUME [Next]_draftsVars
      PROVE  /\ [UploadNext]_uploadVars /\ [FormNext]_formVars
             /\ [GenerationNext]_generationVars /\ [ToolNext]_toolVars
             /\ [MeasureNext]_measureVars /\ [MetadataNext]_metadataVars
             /\ [StorageNext]_storedVars /\ [PlayerNext]_playerVars
  BY <1>2 DEF Next, draftsVars
<1> QED BY <1>1, <1>2, PTL DEF Spec, UploadSpec, FormSpec, GenerationSpec, ToolSpec, MeasureSpec,
           MetadataSpec, StorageSpec, PlayerSpec

\* Every variable of the drafts is in its domain, whatever part moves.
THEOREM DraftsTypesAreKept == Spec => []TypeOK
<1>1. /\ UploadTypeOK /\ FormTypeOK /\ GenerationTypeOK /\ ToolTypeOK
      /\ MeasureTypeOK /\ MetadataTypeOK /\ StorageTypeOK /\ PlayerTypeOK
      => TypeOK
  BY DEF TypeOK
<1>2. /\ FormInv => FormTypeOK
      /\ GenerationInv => GenerationTypeOK
      /\ MetadataInv => MetadataTypeOK
  BY DEF FormInv, GenerationInv, MetadataInv
<1>3. ToolSpec => []ToolTypeOK
  <2>1. ToolInv => ToolTypeOK
    BY DEF ToolInv
  <2> QED BY <2>1, ToolStarts, ToolStep, PTL DEF ToolSpec
<1>4. PlayerSpec => []PlayerTypeOK
  <2>1. PlayerInv => PlayerTypeOK
    BY DEF PlayerInv
  <2> QED BY <2>1, PlayerStarts, PlayerStep, PTL DEF PlayerSpec
<1> QED BY <1>1, <1>2, <1>3, <1>4, EveryPartRuns, UploadTypesAreKept, FormInvHolds,
           GenerationInvHolds, MeasureInvHolds, MeasureTypesHold, MetadataInvHolds,
           StorageTypesAreKept, PTL

=============================================================================
