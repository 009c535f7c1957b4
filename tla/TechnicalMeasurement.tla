------------------------- MODULE TechnicalMeasurement -------------------------
(***************************************************************************)
(* What the technical half of the analysis records (processing/service.ts, *)
(* processing/repository.ts, lib/audio): for every source file of a        *)
(* Revision a checksum and measurements, and for the Revision its issues - *)
(* of a file by itself, of a Stem against its Master, and of a file whose  *)
(* bytes another file of the catalogue has.  Every statement commits by    *)
(* itself, a worker that lost its lease goes on, and passes over one       *)
(* Revision or over several overlap.  The job that a pass belongs to is    *)
(* ProcessingQueue's.                                                      *)
(***************************************************************************)
EXTENDS Naturals, FiniteSets

CONSTANTS
  MeasuredRevisions,  \* Revisions with a Master and possibly a Stem
  MeasuringWorkers,   \* the workers
  MaxMeasurements     \* bound: passes

ASSUME MeasurementAssumption == MaxMeasurements \in Nat

VARIABLES
  bytes,          \* bytes[f]: what is stored for a source file
  checksum,       \* checksum[f]: what checksum_sha256 says of it
  issues,         \* issues[r]: the rows of qc_issue, pairs of a file and a code
  technicalOf,    \* technicalOf[r]: technical_status
  measuring,      \* measuring[w]: the pass of a worker
  measurements,   \* passes begun
  lastPass,       \* lastPass[r]: the worker of the latest pass that cleared r's issues, in a
                  \* set; empty when it has written its own
  due             \* due[r]: the issues that pass had to find, as things were when it began

measureVars == <<bytes, checksum, issues, technicalOf, measuring, measurements, lastPass, due>>

SourceRoles == {"master", "stem"}
SourceFiles == MeasuredRevisions \X SourceRoles
NoPass == [at |-> "idle", of |-> {}, role |-> "master", found |-> {}, unwritten |-> {}]

\* The verified source files of a Revision; the Master is the first of them.
LoadProcessingSourceFiles(r) == {f \in SourceFiles : f[1] = r /\ bytes[f] # "none"}

-------------------------------------------------------------------------------
(* The issues.                                                             *)

\* Of a file by itself: silence, peaks, layout; one stands for all.
BuildFileQcIssues(f) == IF bytes[f] = "silent_start" THEN {<<f, "excessive_leading_silence">>} ELSE {}

\* Different bytes have different durations.
BuildStemAlignmentIssue(r) ==
  {<<f, "stem_duration_mismatch">> :
     f \in {g \in LoadProcessingSourceFiles(r) : g[2] = "stem" /\ bytes[g] # bytes[<<r, "master">>]}}

\* The other files that have been recorded with the same bytes.
FindAudioFileIdsByChecksum(f) == {g \in SourceFiles \ {f} : checksum[g] = bytes[f]}

PossibleDuplicateIssue(f) ==
  IF FindAudioFileIdsByChecksum(f) = {} THEN {} ELSE {<<f, "possible_duplicate">>}

IssuesDue(r) ==
  BuildStemAlignmentIssue(r)
    \cup UNION {BuildFileQcIssues(f) \cup PossibleDuplicateIssue(f) : f \in LoadProcessingSourceFiles(r)}

-------------------------------------------------------------------------------
(* One pass.                                                               *)

MeasureStep(w, from, change) ==
  measuring[w].at = from /\ measuring' = [measuring EXCEPT ![w] = change]

RevisionOf(w) == CHOOSE r \in MeasuredRevisions : r \in measuring[w].of

\* beginRevisionProcessing, whose conditions ProcessingQueue has.
BeginMeasuring(w, r) ==
  /\ measurements < MaxMeasurements
  /\ MeasureStep(w, "idle", [NoPass EXCEPT !.at = "clear", !.of = {r}])
  /\ measurements' = measurements + 1
  /\ technicalOf' = [technicalOf EXCEPT ![r] = IF @ = "complete" THEN @ ELSE "processing"]
  /\ UNCHANGED <<bytes, checksum, issues, lastPass, due>>

ClearIssuesOf(w) ==
  LET r == RevisionOf(w) IN
  /\ MeasureStep(w, "clear", [measuring[w] EXCEPT !.at = "measure"])
  /\ issues' = [issues EXCEPT ![r] = {}]
  /\ lastPass' = [lastPass EXCEPT ![r] = {w}]
  /\ due' = [due EXCEPT ![r] = IssuesDue(r)]
  /\ UNCHANGED <<bytes, checksum, technicalOf, measurements>>

FileOf(w) == <<RevisionOf(w), measuring[w].role>>

\* The next file is fetched, has the size it should have, is hashed, probed and measured,
\* and its checksum is looked up.
MeasureAudioFile(w) ==
  /\ MeasureStep(w, "measure", [measuring[w] EXCEPT !.at = "persist",
       !.found = @ \cup PossibleDuplicateIssue(FileOf(w))])
  /\ UNCHANGED <<bytes, checksum, issues, technicalOf, measurements, lastPass, due>>

\* One transaction.  After the last file the Stem is compared with the Master.
PersistTechnicalResult(w) ==
  LET r == RevisionOf(w)
      stemLeft == measuring[w].role = "master" /\ bytes[<<r, "stem">>] # "none"
      found == measuring[w].found \cup BuildFileQcIssues(FileOf(w))
      all == found \cup BuildStemAlignmentIssue(r)
  IN
  /\ MeasureStep(w, "persist",
       IF stemLeft THEN [measuring[w] EXCEPT !.at = "measure", !.role = "stem", !.found = found]
                   ELSE [measuring[w] EXCEPT !.at = "issues", !.found = all, !.unwritten = all])
  /\ checksum' = [checksum EXCEPT ![FileOf(w)] = bytes[FileOf(w)]]
  /\ UNCHANGED <<bytes, issues, technicalOf, measurements, lastPass, due>>

\* Mutant: a pass leaves only the issues it found itself.
KeepOnlyFound(w, i) == issues' = [issues EXCEPT ![RevisionOf(w)] = (@ \cap measuring[w].found) \cup {i}]

\* A row is inserted, or the one of the same file and code overwritten.
InsertIssue(w, i) == issues' = [issues EXCEPT ![RevisionOf(w)] = @ \cup {i}]

WriteQcIssue(w, i) ==
  /\ i \in measuring[w].unwritten
  /\ MeasureStep(w, "issues", [measuring[w] EXCEPT !.unwritten = @ \ {i}])
  /\ InsertIssue(w, i)
  /\ UNCHANGED <<bytes, checksum, technicalOf, measurements, lastPass, due>>

MarkTechnicalComplete(w) ==
  LET r == RevisionOf(w) IN
  /\ measuring[w].unwritten = {}
  /\ MeasureStep(w, "issues", NoPass)
  /\ technicalOf' = [technicalOf EXCEPT ![r] = "complete"]
  /\ lastPass' = [lastPass EXCEPT ![r] = @ \ {w}]
  /\ UNCHANGED <<bytes, checksum, issues, measurements, due>>

\* A file is missing, has another size or cannot be decoded, or a statement fails: for good,
\* or to be tried again.
MeasuringFails(w) ==
  /\ measuring[w].at \in {"clear", "measure", "persist", "issues"}
  /\ measuring' = [measuring EXCEPT ![w] = NoPass]
  /\ \/ technicalOf' = [technicalOf EXCEPT ![RevisionOf(w)] = "failed"]
     \/ UNCHANGED technicalOf
  /\ UNCHANGED <<bytes, checksum, issues, measurements, lastPass, due>>

-------------------------------------------------------------------------------
MeasureInit ==
  /\ bytes \in [SourceFiles -> {"none", "song", "silent_start"}]
  /\ \A r \in MeasuredRevisions : bytes[<<r, "master">>] # "none"
  /\ checksum = [f \in SourceFiles |-> "none"]
  /\ issues = [r \in MeasuredRevisions |-> {}]
  /\ technicalOf = [r \in MeasuredRevisions |-> "pending"]
  /\ measuring = [w \in MeasuringWorkers |-> NoPass]
  /\ measurements = 0
  /\ lastPass = [r \in MeasuredRevisions |-> {}]
  /\ due = [r \in MeasuredRevisions |-> {}]

MeasureNext ==
  \E w \in MeasuringWorkers :
    \/ \E r \in MeasuredRevisions : BeginMeasuring(w, r)
    \/ \E i \in measuring[w].unwritten : WriteQcIssue(w, i)
    \/ ClearIssuesOf(w) \/ MeasureAudioFile(w) \/ PersistTechnicalResult(w)
    \/ MarkTechnicalComplete(w) \/ MeasuringFails(w)

MeasureSpec == MeasureInit /\ [][MeasureNext]_measureVars

IssueCodes == {"excessive_leading_silence", "stem_duration_mismatch", "possible_duplicate"}

MeasureTypeOK ==
  /\ bytes \in [SourceFiles -> {"none", "song", "silent_start"}]
  /\ \A f \in SourceFiles : checksum[f] \in {"none", bytes[f]}
  /\ issues \in [MeasuredRevisions -> SUBSET (SourceFiles \X IssueCodes)]
  /\ technicalOf \in [MeasuredRevisions -> {"pending", "processing", "complete", "failed"}]
  /\ \A w \in MeasuringWorkers :
       /\ measuring[w].at \in {"idle", "clear", "measure", "persist", "issues"}
       /\ Cardinality(measuring[w].of) = IF measuring[w].at = "idle" THEN 0 ELSE 1
       /\ measuring[w].role \in SourceRoles
       /\ measuring[w].unwritten \subseteq measuring[w].found
  /\ measurements \in 0 .. MaxMeasurements
  /\ \A r \in MeasuredRevisions : lastPass[r] \subseteq MeasuringWorkers

\* When the pass that cleared a Revision's issues last has come to its end, the Revision has
\* every issue that pass had to find - those of its files, of its Stem, and of bytes the
\* catalogue already had - although passes that lost their lease and know less write theirs
\* before, between and after them (processing/repository.ts, upsertQcIssues).
LastPassIssuesStand ==
  \A r \in MeasuredRevisions :
    lastPass[r] = {} => due[r] \subseteq issues[r]
=============================================================================
