--------------------------- MODULE MetadataAnalysis ---------------------------
(***************************************************************************)
(* The AI half of the analysis of one Revision (lib/analysis, and          *)
(* processing/service.ts from the completed technical half on): measure    *)
(* the Master, ask the configured models one after the other for a         *)
(* description, complete the answer from the measurements, and store it    *)
(* with a suggestion for every field that has a value.  A worker that lost *)
(* its lease goes on, so two passes over the same Revision overlap.        *)
(*                                                                         *)
(* Three fields stand for all: a number (the tempo), a text (the key) and  *)
(* a list of labels (the use case), which the Taxonomy knows or does not.  *)
(***************************************************************************)
EXTENDS Naturals, FiniteSets

CONSTANTS
  AnalysisWorkers,  \* the workers that may hold the Revision's processing job
  ModelCount,       \* the configured models: the primary one and its fallbacks
  MaxPasses         \* bound: passes over the Revision

ASSUME AnalysisBounds == ModelCount \in Nat /\ MaxPasses \in Nat

VARIABLES
  measurable,   \* whether the features of the Master name a tempo and a key
  termActive,   \* whether the Taxonomy's use case is active
  pass,         \* pass[w]: where w's pass over the Revision is
  passes,       \* passes begun
  providerRun,  \* the normalized result of the Revision's provider run
  suggestions,  \* the metadata suggestions: pairs of a field and its value
  assigned,     \* whether the Track has the use case as a suggested term
  unavailable,  \* whether the issue ai_metadata_unavailable is recorded
  aiStatus      \* the analysis's ai_status

analysisRows == <<providerRun, suggestions, assigned>>
metadataVars == <<measurable, termActive, pass, passes, analysisRows, unavailable, aiStatus>>

NoResult == [tempo |-> "none", key |-> "none", useCase |-> "none"]
IdlePass == [at |-> "idle", asked |-> 0, result |-> NoResult]

-------------------------------------------------------------------------------
(* What a model answers, and what is made of it.                           *)

\* A field of an answer is left out, blank, or has a value; at most one of them is other
\* than plainly answered.
PlainAnswer == [tempo |-> "heard", key |-> "heard", useCase |-> "listed"]
Answers ==
  {[PlainAnswer EXCEPT !.tempo = t] : t \in {"absent", "blank", "heard"}}
    \cup {[PlainAnswer EXCEPT !.key = k] : k \in {"absent", "blank", "heard"}}
    \cup {[PlainAnswer EXCEPT !.useCase = u] : u \in {"absent", "listed", "unlisted"}}

\* What the measured features say of a field.
Measured == IF measurable THEN "measured" ELSE "none"

\* A blank text counts as the number 0.
NullableNumber(field) == CASE field = "blank" -> "zero" [] field = "absent" -> "none" [] OTHER -> field

\* A text that is present but blank replaces the measured one by nothing.
CleanedText(field) == IF field = "blank" THEN "none" ELSE field

NormalizeMetadata(answer) ==
  [tempo   |-> IF NullableNumber(answer.tempo) = "none" THEN Measured ELSE NullableNumber(answer.tempo),
   key     |-> IF answer.key = "absent" THEN Measured ELSE CleanedText(answer.key),
   useCase |-> IF answer.useCase = "absent" THEN "none" ELSE answer.useCase]

\* The suggestions a result gives rise to: one for each field with a value.
HasSuggestionValue(result) == {<<f, result[f]>> : f \in {g \in DOMAIN result : result[g] # "none"}}

-------------------------------------------------------------------------------
(* One pass.                                                               *)

PassStep(w, from, to) == pass[w].at = from /\ pass' = [pass EXCEPT ![w].at = to]

\* A worker begins: the issues of earlier passes are cleared, and the technical half runs.
ClearIssues(w) ==
  /\ passes < MaxPasses
  /\ PassStep(w, "idle", "measure")
  /\ passes' = passes + 1
  /\ unavailable' = FALSE
  /\ UNCHANGED <<measurable, termActive, analysisRows, aiStatus>>

\* Without a key for the provider the analysis is complete as it is.
FinalizeDisabled(w) ==
  /\ PassStep(w, "measure", "idle")
  /\ aiStatus' = "disabled"
  /\ UNCHANGED <<measurable, termActive, passes, analysisRows, unavailable>>

\* The features are measured, or measuring fails (a short or unreadable file, the time
\* allowed is over) and the AI half fails with it.  The excerpt and the vocabulary for the
\* prompt are prepared as well; a failure of theirs is only logged.
ExtractLocalMusicFeatures(w) ==
  /\ \/ PassStep(w, "measure", "ask")
     \/ PassStep(w, "measure", "report")
  /\ UNCHANGED <<measurable, termActive, passes, analysisRows, unavailable, aiStatus>>

\* The next model answers with a document that can be read ...
ModelAnswers(w) ==
  /\ pass[w].at = "ask" /\ pass[w].asked < ModelCount
  /\ \E answer \in Answers :
       pass' = [pass EXCEPT ![w].at = "persist", ![w].result = NormalizeMetadata(answer)]
  /\ UNCHANGED <<measurable, termActive, passes, analysisRows, unavailable, aiStatus>>

\* ... or times out, is rate limited or answers something else, and the one after it is asked.
ModelFails(w) ==
  /\ pass[w].at = "ask" /\ pass[w].asked < ModelCount
  /\ pass' = [pass EXCEPT ![w].asked = @ + 1]
  /\ UNCHANGED <<measurable, termActive, passes, analysisRows, unavailable, aiStatus>>

\* No model is left.
CreateUnifiedAiMetadata(w) ==
  /\ pass[w].asked = ModelCount
  /\ PassStep(w, "ask", "report")
  /\ UNCHANGED <<measurable, termActive, passes, analysisRows, unavailable, aiStatus>>

\* A label that an active term answers to becomes a suggested term of the Track.  No pass
\* removes one.
PersistKnownTaxonomySuggestions(result) ==
  assigned' = (assigned \/ (termActive /\ result.useCase = "listed"))

\* Mutant: the suggestions of the run's earlier result are not deleted.
PersistKeepingEarlier(result) ==
  suggestions' = {s \in suggestions : \A f \in DOMAIN result : s[1] = f => result[f] = "none"}
                   \cup HasSuggestionValue(result)

\* The suggestions of the Revision's provider run, which keeps its id from one pass to the
\* next, are replaced.
PersistMetadataSuggestions(result) == suggestions' = HasSuggestionValue(result)

\* One transaction, which the row of the provider run orders.
PersistUnifiedAiMetadata(w) ==
  /\ PassStep(w, "persist", "finalize")
  /\ providerRun' = pass[w].result
  /\ PersistMetadataSuggestions(pass[w].result)
  /\ PersistKnownTaxonomySuggestions(pass[w].result)
  /\ UNCHANGED <<measurable, termActive, passes, unavailable, aiStatus>>

\* It is rolled back as a whole.
PersistFails(w) ==
  /\ PassStep(w, "persist", "report")
  /\ UNCHANGED <<measurable, termActive, passes, analysisRows, unavailable, aiStatus>>

FinalizeComplete(w) ==
  /\ pass[w].at = "finalize" /\ pass' = [pass EXCEPT ![w] = IdlePass]
  /\ aiStatus' = "complete"
  /\ UNCHANGED <<measurable, termActive, passes, analysisRows, unavailable>>

\* A failed AI half is an issue for the Coordinator, not a failure of the Revision.
ReportUnavailable(w) ==
  /\ PassStep(w, "report", "finalize_partial")
  /\ unavailable' = TRUE
  /\ UNCHANGED <<measurable, termActive, passes, analysisRows, aiStatus>>

FinalizePartial(w) ==
  /\ pass[w].at = "finalize_partial" /\ pass' = [pass EXCEPT ![w] = IdlePass]
  /\ aiStatus' = "failed"
  /\ UNCHANGED <<measurable, termActive, passes, analysisRows, unavailable>>

\* The worker's process ends; the job is claimed again when its lease is over.
AnalysisCrashes(w) ==
  /\ pass[w].at # "idle"
  /\ pass' = [pass EXCEPT ![w] = IdlePass]
  /\ UNCHANGED <<measurable, termActive, passes, analysisRows, unavailable, aiStatus>>

\* An administrator deactivates the use case, or activates it again.
SetTermActive ==
  /\ termActive' = ~termActive
  /\ UNCHANGED <<measurable, pass, passes, analysisRows, unavailable, aiStatus>>

-------------------------------------------------------------------------------
MetadataInit ==
  /\ measurable \in BOOLEAN
  /\ termActive \in BOOLEAN
  /\ pass = [w \in AnalysisWorkers |-> IdlePass]
  /\ passes = 0
  /\ providerRun = NoResult /\ suggestions = {} /\ assigned = FALSE
  /\ unavailable = FALSE
  /\ aiStatus = "not_started"

MetadataNext ==
  \/ SetTermActive
  \/ \E w \in AnalysisWorkers :
       \/ ClearIssues(w) \/ FinalizeDisabled(w) \/ ExtractLocalMusicFeatures(w)
       \/ ModelAnswers(w) \/ ModelFails(w) \/ CreateUnifiedAiMetadata(w)
       \/ PersistUnifiedAiMetadata(w) \/ PersistFails(w)
       \/ FinalizeComplete(w) \/ ReportUnavailable(w) \/ FinalizePartial(w)
       \/ AnalysisCrashes(w)

MetadataSpec == MetadataInit /\ [][MetadataNext]_metadataVars

MetadataResults ==
  [tempo : {"none", "zero", "measured", "heard"}, key : {"none", "measured", "heard"},
   useCase : {"none", "listed", "unlisted"}]

MetadataTypeOK ==
  /\ measurable \in BOOLEAN /\ termActive \in BOOLEAN /\ assigned \in BOOLEAN
  /\ unavailable \in BOOLEAN
  /\ pass \in [AnalysisWorkers -> [at : {"idle", "measure", "ask", "persist", "finalize", "report",
                                         "finalize_partial"},
                                   asked : 0 .. ModelCount, result : MetadataResults]]
  /\ passes \in 0 .. MaxPasses
  /\ providerRun \in MetadataResults
  /\ suggestions \subseteq {"tempo", "key", "useCase"} \X {"zero", "measured", "heard", "listed", "unlisted"}
  /\ aiStatus \in {"not_started", "disabled", "complete", "failed"}

\* The suggestions a Coordinator is shown are those of one answer, the one that is stored as
\* the provider's result: passes that overlap, fail or are repeated leave no mixture of two,
\* and no analysis counts as complete without such a result
\* (analysis/repository.ts, persistUnifiedAiMetadata).
SuggestionsAreOfOneResult ==
  /\ suggestions = HasSuggestionValue(providerRun)
  /\ aiStatus = "complete" => providerRun # NoResult
=============================================================================
