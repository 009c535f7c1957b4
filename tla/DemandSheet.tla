----------------------------- MODULE DemandSheet -----------------------------
(***************************************************************************)
(* A Demand, the Tracks that are offered for it and what Coordinators      *)
(* decide about them, while Tracks are published, withdrawn, republished   *)
(* and the taxonomy changes (src/lib/demands, src/features/demands).       *)
(*                                                                         *)
(* Grain: a transaction.  Each locks the Demand's row, and the response's  *)
(* and Track's, and refuses a stale row_version, so a request that         *)
(* succeeds acts on what its page showed; one that fails changes nothing.  *)
(* Of the requirements there is one scalar (a minimum BPM, 0 when it is    *)
(* not given) and the Required terms, of a Track its BPM (0 when missing)  *)
(* and its accepted terms.  A Track has one Revision that is ever          *)
(* published (approved is final), so of the Revisions that responses name  *)
(* only this is left: a Track that was never published cannot be named.    *)
(***************************************************************************)
EXTENDS Naturals, FiniteSets

CONSTANTS
  Songs,           \* Tracks
  Terms,           \* taxonomy terms
  Formats,         \* the terms among them that are a Use Case or a Format
  Tempos,          \* BPM values
  MaxTarget,       \* the largest target_track_count
  MaxReferences,   \* the most referenceTrackIds of a form
  MaxRequirements, \* the most termRequirements of a form
  MaxSelections,   \* MAX_CATALOG_FILTER_SELECTIONS
  MaxBriefs        \* bound: brief_version

ASSUME FormatAssumption == Formats \subseteq Terms
ASSUME TempoAssumption == Tempos \subseteq Nat \ {0}
ASSUME DemandBoundAssumption == MaxTarget \in Nat \ {0} /\ MaxReferences \in Nat /\ MaxBriefs \in Nat \ {0}
ASSUME SelectionAssumption == MaxRequirements \in Nat /\ MaxSelections \in Nat

VARIABLES
  demand,       \* planning.demand and its term requirements
  overdue,      \* response_deadline_on < CURRENT_DATE
  references,   \* planning.demand_reference_track
  response,     \* per Track: planning.demand_response of this Demand
  catalogue,    \* per Track: publication_status, BPM, accepted terms
  activeTerms   \* taxonomy_term.is_active

demandVars == <<demand, overdue, references, response, catalogue, activeTerms>>

NoDemand == [status |-> "none", brief |-> 0, target |-> 0, tempo |-> 0, required |-> {}]
NoResponse == [status |-> "none", brief |-> 0]

DemandInit ==
  /\ demand = NoDemand
  /\ overdue = FALSE
  /\ references = {}
  /\ response = [s \in Songs |-> NoResponse]
  /\ catalogue = [s \in Songs |-> [state |-> "unpublished", tempo |-> 0, terms |-> {}]]
  /\ activeTerms = Terms

Published(s) == catalogue[s].state = "published"

-----------------------------------------------------------------------------
(* Fit, decided twice: for an acceptance and in the list of Demands.        *)

\* The rows fitForTrack reads of a Track: of its terms the active ones.
RowsOfTrack(s) == [tempo |-> catalogue[s].tempo, acceptedTerms |-> catalogue[s].terms \cap activeTerms]

\* Mutant: a BPM that is missing is let through.
EligibleWithoutTempo(s) ==
  LET track == RowsOfTrack(s) IN
  /\ demand.tempo # 0 => track.tempo = 0 \/ track.tempo >= demand.tempo
  /\ demand.required \subseteq activeTerms
  /\ demand.required \subseteq track.acceptedTerms

\* evaluateTrackAgainstDemand(...).eligibleForAcceptance.
EligibleForAcceptance(s) ==
  LET track == RowsOfTrack(s) IN
  /\ demand.tempo # 0 => track.tempo # 0 /\ track.tempo >= demand.tempo
  /\ demand.required \subseteq activeTerms
  /\ demand.required \subseteq track.acceptedTerms

\* VALID_ACCEPTED_SQL: a comparison with NULL is not true.
ValidAccepted(s) ==
  /\ response[s].status = "accepted"
  /\ Published(s)
  /\ demand.tempo = 0 \/ (catalogue[s].tempo # 0 /\ catalogue[s].tempo >= demand.tempo)
  /\ ~ \E term \in demand.required : term \notin activeTerms \/ term \notin catalogue[s].terms

Accepted == {s \in Songs : response[s].status = "accepted"}

\* What transitionDemand counts under its locks.
CoveredBy == {s \in Accepted : Published(s) /\ EligibleForAcceptance(s)}

\* deriveDemandState.
ReadyToFulfill ==
  demand.status = "open" /\ Cardinality({s \in Songs : ValidAccepted(s)}) >= demand.target

-----------------------------------------------------------------------------
(* The Demand.                                                              *)

Meaningful(tempo, required) == tempo # 0 \/ required # {}
HasUseCaseOrFormat(required) == required \cap Formats # {}

\* demandInputSchema; a reference that is added by itself is not counted.
FormAccepted(target, required, refs) ==
  /\ target \in 1 .. MaxTarget
  /\ Cardinality(required) <= MaxRequirements /\ Cardinality(refs) <= MaxReferences

\* validateRelatedInput: of all terms and references, also those that were there before.
RelatedInputValid(required, refs) == required \subseteq activeTerms /\ \A s \in refs : Published(s)

CreateDemand(intent, target, tempo, required, refs) ==
  /\ demand = NoDemand
  /\ FormAccepted(target, required, refs) /\ RelatedInputValid(required, refs)
  /\ intent = "open" => Meaningful(tempo, required) /\ HasUseCaseOrFormat(required)
  /\ demand' = [status |-> intent, brief |-> 1, target |-> target, tempo |-> tempo,
                required |-> required]
  /\ references' = refs
  /\ UNCHANGED <<overdue, response, catalogue, activeTerms>>

BriefEditAllowed == Accepted = {} /\ demand.status # "fulfilled"
NextBrief == IF demand.status = "draft" THEN demand.brief ELSE demand.brief + 1

\* Mutant: the number of Tracks asked for is not compared.
MaterialWithoutTarget(target, tempo, required, refs) ==
  <<tempo, required, refs>> # <<demand.tempo, demand.required, references>>

Material(target, tempo, required, refs) ==
  <<target, tempo, required, refs>> # <<demand.target, demand.tempo, demand.required, references>>

UpdateDemand(target, tempo, required, refs, extended) ==
  LET material == Material(target, tempo, required, refs) IN
  /\ demand.status \notin {"none", "cancelled"}
  /\ FormAccepted(target, required, refs) /\ RelatedInputValid(required, refs)
  /\ material => BriefEditAllowed /\ NextBrief <= MaxBriefs
  /\ demand' = [demand EXCEPT !.target = target, !.tempo = tempo, !.required = required,
                              !.brief = IF material THEN NextBrief ELSE @]
  /\ references' = refs
  /\ overdue' = (overdue /\ ~extended)
  /\ UNCHANGED <<response, catalogue, activeTerms>>

CanTransition(from, to) ==
  <<from, to>> \in {<<"draft", "open">>, <<"draft", "cancelled">>, <<"open", "fulfilled">>,
                    <<"open", "closed">>, <<"open", "cancelled">>, <<"fulfilled", "open">>,
                    <<"closed", "open">>}

TransitionDemand(to) ==
  /\ CanTransition(demand.status, to)
  /\ to = "fulfilled" => Cardinality(CoveredBy) >= demand.target
  /\ demand' = [demand EXCEPT !.status = to]
  /\ UNCHANGED <<overdue, references, response, catalogue, activeTerms>>

\* The buttons of the Demand's page.
OfferedTransitions ==
  CASE demand.status = "draft" -> {"open"}
    [] demand.status = "open" ->
         {"closed", "cancelled"} \cup (IF ReadyToFulfill THEN {"fulfilled"} ELSE {})
    [] demand.status \in {"closed", "fulfilled"} -> {"open"}
    [] OTHER -> {}

ChangeReferences(changed) ==
  /\ demand.status # "none" /\ BriefEditAllowed
  /\ NextBrief <= MaxBriefs
  /\ references' = changed
  /\ demand' = [demand EXCEPT !.brief = NextBrief]
  /\ UNCHANGED <<overdue, response, catalogue, activeTerms>>

AddDemandReference(s) ==
  Published(s) /\ s \notin references /\ ChangeReferences(references \cup {s})

RemoveDemandReference(s) ==
  s \in references /\ ChangeReferences(references \ {s})

\* The search that the page "Find existing music" begins with.
FiltersOfDemand ==
  [tempo |-> demand.tempo,
   terms |-> {demand.required \cap Formats, demand.required \ Formats} \ {{}}]

\* parseCatalogSearchParams counts the terms of all categories; assertKnownTaxonomyFilters
\* wants them active.  If either throws, the page fails.
SearchAccepted ==
  LET selections == UNION FiltersOfDemand.terms IN
  Cardinality(selections) <= MaxSelections /\ selections \subseteq activeTerms

\* buildSearchSql: of each category with a filter, one of the terms.
FoundForDemand(s) ==
  /\ SearchAccepted
  /\ Published(s)
  /\ FiltersOfDemand.tempo # 0 => catalogue[s].tempo # 0 /\ catalogue[s].tempo >= FiltersOfDemand.tempo
  /\ \A selected \in FiltersOfDemand.terms : selected \cap RowsOfTrack(s).acceptedTerms # {}

-----------------------------------------------------------------------------
(* Responses.                                                               *)

ResponseWindowOpen == demand.status = "open" /\ ~overdue

Answer(s, answer) ==
  /\ response' = [response EXCEPT ![s] = answer]
  /\ UNCHANGED <<demand, overdue, references, catalogue, activeTerms>>

\* (demand_id, track_id) is unique, whatever has become of the first response.
ProposeCatalogTrack(s) ==
  /\ ResponseWindowOpen /\ Published(s) /\ response[s] = NoResponse
  /\ Answer(s, [status |-> "submitted", brief |-> demand.brief])

LinkCreatedSubmissionResponse(s) ==
  /\ ResponseWindowOpen /\ response[s] = NoResponse
  /\ Answer(s, [NoResponse EXCEPT !.status = "working"])

\* The upload that is started for the Demand creates a new Track.
UploadForDemand(s) == catalogue[s].state = "unpublished" /\ LinkCreatedSubmissionResponse(s)

\* The Submissions a responder may choose from; linkExistingSubmission asks the same of
\* the one that is sent.
LinkableSubmissions == {s \in Songs : catalogue[s].state # "rejected" /\ response[s] = NoResponse}

LinkExistingSubmission(s) == s \in LinkableSubmissions /\ LinkCreatedSubmissionResponse(s)

SubmitOrRefreshResponse(s) ==
  /\ response[s].status \in {"working", "submitted", "shortlisted"}
  /\ ResponseWindowOpen /\ Published(s)
  /\ Answer(s, [response[s] EXCEPT !.status = "submitted", !.brief = demand.brief])

WithdrawResponse(s) ==
  /\ response[s].status \in {"working", "submitted", "shortlisted"}
  /\ Answer(s, [response[s] EXCEPT !.status = "withdrawn"])

\* The part that all decisions of a Coordinator about a response have in common.
CoordinatorMutation(s, from, answer) ==
  /\ demand.status = "open" /\ response[s].status \in from
  /\ Answer(s, answer)

Shortlist(s) ==
  /\ Published(s)
  /\ CoordinatorMutation(s, {"submitted"}, [response[s] EXCEPT !.status = "shortlisted"])

Decline(s) ==
  CoordinatorMutation(s, {"submitted", "shortlisted"}, [response[s] EXCEPT !.status = "declined"])

Restore(s) ==
  /\ Published(s)
  /\ CoordinatorMutation(s, {"declined"}, [status |-> "submitted", brief |-> demand.brief])

Accept(s) ==
  /\ response[s].brief = demand.brief
  /\ Published(s) /\ EligibleForAcceptance(s)
  /\ CoordinatorMutation(s, {"submitted", "shortlisted"}, [response[s] EXCEPT !.status = "accepted"])

Unaccept(s) ==
  CoordinatorMutation(s, {"accepted"}, [response[s] EXCEPT !.status = "shortlisted"])

-----------------------------------------------------------------------------
(* The rest of the catalogue.                                               *)

\* The Decision fixes BPM and terms before the Track is first published.
PublishSong(s, tempo, terms) ==
  /\ catalogue[s].state = "unpublished"
  /\ catalogue' = [catalogue EXCEPT
       ![s] = [state |-> "published", tempo |-> tempo, terms |-> terms]]
  /\ UNCHANGED <<demand, overdue, references, response, activeTerms>>

SetState(s, from, to) ==
  /\ catalogue[s].state = from
  /\ catalogue' = [catalogue EXCEPT ![s].state = to]
  /\ UNCHANGED <<demand, overdue, references, response, activeTerms>>

WithdrawSong(s) == SetState(s, "published", "withdrawn")
RepublishSong(s) == SetState(s, "withdrawn", "published")
RejectSong(s) == SetState(s, "unpublished", "rejected")

SetTermActive(term) ==
  /\ activeTerms' = IF term \in activeTerms THEN activeTerms \ {term} ELSE activeTerms \cup {term}
  /\ UNCHANGED <<demand, overdue, references, response, catalogue>>

DeadlinePasses ==
  /\ demand # NoDemand /\ ~overdue
  /\ overdue' = TRUE
  /\ UNCHANGED <<demand, references, response, catalogue, activeTerms>>

-----------------------------------------------------------------------------
DemandNext ==
  \/ \E target \in 1 .. MaxTarget, tempo \in Tempos \cup {0},
        required \in SUBSET Terms, refs \in SUBSET Songs :
       \/ \E intent \in {"draft", "open"} : CreateDemand(intent, target, tempo, required, refs)
       \/ \E extended \in {FALSE, overdue} : UpdateDemand(target, tempo, required, refs, extended)
  \/ \E to \in {"open", "fulfilled", "closed", "cancelled"} : TransitionDemand(to)
  \/ \E s \in Songs :
       \/ AddDemandReference(s)
       \/ RemoveDemandReference(s)
       \/ ProposeCatalogTrack(s)
       \/ UploadForDemand(s)
       \/ LinkExistingSubmission(s)
       \/ SubmitOrRefreshResponse(s)
       \/ WithdrawResponse(s)
       \/ Shortlist(s)
       \/ Decline(s)
       \/ Restore(s)
       \/ Accept(s)
       \/ Unaccept(s)
       \/ WithdrawSong(s)
       \/ RepublishSong(s)
       \/ RejectSong(s)
       \/ \E tempo \in Tempos \cup {0}, terms \in SUBSET Terms : PublishSong(s, tempo, terms)
  \/ \E term \in Terms : SetTermActive(term)
  \/ DeadlinePasses

DemandSpec == DemandInit /\ [][DemandNext]_demandVars

-----------------------------------------------------------------------------
DemandTypeOK ==
  /\ demand = NoDemand \/ demand \in
       [status : {"draft", "open", "fulfilled", "closed", "cancelled"}, brief : 1 .. MaxBriefs,
        target : 1 .. MaxTarget, tempo : Tempos \cup {0}, required : SUBSET Terms]
  /\ overdue \in BOOLEAN
  /\ references \subseteq Songs
  /\ response \in [Songs ->
       [status : {"none", "working", "submitted", "shortlisted", "accepted", "declined", "withdrawn"},
        brief : 0 .. MaxBriefs]]
  /\ catalogue \in [Songs -> [state : {"unpublished", "published", "withdrawn", "rejected"},
                              tempo : Tempos \cup {0}, terms : SUBSET Terms]]
  /\ activeTerms \subseteq Terms

\* An accepted Track answers the brief as it stands, and a fulfilled Demand keeps as many
\* of them as it asked for, whatever is edited, reopened or taken back in between.
AcceptedAnswersBrief ==
  /\ \A s \in Accepted : response[s].brief = demand.brief
  /\ demand.status = "fulfilled" => Cardinality(Accepted) >= demand.target

\* A Demand that the list shows as ready can be fulfilled: the SQL that counts valid
\* acceptances and the evaluator that fulfilment runs agree, on missing metadata and on
\* inactive terms too, and no button of the page leads to a transition that cannot be made.
\* So does the search for existing music, of a Demand with no more Required terms than a
\* search may select (a form may have more, and the search of such a Demand fails): it
\* finds all that can be accepted.
ReadyCanBeFulfilled ==
  /\ \A to \in OfferedTransitions :
       /\ CanTransition(demand.status, to)
       /\ to = "fulfilled" => Cardinality(CoveredBy) >= demand.target
  /\ demand.status = "open" /\ Cardinality(CoveredBy) >= demand.target =>
       "fulfilled" \in OfferedTransitions
  /\ Cardinality(demand.required) <= MaxSelections =>
       \A s \in Songs : Published(s) /\ EligibleForAcceptance(s) => FoundForDemand(s)
=============================================================================
