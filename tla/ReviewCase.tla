----------------------------- MODULE ReviewCase -----------------------------
(***************************************************************************)
(* The review of one submitted Revision, from the moment it is ready for   *)
(* review to the primary decision: the review_case with its draft, term    *)
(* selections and checklist, the reviewers' browser pages, and the server  *)
(* process that accepts all AI suggestions field by field.                 *)
(*                                                                         *)
(* Grain: every mutation is one transaction that locks the case, and every *)
(* statement of a page load is a step of its own, so that a page may show  *)
(* parts of the case from different moments.  The row_version a page holds *)
(* is all that connects what a reviewer saw with what he then changes      *)
(* (src/lib/review/repository.ts, src/lib/decisions/repository.ts).        *)
(*                                                                         *)
(* A request that is refused changes nothing and is not a step here; nor   *)
(* is one that repeats a decision already taken.                           *)
(***************************************************************************)
EXTENDS Naturals

CONSTANTS
  Admins, Coordinators,  \* the active members of the review team, by role
  Nobody,                \* assigned_to_user_id IS NULL
  Fields,                \* REVIEW_FIELD_NAMES
  RequiredFields,        \* title, vocalState and format: uploads are music
  Terms,                 \* Use Case terms of the controlled taxonomy
  Checks,                \* REVIEW_CHECK_CODES
  Inapplicable,          \* the stems item, if the Revision has no stems
  Sources,               \* where a field has values to choose from
  NoField,               \* no field is being saved
  Accepters,             \* bound: the reviewers who run acceptAllAiSuggestions
  MaxVersion             \* bound: row_version of the case

Users == Admins \cup Coordinators

ASSUME RoleAssumption == Admins \cap Coordinators = {} /\ Nobody \notin Users
ASSUME FieldAssumption == RequiredFields \subseteq Fields /\ NoField \notin Fields
ASSUME CheckAssumption == Inapplicable \subseteq Checks
\* A suggestion, and a value of the coordinator's own; a field may have a producer or
\* an embedded value as well.
ASSUME SourceAssumption == {"ai", "coordinator"} \subseteq Sources /\ "blank" \notin Sources
\* A case is at version 2 when it has been claimed.
ASSUME BoundAssumption == MaxVersion \in Nat /\ MaxVersion >= 2 /\ Accepters \subseteq Users

\* not_applicable is like pass: it is not pending and needs no acknowledgement.
CheckStatuses == {"pending", "pass", "attention"}

VARIABLES
  status,      \* workflow.submission.status
  caseStatus,  \* workflow.review_case.status, "absent" while there is no row
  assignee,    \* review_case.assigned_to_user_id
  version,     \* review_case.row_version, 0 while there is no row
  fields,      \* review_metadata_draft.fields: their source kind, or "blank"
  selected,    \* review_term_selection rows with decision 'selected'
  checks,      \* review_check_item.status
  active,      \* taxonomy_term.is_active
  decision,    \* the primary review_decision of the case
  packet,      \* its decision_packet; an approval also makes it the canonical metadata
  page,        \* what each reviewer's browser shows, and the versions its forms post
  accepting    \* acceptAllAiSuggestions running for a reviewer on the server

caseVars == <<caseStatus, assignee, version>>
contentVars == <<fields, selected, checks>>
decisionVars == <<decision, packet>>
vars == <<status, caseVars, contentVars, active, decisionVars, page, accepting>>

-----------------------------------------------------------------------------
BlankFields == [f \in Fields |-> "blank"]
PendingChecks == [c \in Checks |-> "pending"]
NoPacket == [fields |-> BlankFields, terms |-> {}, checks |-> PendingChecks]

\* A page under construction or on the screen.  version is the rowVersion of the
\* workspace forms, panelVersion the reviewVersion of the decision panel.
NoPage ==
  [kind |-> "none", version |-> 0, fields |-> BlankFields, pending |-> {},
   shown |-> {}, chosen |-> {}, checks |-> PendingChecks,
   panelVersion |-> 0, attention |-> {}]

NotAccepting == [todo |-> {}, field |-> NoField, version |-> 0]

AttentionItems == {c \in Checks : checks[c] = "attention"}

\* A submission that processing has just made ready for review, or one that was in
\* review before review cases existed.
Init ==
  /\ status \in {"ready_for_review", "in_review"}
  /\ caseStatus = "absent"
  /\ assignee = Nobody
  /\ version = 0
  /\ fields = BlankFields
  /\ selected = {}
  /\ checks = PendingChecks
  /\ active = Terms
  /\ decision = "none"
  /\ packet = NoPacket
  /\ page = [u \in Users |-> NoPage]
  /\ accepting = [u \in Users |-> NotAccepting]

-----------------------------------------------------------------------------
(* Loading the pages.                                                       *)

Reviewable == status \in {"ready_for_review", "in_review"}

\* The first statement of loadReviewAggregate: the case, its version and its draft.
LoadReviewAggregate(u) ==
  /\ Reviewable
  /\ page' = [page EXCEPT ![u] =
       [NoPage EXCEPT !.kind = "review",
                      !.version = version,
                      !.fields = fields,
                      !.pending = {"terms", "checks"}
                        \cup (IF caseStatus = "ready_for_decision" THEN {"packet"} ELSE {})]]
  /\ UNCHANGED <<status, caseVars, contentVars, active, decisionVars, accepting>>

\* Two of the statements that follow it, on other connections and in any order.
LoadTaxonomyTerms(u) ==
  /\ "terms" \in page[u].pending
  /\ page' = [page EXCEPT ![u].pending = @ \ {"terms"},
                          ![u].shown = active,
                          ![u].chosen = IF page[u].version = 0 THEN {} ELSE selected \cap active]
  /\ UNCHANGED <<status, caseVars, contentVars, active, decisionVars, accepting>>

LoadChecklist(u) ==
  /\ "checks" \in page[u].pending
  /\ page' = [page EXCEPT ![u].pending = @ \ {"checks"},
                          ![u].checks = IF page[u].version = 0 THEN PendingChecks ELSE checks]
  /\ UNCHANGED <<status, caseVars, contentVars, active, decisionVars, accepting>>

\* buildReviewDecisionPacket, in one statement and only after the aggregate; it
\* throws, and there is no page, if the case is no longer ready.
BuildReviewDecisionPacket(u) ==
  /\ page[u].pending = {"packet"}
  /\ page' = [page EXCEPT ![u] =
       IF status = "in_review" /\ caseStatus = "ready_for_decision"
       THEN [page[u] EXCEPT !.pending = {}, !.panelVersion = version, !.attention = AttentionItems]
       ELSE NoPage]
  /\ UNCHANGED <<status, caseVars, contentVars, active, decisionVars, accepting>>

\* listReviewQueue, as far as the bulk approval uses it.
ListReviewQueue(u) ==
  /\ status = "in_review" /\ caseStatus = "ready_for_decision"
  /\ page' = [page EXCEPT ![u] = [NoPage EXCEPT !.kind = "queue", !.panelVersion = version]]
  /\ UNCHANGED <<status, caseVars, contentVars, active, decisionVars, accepting>>

OnReviewPage(u) == page[u].kind = "review" /\ page[u].pending = {}

-----------------------------------------------------------------------------
(* Creating and claiming the case.                                          *)

\* initializeReviewCase: an empty draft and a pending checklist, except that the
\* item of stems the Revision does not have is not applicable.
InitializeReviewCase ==
  /\ fields' = BlankFields
  /\ selected' = {}
  /\ checks' = [c \in Checks |-> IF c \in Inapplicable THEN "pass" ELSE "pending"]

\* Mutant of EnsureLegacyReviewCase: row_version BIGINT NOT NULL DEFAULT 0.
EnsureLegacyReviewCaseAtZero ==
  /\ status = "in_review" /\ caseStatus = "absent"
  /\ caseStatus' = "in_progress"
  /\ InitializeReviewCase
  /\ UNCHANGED <<status, assignee, version, active, decisionVars, page, accepting>>

EnsureLegacyReviewCase ==
  /\ status = "in_review" /\ caseStatus = "absent"
  /\ caseStatus' = "in_progress"
  /\ version' = 1
  /\ InitializeReviewCase
  /\ UNCHANGED <<status, assignee, active, decisionVars, page, accepting>>

\* Claiming posts no version: the row locks decide between two reviewers.
StartOrClaimReview(u) ==
  LET created == caseStatus = "absent" IN
  /\ Reviewable
  /\ created \/ caseStatus = "in_progress"
  /\ assignee = Nobody
  /\ created \/ version < MaxVersion
  /\ IF created THEN InitializeReviewCase ELSE UNCHANGED contentVars
  /\ caseStatus' = "in_progress"
  /\ version' = IF created THEN 2 ELSE version + 1
  /\ assignee' = u
  /\ status' = "in_review"
  /\ page' = [page EXCEPT ![u] = NoPage]
  /\ UNCHANGED <<active, decisionVars, accepting>>

-----------------------------------------------------------------------------
(* Editing.                                                                 *)

\* Mutant of CanEditReview: the status of the case is not checked.
CanEditReviewAlways(u) == u \in Admins \/ assignee = u

CanEditReview(u) == caseStatus = "in_progress" /\ (u \in Admins \/ assignee = u)

\* Mutant of LockEditableCase: row_version is not compared.
LockEditableCaseAtAnyVersion(u, expectedVersion) ==
  /\ status = "in_review"
  /\ caseStatus # "absent"
  /\ CanEditReview(u)

LockEditableCase(u, expectedVersion) ==
  /\ status = "in_review"
  /\ caseStatus # "absent" /\ version = expectedVersion
  /\ CanEditReview(u)

BumpCase == version < MaxVersion /\ version' = version + 1

\* The form of a review page is accepted, and the page is loaded anew.
Edit(u) ==
  /\ OnReviewPage(u)
  /\ LockEditableCase(u, page[u].version)
  /\ page' = [page EXCEPT ![u] = NoPage]
  /\ BumpCase
  /\ UNCHANGED <<status, active, decisionVars, accepting>>

SaveMetadataDecision(u, f, source) ==
  /\ Edit(u)
  /\ fields' = [fields EXCEPT ![f] = source]
  /\ UNCHANGED <<caseStatus, assignee, selected, checks>>

SaveTermDecision(u, t, select) ==
  /\ Edit(u)
  /\ t \in active
  /\ selected' = IF select THEN selected \cup {t} ELSE selected \ {t}
  /\ UNCHANGED <<caseStatus, assignee, fields, checks>>

\* Mutant of SaveChecklistDecision: bumpCase is not called.
SaveChecklistDecisionUnversioned(u, c, value) ==
  /\ OnReviewPage(u)
  /\ LockEditableCase(u, page[u].version)
  /\ checks' = [checks EXCEPT ![c] = value]
  /\ page' = [page EXCEPT ![u] = NoPage]
  /\ UNCHANGED <<status, caseVars, fields, selected, active, decisionVars, accepting>>

SaveChecklistDecision(u, c, value) ==
  /\ Edit(u)
  /\ checks' = [checks EXCEPT ![c] = value]
  /\ UNCHANGED <<caseStatus, assignee, fields, selected>>

AppendReviewNote(u) ==
  /\ Edit(u)
  /\ UNCHANGED <<caseStatus, assignee, contentVars>>

ReleaseReview(u) ==
  /\ Edit(u)
  /\ u \in Admins \/ assignee = u
  /\ assignee' = Nobody
  /\ UNCHANGED <<caseStatus, contentVars>>

ReassignReview(u, reviewer) ==
  /\ u \in Admins
  /\ Edit(u)
  /\ assignee' = reviewer
  /\ UNCHANGED <<caseStatus, contentVars>>

\* Everything required is reviewed.  Whether the selected Use Case is still active
\* is not asked here, but it is asked again by the approval.
Complete ==
  /\ \A c \in Checks : checks[c] # "pending"
  /\ \A f \in RequiredFields : fields[f] # "blank"
  /\ selected # {}

MarkReadyForDecision(u) ==
  /\ Edit(u)
  /\ Complete
  /\ caseStatus' = "ready_for_decision"
  /\ UNCHANGED <<assignee, contentVars>>

ReopenReview(u) ==
  /\ OnReviewPage(u)
  /\ status = "in_review"
  /\ version = page[u].version
  /\ caseStatus = "ready_for_decision"
  /\ u \in Admins \/ assignee = u
  /\ caseStatus' = "in_progress"
  /\ BumpCase
  /\ page' = [page EXCEPT ![u] = NoPage]
  /\ UNCHANGED <<status, assignee, contentVars, active, decisionVars, accepting>>

-----------------------------------------------------------------------------
(* acceptAllAiSuggestions: for each field an aggregate is loaded, looked at  *)
(* and then saved against, in transactions of their own.                     *)

AcceptAllAiSuggestions(u) ==
  /\ OnReviewPage(u) /\ page[u].version > 0
  /\ u \in Accepters /\ accepting[u] = NotAccepting
  /\ accepting' = [accepting EXCEPT ![u].todo = Fields]
  /\ page' = [page EXCEPT ![u] = NoPage]
  /\ UNCHANGED <<status, caseVars, contentVars, active, decisionVars>>

\* The review is gone or not editable: the request ends with an error.  Otherwise a
\* value the coordinator entered is skipped, anything else goes on to be saved.
ConsiderSuggestion(u, f) ==
  /\ f \in accepting[u].todo /\ accepting[u].field = NoField
  /\ accepting' = [accepting EXCEPT ![u] =
       IF ~Reviewable \/ ~CanEditReview(u) THEN NotAccepting
       ELSE IF fields[f] = "coordinator" THEN [NotAccepting EXCEPT !.todo = accepting[u].todo \ {f}]
       ELSE [todo |-> accepting[u].todo \ {f}, field |-> f, version |-> version]]
  /\ UNCHANGED <<status, caseVars, contentVars, active, decisionVars, page>>

\* Mutant of SaveSuggestion: the version of the aggregate saveReviewField loads itself.
SaveSuggestionAtOwnVersion(u) ==
  /\ accepting[u].field # NoField
  /\ LockEditableCase(u, version)
  /\ fields' = [fields EXCEPT ![accepting[u].field] = "ai"]
  /\ BumpCase
  /\ accepting' = [accepting EXCEPT ![u].field = NoField, ![u].version = 0]
  /\ UNCHANGED <<status, caseStatus, assignee, selected, checks, active, decisionVars, page>>

\* The version is the one read together with the field.
SaveSuggestion(u) ==
  /\ accepting[u].field # NoField
  /\ LockEditableCase(u, accepting[u].version)
  /\ fields' = [fields EXCEPT ![accepting[u].field] = "ai"]
  /\ BumpCase
  /\ accepting' = [accepting EXCEPT ![u].field = NoField, ![u].version = 0]
  /\ UNCHANGED <<status, caseStatus, assignee, selected, checks, active, decisionVars, page>>

\* There is no suggestion, or its rules or the lock refuse it: any error is a skip.
SkipSuggestion(u) ==
  /\ accepting[u].field # NoField
  /\ accepting' = [accepting EXCEPT ![u].field = NoField, ![u].version = 0]
  /\ UNCHANGED <<status, caseVars, contentVars, active, decisionVars, page>>

-----------------------------------------------------------------------------
(* The taxonomy, and the decisions.                                          *)

\* setAdminTaxonomyTermState touches no review case.
SetTaxonomyTermState(t) ==
  /\ active' = IF t \in active THEN active \ {t} ELSE active \cup {t}
  /\ UNCHANGED <<status, caseVars, contentVars, decisionVars, page, accepting>>

AssertDecisionReady(u) ==
  /\ caseStatus = "ready_for_decision"
  /\ status = "in_review"
  /\ version = page[u].panelVersion

AuthoritativePacket == [fields |-> fields, terms |-> selected \cap active, checks |-> checks]

\* Mutant of Decide: the decision_packet is what the posted page showed.
DecideOnPage(u, type, nextStatus) ==
  /\ decision = "none"
  /\ AssertDecisionReady(u)
  /\ decision' = type
  /\ packet' = [fields |-> page[u].fields, terms |-> page[u].chosen, checks |-> page[u].checks]
  /\ status' = nextStatus
  /\ caseStatus' = "decisioned"
  /\ BumpCase
  /\ page' = [page EXCEPT ![u] = NoPage]
  /\ UNCHANGED <<assignee, contentVars, active, accepting>>

\* Mutant of Decide: the case is not marked as decisioned.
DecideKeepingCase(u, type, nextStatus) ==
  /\ decision = "none"
  /\ AssertDecisionReady(u)
  /\ decision' = type
  /\ packet' = AuthoritativePacket
  /\ status' = nextStatus
  /\ BumpCase
  /\ page' = [page EXCEPT ![u] = NoPage]
  /\ UNCHANGED <<caseStatus, assignee, contentVars, active, accepting>>

\* The row of the decision; it is never changed.
InsertDecision(type) == decision' = type /\ packet' = AuthoritativePacket

\* A primary decision with everything its transaction writes.
Decide(u, type, nextStatus) ==
  /\ decision = "none"
  /\ AssertDecisionReady(u)
  /\ InsertDecision(type)
  /\ status' = nextStatus
  /\ caseStatus' = "decisioned"
  /\ BumpCase
  /\ page' = [page EXCEPT ![u] = NoPage]
  /\ UNCHANGED <<assignee, contentVars, active, accepting>>

\* assertApprovalPacket; whether the Format field and term agree is left to chance.
ApprovalPacketComplete ==
  /\ \A f \in RequiredFields : fields[f] # "blank"
  /\ selected \cap active # {}

\* The form of the decision panel has a box for it only if there were items to show.
Acknowledged(u) == AttentionItems # {} => page[u].attention # {}

Approve(u) ==
  /\ OnReviewPage(u)
  /\ ApprovalPacketComplete
  /\ Acknowledged(u)
  /\ Decide(u, "approve", "approved")

\* bulkApproveReviews, for one of its reviews.
BulkApprove(u) ==
  /\ page[u].kind = "queue"
  /\ AttentionItems = {}
  /\ ApprovalPacketComplete
  /\ Decide(u, "approve", "approved")

RequestChanges(u) ==
  /\ OnReviewPage(u)
  /\ Decide(u, "request_changes", "changes_requested")

RecommendReject(u) ==
  /\ OnReviewPage(u)
  /\ Decide(u, "recommend_reject", "rejection_recommended")

-----------------------------------------------------------------------------
Load(u) ==
  \/ LoadReviewAggregate(u) \/ LoadTaxonomyTerms(u) \/ LoadChecklist(u)
  \/ BuildReviewDecisionPacket(u) \/ ListReviewQueue(u)

\* The forms of the review page, by its parts.  Each part shows them to whoever could
\* use them when the page was loaded, and the server asks again.
MetadataReview(u) == \E f \in Fields, source \in Sources : SaveMetadataDecision(u, f, source)

TaxonomyReview(u) == \E t \in Terms, select \in BOOLEAN : SaveTermDecision(u, t, select)

Notes(u) == AppendReviewNote(u)

ReviewRail(u) ==
  \/ StartOrClaimReview(u)
  \/ \E c \in Checks, value \in CheckStatuses : SaveChecklistDecision(u, c, value)
  \/ MarkReadyForDecision(u) \/ ReopenReview(u)
  \/ \E reviewer \in Users : ReassignReview(u, reviewer)

Review(u) ==
  MetadataReview(u) \/ TaxonomyReview(u) \/ Notes(u) \/ ReviewRail(u) \/ ReleaseReview(u)

AcceptSuggestions(u) ==
  \/ AcceptAllAiSuggestions(u)
  \/ \E f \in Fields : ConsiderSuggestion(u, f)
  \/ SaveSuggestion(u) \/ SkipSuggestion(u)

TakeDecision(u) == Approve(u) \/ BulkApprove(u) \/ RequestChanges(u) \/ RecommendReject(u)

Next ==
  \/ EnsureLegacyReviewCase
  \/ \E u \in Users : Load(u) \/ Review(u) \/ AcceptSuggestions(u) \/ TakeDecision(u)
  \/ \E t \in Terms : SetTaxonomyTermState(t)

Spec == Init /\ [][Next]_vars

-----------------------------------------------------------------------------
(* Properties.                                                              *)

ContentTypeOK ==
  /\ fields \in [Fields -> Sources \cup {"blank"}]
  /\ selected \subseteq Terms
  /\ checks \in [Checks -> CheckStatuses]
  /\ active \subseteq Terms

CaseTypeOK ==
  /\ status \in {"ready_for_review", "in_review", "approved", "changes_requested",
                 "rejection_recommended"}
  /\ caseStatus \in {"absent", "in_progress", "ready_for_decision", "decisioned"}
  /\ assignee \in Users \cup {Nobody}
  /\ version \in 0 .. MaxVersion
  /\ (caseStatus = "absent") <=> (version = 0)

DecisionTypeOK ==
  /\ decision \in {"none", "approve", "request_changes", "recommend_reject"}
  /\ packet \in [fields : [Fields -> Sources \cup {"blank"}], terms : SUBSET Terms,
                 checks : [Checks -> CheckStatuses]]

Pages ==
  [kind : {"none", "review", "queue"}, version : 0 .. MaxVersion,
   fields : [Fields -> Sources \cup {"blank"}], pending : SUBSET {"terms", "checks", "packet"},
   shown : SUBSET Terms, chosen : SUBSET Terms, checks : [Checks -> CheckStatuses],
   panelVersion : 0 .. MaxVersion, attention : SUBSET Checks]

\* Every variable keeps its type, and a case has a version exactly when it exists.
TypeOK ==
  /\ CaseTypeOK /\ ContentTypeOK /\ DecisionTypeOK
  /\ page \in [Users -> Pages]
  /\ accepting \in [Users -> [todo : SUBSET Fields, field : Fields \cup {NoField},
                             version : 0 .. MaxVersion]]

\* The row_version stands for what was seen: as long as the version a page posts is
\* the version of the case, every part of the page that was loaded with it shows the
\* case as it is now, although the parts were read at different moments; so do the
\* attention items of the decision panel with the version of the panel.
VersionIdentifiesContent ==
  \A u \in Users :
    /\ page[u].kind = "review" /\ page[u].version = version =>
         /\ page[u].fields = fields
         /\ "terms" \notin page[u].pending => page[u].chosen = selected \cap page[u].shown
         /\ "checks" \notin page[u].pending => page[u].checks = checks
    /\ page[u].kind = "review" /\ page[u].panelVersion # 0 /\ page[u].panelVersion = version =>
         page[u].attention = AttentionItems

\* What goes to a decision, and what was decided, is a complete review: nobody can
\* take back a required part between markReadyForDecision and the decision.
ReadyIsComplete == caseStatus \in {"ready_for_decision", "decisioned"} => Complete

\* The submission, its case and its decision agree: whoever finds the submission in
\* review finds a case to work on (or none yet), and its later status is the one
\* primary decision of the case.  lockEditableCase does not lock the submission
\* whose status it reads, and relies on this.
OutcomeMatchesDecision ==
  /\ status = "ready_for_review" => caseStatus = "absent"
  /\ (caseStatus = "decisioned") <=> (decision # "none")
  /\ (status = "approved") <=> (decision = "approve")
  /\ (status = "changes_requested") <=> (decision = "request_changes")
  /\ (status = "rejection_recommended") <=> (decision = "recommend_reject")

\* The decision_packet of a decision stays what the case shows: no edit, claim or
\* suggestion that was under way when the decision was taken changes the case after it.
PacketStands ==
  decision # "none" =>
    /\ packet.fields = fields
    /\ packet.checks = checks
    /\ packet.terms \subseteq selected

\* docs/coordinator-review-workspace.md:26: "a stale browser receives a refresh
\* conflict instead of overwriting another session".  A form changes the draft, the
\* terms or the checklist only from the values its page showed.
StaleBrowserIsRefused ==
  [][\A u \in Users : Edit(u) =>
       /\ page[u].fields = fields
       /\ page[u].chosen = selected \cap page[u].shown
       /\ page[u].checks = checks]_vars

\* src/lib/review/review.ts:200: "A Coordinator's own decision outranks a suggestion."
\* Whatever is saved while all suggestions are being accepted, none of them replaces
\* a value a coordinator entered.
CoordinatorValuesStand ==
  [][\A u \in Users : SaveSuggestion(u) =>
       \A f \in Fields : fields[f] = "coordinator" => fields'[f] = "coordinator"]_vars

-----------------------------------------------------------------------------
(* What the interface says and the code does not keep.                        *)

\* src/features/review/components/review-workspace.tsx:296, under "Accept all AI
\* suggestions": "Fields you have already decided are left alone."
DecidedFieldsAreLeftAlone ==
  [][\A u \in Users : SaveSuggestion(u) =>
       \A f \in Fields : fields[f] # "blank" => fields'[f] = fields[f]]_vars
=============================================================================
