------------------------- MODULE ReviewCase_proofs -------------------------
(***************************************************************************)
(* Proofs about ReviewCase, for any team, any fields, terms and checks, and *)
(* any bound on the version.                                               *)
(***************************************************************************)
EXTENDS ReviewCase, TLAPS

-----------------------------------------------------------------------------
(* Types.                                                                   *)

FieldsType == [Fields -> Sources \cup {"blank"}]
ChecksType == [Checks -> CheckStatuses]

\* What is displayed of a case is well typed, whatever part of it is missing.
LEMMA EmptyPages ==
  /\ BlankFields \in FieldsType
  /\ PendingChecks \in ChecksType
  /\ NoPage \in Pages
  /\ NoPacket \in [fields : FieldsType, terms : SUBSET Terms, checks : ChecksType]
  /\ NotAccepting \in [todo : SUBSET Fields, field : Fields \cup {NoField}, version : 0 .. MaxVersion]
<1>1. BlankFields \in FieldsType /\ PendingChecks \in ChecksType
  BY DEF BlankFields, PendingChecks, FieldsType, ChecksType, CheckStatuses
<1>2. 0 \in 0 .. MaxVersion
  BY BoundAssumption
<1>3. NoPage \in Pages
  BY <1>1, <1>2 DEF NoPage, Pages, FieldsType, ChecksType
<1>4. NoPacket \in [fields : FieldsType, terms : SUBSET Terms, checks : ChecksType]
  BY <1>1 DEF NoPacket
<1>5. NotAccepting \in [todo : SUBSET Fields, field : Fields \cup {NoField}, version : 0 .. MaxVersion]
  BY <1>2 DEF NotAccepting
<1>6. QED
  BY <1>1, <1>3, <1>4, <1>5

\* A page that is replaced leaves the others as they are.
LEMMA PageStep ==
  ASSUME page \in [Users -> Pages], NEW u \in Users, NEW p \in Pages,
         page' = [page EXCEPT ![u] = p]
  PROVE  page' \in [Users -> Pages]
OBVIOUS

LEMMA TypeInit == Init => TypeOK
<1>1. BlankFields \in FieldsType /\ PendingChecks \in ChecksType /\ 0 \in 0 .. MaxVersion
  BY EmptyPages, BoundAssumption
<1>2. QED
  BY <1>1, EmptyPages
  DEF Init, TypeOK, CaseTypeOK, ContentTypeOK, DecisionTypeOK, FieldsType, ChecksType

\* The loads only change the page of one user.
LEMMA TypeLoad ==
  ASSUME TypeOK, NEW u \in Users, Load(u)
  PROVE  TypeOK'
<1>1. page \in [Users -> Pages] /\ page[u] \in Pages
  BY DEF TypeOK
<1>2. /\ version \in 0 .. MaxVersion /\ fields \in FieldsType /\ selected \subseteq Terms
      /\ checks \in ChecksType /\ active \subseteq Terms
  BY DEF TypeOK, CaseTypeOK, ContentTypeOK, FieldsType, ChecksType
<1>3. SUFFICES page' \in [Users -> Pages]
  BY DEF Load, LoadReviewAggregate, LoadTaxonomyTerms, LoadChecklist, BuildReviewDecisionPacket,
         ListReviewQueue, TypeOK, CaseTypeOK, ContentTypeOK, DecisionTypeOK, caseVars,
         contentVars, decisionVars
<1>4. CASE LoadReviewAggregate(u)
  <2> DEFINE p == [NoPage EXCEPT !.kind = "review", !.version = version, !.fields = fields,
                     !.pending = {"terms", "checks"}
                       \cup (IF caseStatus = "ready_for_decision" THEN {"packet"} ELSE {})]
  <2>1. p \in Pages
    BY <1>2, EmptyPages DEF Pages, FieldsType
  <2>2. page' = [page EXCEPT ![u] = p]
    BY <1>4 DEF LoadReviewAggregate
  <2>3. QED
    BY <1>1, <2>1, <2>2, PageStep
<1>5. CASE LoadTaxonomyTerms(u)
  <2> DEFINE p == [page[u] EXCEPT !.pending = @ \ {"terms"}, !.shown = active,
                     !.chosen = IF page[u].version = 0 THEN {} ELSE selected \cap active]
  <2>1. p \in Pages
    BY <1>1, <1>2 DEF Pages
  <2>2. page' = [page EXCEPT ![u] = p]
    BY <1>1, <1>5 DEF LoadTaxonomyTerms, Pages
  <2>3. QED
    BY <1>1, <2>1, <2>2, PageStep
<1>6. CASE LoadChecklist(u)
  <2> DEFINE p == [page[u] EXCEPT !.pending = @ \ {"checks"},
                     !.checks = IF page[u].version = 0 THEN PendingChecks ELSE checks]
  <2>1. p \in Pages
    BY <1>1, <1>2, EmptyPages DEF Pages, ChecksType
  <2>2. page' = [page EXCEPT ![u] = p]
    BY <1>1, <1>6 DEF LoadChecklist, Pages
  <2>3. QED
    BY <1>1, <2>1, <2>2, PageStep
<1>7. CASE BuildReviewDecisionPacket(u)
  <2> DEFINE p == IF status = "in_review" /\ caseStatus = "ready_for_decision"
                  THEN [page[u] EXCEPT !.pending = {}, !.panelVersion = version,
                                       !.attention = AttentionItems]
                  ELSE NoPage
  <2>1. p \in Pages
    BY <1>1, <1>2, EmptyPages DEF Pages, AttentionItems
  <2>2. page' = [page EXCEPT ![u] = p]
    BY <1>7 DEF BuildReviewDecisionPacket
  <2>3. QED
    BY <1>1, <2>1, <2>2, PageStep
<1>8. CASE ListReviewQueue(u)
  <2> DEFINE p == [NoPage EXCEPT !.kind = "queue", !.panelVersion = version]
  <2>1. p \in Pages
    BY <1>2, EmptyPages DEF Pages
  <2>2. page' = [page EXCEPT ![u] = p]
    BY <1>8 DEF ListReviewQueue
  <2>3. QED
    BY <1>1, <2>1, <2>2, PageStep
<1>9. QED
  BY <1>4, <1>5, <1>6, <1>7, <1>8 DEF Load

\* A bump stays within the bound.
LEMMA BumpType ==
  ASSUME CaseTypeOK, BumpCase
  PROVE  version' \in 0 .. MaxVersion /\ version' > version /\ version' # 0
BY BoundAssumption DEF CaseTypeOK, BumpCase

\* A fresh page, for the reviewer whose form was accepted.
LEMMA ResetPageType ==
  ASSUME page \in [Users -> Pages], NEW u \in Users, page' = [page EXCEPT ![u] = NoPage]
  PROVE  page' \in [Users -> Pages]
BY EmptyPages, PageStep

LEMMA TypeInitialize ==
  ASSUME ContentTypeOK, InitializeReviewCase, UNCHANGED active
  PROVE  ContentTypeOK'
<1>1. BlankFields \in FieldsType
  BY EmptyPages
<1>2. checks' \in ChecksType
  BY DEF InitializeReviewCase, ChecksType, CheckStatuses
<1>3. QED
  BY <1>1, <1>2 DEF InitializeReviewCase, ContentTypeOK, FieldsType, ChecksType

LEMMA TypeLegacy ==
  ASSUME TypeOK, EnsureLegacyReviewCase
  PROVE  TypeOK'
<1>1. ContentTypeOK'
  BY TypeInitialize DEF TypeOK, EnsureLegacyReviewCase
<1>2. CaseTypeOK'
  BY BoundAssumption DEF TypeOK, CaseTypeOK, EnsureLegacyReviewCase
<1>3. QED
  BY <1>1, <1>2 DEF TypeOK, DecisionTypeOK, EnsureLegacyReviewCase, decisionVars

LEMMA TypeClaim ==
  ASSUME TypeOK, NEW u \in Users, StartOrClaimReview(u)
  PROVE  TypeOK'
<1>1. ContentTypeOK'
  BY TypeInitialize DEF TypeOK, ContentTypeOK, StartOrClaimReview, contentVars
<1>2. CaseTypeOK'
  BY BoundAssumption DEF TypeOK, CaseTypeOK, StartOrClaimReview
<1>3. page' \in [Users -> Pages]
  BY ResetPageType DEF TypeOK, StartOrClaimReview
<1>4. QED
  BY <1>1, <1>2, <1>3 DEF TypeOK, DecisionTypeOK, StartOrClaimReview, decisionVars

\* The part of an edit that every form shares.
LEMMA TypeEdit ==
  ASSUME TypeOK, NEW u \in Users, Edit(u), caseStatus' \in {"in_progress", "ready_for_decision"},
         assignee' \in Users \cup {Nobody}
  PROVE  /\ CaseTypeOK'
         /\ DecisionTypeOK'
         /\ page' \in [Users -> Pages]
         /\ UNCHANGED <<active, accepting>>
<1>1. version' \in 0 .. MaxVersion /\ version' # 0
  BY BumpType DEF TypeOK, Edit
<1>2. CaseTypeOK'
  BY <1>1 DEF TypeOK, CaseTypeOK, Edit
<1>3. page' \in [Users -> Pages]
  BY ResetPageType DEF TypeOK, Edit
<1>4. QED
  BY <1>2, <1>3 DEF TypeOK, DecisionTypeOK, Edit, decisionVars

\* Whoever edits finds the case in progress.
LEMMA EditInProgress ==
  ASSUME NEW u \in Users, Edit(u)
  PROVE  caseStatus = "in_progress" /\ status = "in_review" /\ version = page[u].version
BY DEF Edit, LockEditableCase, CanEditReview

LEMMA TypeReview ==
  ASSUME TypeOK, NEW u \in Users, Review(u)
  PROVE  TypeOK'
<1>0. /\ caseStatus \in {"absent", "in_progress", "ready_for_decision", "decisioned"}
      /\ assignee \in Users \cup {Nobody} /\ fields \in FieldsType /\ selected \subseteq Terms
      /\ checks \in ChecksType /\ active \subseteq Terms
  BY DEF TypeOK, CaseTypeOK, ContentTypeOK, FieldsType, ChecksType
<1>1. CASE StartOrClaimReview(u)
  BY <1>1, TypeClaim
<1>2. ASSUME NEW f \in Fields, NEW source \in Sources, SaveMetadataDecision(u, f, source)
      PROVE  TypeOK'
  <2>1. Edit(u) /\ caseStatus' = "in_progress" /\ assignee' = assignee
    BY <1>2, EditInProgress DEF SaveMetadataDecision
  <2>2. fields' \in FieldsType
    BY <1>0, <1>2 DEF SaveMetadataDecision, FieldsType
  <2>3. QED
    BY <1>0, <1>2, <2>1, <2>2, TypeEdit
    DEF SaveMetadataDecision, TypeOK, ContentTypeOK, FieldsType, ChecksType
<1>3. ASSUME NEW t \in Terms, NEW select \in BOOLEAN, SaveTermDecision(u, t, select)
      PROVE  TypeOK'
  <2>1. Edit(u) /\ caseStatus' = "in_progress" /\ assignee' = assignee
    BY <1>3, EditInProgress DEF SaveTermDecision
  <2>2. selected' \subseteq Terms
    BY <1>0, <1>3 DEF SaveTermDecision
  <2>3. QED
    BY <1>0, <1>3, <2>1, <2>2, TypeEdit
    DEF SaveTermDecision, TypeOK, ContentTypeOK, FieldsType, ChecksType
<1>4. ASSUME NEW c \in Checks, NEW value \in CheckStatuses, SaveChecklistDecision(u, c, value)
      PROVE  TypeOK'
  <2>1. Edit(u) /\ caseStatus' = "in_progress" /\ assignee' = assignee
    BY <1>4, EditInProgress DEF SaveChecklistDecision
  <2>2. checks' \in ChecksType
    BY <1>0, <1>4 DEF SaveChecklistDecision, ChecksType
  <2>3. QED
    BY <1>0, <1>4, <2>1, <2>2, TypeEdit
    DEF SaveChecklistDecision, TypeOK, ContentTypeOK, FieldsType, ChecksType
<1>5. CASE AppendReviewNote(u)
  <2>1. Edit(u) /\ caseStatus' = "in_progress" /\ assignee' = assignee
    BY <1>5, EditInProgress DEF AppendReviewNote
  <2>2. QED
    BY <1>0, <1>5, <2>1, TypeEdit DEF AppendReviewNote, TypeOK, ContentTypeOK, contentVars
<1>6. CASE ReleaseReview(u)
  <2>1. Edit(u) /\ caseStatus' = "in_progress" /\ assignee' = Nobody
    BY <1>6, EditInProgress DEF ReleaseReview
  <2>2. QED
    BY <1>0, <1>6, <2>1, TypeEdit DEF ReleaseReview, TypeOK, ContentTypeOK, contentVars
<1>7. ASSUME NEW reviewer \in Users, ReassignReview(u, reviewer)
      PROVE  TypeOK'
  <2>1. Edit(u) /\ caseStatus' = "in_progress" /\ assignee' = reviewer
    BY <1>7, EditInProgress DEF ReassignReview
  <2>2. QED
    BY <1>0, <1>7, <2>1, TypeEdit DEF ReassignReview, TypeOK, ContentTypeOK, contentVars
<1>8. CASE MarkReadyForDecision(u)
  <2>1. Edit(u) /\ caseStatus' = "ready_for_decision" /\ assignee' = assignee
    BY <1>8 DEF MarkReadyForDecision
  <2>2. QED
    BY <1>0, <1>8, <2>1, TypeEdit DEF MarkReadyForDecision, TypeOK, ContentTypeOK, contentVars
<1>9. CASE ReopenReview(u)
  <2>1. version' \in 0 .. MaxVersion /\ version' # 0
    BY <1>9, BumpType DEF TypeOK, ReopenReview
  <2>2. page' \in [Users -> Pages]
    BY <1>9, ResetPageType DEF TypeOK, ReopenReview
  <2>3. QED
    BY <1>9, <2>1, <2>2
    DEF ReopenReview, TypeOK, CaseTypeOK, ContentTypeOK, DecisionTypeOK, contentVars, decisionVars
<1>10. QED
  BY <1>1, <1>2, <1>3, <1>4, <1>5, <1>6, <1>7, <1>8, <1>9 DEF Review, MetadataReview, TaxonomyReview, Notes, ReviewRail

Requests == [todo : SUBSET Fields, field : Fields \cup {NoField}, version : 0 .. MaxVersion]

LEMMA TypeAccept ==
  ASSUME TypeOK, NEW u \in Users, AcceptSuggestions(u)
  PROVE  TypeOK'
<1>0. /\ accepting \in [Users -> Requests] /\ version \in 0 .. MaxVersion
      /\ NotAccepting \in Requests /\ 0 \in 0 .. MaxVersion
  BY EmptyPages, BoundAssumption DEF TypeOK, CaseTypeOK, Requests
<1>1. CASE AcceptAllAiSuggestions(u)
  <2>1. accepting' \in [Users -> Requests]
    BY <1>0, <1>1 DEF AcceptAllAiSuggestions, Requests
  <2>2. page' \in [Users -> Pages]
    BY <1>1, ResetPageType DEF TypeOK, AcceptAllAiSuggestions
  <2>3. QED
    BY <1>1, <2>1, <2>2
    DEF AcceptAllAiSuggestions, TypeOK, CaseTypeOK, ContentTypeOK, DecisionTypeOK, caseVars,
        contentVars, decisionVars, Requests
<1>2. ASSUME NEW f \in Fields, ConsiderSuggestion(u, f)
      PROVE  TypeOK'
  <2> DEFINE r == accepting[u]
             q == IF ~Reviewable \/ ~CanEditReview(u) THEN NotAccepting
                  ELSE IF fields[f] = "coordinator" THEN [NotAccepting EXCEPT !.todo = r.todo \ {f}]
                  ELSE [todo |-> r.todo \ {f}, field |-> f, version |-> version]
  <2>1. accepting' \in [Users -> Requests]
    <3>1. r \in Requests
      BY <1>0
    <3>2. [NotAccepting EXCEPT !.todo = r.todo \ {f}] \in Requests
      BY <1>0, <3>1 DEF Requests
    <3>3. [todo |-> r.todo \ {f}, field |-> f, version |-> version] \in Requests
      BY <1>0, <3>1 DEF Requests
    <3>4. q \in Requests
      BY <1>0, <3>2, <3>3
    <3>5. accepting' = [accepting EXCEPT ![u] = q]
      BY <1>2 DEF ConsiderSuggestion
    <3>6. QED
      BY <1>0, <3>4, <3>5
  <2>2. QED
    BY <1>2, <2>1
    DEF ConsiderSuggestion, TypeOK, CaseTypeOK, ContentTypeOK, DecisionTypeOK, caseVars,
        contentVars, decisionVars, Requests
<1>3. CASE SaveSuggestion(u)
  <2>1. accepting' \in [Users -> Requests]
    BY <1>0, <1>3 DEF SaveSuggestion, Requests
  <2>2. version' \in 0 .. MaxVersion /\ version' # 0
    BY <1>3, BumpType DEF TypeOK, SaveSuggestion
  <2>3. CaseTypeOK'
    BY <1>3, <2>2 DEF SaveSuggestion, TypeOK, CaseTypeOK, LockEditableCase
  <2>4. fields' \in FieldsType
    <3>1. accepting[u].field \in Fields \cup {NoField} /\ accepting[u].field # NoField
      BY <1>0, <1>3 DEF SaveSuggestion, Requests
    <3>2. fields' = [fields EXCEPT ![accepting[u].field] = "ai"]
      BY <1>3 DEF SaveSuggestion
    <3>3. fields \in FieldsType
      BY DEF TypeOK, ContentTypeOK, FieldsType
    <3>4. QED
      BY <3>1, <3>2, <3>3, SourceAssumption DEF FieldsType
  <2>5. QED
    BY <1>3, <2>1, <2>3, <2>4
    DEF SaveSuggestion, TypeOK, ContentTypeOK, DecisionTypeOK, decisionVars, FieldsType, Requests
<1>4. CASE SkipSuggestion(u)
  <2>1. accepting' \in [Users -> Requests]
    BY <1>0, <1>4 DEF SkipSuggestion, Requests
  <2>2. QED
    BY <1>4, <2>1
    DEF SkipSuggestion, TypeOK, CaseTypeOK, ContentTypeOK, DecisionTypeOK, caseVars,
        contentVars, decisionVars, Requests
<1>5. QED
  BY <1>1, <1>2, <1>3, <1>4 DEF AcceptSuggestions

\* What the four ways of deciding have in common.
LEMMA DecisionSteps ==
  ASSUME NEW u \in Users, TakeDecision(u)
  PROVE  \E outcome \in {<<"approve", "approved">>, <<"request_changes", "changes_requested">>,
                         <<"recommend_reject", "rejection_recommended">>} :
           Decide(u, outcome[1], outcome[2])
<1>1. CASE Approve(u) \/ BulkApprove(u)
  <2> WITNESS <<"approve", "approved">> \in {<<"approve", "approved">>,
        <<"request_changes", "changes_requested">>, <<"recommend_reject", "rejection_recommended">>}
  <2> QED BY <1>1 DEF Approve, BulkApprove
<1>2. CASE RequestChanges(u)
  <2> WITNESS <<"request_changes", "changes_requested">> \in {<<"approve", "approved">>,
        <<"request_changes", "changes_requested">>, <<"recommend_reject", "rejection_recommended">>}
  <2> QED BY <1>2 DEF RequestChanges
<1>3. CASE RecommendReject(u)
  <2> WITNESS <<"recommend_reject", "rejection_recommended">> \in {<<"approve", "approved">>,
        <<"request_changes", "changes_requested">>, <<"recommend_reject", "rejection_recommended">>}
  <2> QED BY <1>3 DEF RecommendReject
<1>4. QED
  BY <1>1, <1>2, <1>3 DEF TakeDecision

LEMMA TypeDecide ==
  ASSUME TypeOK, NEW u \in Users, TakeDecision(u)
  PROVE  TypeOK'
<1>1. PICK outcome \in {<<"approve", "approved">>, <<"request_changes", "changes_requested">>,
                       <<"recommend_reject", "rejection_recommended">>} :
        Decide(u, outcome[1], outcome[2])
  BY DecisionSteps
<1>2. version' \in 0 .. MaxVersion /\ version' # 0
  BY <1>1, BumpType DEF TypeOK, Decide, InsertDecision
<1>3. page' \in [Users -> Pages]
  BY <1>1, ResetPageType DEF TypeOK, Decide, InsertDecision
<1>4. CaseTypeOK'
  BY <1>1, <1>2 DEF TypeOK, CaseTypeOK, Decide, InsertDecision
<1>5. DecisionTypeOK'
  BY <1>1 DEF TypeOK, DecisionTypeOK, ContentTypeOK, Decide, AuthoritativePacket, InsertDecision
<1>6. QED
  BY <1>1, <1>3, <1>4, <1>5 DEF TypeOK, ContentTypeOK, Decide, contentVars, InsertDecision

LEMMA TypeTaxonomy ==
  ASSUME TypeOK, NEW t \in Terms, SetTaxonomyTermState(t)
  PROVE  TypeOK'
BY DEF SetTaxonomyTermState, TypeOK, CaseTypeOK, ContentTypeOK, DecisionTypeOK, caseVars,
       contentVars, decisionVars

LEMMA TypeStutter ==
  ASSUME TypeOK, UNCHANGED vars
  PROVE  TypeOK'
BY DEF TypeOK, CaseTypeOK, ContentTypeOK, DecisionTypeOK, vars, caseVars, contentVars, decisionVars

LEMMA TypeStep == TypeOK /\ [Next]_vars => TypeOK'
BY TypeLegacy, TypeLoad, TypeReview, TypeAccept, TypeDecide, TypeTaxonomy, TypeStutter DEF Next

\* TypeOK: every variable keeps its type, and a review case has a row_version exactly
\* when it exists (review_case_version_check).
THEOREM TypeCorrect == Spec => []TypeOK
BY TypeInit, TypeStep, PTL DEF Spec

-----------------------------------------------------------------------------
(* The version stands for the content.                                      *)

\* Neither a page nor the panel on it is from the future.
PageVersions ==
  \A u \in Users : page[u].version <= version /\ page[u].panelVersion <= version

\* Before there is a row the draft is what loadReviewAggregate makes of none.
NoRowIsBlank == version = 0 => fields = BlankFields /\ selected = {} /\ checks = PendingChecks

\* The inductive invariant of VersionIdentifiesContent.
PageInv == PageVersions /\ NoRowIsBlank /\ VersionIdentifiesContent

PagesOnlyReset == \A v \in Users : page'[v] \in {page[v], NoPage}

LEMMA OneReset ==
  ASSUME page \in [Users -> Pages], NEW u \in Users, page' = [page EXCEPT ![u] = NoPage]
  PROVE  PagesOnlyReset
BY DEF PagesOnlyReset

\* Whoever changes the content of a case makes a new version of it, and no page is
\* loaded in the same step.
LEMMA StepShape ==
  ASSUME TypeOK, Next
  PROVE  \/ version' > version /\ PagesOnlyReset
         \/ UNCHANGED <<version, contentVars>> /\ PagesOnlyReset
         \/ \E u \in Users : Load(u)
<1>0. page \in [Users -> Pages] /\ version \in 0 .. MaxVersion /\ MaxVersion \in Nat
  BY BoundAssumption DEF TypeOK, CaseTypeOK
<1>1. CASE EnsureLegacyReviewCase
  <2>1. version = 0
    BY <1>1 DEF TypeOK, CaseTypeOK, EnsureLegacyReviewCase
  <2>2. QED
    BY <1>1, <2>1 DEF EnsureLegacyReviewCase, PagesOnlyReset
<1>2. ASSUME NEW u \in Users, Review(u)
      PROVE  version' > version /\ PagesOnlyReset
  <2>1. page' = [page EXCEPT ![u] = NoPage]
    BY <1>2
    DEF Review, StartOrClaimReview, SaveMetadataDecision, SaveTermDecision, SaveChecklistDecision,
        AppendReviewNote, ReleaseReview, ReassignReview, MarkReadyForDecision, ReopenReview, Edit, MetadataReview, TaxonomyReview, Notes, ReviewRail
  <2>2. ASSUME StartOrClaimReview(u)
        PROVE  version' > version
    BY <1>0, <2>2 DEF TypeOK, CaseTypeOK, StartOrClaimReview
  <2>3. ASSUME ~StartOrClaimReview(u)
        PROVE  version' > version
    <3>1. BumpCase
      BY <1>2, <2>3
      DEF Review, SaveMetadataDecision, SaveTermDecision, SaveChecklistDecision,
          AppendReviewNote, ReleaseReview, ReassignReview, MarkReadyForDecision, ReopenReview, Edit, MetadataReview, TaxonomyReview, Notes, ReviewRail
    <3>2. QED
      BY <3>1, BumpType DEF TypeOK
  <2>4. QED
    BY <1>0, <2>1, <2>2, <2>3, OneReset
<1>3. ASSUME NEW u \in Users, AcceptSuggestions(u)
      PROVE  \/ version' > version /\ PagesOnlyReset
             \/ UNCHANGED <<version, contentVars>> /\ PagesOnlyReset
  <2>1. CASE AcceptAllAiSuggestions(u)
    BY <1>0, <2>1, OneReset DEF AcceptAllAiSuggestions, caseVars
  <2>2. ASSUME NEW f \in Fields, ConsiderSuggestion(u, f)
        PROVE  UNCHANGED <<version, contentVars>> /\ PagesOnlyReset
    BY <2>2 DEF ConsiderSuggestion, caseVars, PagesOnlyReset
  <2>3. CASE SaveSuggestion(u)
    BY <2>3, BumpType DEF SaveSuggestion, TypeOK, PagesOnlyReset
  <2>4. CASE SkipSuggestion(u)
    BY <2>4 DEF SkipSuggestion, caseVars, PagesOnlyReset
  <2>5. QED
    BY <1>3, <2>1, <2>2, <2>3, <2>4 DEF AcceptSuggestions
<1>4. ASSUME NEW u \in Users, TakeDecision(u)
      PROVE  version' > version /\ PagesOnlyReset
  <2>1. BumpCase /\ page' = [page EXCEPT ![u] = NoPage]
    BY <1>4, DecisionSteps DEF Decide, InsertDecision
  <2>2. QED
    BY <1>0, <2>1, BumpType, OneReset DEF TypeOK
<1>5. ASSUME NEW t \in Terms, SetTaxonomyTermState(t)
      PROVE  UNCHANGED <<version, contentVars>> /\ PagesOnlyReset
  BY <1>5 DEF SetTaxonomyTermState, caseVars, PagesOnlyReset
<1>6. QED
  BY <1>1, <1>2, <1>3, <1>4, <1>5 DEF Next

LEMMA PageInit == Init => PageInv
<1> SUFFICES ASSUME Init PROVE PageInv
  OBVIOUS
<1>1. \A u \in Users : page[u].kind = "none" /\ page[u].version = 0 /\ page[u].panelVersion = 0
  BY DEF Init, NoPage
<1>2. QED
  BY <1>1 DEF Init, PageInv, PageVersions, NoRowIsBlank, VersionIdentifiesContent

\* A page the reviewer does not get anew keeps what it shows; a new version makes it stale.
LEMMA PageKept ==
  ASSUME TypeOK, PageInv, version' \in Nat, PagesOnlyReset,
         version' > version \/ UNCHANGED <<version, contentVars>>
  PROVE  PageInv'
<1>0. page \in [Users -> Pages] /\ version \in Nat /\ 0 \in 0 .. MaxVersion
  BY BoundAssumption DEF TypeOK, CaseTypeOK
<1>1. NoRowIsBlank'
  BY <1>0 DEF PageInv, NoRowIsBlank, contentVars
<1>2. ASSUME NEW u \in Users, page'[u] = NoPage
      PROVE  page'[u].kind = "none" /\ page'[u].version = 0 /\ page'[u].panelVersion = 0
  BY <1>2 DEF NoPage
<1>3. ASSUME NEW u \in Users
      PROVE  page[u].version \in Nat /\ page[u].panelVersion \in Nat
  BY <1>0, BoundAssumption DEF Pages
<1>4. PageVersions'
  BY <1>0, <1>2, <1>3 DEF PageInv, PageVersions, PagesOnlyReset, contentVars
<1>5. CASE version' > version
  <2>1. \A u \in Users : page'[u].kind = "review" =>
          page'[u].version < version' /\ page'[u].panelVersion < version'
    BY <1>0, <1>2, <1>3, <1>5 DEF PageInv, PageVersions, PagesOnlyReset
  <2>2. \A u \in Users : page'[u].version # version' \/ page'[u].kind # "review"
    BY <1>0, <1>2, <1>3, <2>1 DEF PagesOnlyReset
  <2>3. \A u \in Users : page'[u].panelVersion # version' \/ page'[u].kind # "review"
    BY <1>0, <1>2, <1>3, <2>1 DEF PagesOnlyReset
  <2>4. QED
    BY <1>1, <1>4, <2>2, <2>3 DEF PageInv, VersionIdentifiesContent
<1>6. CASE UNCHANGED <<version, contentVars>>
  <2>1. AttentionItems' = AttentionItems
    BY <1>6 DEF AttentionItems, contentVars
  <2>2. VersionIdentifiesContent'
    BY <1>2, <1>6, <2>1 DEF PageInv, VersionIdentifiesContent, PagesOnlyReset, contentVars
  <2>3. QED
    BY <1>1, <1>4, <2>2 DEF PageInv
<1>7. QED
  BY <1>5, <1>6

\* What VersionIdentifiesContent and PageVersions say of one page.
PageAgrees(p) ==
  /\ p.version <= version /\ p.panelVersion <= version
  /\ p.kind = "review" /\ p.version = version =>
       /\ p.fields = fields
       /\ "terms" \notin p.pending => p.chosen = selected \cap p.shown
       /\ "checks" \notin p.pending => p.checks = checks
  /\ p.kind = "review" /\ p.panelVersion # 0 /\ p.panelVersion = version =>
       p.attention = AttentionItems

LEMMA PageReplaced ==
  ASSUME PageInv, page \in [Users -> Pages], NEW u \in Users, NEW p, PageAgrees(p),
         page' = [page EXCEPT ![u] = p], UNCHANGED <<version, contentVars>>
  PROVE  PageInv'
<1>1. AttentionItems' = AttentionItems
  BY DEF AttentionItems, contentVars
<1>2. \A v \in Users : PageAgrees(page[v])
  BY DEF PageInv, PageVersions, VersionIdentifiesContent, PageAgrees
<1>3. \A v \in Users : PageAgrees(page'[v])
  BY <1>2
<1>4. NoRowIsBlank'
  BY DEF PageInv, NoRowIsBlank, contentVars
<1>5. QED
  BY <1>1, <1>3, <1>4
  DEF PageInv, PageVersions, VersionIdentifiesContent, PageAgrees, contentVars

\* A part of the page is loaded.  The one subtle case is a page of a submission that had
\* no case: it takes its terms and checklist from no row at all.
LEMMA PageLoad ==
  ASSUME TypeOK, PageInv, NEW u \in Users, Load(u)
  PROVE  PageInv'
<1>0. /\ page \in [Users -> Pages] /\ page[u] \in Pages /\ version \in Nat
      /\ selected \subseteq Terms /\ active \subseteq Terms /\ PageAgrees(page[u])
  BY BoundAssumption
  DEF TypeOK, CaseTypeOK, ContentTypeOK, PageInv, PageVersions, VersionIdentifiesContent, PageAgrees
<1>1. UNCHANGED <<version, contentVars>>
  BY DEF Load, LoadReviewAggregate, LoadTaxonomyTerms, LoadChecklist, BuildReviewDecisionPacket,
         ListReviewQueue, caseVars
<1>2. CASE LoadReviewAggregate(u)
  <2> DEFINE p == [NoPage EXCEPT !.kind = "review", !.version = version, !.fields = fields,
                     !.pending = {"terms", "checks"}
                       \cup (IF caseStatus = "ready_for_decision" THEN {"packet"} ELSE {})]
  <2>1. PageAgrees(p)
    BY <1>0 DEF PageAgrees, NoPage
  <2>2. page' = [page EXCEPT ![u] = p]
    BY <1>2 DEF LoadReviewAggregate
  <2>3. QED
    BY <1>0, <1>1, <2>1, <2>2, PageReplaced
<1>3. CASE LoadTaxonomyTerms(u)
  <2> DEFINE p == [page[u] EXCEPT !.pending = @ \ {"terms"}, !.shown = active,
                     !.chosen = IF page[u].version = 0 THEN {} ELSE selected \cap active]
  <2>1. page[u].version = version => p.chosen = selected \cap p.shown
    BY <1>0 DEF PageInv, NoRowIsBlank, Pages
  <2>2. PageAgrees(p)
    BY <1>0, <2>1 DEF PageAgrees, Pages
  <2>3. page' = [page EXCEPT ![u] = p]
    BY <1>0, <1>3 DEF LoadTaxonomyTerms, Pages
  <2>4. QED
    BY <1>0, <1>1, <2>2, <2>3, PageReplaced
<1>4. CASE LoadChecklist(u)
  <2> DEFINE p == [page[u] EXCEPT !.pending = @ \ {"checks"},
                     !.checks = IF page[u].version = 0 THEN PendingChecks ELSE checks]
  <2>1. page[u].version = version => p.checks = checks
    BY <1>0 DEF PageInv, NoRowIsBlank, Pages
  <2>2. PageAgrees(p)
    BY <1>0, <2>1 DEF PageAgrees, Pages
  <2>3. page' = [page EXCEPT ![u] = p]
    BY <1>0, <1>4 DEF LoadChecklist, Pages
  <2>4. QED
    BY <1>0, <1>1, <2>2, <2>3, PageReplaced
<1>5. CASE BuildReviewDecisionPacket(u)
  <2> DEFINE p == IF status = "in_review" /\ caseStatus = "ready_for_decision"
                  THEN [page[u] EXCEPT !.pending = {}, !.panelVersion = version,
                                       !.attention = AttentionItems]
                  ELSE NoPage
  <2>1. page[u].pending = {"packet"}
    BY <1>5 DEF BuildReviewDecisionPacket
  <2>2. PageAgrees(NoPage)
    BY <1>0 DEF PageAgrees, NoPage
  <2>3. PageAgrees(p)
    BY <1>0, <2>1, <2>2 DEF PageAgrees, Pages
  <2>4. page' = [page EXCEPT ![u] = p]
    BY <1>5 DEF BuildReviewDecisionPacket
  <2>5. QED
    BY <1>0, <1>1, <2>3, <2>4, PageReplaced
<1>6. CASE ListReviewQueue(u)
  <2> DEFINE p == [NoPage EXCEPT !.kind = "queue", !.panelVersion = version]
  <2>1. PageAgrees(p)
    BY <1>0 DEF PageAgrees, NoPage
  <2>2. page' = [page EXCEPT ![u] = p]
    BY <1>6 DEF ListReviewQueue
  <2>3. QED
    BY <1>0, <1>1, <2>1, <2>2, PageReplaced
<1>7. QED
  BY <1>2, <1>3, <1>4, <1>5, <1>6 DEF Load

LEMMA PageInvStep == TypeOK /\ PageInv /\ [Next]_vars => PageInv'
<1> SUFFICES ASSUME TypeOK, PageInv, [Next]_vars PROVE PageInv'
  OBVIOUS
<1>1. version' \in Nat
  BY TypeStep, BoundAssumption DEF TypeOK, CaseTypeOK
<1>2. CASE Next
  BY <1>1, <1>2, StepShape, PageKept, PageLoad
<1>3. CASE UNCHANGED vars
  BY <1>1, <1>3, PageKept DEF vars, caseVars, PagesOnlyReset
<1>4. QED
  BY <1>2, <1>3

\* VersionIdentifiesContent: a page that posts the version of the case shows the case,
\* although its parts were read by different statements at different moments.
THEOREM VersionsIdentifyContent == Spec => []VersionIdentifiesContent
<1>1. PageInv => VersionIdentifiesContent
  BY DEF PageInv
<1>2. QED
  BY <1>1, PageInit, PageInvStep, TypeCorrect, PTL DEF Spec

\* StaleBrowserIsRefused: lockEditableCase lets no form through whose page shows anything
\* but the draft, the terms and the checklist of the moment.
THEOREM StaleFormsAreRefused == Spec => StaleBrowserIsRefused
<1> DEFINE Fresh == \A u \in Users : Edit(u) =>
                      /\ page[u].fields = fields
                      /\ page[u].chosen = selected \cap page[u].shown
                      /\ page[u].checks = checks
<1>1. VersionIdentifiesContent => Fresh
  BY DEF Edit, OnReviewPage, LockEditableCase, VersionIdentifiesContent
<1>2. VersionIdentifiesContent /\ [Next]_vars => [Fresh]_vars
  BY <1>1
<1>3. QED
  BY <1>2, VersionsIdentifyContent, PTL DEF Spec, StaleBrowserIsRefused

-----------------------------------------------------------------------------
(* The case and its decision.                                               *)

\* What is decided is complete, agrees with the status of the submission, and is what the
\* case keeps showing.  None of the three is inductive alone: that a decided case stays
\* as it is needs it to be out of progress, and that needs the submission's status.
DecisionInv == ReadyIsComplete /\ OutcomeMatchesDecision /\ PacketStands

LEMMA DecisionInit == Init => DecisionInv
BY DEF Init, DecisionInv, ReadyIsComplete, OutcomeMatchesDecision, PacketStands

\* A step that leaves the submission, the case, its content and its decision alone.
LEMMA DecisionKept ==
  ASSUME DecisionInv, UNCHANGED <<status, caseStatus, contentVars, decisionVars>>
  PROVE  DecisionInv'
BY DEF DecisionInv, ReadyIsComplete, Complete, OutcomeMatchesDecision, PacketStands, contentVars,
       decisionVars

\* A step on a case in progress, which is not decided and stays open.
LEMMA DecisionOpen ==
  ASSUME TypeOK, DecisionInv, caseStatus \in {"absent", "in_progress"},
         status \in {"ready_for_review", "in_review"}, status' = "in_review",
         UNCHANGED decisionVars,
         \/ caseStatus' = "in_progress"
         \/ caseStatus' = "ready_for_decision" /\ Complete /\ UNCHANGED contentVars
  PROVE  DecisionInv'
<1>1. decision = "none" /\ decision' = "none"
  BY DEF DecisionInv, OutcomeMatchesDecision, decisionVars
<1>2. ReadyIsComplete'
  BY DEF ReadyIsComplete, Complete, contentVars
<1>3. OutcomeMatchesDecision' /\ PacketStands'
  BY <1>1 DEF OutcomeMatchesDecision, PacketStands
<1>4. QED
  BY <1>2, <1>3 DEF DecisionInv

LEMMA DecisionReview ==
  ASSUME TypeOK, DecisionInv, NEW u \in Users, Review(u)
  PROVE  DecisionInv'
<1>1. CASE StartOrClaimReview(u)
  <2>1. caseStatus \in {"absent", "in_progress"}
    BY <1>1 DEF StartOrClaimReview
  <2>2. QED
    BY <1>1, <2>1, DecisionOpen DEF StartOrClaimReview, Reviewable
<1>2. CASE ReopenReview(u)
  <2>1. decision = "none" /\ decision' = "none"
    BY <1>2 DEF ReopenReview, DecisionInv, OutcomeMatchesDecision, decisionVars
  <2>2. QED
    BY <1>2, <2>1
    DEF ReopenReview, DecisionInv, ReadyIsComplete, OutcomeMatchesDecision, PacketStands, contentVars
<1>3. CASE MarkReadyForDecision(u)
  <2>1. Edit(u)
    BY <1>3 DEF MarkReadyForDecision
  <2>2. status' = status /\ UNCHANGED decisionVars
    BY <2>1 DEF Edit
  <2>3. QED
    BY <1>3, <2>1, <2>2, EditInProgress, DecisionOpen DEF MarkReadyForDecision
<1>4. ASSUME Edit(u), caseStatus' = caseStatus
      PROVE  DecisionInv'
  <2>1. status' = status /\ UNCHANGED decisionVars
    BY <1>4 DEF Edit
  <2>2. QED
    BY <1>4, <2>1, EditInProgress, DecisionOpen
<1>5. QED
  BY <1>1, <1>2, <1>3, <1>4
  DEF Review, SaveMetadataDecision, SaveTermDecision, SaveChecklistDecision, AppendReviewNote,
      ReleaseReview, ReassignReview, MetadataReview, TaxonomyReview, Notes, ReviewRail

\* A suggestion is only saved into a case in progress, however late it comes.
LEMMA DecisionAccept ==
  ASSUME TypeOK, DecisionInv, NEW u \in Users, AcceptSuggestions(u)
  PROVE  DecisionInv'
<1>1. CASE SaveSuggestion(u)
  <2>1. caseStatus = "in_progress" /\ status = "in_review"
    BY <1>1 DEF SaveSuggestion, LockEditableCase, CanEditReview
  <2>2. QED
    BY <1>1, <2>1, DecisionOpen DEF SaveSuggestion
<1>2. CASE ~SaveSuggestion(u)
  <2>1. UNCHANGED <<status, caseVars, contentVars, decisionVars>>
    BY <1>2
    DEF AcceptSuggestions, AcceptAllAiSuggestions, ConsiderSuggestion, SkipSuggestion
  <2>2. QED
    BY <2>1, DecisionKept DEF caseVars
<1>3. QED
  BY <1>1, <1>2

\* The packet is taken from the case under its lock, and the case is closed with it.
LEMMA DecisionTaken ==
  ASSUME TypeOK, DecisionInv, NEW u \in Users, TakeDecision(u)
  PROVE  DecisionInv'
<1>1. PICK outcome \in {<<"approve", "approved">>, <<"request_changes", "changes_requested">>,
                       <<"recommend_reject", "rejection_recommended">>} :
        Decide(u, outcome[1], outcome[2])
  BY DecisionSteps
<1>2. caseStatus = "ready_for_decision" /\ caseStatus' = "decisioned" /\ UNCHANGED contentVars
  BY <1>1 DEF Decide, AssertDecisionReady, InsertDecision
<1>3. ReadyIsComplete'
  BY <1>2 DEF DecisionInv, ReadyIsComplete, Complete, contentVars
<1>4. OutcomeMatchesDecision'
  BY <1>1 DEF Decide, OutcomeMatchesDecision, InsertDecision
<1>5. PacketStands'
  BY <1>1 DEF Decide, PacketStands, AuthoritativePacket, contentVars, InsertDecision
<1>6. QED
  BY <1>3, <1>4, <1>5 DEF DecisionInv

LEMMA DecisionStep == TypeOK /\ DecisionInv /\ [Next]_vars => DecisionInv'
<1> SUFFICES ASSUME TypeOK, DecisionInv, [Next]_vars PROVE DecisionInv'
  OBVIOUS
<1>1. CASE EnsureLegacyReviewCase
  BY <1>1, DecisionOpen DEF EnsureLegacyReviewCase
<1>2. ASSUME NEW u \in Users, Load(u)
      PROVE  DecisionInv'
  <2>1. UNCHANGED <<status, caseVars, contentVars, decisionVars>>
    BY <1>2 DEF Load, LoadReviewAggregate, LoadTaxonomyTerms, LoadChecklist,
                BuildReviewDecisionPacket, ListReviewQueue
  <2>2. QED
    BY <2>1, DecisionKept DEF caseVars
<1>3. ASSUME NEW t \in Terms, SetTaxonomyTermState(t)
      PROVE  DecisionInv'
  BY <1>3, DecisionKept DEF SetTaxonomyTermState, caseVars
<1>4. CASE UNCHANGED vars
  BY <1>4, DecisionKept DEF vars, caseVars
<1>5. QED
  BY <1>1, <1>2, <1>3, <1>4, DecisionReview, DecisionAccept, DecisionTaken DEF Next

\* ReadyIsComplete: between markReadyForDecision and the decision nobody takes back a
\* required part of the review, nor after it.
THEOREM ReadyReviewsAreComplete == Spec => []ReadyIsComplete
<1>1. DecisionInv => ReadyIsComplete
  BY DEF DecisionInv
<1>2. QED
  BY <1>1, DecisionInit, DecisionStep, TypeCorrect, PTL DEF Spec

\* OutcomeMatchesDecision: the status of the submission and of the case are those of the
\* one primary decision, which is why lockEditableCase can do without a lock on the
\* submission.
THEOREM OutcomesMatchDecisions == Spec => []OutcomeMatchesDecision
<1>1. DecisionInv => OutcomeMatchesDecision
  BY DEF DecisionInv
<1>2. QED
  BY <1>1, DecisionInit, DecisionStep, TypeCorrect, PTL DEF Spec

\* PacketStands: nothing that was under way when the decision was taken changes what it
\* was taken on.
THEOREM DecidedPacketsStand == Spec => []PacketStands
<1>1. DecisionInv => PacketStands
  BY DEF DecisionInv
<1>2. QED
  BY <1>1, DecisionInit, DecisionStep, TypeCorrect, PTL DEF Spec

-----------------------------------------------------------------------------
(* Accepting all suggestions.                                               *)

\* A field about to be saved was no coordinator's value at the version it was read at.
AcceptInv ==
  \A u \in Users : accepting[u].field # NoField =>
    /\ accepting[u].version <= version
    /\ accepting[u].version = version => fields[accepting[u].field] # "coordinator"

LEMMA AcceptInit == Init => AcceptInv
BY DEF Init, AcceptInv, NotAccepting

\* A request that goes on as it was is overtaken by every new version.
LEMMA AcceptKept ==
  ASSUME TypeOK, AcceptInv, version' \in Nat,
         version' > version \/ UNCHANGED <<version, contentVars>>,
         \A v \in Users : accepting'[v].field # NoField => accepting'[v] = accepting[v]
  PROVE  AcceptInv'
<1>1. version \in Nat /\ \A v \in Users : accepting[v].version \in Nat
  BY BoundAssumption DEF TypeOK, CaseTypeOK
<1>2. QED
  BY <1>1 DEF AcceptInv, contentVars

LEMMA AcceptStep == TypeOK /\ AcceptInv /\ [Next]_vars => AcceptInv'
<1> SUFFICES ASSUME TypeOK, AcceptInv, [Next]_vars PROVE AcceptInv'
  OBVIOUS
<1>0. /\ accepting \in [Users -> Requests] /\ version \in Nat /\ version' \in Nat
      /\ NotAccepting.field = NoField
  BY TypeStep, BoundAssumption DEF TypeOK, CaseTypeOK, Requests, NotAccepting
<1>1. CASE UNCHANGED vars
  BY <1>0, <1>1, AcceptKept DEF vars, caseVars
<1>2. CASE Next
  <2>1. version' > version \/ UNCHANGED <<version, contentVars>>
    <3>1. ASSUME NEW u \in Users, Load(u)
          PROVE  UNCHANGED <<version, contentVars>>
      BY <3>1 DEF Load, LoadReviewAggregate, LoadTaxonomyTerms, LoadChecklist,
                  BuildReviewDecisionPacket, ListReviewQueue, caseVars
    <3>2. QED
      BY <1>2, <3>1, StepShape
  <2>2. ASSUME UNCHANGED accepting
        PROVE  AcceptInv'
    BY <1>0, <2>1, <2>2, AcceptKept
  <2>3. ASSUME NEW u \in Users, AcceptSuggestions(u)
        PROVE  AcceptInv'
    <3>1. CASE AcceptAllAiSuggestions(u)
      <4>1. accepting[u].field = NoField
        BY <1>0, <3>1 DEF AcceptAllAiSuggestions
      <4>2. \A v \in Users : accepting'[v].field # NoField => accepting'[v] = accepting[v]
        BY <1>0, <3>1, <4>1 DEF AcceptAllAiSuggestions, Requests
      <4>3. QED
        BY <1>0, <2>1, <4>2, AcceptKept
    <3>2. ASSUME NEW f \in Fields, ConsiderSuggestion(u, f), fields[f] = "coordinator"
          PROVE  AcceptInv'
      <4>1. accepting'[u].field = NoField
        BY <1>0, <3>2 DEF ConsiderSuggestion, NotAccepting
      <4>2. \A v \in Users : accepting'[v].field # NoField => accepting'[v] = accepting[v]
        BY <1>0, <3>2, <4>1 DEF ConsiderSuggestion
      <4>3. QED
        BY <1>0, <2>1, <4>2, AcceptKept
    <3>3. ASSUME NEW f \in Fields, ConsiderSuggestion(u, f), fields[f] # "coordinator"
          PROVE  AcceptInv'
      <4>1. UNCHANGED <<version, fields>>
        BY <3>3 DEF ConsiderSuggestion, caseVars, contentVars
      <4>2. \/ accepting'[u] = NotAccepting
            \/ accepting'[u] = [todo |-> accepting[u].todo \ {f}, field |-> f, version |-> version]
        BY <1>0, <3>3 DEF ConsiderSuggestion
      <4>3. \A v \in Users : v # u => accepting'[v] = accepting[v]
        BY <1>0, <3>3 DEF ConsiderSuggestion
      <4>4. accepting'[u].field # NoField =>
              accepting'[u].version = version /\ accepting'[u].field = f
        BY <1>0, <4>2
      <4>5. QED
        BY <1>0, <3>3, <4>1, <4>3, <4>4 DEF AcceptInv
    <3>4. CASE SaveSuggestion(u) \/ SkipSuggestion(u)
      <4>1. \A v \in Users : accepting'[v].field # NoField => accepting'[v] = accepting[v]
        BY <1>0, <3>4 DEF SaveSuggestion, SkipSuggestion, Requests
      <4>2. QED
        BY <1>0, <2>1, <4>1, AcceptKept
    <3>5. QED
      BY <2>3, <3>1, <3>2, <3>3, <3>4 DEF AcceptSuggestions
  <2>4. ASSUME NEW u \in Users, Load(u) \/ Review(u) \/ TakeDecision(u)
        PROVE  UNCHANGED accepting
    <3>1. CASE Load(u)
      BY <3>1 DEF Load, LoadReviewAggregate, LoadTaxonomyTerms, LoadChecklist,
                  BuildReviewDecisionPacket, ListReviewQueue
    <3>2. CASE Review(u)
      BY <3>2
      DEF Review, StartOrClaimReview, SaveMetadataDecision, SaveTermDecision,
          SaveChecklistDecision, AppendReviewNote, ReleaseReview, ReassignReview,
          MarkReadyForDecision, ReopenReview, Edit, MetadataReview, TaxonomyReview, Notes, ReviewRail
    <3>3. CASE TakeDecision(u)
      BY <3>3, DecisionSteps DEF Decide, InsertDecision
    <3>4. QED
      BY <2>4, <3>1, <3>2, <3>3
  <2>5. QED
    BY <1>2, <2>2, <2>3, <2>4 DEF Next, EnsureLegacyReviewCase, SetTaxonomyTermState
<1>3. QED
  BY <1>1, <1>2

\* CoordinatorValuesStand: acceptAllAiSuggestions posts the version it read the field at,
\* so a coordinator who enters a value in between is not overwritten.
THEOREM CoordinatorValuesAreKept == Spec => CoordinatorValuesStand
<1> DEFINE Kept == \A u \in Users : SaveSuggestion(u) =>
                     \A f \in Fields : fields[f] = "coordinator" => fields'[f] = "coordinator"
<1>1. TypeOK /\ AcceptInv => Kept
  BY DEF SaveSuggestion, LockEditableCase, AcceptInv, TypeOK, ContentTypeOK
<1>2. TypeOK /\ AcceptInv /\ [Next]_vars => [Kept]_vars
  BY <1>1
<1>3. QED
  BY <1>2, AcceptInit, AcceptStep, TypeCorrect, PTL DEF Spec, CoordinatorValuesStand

=============================================================================
