----------------------- MODULE SubmissionLifecycle_proofs -----------------------
(***************************************************************************)
(* Proofs about SubmissionLifecycle, for any submissions, any team and any *)
(* number of Revisions, with or without the copyright stage.               *)
(***************************************************************************)
EXTENDS SubmissionLifecycle, TLAPS

-----------------------------------------------------------------------------
(* Types.                                                                   *)

Requests ==
  [kind : {"none", "publish", "bulk"}, ids : SUBSET Submissions, reason : BOOLEAN,
   unread : SUBSET Submissions, admitted : SUBSET Submissions, moved : SUBSET Submissions]

LEMMA StatusNames ==
  /\ Promise!Statuses = {"absent", "draft", "submitted", "processing", "ready_for_review",
                         "in_review", "changes_requested", "rejection_recommended",
                         "approved", "rejected"}
  /\ Promise!PublicationStatuses = {"unpublished", "published", "withdrawn"}
BY DEF Promise!Statuses, Promise!Transitions, Promise!PublicationStatuses,
       Promise!PublicationMoves

LEMMA RevisionNumbers == Revisions \subseteq 0 .. MaxRevision /\ 1 \in Revisions
BY BoundAssumption DEF Revisions

LEMMA TypeInit == Init => TypeOK
<1> SUFFICES ASSUME Init PROVE TypeOK
  OBVIOUS
<1>1. status \in [Submissions -> Promise!Statuses]
      /\ publication \in [Submissions -> Promise!PublicationStatuses]
  BY StatusNames DEF Init
<1>2. /\ current \in [Submissions -> 0 .. MaxRevision]
      /\ publishedRevision \in [Submissions -> 0 .. MaxRevision]
      /\ resolvedBy \in [Submissions -> [Revisions -> 0 .. MaxRevision]]
  BY BoundAssumption DEF Init
<1>3. /\ revisionStatus \in [Submissions -> [Revisions -> RevisionStatuses]]
      /\ decision \in [Submissions ->
           [Revisions -> {"none", "approve", "request_changes", "recommend_reject"}]]
      /\ resolution \in [Submissions ->
           [Revisions -> {"none", "confirm_reject", "return_for_changes"}]]
      /\ check \in [Submissions -> [Revisions -> {"absent", "pending"} \cup Outcomes]]
      /\ rights \in [Submissions -> [Revisions -> {"absent", "expired"} \cup Bases]]
  BY DEF Init, RevisionStatuses
<1>4. openRequests \in [Submissions -> SUBSET Revisions]
  BY DEF Init
<1>5. termsComplete \in [Submissions -> BOOLEAN]
  BY Zenon DEF Init
<1>6. request \in [Users -> Requests]
  BY DEF Init, NoRequest, Requests
<1>7. QED
  BY <1>1, <1>2, <1>3, <1>4, <1>5, <1>6 DEF TypeOK, Requests

\* The next revision_number is in range.
LEMMA NextRevision ==
  ASSUME NEW n \in 0 .. MaxRevision, n < MaxRevision
  PROVE  n + 1 \in Revisions /\ n + 1 \in 0 .. MaxRevision
BY BoundAssumption DEF Revisions

LEMMA TypeMoved ==
  ASSUME request \in [Users -> Requests], NEW s \in Submissions,
         Moved(s) \/ UNCHANGED request
  PROVE  request' \in [Users -> Requests]
BY DEF Moved, Requests

LEMMA TypeProducer ==
  ASSUME TypeOK, NEW s \in Submissions, ProducerStep(s), status[s] = "absent" => current[s] = 0
  PROVE  TypeOK'
<1>1. CASE \E basis \in Bases : CreateUploadDraft(s, basis)
  <2>1. PICK basis \in Bases : CreateUploadDraft(s, basis)
    BY <1>1
  <2>2. current[s] + 1 \in Revisions /\ current[s] + 1 \in 0 .. MaxRevision
    <3>1. current[s] = 0 /\ 0 \in 0 .. MaxRevision /\ 0 < MaxRevision
      BY <2>1, BoundAssumption DEF CreateUploadDraft
    <3>2. QED
      BY <3>1, NextRevision
  <2>3. QED
    BY <2>1, <2>2, StatusNames
    DEF CreateUploadDraft, AddRevision, TypeOK, RevisionStatuses, decisionVars, changeVars, trackVars
<1>2. CASE \E basis \in Bases : CreateRequestedRevision(s, basis)
  <2>1. PICK basis \in Bases : CreateRequestedRevision(s, basis)
    BY <1>2
  <2>2. current[s] + 1 \in Revisions /\ current[s] + 1 \in 0 .. MaxRevision
    BY <2>1, NextRevision DEF CreateRequestedRevision, TypeOK
  <2>3. QED
    BY <2>1, <2>2
    DEF CreateRequestedRevision, AddRevision, TypeOK, RevisionStatuses, decisionVars,
        changeVars, trackVars
<1>3. CASE SubmitCompletedDraft(s)
  <2>1. Supersede(s) \in [Revisions -> RevisionStatuses]
    BY DEF Supersede, Submitted, TypeOK, RevisionStatuses
  <2>2. [r \in Revisions |-> IF r \in ResolvedRequests(s) THEN current[s] ELSE resolvedBy[s][r]]
          \in [Revisions -> 0 .. MaxRevision]
    BY DEF TypeOK
  <2>3. status' \in [Submissions -> Promise!Statuses]
    BY <1>3, StatusNames DEF SubmitCompletedDraft, TypeOK
  <2>4. revisionStatus' \in [Submissions -> [Revisions -> RevisionStatuses]]
    BY <1>3, <2>1 DEF SubmitCompletedDraft, TypeOK
  <2>5. resolvedBy' \in [Submissions -> [Revisions -> 0 .. MaxRevision]]
    BY <1>3, <2>2 DEF SubmitCompletedDraft, TypeOK
  <2>6. openRequests' \in [Submissions -> SUBSET Revisions]
    BY <1>3 DEF SubmitCompletedDraft, TypeOK
  <2>7. check' \in [Submissions -> [Revisions -> {"absent", "pending"} \cup Outcomes]]
    <3>1. check \in [Submissions -> [Revisions -> {"absent", "pending"} \cup Outcomes]]
      BY DEF TypeOK
    <3>2. check' = check \/ check' = [check EXCEPT ![s][current[s]] = "pending"]
      BY <1>3, <3>1 DEF SubmitCompletedDraft
    <3>3. QED
      BY <3>1, <3>2
  <2>8. UNCHANGED <<current, decisionVars, rights, termsComplete, trackVars, request>>
    BY <1>3 DEF SubmitCompletedDraft
  <2>9. QED
    BY <2>3, <2>4, <2>5, <2>6, <2>7, <2>8 DEF TypeOK, decisionVars, trackVars
<1>4. QED
  BY <1>1, <1>2, <1>3 DEF ProducerStep

LEMMA TypeReview ==
  ASSUME TypeOK, NEW s \in Submissions, ReviewStep(s),
         status[s] = "in_review" => current[s] \in Revisions
  PROVE  TypeOK'
<1>1. CASE BeginRevisionProcessing(s) \/ FinalizeRevisionForReview(s) \/ StartReview(s)
  <2>1. status' \in [Submissions -> Promise!Statuses]
    <3>1. \E next \in Promise!Statuses : status' = [status EXCEPT ![s] = next]
      BY <1>1, StatusNames DEF BeginRevisionProcessing, FinalizeRevisionForReview, StartReview
    <3>2. QED
      BY <3>1 DEF TypeOK
  <2>2. UNCHANGED <<revisionVars, decisionVars, changeVars, gateVars, trackVars, request>>
    BY <1>1 DEF BeginRevisionProcessing, FinalizeRevisionForReview, StartReview
  <2>3. QED
    BY <2>1, <2>2 DEF TypeOK, revisionVars, decisionVars, changeVars, gateVars, trackVars
<1>2. CASE ApproveReview(s)
  <2>1. status' \in [Submissions -> Promise!Statuses]
    BY <1>2, StatusNames DEF ApproveReview, TypeOK
  <2>2. revisionStatus' \in [Submissions -> [Revisions -> RevisionStatuses]]
    BY <1>2 DEF ApproveReview, TypeOK, RevisionStatuses
  <2>3. decision' \in [Submissions ->
          [Revisions -> {"none", "approve", "request_changes", "recommend_reject"}]]
    BY <1>2 DEF ApproveReview, TypeOK
  <2>4. termsComplete' \in [Submissions -> BOOLEAN]
    BY <1>2, Zenon DEF ApproveReview, TypeOK
  <2>5. UNCHANGED <<current, resolution, openRequests, resolvedBy, check, rights, publication,
                    publishedRevision, request>>
    BY <1>2 DEF ApproveReview, changeVars, trackVars
  <2>6. QED
    BY <2>1, <2>2, <2>3, <2>4, <2>5 DEF TypeOK
<1>3. CASE RequestReviewChanges(s)
  <2>1. status' \in [Submissions -> Promise!Statuses]
    BY <1>3, StatusNames DEF RequestReviewChanges, TypeOK, InsertChangeRequest
  <2>2. decision' \in [Submissions ->
          [Revisions -> {"none", "approve", "request_changes", "recommend_reject"}]]
    BY <1>3 DEF RequestReviewChanges, TypeOK, InsertChangeRequest
  <2>3. openRequests' \in [Submissions -> SUBSET Revisions]
    <3>1. openRequests \in [Submissions -> SUBSET Revisions]
      BY DEF TypeOK
    <3>2. openRequests' = [openRequests EXCEPT ![s] = openRequests[s] \cup {current[s]}]
      BY <1>3 DEF RequestReviewChanges, InsertChangeRequest
    <3>3. current[s] \in Revisions
      BY <1>3 DEF RequestReviewChanges, Decidable, InsertChangeRequest
    <3>4. QED
      BY <3>1, <3>2, <3>3
  <2>4. UNCHANGED <<revisionVars, resolution, resolvedBy, gateVars, trackVars, request>>
    BY <1>3 DEF RequestReviewChanges, InsertChangeRequest
  <2>5. QED
    BY <2>1, <2>2, <2>3, <2>4 DEF TypeOK, revisionVars, gateVars, trackVars
<1>4. CASE RecommendReviewRejection(s)
  <2>1. status' \in [Submissions -> Promise!Statuses]
    BY <1>4, StatusNames DEF RecommendReviewRejection, TypeOK
  <2>2. decision' \in [Submissions ->
          [Revisions -> {"none", "approve", "request_changes", "recommend_reject"}]]
    BY <1>4 DEF RecommendReviewRejection, TypeOK
  <2>3. UNCHANGED <<revisionVars, resolution, changeVars, gateVars, trackVars, request>>
    BY <1>4 DEF RecommendReviewRejection
  <2>4. QED
    BY <2>1, <2>2, <2>3 DEF TypeOK, revisionVars, changeVars, gateVars, trackVars
<1>5. QED
  BY <1>1, <1>2, <1>3, <1>4 DEF ReviewStep

LEMMA TypeResolution ==
  ASSUME TypeOK, NEW s \in Submissions, NEW r \in Revisions, ResolutionStep(s, r)
  PROVE  TypeOK'
<1>1. CASE ConfirmReviewRejection(s, r)
  BY <1>1, StatusNames
  DEF ConfirmReviewRejection, TypeOK, RevisionStatuses, changeVars, gateVars, trackVars
<1>2. CASE ReturnRejectedReviewForChanges(s, r)
  BY <1>2, StatusNames
  DEF ReturnRejectedReviewForChanges, TypeOK, revisionVars, gateVars, trackVars, InsertChangeRequest
<1>3. QED
  BY <1>1, <1>2 DEF ResolutionStep

LEMMA TypeGate ==
  ASSUME TypeOK, NEW s \in Submissions,
         (\E r \in Revisions : GateStep(s, r)) \/ SetTaxonomyTermState(s)
  PROVE  TypeOK'
<1>1. Moved(s) \/ UNCHANGED request
  BY DEF GateStep, RecordCopyrightObservation, ReopenCopyrightCheck, RightsExpire,
         SetTaxonomyTermState
<1>2. request \in [Users -> Requests]
  BY DEF TypeOK, Requests
<1>3. request' \in [Users -> Requests]
  BY <1>1, <1>2, TypeMoved
<1>4. UNCHANGED <<status, revisionVars, decisionVars, changeVars, trackVars>>
  BY DEF GateStep, RecordCopyrightObservation, ReopenCopyrightCheck, RightsExpire,
         SetTaxonomyTermState
<1>5. /\ check' \in [Submissions -> [Revisions -> {"absent", "pending"} \cup Outcomes]]
      /\ rights' \in [Submissions -> [Revisions -> {"absent", "expired"} \cup Bases]]
      /\ termsComplete' \in [Submissions -> BOOLEAN]
  <2>1. CASE SetTaxonomyTermState(s)
    BY <2>1, Zenon DEF TypeOK, SetTaxonomyTermState
  <2>2. CASE \E r \in Revisions : GateStep(s, r)
    <3>1. PICK r \in Revisions : GateStep(s, r)
      BY <2>2
    <3>2. check' = check \/ \E c \in {"pending"} \cup Outcomes : check' = [check EXCEPT ![s][r] = c]
      BY <3>1 DEF GateStep, RecordCopyrightObservation, ReopenCopyrightCheck, RightsExpire
    <3>3. rights' = rights \/ rights' = [rights EXCEPT ![s][r] = "expired"]
      BY <3>1 DEF GateStep, RecordCopyrightObservation, ReopenCopyrightCheck, RightsExpire
    <3>4. termsComplete' = termsComplete
      BY <3>1 DEF GateStep, RecordCopyrightObservation, ReopenCopyrightCheck, RightsExpire
    <3>5. check' \in [Submissions -> [Revisions -> {"absent", "pending"} \cup Outcomes]]
      <4>1. check \in [Submissions -> [Revisions -> {"absent", "pending"} \cup Outcomes]]
        BY DEF TypeOK
      <4>2. QED
        BY <3>2, <4>1
    <3>6. rights' \in [Submissions -> [Revisions -> {"absent", "expired"} \cup Bases]]
      <4>1. rights \in [Submissions -> [Revisions -> {"absent", "expired"} \cup Bases]]
        BY DEF TypeOK
      <4>2. QED
        BY <3>3, <4>1
    <3>7. termsComplete' \in [Submissions -> BOOLEAN]
      BY <3>4, Zenon DEF TypeOK
    <3>8. QED
      BY <3>5, <3>6, <3>7
  <2>3. QED
    BY <2>1, <2>2
<1>6. QED
  BY <1>3, <1>4, <1>5
  DEF TypeOK, Requests, revisionVars, decisionVars, changeVars, trackVars

LEMMA TypePublication ==
  ASSUME TypeOK, NEW u \in Users, PublicationStep(u)
  PROVE  TypeOK'
<1>1. request \in [Users -> Requests]
  BY DEF TypeOK, Requests
<1>2. CASE \E kind \in {"publish", "bulk"}, ids \in SUBSET Submissions, reason \in BOOLEAN :
             AskToPublish(u, kind, ids, reason)
  <2>1. PICK kind \in {"publish", "bulk"}, ids \in SUBSET Submissions, reason \in BOOLEAN :
          AskToPublish(u, kind, ids, reason)
    BY <1>2
  <2> DEFINE q == [NoRequest EXCEPT !.kind = kind, !.ids = ids, !.reason = reason, !.unread = ids]
  <2>2. q \in Requests
    BY DEF NoRequest, Requests
  <2>3. request' = [request EXCEPT ![u] = q]
    BY <2>1 DEF AskToPublish
  <2>4. request' \in [Users -> Requests]
    BY <1>1, <2>2, <2>3
  <2>5. QED
    BY <2>1, <2>4
    DEF AskToPublish, TypeOK, Requests, revisionVars, decisionVars, changeVars, gateVars, trackVars
<1>3. CASE \E s \in Submissions : LoadPublicationInput(u, s)
  <2>1. PICK s \in Submissions : LoadPublicationInput(u, s)
    BY <1>3
  <2> DEFINE q == [request[u] EXCEPT !.unread = request[u].unread \ {s},
                          !.admitted = IF Approved(s) /\ GateAllowed(s)
                                       THEN request[u].admitted \cup {s}
                                       ELSE request[u].admitted]
  <2>2. q \in Requests
    BY <1>1 DEF Requests
  <2>3. request' = [request EXCEPT ![u] = q]
    BY <2>1 DEF LoadPublicationInput
  <2>4. request' \in [Users -> Requests]
    BY <1>1, <2>2, <2>3
  <2>5. QED
    BY <2>1, <2>4
    DEF LoadPublicationInput, TypeOK, Requests, revisionVars, decisionVars, changeVars,
        gateVars, trackVars
<1>4. CASE Publish(u)
  <2>1. NoRequest \in Requests
    BY DEF NoRequest, Requests
  <2>2. request' \in [Users -> Requests]
    BY <1>1, <1>4, <2>1 DEF Publish
  <2>3. QED
    BY <1>4, <2>2, StatusNames
    DEF Publish, TypeOK, Requests, revisionVars, decisionVars, changeVars, gateVars, trackVars
<1>5. QED
  BY <1>2, <1>3, <1>4 DEF PublicationStep

LEMMA TypeWithdraw ==
  ASSUME TypeOK, NEW s \in Submissions, WithdrawPublishedTrack(s)
  PROVE  TypeOK'
BY StatusNames
DEF WithdrawPublishedTrack, TypeOK, revisionVars, decisionVars, changeVars, gateVars
-----------------------------------------------------------------------------
(* The invariant.  The properties are not inductive: what a decision, a      *)
(* resubmission or a publication may find rests on the status of the current *)
(* Revision in each status of the submission, and on the Revisions that do   *)
(* not exist yet.                                                            *)

\* Only Revisions up to the current one exist.
RevisionsAreNumbered ==
  \A s \in Submissions :
    /\ status[s] = "absent" <=> current[s] = 0
    /\ \A r \in Revisions : r > current[s] =>
         revisionStatus[s][r] = "absent" /\ decision[s][r] = "none" /\ r \notin openRequests[s]

\* The current Revision is where its submission is.
CurrentFitsStatus ==
  \A s \in Submissions :
    /\ status[s] = "draft" => revisionStatus[s][current[s]] = "draft"
    /\ status[s] = "changes_requested" => revisionStatus[s][current[s]] \in {"draft", "submitted"}
    /\ status[s] \in {"submitted", "processing", "ready_for_review", "in_review",
                       "rejection_recommended"} => revisionStatus[s][current[s]] = "submitted"

\* Only what was submitted has been decided.
DraftsAreUndecided ==
  \A s \in Submissions : \A r \in Revisions :
    revisionStatus[s][r] = "draft" => decision[s][r] = "none"

\* A request is about submissions that are there; what it has admitted is approved, and
\* was in order when it was read.
AdmittedWereOpen ==
  \A u \in Users :
    /\ \A s \in request[u].unread : status[s] # "absent"
    /\ \A s \in request[u].admitted : status[s] = "approved" /\ (Blocked(s) => s \in request[u].moved)

RevisionInv ==
  /\ RevisionsAreNumbered
  /\ CurrentFitsStatus
  /\ DraftsAreUndecided
  /\ OneRevisionStands
  /\ RevisionsCarryTheirOutcome
  /\ ChangeRequestsMatchStatus

Inv == TypeOK /\ RevisionInv /\ PublicationRestsOnApproval /\ AdmittedWereOpen

\* The current Revision of a submission that is there.
LEMMA CurrentExists ==
  ASSUME TypeOK, RevisionsAreNumbered, NEW s \in Submissions, status[s] # "absent"
  PROVE  current[s] \in Revisions
BY BoundAssumption DEF TypeOK, RevisionsAreNumbered, Revisions

LEMMA RevisionInit == Init => RevisionInv
BY BoundAssumption
DEF Init, RevisionInv, RevisionsAreNumbered, CurrentFitsStatus, DraftsAreUndecided,
    OneRevisionStands, RevisionsCarryTheirOutcome, ChangeRequestsMatchStatus

\* Steps of publication and of the gate do not touch the Revisions.
LEMMA RevisionKept ==
  ASSUME RevisionInv, UNCHANGED <<status, revisionVars, decisionVars, changeVars>>
  PROVE  RevisionInv'
BY DEF RevisionInv, RevisionsAreNumbered, CurrentFitsStatus, DraftsAreUndecided,
       OneRevisionStands, RevisionsCarryTheirOutcome, ChangeRequestsMatchStatus,
       revisionVars, decisionVars, changeVars

LEMMA RevisionAdded ==
  ASSUME TypeOK, TypeOK', RevisionInv, NEW s \in Submissions, NEW basis \in Bases,
         CreateUploadDraft(s, basis) \/ CreateRequestedRevision(s, basis)
  PROVE  RevisionInv'
<1> DEFINE new == current[s] + 1
<1>1. /\ new \in Revisions /\ current[s] \in 0 .. MaxRevision
      /\ status[s] \in {"absent", "changes_requested"}
  BY NextRevision, BoundAssumption
  DEF TypeOK, RevisionInv, RevisionsAreNumbered, CreateUploadDraft, CreateRequestedRevision,
      RevisionTarget
<1>2. /\ current' = [current EXCEPT ![s] = new]
      /\ revisionStatus' = [revisionStatus EXCEPT ![s][new] = "draft"]
      /\ status' = [status EXCEPT ![s] = IF status[s] = "absent" THEN "draft" ELSE status[s]]
      /\ UNCHANGED <<decision, resolution, openRequests, resolvedBy>>
  BY <1>1 DEF TypeOK, CreateUploadDraft, CreateRequestedRevision, RevisionTarget, AddRevision,
      decisionVars, changeVars
<1>3. /\ \A t \in Submissions : current'[t] = IF t = s THEN new ELSE current[t]
      /\ \A t \in Submissions, r \in Revisions :
           revisionStatus'[t][r] = IF t = s /\ r = new THEN "draft" ELSE revisionStatus[t][r]
      /\ \A t \in Submissions : t # s => status'[t] = status[t]
      /\ status'[s] = IF status[s] = "absent" THEN "draft" ELSE "changes_requested"
  BY <1>1, <1>2 DEF TypeOK
<1>4. /\ revisionStatus[s][new] = "absent" /\ decision[s][new] = "none"
      /\ \A t \in Submissions : status[t] # "absent" => current[t] \in Revisions
      /\ \A r \in Revisions : r > new => r > current[s] /\ r # new
      /\ new # 0
  BY <1>1, CurrentExists, BoundAssumption DEF RevisionInv, RevisionsAreNumbered, Revisions
<1>5. RevisionsAreNumbered'
  BY <1>2, <1>3, <1>4 DEF RevisionInv, RevisionsAreNumbered
<1>6. CurrentFitsStatus'
  BY <1>1, <1>3, <1>4 DEF RevisionInv, CurrentFitsStatus
<1>7. DraftsAreUndecided'
  BY <1>2, <1>3, <1>4 DEF RevisionInv, DraftsAreUndecided
<1>8. OneRevisionStands'
  <2>1. \A t \in Submissions : status[t] = "absent" =>
          \A r \in Revisions : revisionStatus[t][r] = "absent"
    BY BoundAssumption DEF RevisionInv, RevisionsAreNumbered, Revisions
  <2>2. QED
    BY <1>1, <1>3, <1>4, <2>1 DEF RevisionInv, OneRevisionStands
<1>9. RevisionsCarryTheirOutcome'
  BY <1>1, <1>2, <1>3, <1>4 DEF RevisionInv, RevisionsCarryTheirOutcome
<1>10. ChangeRequestsMatchStatus'
  BY <1>1, <1>2, <1>3 DEF TypeOK, RevisionInv, ChangeRequestsMatchStatus
<1>11. QED
  BY <1>5, <1>6, <1>7, <1>8, <1>9, <1>10 DEF RevisionInv

LEMMA RevisionSubmitted ==
  ASSUME TypeOK, TypeOK', RevisionInv, NEW s \in Submissions, SubmitCompletedDraft(s)
  PROVE  RevisionInv'
<1>1. current[s] \in Revisions
  BY CurrentExists DEF SubmitCompletedDraft, RevisionInv
<1>2. /\ status[s] \in {"draft", "changes_requested"}
      /\ status' = [status EXCEPT ![s] = "submitted"]
      /\ revisionStatus' = [revisionStatus EXCEPT ![s] = Supersede(s)]
      /\ openRequests' = [openRequests EXCEPT ![s] = {}]
      /\ UNCHANGED <<current, decision, resolution>>
  <2>1. openRequests[s] \ ResolvedRequests(s) = {}
    BY DEF ResolvedRequests
  <2>2. openRequests' = [openRequests EXCEPT ![s] = openRequests[s] \ ResolvedRequests(s)]
    BY DEF SubmitCompletedDraft
  <2>3. QED
    BY <2>1, <2>2 DEF SubmitCompletedDraft, decisionVars
<1>3. revisionStatus[s][current[s]] \in {"draft", "submitted"}
  BY <1>2 DEF RevisionInv, CurrentFitsStatus
<1>4. \A r \in Revisions : revisionStatus[s][r] \notin {"accepted", "rejected"}
  BY <1>2 DEF RevisionInv, RevisionsCarryTheirOutcome
<1>5. \A r \in Revisions : revisionStatus'[s][r] =
        IF r = current[s] THEN "submitted"
        ELSE IF revisionStatus[s][r] = "submitted" THEN "superseded" ELSE revisionStatus[s][r]
  BY <1>2, <1>3 DEF Supersede, Submitted, TypeOK
<1>6. \A t \in Submissions : t # s =>
        revisionStatus'[t] = revisionStatus[t] /\ status'[t] = status[t]
        /\ openRequests'[t] = openRequests[t]
  BY <1>2 DEF TypeOK
<1>7. status'[s] = "submitted" /\ openRequests'[s] = {}
  BY <1>2 DEF TypeOK
<1>8. RevisionsAreNumbered'
  <2>1. \A r \in Revisions : r > current[s] =>
          revisionStatus'[s][r] = "absent" /\ decision'[s][r] = "none" /\ r \notin openRequests'[s]
    BY <1>1, <1>2, <1>5, <1>7, BoundAssumption DEF RevisionInv, RevisionsAreNumbered, Revisions
  <2>2. current[s] # 0
    BY <1>1, BoundAssumption DEF Revisions
  <2>3. QED
    BY <1>2, <1>6, <1>7, <2>1, <2>2 DEF RevisionInv, RevisionsAreNumbered
<1>9. CurrentFitsStatus'
  BY <1>1, <1>2, <1>5, <1>6, <1>7 DEF RevisionInv, CurrentFitsStatus
<1>10. DraftsAreUndecided'
  BY <1>1, <1>2, <1>5, <1>6, <1>7 DEF RevisionInv, DraftsAreUndecided
<1>11. OneRevisionStands'
  BY <1>1, <1>2, <1>4, <1>5, <1>6, <1>7 DEF RevisionInv, OneRevisionStands, TypeOK, RevisionStatuses
<1>12. RevisionsCarryTheirOutcome'
  BY <1>1, <1>2, <1>4, <1>5, <1>6, <1>7 DEF RevisionInv, RevisionsCarryTheirOutcome
<1>13. ChangeRequestsMatchStatus'
  BY <1>2, <1>6, <1>7 DEF RevisionInv, ChangeRequestsMatchStatus
<1>14. QED
  BY <1>8, <1>9, <1>10, <1>11, <1>12, <1>13 DEF RevisionInv

\* What the steps of processing and the start of a review change.
LEMMA RevisionInProgress ==
  ASSUME TypeOK, RevisionInv, NEW s \in Submissions,
         BeginRevisionProcessing(s) \/ FinalizeRevisionForReview(s) \/ StartReview(s)
  PROVE  RevisionInv'
<1> DEFINE next == CASE status[s] = "submitted" -> "processing"
                     [] status[s] = "processing" -> "ready_for_review"
                     [] status[s] = "ready_for_review" -> "in_review"
<1>1. /\ status[s] \in {"submitted", "processing", "ready_for_review"}
      /\ next \in {"processing", "ready_for_review", "in_review"}
      /\ status' = [status EXCEPT ![s] = next]
      /\ UNCHANGED <<current, revisionStatus, decision, resolution, openRequests, resolvedBy>>
  BY DEF BeginRevisionProcessing, FinalizeRevisionForReview, StartReview, revisionVars,
         decisionVars, changeVars
<1>2. \A t \in Submissions : status'[t] = IF t = s THEN next ELSE status[t]
  BY <1>1 DEF TypeOK
<1> HIDE DEF next
<1>3. RevisionsAreNumbered' /\ CurrentFitsStatus' /\ DraftsAreUndecided'
  BY <1>1, <1>2 DEF RevisionInv, RevisionsAreNumbered, CurrentFitsStatus, DraftsAreUndecided
<1>4. OneRevisionStands'
  BY <1>1, <1>2 DEF RevisionInv, OneRevisionStands
<1>5. RevisionsCarryTheirOutcome' /\ ChangeRequestsMatchStatus'
  BY <1>1, <1>2 DEF RevisionInv, RevisionsCarryTheirOutcome, ChangeRequestsMatchStatus
<1>6. QED
  BY <1>3, <1>4, <1>5 DEF RevisionInv

\* A step that changes nothing but the current Revision of s.
LEMMA NumbersKept ==
  ASSUME TypeOK, RevisionsAreNumbered, NEW s \in Submissions, current' = current,
         \A t \in Submissions : status'[t] = "absent" <=> status[t] = "absent",
         \A t \in Submissions, r \in Revisions : ~(t = s /\ r = current[s]) =>
           /\ revisionStatus'[t][r] = revisionStatus[t][r] /\ decision'[t][r] = decision[t][r]
           /\ r \in openRequests'[t] => r \in openRequests[t]
  PROVE  RevisionsAreNumbered'
<1>1. \A r \in Revisions : r > current[s] => r # current[s]
  BY BoundAssumption DEF TypeOK, Revisions
<1>2. QED
  BY <1>1 DEF RevisionsAreNumbered

\* A decision or a resolution, seen as one change of the current Revision of s.
LEMMA RevisionJudged ==
  ASSUME TypeOK, RevisionInv, NEW s \in Submissions,
         \/ ApproveReview(s) \/ RequestReviewChanges(s) \/ RecommendReviewRejection(s)
         \/ \E r \in Revisions : ResolutionStep(s, r)
  PROVE  RevisionInv'
<1> DEFINE c == current[s]
<1>1. /\ c \in Revisions /\ current' = current
      /\ \A t \in Submissions : status[t] # "absent" => current[t] \in Revisions
  BY CurrentExists
  DEF RevisionInv, ApproveReview, RequestReviewChanges, RecommendReviewRejection, Decidable,
      ResolutionStep, ConfirmReviewRejection, ReturnRejectedReviewForChanges, Resolvable,
      revisionVars, InsertChangeRequest
<1>2. openRequests[s] = {} /\ revisionStatus[s][c] = "submitted"
      /\ status[s] \in {"in_review", "rejection_recommended"}
      /\ \A r \in Revisions : decision[s][r] # "approve" /\ resolution[s][r] # "confirm_reject"
  <2>1. status[s] \in {"in_review", "rejection_recommended"}
    BY DEF ApproveReview, RequestReviewChanges, RecommendReviewRejection, Decidable,
           ResolutionStep, ConfirmReviewRejection, ReturnRejectedReviewForChanges, Resolvable, InsertChangeRequest
  <2>2. openRequests[s] = {}
    BY <2>1 DEF TypeOK, RevisionInv, ChangeRequestsMatchStatus
  <2>3. QED
    BY <2>1, <2>2 DEF RevisionInv, CurrentFitsStatus, RevisionsCarryTheirOutcome
<1>3. CASE ApproveReview(s)
  <2>1. /\ decision[s][c] = "none" /\ UNCHANGED <<resolution, openRequests>>
        /\ \A t \in Submissions : status'[t] = IF t = s THEN "approved" ELSE status[t]
        /\ \A t \in Submissions, r \in Revisions :
             /\ revisionStatus'[t][r] = IF t = s /\ r = c THEN "accepted" ELSE revisionStatus[t][r]
             /\ decision'[t][r] = IF t = s /\ r = c THEN "approve" ELSE decision[t][r]
    BY <1>1, <1>3 DEF ApproveReview, Decidable, TypeOK, changeVars
  <2>2. RevisionsAreNumbered' /\ CurrentFitsStatus' /\ DraftsAreUndecided'
    <3>1. RevisionsAreNumbered'
      BY <1>1, <1>2, <2>1, NumbersKept DEF RevisionInv
    <3>2. CurrentFitsStatus'
      BY <1>1, <1>2, <2>1 DEF RevisionInv, CurrentFitsStatus
    <3>3. DraftsAreUndecided'
      BY <1>1, <1>2, <2>1 DEF RevisionInv, DraftsAreUndecided
    <3>4. QED
      BY <3>1, <3>2, <3>3
  <2>3. OneRevisionStands'
    BY <1>1, <1>2, <2>1 DEF RevisionInv, OneRevisionStands
  <2>4. RevisionsCarryTheirOutcome'
    BY <1>1, <1>2, <2>1 DEF RevisionInv, RevisionsCarryTheirOutcome
  <2>5. ChangeRequestsMatchStatus'
    <3>1. \A t \in Submissions : openRequests[t] \subseteq Revisions
      BY DEF TypeOK
    <3>2. \A t \in Submissions : t # s => status'[t] = status[t]
            /\ \A r \in Revisions : decision'[t][r] = decision[t][r]
      BY <2>1
    <3>3. status'[s] = "approved" /\ openRequests'[s] = {}
      BY <1>1, <1>2, <2>1
    <3>4. QED
      BY <1>1, <2>1, <3>1, <3>2, <3>3 DEF RevisionInv, ChangeRequestsMatchStatus
  <2>6. QED
    BY <2>2, <2>3, <2>4, <2>5 DEF RevisionInv
<1>4. CASE RequestReviewChanges(s)
  <2>1. /\ decision[s][c] = "none" /\ UNCHANGED <<resolution, revisionStatus>>
        /\ \A t \in Submissions : status'[t] = IF t = s THEN "changes_requested" ELSE status[t]
        /\ \A t \in Submissions : openRequests'[t] = IF t = s THEN {c} ELSE openRequests[t]
        /\ \A t \in Submissions, r \in Revisions :
             decision'[t][r] = IF t = s /\ r = c THEN "request_changes" ELSE decision[t][r]
    BY <1>1, <1>2, <1>4 DEF RequestReviewChanges, Decidable, TypeOK, revisionVars, InsertChangeRequest
  <2>2. RevisionsAreNumbered' /\ CurrentFitsStatus' /\ DraftsAreUndecided'
    <3>1. RevisionsAreNumbered'
      BY <1>1, <1>2, <2>1, NumbersKept DEF RevisionInv
    <3>2. CurrentFitsStatus'
      BY <1>1, <1>2, <2>1 DEF RevisionInv, CurrentFitsStatus
    <3>3. DraftsAreUndecided'
      BY <1>1, <1>2, <2>1 DEF RevisionInv, DraftsAreUndecided
    <3>4. QED
      BY <3>1, <3>2, <3>3
  <2>3. OneRevisionStands'
    BY <1>1, <1>2, <2>1 DEF TypeOK, RevisionStatuses, RevisionInv, OneRevisionStands
  <2>4. RevisionsCarryTheirOutcome'
    BY <1>1, <1>2, <2>1 DEF RevisionInv, RevisionsCarryTheirOutcome
  <2>5. ChangeRequestsMatchStatus'
    <3>1. \A t \in Submissions : openRequests[t] \subseteq Revisions
      BY DEF TypeOK
    <3>2. \A t \in Submissions : t # s => status'[t] = status[t]
            /\ openRequests'[t] = openRequests[t]
            /\ \A r \in Revisions : decision'[t][r] = decision[t][r]
      BY <2>1
    <3>3. /\ status'[s] = "changes_requested" /\ openRequests'[s] = {c}
          /\ decision'[s][c] = "request_changes"
      BY <1>1, <1>2, <2>1
    <3>4. QED
      BY <1>1, <2>1, <3>1, <3>2, <3>3 DEF RevisionInv, ChangeRequestsMatchStatus
  <2>6. QED
    BY <2>2, <2>3, <2>4, <2>5 DEF RevisionInv
<1>5. CASE RecommendReviewRejection(s)
  <2>1. /\ decision[s][c] = "none" /\ UNCHANGED <<resolution, revisionStatus, openRequests>>
        /\ \A t \in Submissions : status'[t] = IF t = s THEN "rejection_recommended" ELSE status[t]
        /\ \A t \in Submissions, r \in Revisions :
             decision'[t][r] = IF t = s /\ r = c THEN "recommend_reject" ELSE decision[t][r]
    BY <1>1, <1>5 DEF RecommendReviewRejection, Decidable, TypeOK, revisionVars, changeVars
  <2>2. RevisionsAreNumbered' /\ CurrentFitsStatus' /\ DraftsAreUndecided'
    <3>1. RevisionsAreNumbered'
      BY <1>1, <1>2, <2>1, NumbersKept DEF RevisionInv
    <3>2. CurrentFitsStatus'
      BY <1>1, <1>2, <2>1 DEF RevisionInv, CurrentFitsStatus
    <3>3. DraftsAreUndecided'
      BY <1>1, <1>2, <2>1 DEF RevisionInv, DraftsAreUndecided
    <3>4. QED
      BY <3>1, <3>2, <3>3
  <2>3. OneRevisionStands'
    BY <1>1, <1>2, <2>1 DEF RevisionInv, OneRevisionStands
  <2>4. RevisionsCarryTheirOutcome'
    BY <1>1, <1>2, <2>1 DEF RevisionInv, RevisionsCarryTheirOutcome
  <2>5. ChangeRequestsMatchStatus'
    <3>1. \A t \in Submissions : openRequests[t] \subseteq Revisions
      BY DEF TypeOK
    <3>2. \A t \in Submissions : t # s => status'[t] = status[t]
            /\ \A r \in Revisions : decision'[t][r] = decision[t][r]
      BY <2>1
    <3>3. status'[s] = "rejection_recommended" /\ openRequests'[s] = {}
      BY <1>1, <1>2, <2>1
    <3>4. QED
      BY <1>1, <2>1, <3>1, <3>2, <3>3 DEF RevisionInv, ChangeRequestsMatchStatus
  <2>6. QED
    BY <2>2, <2>3, <2>4, <2>5 DEF RevisionInv
<1>6. CASE ConfirmReviewRejection(s, c)
  <2>1. /\ decision[s][c] = "recommend_reject" /\ UNCHANGED <<decision, openRequests>>
        /\ \A t \in Submissions : status'[t] = IF t = s THEN "rejected" ELSE status[t]
        /\ \A t \in Submissions, r \in Revisions :
             /\ revisionStatus'[t][r] = IF t = s /\ r = c THEN "rejected" ELSE revisionStatus[t][r]
             /\ resolution'[t][r] = IF t = s /\ r = c THEN "confirm_reject" ELSE resolution[t][r]
    BY <1>1, <1>6 DEF ConfirmReviewRejection, TypeOK, changeVars
  <2>2. RevisionsAreNumbered' /\ CurrentFitsStatus' /\ DraftsAreUndecided'
    <3>1. RevisionsAreNumbered'
      BY <1>1, <1>2, <2>1, NumbersKept DEF RevisionInv
    <3>2. CurrentFitsStatus'
      BY <1>1, <1>2, <2>1 DEF RevisionInv, CurrentFitsStatus
    <3>3. DraftsAreUndecided'
      BY <1>1, <1>2, <2>1 DEF RevisionInv, DraftsAreUndecided
    <3>4. QED
      BY <3>1, <3>2, <3>3
  <2>3. OneRevisionStands'
    BY <1>1, <1>2, <2>1 DEF RevisionInv, OneRevisionStands
  <2>4. RevisionsCarryTheirOutcome'
    BY <1>1, <1>2, <2>1 DEF RevisionInv, RevisionsCarryTheirOutcome
  <2>5. ChangeRequestsMatchStatus'
    <3>1. \A t \in Submissions : openRequests[t] \subseteq Revisions
      BY DEF TypeOK
    <3>2. \A t \in Submissions : t # s => status'[t] = status[t]
            /\ \A r \in Revisions : resolution'[t][r] = resolution[t][r]
      BY <2>1
    <3>3. status'[s] = "rejected" /\ openRequests'[s] = {}
      BY <1>2, <2>1
    <3>4. QED
      BY <2>1, <3>1, <3>2, <3>3 DEF RevisionInv, ChangeRequestsMatchStatus
  <2>6. QED
    BY <2>2, <2>3, <2>4, <2>5 DEF RevisionInv
<1>7. CASE ReturnRejectedReviewForChanges(s, c)
  <2>1. /\ decision[s][c] = "recommend_reject" /\ UNCHANGED <<decision, revisionStatus>>
        /\ \A t \in Submissions : status'[t] = IF t = s THEN "changes_requested" ELSE status[t]
        /\ \A t \in Submissions : openRequests'[t] = IF t = s THEN {c} ELSE openRequests[t]
        /\ \A t \in Submissions, r \in Revisions :
             resolution'[t][r] = IF t = s /\ r = c THEN "return_for_changes" ELSE resolution[t][r]
    BY <1>1, <1>2, <1>7 DEF ReturnRejectedReviewForChanges, TypeOK, revisionVars, InsertChangeRequest
  <2>2. RevisionsAreNumbered' /\ CurrentFitsStatus' /\ DraftsAreUndecided'
    <3>1. RevisionsAreNumbered'
      BY <1>1, <1>2, <2>1, NumbersKept DEF RevisionInv
    <3>2. CurrentFitsStatus'
      BY <1>1, <1>2, <2>1 DEF RevisionInv, CurrentFitsStatus
    <3>3. DraftsAreUndecided'
      BY <1>1, <1>2, <2>1 DEF RevisionInv, DraftsAreUndecided
    <3>4. QED
      BY <3>1, <3>2, <3>3
  <2>3. OneRevisionStands'
    BY <1>1, <1>2, <2>1 DEF TypeOK, RevisionStatuses, RevisionInv, OneRevisionStands
  <2>4. RevisionsCarryTheirOutcome'
    BY <1>1, <1>2, <2>1 DEF RevisionInv, RevisionsCarryTheirOutcome
  <2>5. ChangeRequestsMatchStatus'
    <3>1. \A t \in Submissions : openRequests[t] \subseteq Revisions
      BY DEF TypeOK
    <3>2. \A t \in Submissions : t # s => status'[t] = status[t]
            /\ openRequests'[t] = openRequests[t]
            /\ \A r \in Revisions : resolution'[t][r] = resolution[t][r]
      BY <2>1
    <3>3. /\ status'[s] = "changes_requested" /\ openRequests'[s] = {c}
          /\ resolution'[s][c] = "return_for_changes"
      BY <1>1, <2>1
    <3>4. QED
      BY <2>1, <3>1, <3>2, <3>3 DEF RevisionInv, ChangeRequestsMatchStatus
  <2>6. QED
    BY <2>2, <2>3, <2>4, <2>5 DEF RevisionInv
<1>8. (\E r \in Revisions : ResolutionStep(s, r)) =>
        ConfirmReviewRejection(s, c) \/ ReturnRejectedReviewForChanges(s, c)
  BY DEF ResolutionStep, ConfirmReviewRejection, ReturnRejectedReviewForChanges, Resolvable, InsertChangeRequest
<1>9. QED
  BY <1>3, <1>4, <1>5, <1>6, <1>7, <1>8

-----------------------------------------------------------------------------
(* Publication.                                                             *)

\* An approved submission with a Revision that stands as accepted stays as it is.
LEMMA ApprovedIsFinal ==
  ASSUME TypeOK, RevisionInv, NEW s \in Submissions, status[s] = "approved",
         NEW t \in Submissions,
         \/ ProducerStep(t) \/ ReviewStep(t) \/ \E r \in Revisions : ResolutionStep(t, r)
  PROVE  /\ UNCHANGED <<status[s], current[s], decision[s], revisionStatus[s]>>
         /\ UNCHANGED <<publication, publishedRevision, request, rights[s], check[s],
                        termsComplete[s]>>
<1>1. s # t
  BY DEF ProducerStep, CreateUploadDraft, CreateRequestedRevision, RevisionTarget,
         SubmitCompletedDraft, ReviewStep, BeginRevisionProcessing, FinalizeRevisionForReview,
         StartReview, ApproveReview, RequestReviewChanges, RecommendReviewRejection, Decidable,
         ResolutionStep, ConfirmReviewRejection, ReturnRejectedReviewForChanges, Resolvable, InsertChangeRequest
<1>2. CASE ProducerStep(t)
  BY <1>1, <1>2
  DEF TypeOK, ProducerStep, CreateUploadDraft, CreateRequestedRevision, AddRevision,
      SubmitCompletedDraft, decisionVars, changeVars, trackVars
<1>3. CASE ReviewStep(t)
  BY <1>1, <1>3
  DEF TypeOK, ReviewStep, BeginRevisionProcessing, FinalizeRevisionForReview, StartReview,
      ApproveReview, RequestReviewChanges, RecommendReviewRejection, revisionVars,
      decisionVars, changeVars, gateVars, trackVars, InsertChangeRequest
<1>4. CASE \E r \in Revisions : ResolutionStep(t, r)
  BY <1>1, <1>4
  DEF TypeOK, ResolutionStep, ConfirmReviewRejection, ReturnRejectedReviewForChanges,
      revisionVars, decisionVars, changeVars, gateVars, trackVars, InsertChangeRequest
<1>5. QED
  BY <1>2, <1>3, <1>4

\* The steps of the gate, and what they leave alone.
LEMMA GateFrame ==
  ASSUME NEW s \in Submissions,
         (\E r \in Revisions : GateStep(s, r)) \/ SetTaxonomyTermState(s)
  PROVE  UNCHANGED <<status, revisionVars, decisionVars, changeVars, trackVars>>
BY DEF GateStep, RecordCopyrightObservation, ReopenCopyrightCheck, RightsExpire,
       SetTaxonomyTermState

LEMMA PublicationFrame ==
  ASSUME NEW u \in Users, PublicationStep(u)
  PROVE  UNCHANGED <<status, revisionVars, decisionVars, changeVars, gateVars>>
BY DEF PublicationStep, AskToPublish, LoadPublicationInput, Publish

\* What publication and withdrawal make of a Track.
LEMMA TrackMoves ==
  ASSUME TypeOK, NEW s \in Submissions,
         (\E u \in Users : PublicationStep(u)) \/ (\E t \in Submissions : WithdrawPublishedTrack(t))
  PROVE  \/ UNCHANGED <<publication[s], publishedRevision[s]>>
         \/ /\ status[s] = "approved" /\ revisionStatus[s][current[s]] = "accepted"
            /\ publishedRevision'[s] = current[s]
         \/ publication[s] = "published" /\ publishedRevision'[s] = publishedRevision[s]
<1>1. CASE \E t \in Submissions : WithdrawPublishedTrack(t)
  BY <1>1 DEF WithdrawPublishedTrack, Withdrawable, TypeOK
<1>2. CASE \E u \in Users : PublicationStep(u)
  <2>1. PICK u \in Users : PublicationStep(u)
    BY <1>2
  <2>2. CASE Publish(u)
    <3>1. CASE \A t \in request[u].ids : Publishable(u, t)
      <4>1. /\ publishedRevision'[s] =
                 IF s \in request[u].ids THEN current[s] ELSE publishedRevision[s]
            /\ publication'[s] = IF s \in request[u].ids THEN "published" ELSE publication[s]
        BY <2>2, <3>1 DEF Publish
      <4>2. s \in request[u].ids =>
              status[s] = "approved" /\ revisionStatus[s][current[s]] = "accepted"
        BY <3>1 DEF Publishable
      <4>3. QED
        BY <4>1, <4>2
    <3>2. CASE ~\A t \in request[u].ids : Publishable(u, t)
      BY <2>2, <3>2 DEF Publish, trackVars
    <3>3. QED
      BY <3>1, <3>2
  <2>3. CASE ~Publish(u)
    BY <2>1, <2>3 DEF PublicationStep, AskToPublish, LoadPublicationInput, trackVars
  <2>4. QED
    BY <2>2, <2>3
<1>3. QED
  BY <1>1, <1>2

LEMMA PublicationKept ==
  ASSUME TypeOK, RevisionInv, PublicationRestsOnApproval, [Next]_vars
  PROVE  PublicationRestsOnApproval'
<1> SUFFICES ASSUME NEW s \in Submissions, publication'[s] # "unpublished"
             PROVE  /\ status'[s] = "approved"
                    /\ publishedRevision'[s] = current'[s]
                    /\ decision'[s][current'[s]] = "approve"
                    /\ revisionStatus'[s][current'[s]] = "accepted"
  BY DEF PublicationRestsOnApproval
<1>1. CASE \E t \in Submissions :
             ProducerStep(t) \/ ReviewStep(t) \/ \E r \in Revisions : ResolutionStep(t, r)
  <2>1. PICK t \in Submissions :
          ProducerStep(t) \/ ReviewStep(t) \/ \E r \in Revisions : ResolutionStep(t, r)
    BY <1>1
  <2>2. UNCHANGED publication /\ UNCHANGED publishedRevision
    BY <2>1
    DEF ProducerStep, CreateUploadDraft, CreateRequestedRevision, SubmitCompletedDraft,
        ReviewStep, BeginRevisionProcessing, FinalizeRevisionForReview, StartReview,
        ApproveReview, RequestReviewChanges, RecommendReviewRejection, ResolutionStep,
        ConfirmReviewRejection, ReturnRejectedReviewForChanges, trackVars, InsertChangeRequest
  <2>3. status[s] = "approved"
    BY <2>2 DEF PublicationRestsOnApproval
  <2>4. UNCHANGED <<status[s], current[s], decision[s], revisionStatus[s]>>
    BY <2>1, <2>3, ApprovedIsFinal
  <2>5. QED
    BY <2>2, <2>4 DEF PublicationRestsOnApproval
<1>2. CASE \E t \in Submissions :
             (\E r \in Revisions : GateStep(t, r)) \/ SetTaxonomyTermState(t)
  BY <1>2, GateFrame DEF PublicationRestsOnApproval, revisionVars, decisionVars, trackVars
<1>3. CASE (\E u \in Users : PublicationStep(u)) \/ (\E t \in Submissions : WithdrawPublishedTrack(t))
  <2>1. UNCHANGED <<status, current, revisionStatus, decision>>
    BY <1>3, PublicationFrame DEF WithdrawPublishedTrack, revisionVars, decisionVars
  <2>2. status[s] = "approved" => current[s] \in Revisions
    BY CurrentExists DEF RevisionInv
  <2>3. status[s] = "approved" /\ revisionStatus[s][current[s]] = "accepted"
          => decision[s][current[s]] = "approve"
    BY <2>2 DEF RevisionInv, RevisionsCarryTheirOutcome
  <2>4. QED
    BY <1>3, <2>1, <2>3, TrackMoves DEF PublicationRestsOnApproval
<1>4. CASE UNCHANGED vars
  BY <1>4 DEF vars, revisionVars, decisionVars, trackVars, PublicationRestsOnApproval
<1>5. QED
  BY <1>1, <1>2, <1>3, <1>4 DEF Next

-----------------------------------------------------------------------------
(* What a request has admitted.                                             *)

LEMMA RequestFields ==
  ASSUME TypeOK, NEW u \in Users
  PROVE  request[u] \in Requests
BY DEF TypeOK, Requests

\* What a step of the gate does to the requests.
LEMMA MovedGrows ==
  ASSUME TypeOK, NEW t \in Submissions, Moved(t) \/ UNCHANGED request, NEW u \in Users
  PROVE  /\ request'[u].admitted = request[u].admitted
         /\ request'[u].unread = request[u].unread
         /\ request[u].moved \subseteq request'[u].moved
         /\ Moved(t) /\ t \in request[u].admitted => t \in request'[u].moved
<1>1. request[u] \in Requests
  BY RequestFields
<1>2. CASE Moved(t)
  BY <1>1, <1>2 DEF Moved, Requests
<1>3. CASE ~Moved(t)
  BY <1>3
<1>4. QED
  BY <1>2, <1>3

\* A gate that a step closes is one whose requests learn of it.
LEMMA GateCloses ==
  ASSUME TypeOK, NEW t \in Submissions,
         (\E r \in Revisions : GateStep(t, r)) \/ SetTaxonomyTermState(t),
         NEW s \in Submissions, Blocked(s)'
  PROVE  Blocked(s) \/ (s = t /\ Moved(t))
<1> SUFFICES ASSUME ~(s = t /\ Moved(t))
             PROVE  Blocked(s)
  OBVIOUS
<1>1. UNCHANGED current
  BY GateFrame DEF revisionVars
<1>2. CASE SetTaxonomyTermState(t)
  <2>1. UNCHANGED <<check, rights>>
    BY <1>2 DEF SetTaxonomyTermState
  <2>2. CASE s = t
    <3>1. ~termsComplete[s]
      BY <1>2, <2>2 DEF SetTaxonomyTermState
    <3>2. QED
      BY <3>1 DEF Blocked
  <2>3. CASE s # t
    <3>1. termsComplete'[s] = termsComplete[s]
      BY <1>2, <2>3 DEF SetTaxonomyTermState, TypeOK
    <3>2. QED
      BY <1>1, <2>1, <3>1 DEF Blocked
  <2>4. QED
    BY <2>2, <2>3
<1>3. CASE \E r \in Revisions : GateStep(t, r)
  <2>1. PICK r \in Revisions : GateStep(t, r)
    BY <1>3
  <2>2. UNCHANGED termsComplete
    BY <2>1 DEF GateStep, RecordCopyrightObservation, ReopenCopyrightCheck, RightsExpire
  <2>3. CASE s # t
    <3>1. check'[s] = check[s] /\ rights'[s] = rights[s]
      BY <2>1, <2>3
      DEF TypeOK, GateStep, RecordCopyrightObservation, ReopenCopyrightCheck, RightsExpire
    <3>2. QED
      BY <1>1, <2>2, <3>1 DEF Blocked
  <2>4. CASE s = t
    <3>1. ~Moved(t)
      BY <2>4
    <3>2. UNCHANGED rights /\ check' = [check EXCEPT ![t][r] = "clear"]
      BY <2>1, <3>1
      DEF GateStep, RecordCopyrightObservation, ReopenCopyrightCheck, RightsExpire, Outcomes
    <3>3. check'[s][current[s]] # "clear" => check[s][current[s]] # "clear"
      BY <2>4, <3>2 DEF TypeOK
    <3>4. QED
      BY <1>1, <2>2, <3>2, <3>3 DEF Blocked
  <2>5. QED
    BY <2>3, <2>4
<1>4. QED
  BY <1>2, <1>3

\* A submission that is there stays.
LEMMA SubmissionStays ==
  ASSUME TypeOK, NEW s \in Submissions, status[s] # "absent", NEW t \in Submissions,
         \/ ProducerStep(t) \/ ReviewStep(t) \/ \E r \in Revisions : ResolutionStep(t, r)
  PROVE  status'[s] # "absent" /\ UNCHANGED request
<1>1. status' = status \/ \E next \in Promise!Statuses \ {"absent"} :
        status' = [status EXCEPT ![t] = next]
  BY StatusNames
  DEF ProducerStep, CreateUploadDraft, CreateRequestedRevision, SubmitCompletedDraft,
      ReviewStep, BeginRevisionProcessing, FinalizeRevisionForReview, StartReview,
      ApproveReview, RequestReviewChanges, RecommendReviewRejection, ResolutionStep,
      ConfirmReviewRejection, ReturnRejectedReviewForChanges, revisionVars, InsertChangeRequest
<1>2. UNCHANGED request
  BY DEF ProducerStep, CreateUploadDraft, CreateRequestedRevision, SubmitCompletedDraft,
         ReviewStep, BeginRevisionProcessing, FinalizeRevisionForReview, StartReview,
         ApproveReview, RequestReviewChanges, RecommendReviewRejection, ResolutionStep,
         ConfirmReviewRejection, ReturnRejectedReviewForChanges, InsertChangeRequest
<1>3. QED
  BY <1>1, <1>2 DEF TypeOK

LEMMA GateAsBlocked ==
  ASSUME NEW s \in Submissions, GateAllowed(s)
  PROVE  ~Blocked(s)
BY DEF GateAllowed, CopyrightAcceptable, Blocked

LEMMA AdmittedByRequest ==
  ASSUME TypeOK, RevisionInv, AdmittedWereOpen, NEW u \in Users, PublicationStep(u)
  PROVE  AdmittedWereOpen'
<1>1. UNCHANGED status /\ \A s \in Submissions : Blocked(s)' <=> Blocked(s)
  BY PublicationFrame DEF revisionVars, gateVars, Blocked
<1> DEFINE Fine(q) ==
      /\ \A s \in q.unread : status[s] # "absent"
      /\ \A s \in q.admitted : status[s] = "approved" /\ (Blocked(s) => s \in q.moved)
<1>2. \A v \in Users : Fine(request[v])
  BY DEF AdmittedWereOpen
<1>3. \E q \in Requests : request' = [request EXCEPT ![u] = q] /\ Fine(q)
  <2>1. CASE \E kind \in {"publish", "bulk"}, ids \in SUBSET Submissions, reason \in BOOLEAN :
               AskToPublish(u, kind, ids, reason)
    <3>1. PICK kind \in {"publish", "bulk"}, ids \in SUBSET Submissions, reason \in BOOLEAN :
            AskToPublish(u, kind, ids, reason)
      BY <2>1
    <3> DEFINE q == [NoRequest EXCEPT !.kind = kind, !.ids = ids, !.reason = reason, !.unread = ids]
    <3>2. q \in Requests /\ q.unread = ids /\ q.admitted = {}
      BY DEF NoRequest, Requests
    <3>3. request' = [request EXCEPT ![u] = q] /\ \A s \in ids : status[s] # "absent"
      BY <3>1 DEF AskToPublish
    <3>4. QED
      BY <3>2, <3>3
  <2>2. CASE \E s \in Submissions : LoadPublicationInput(u, s)
    <3>1. PICK s \in Submissions : LoadPublicationInput(u, s)
      BY <2>2
    <3> DEFINE found == IF Approved(s) /\ GateAllowed(s) THEN request[u].admitted \cup {s}
                                                         ELSE request[u].admitted
               q == [request[u] EXCEPT !.unread = request[u].unread \ {s}, !.admitted = found]
    <3>2. request[u] \in Requests
      BY RequestFields
    <3>3. request' = [request EXCEPT ![u] = q] /\ s \in request[u].unread
      BY <3>1 DEF LoadPublicationInput
    <3>4. q \in Requests /\ q.unread = request[u].unread \ {s} /\ q.admitted = found
          /\ q.moved = request[u].moved
      BY <3>2 DEF Requests
    <3>5. Approved(s) /\ GateAllowed(s) => status[s] = "approved" /\ ~Blocked(s)
      <4>1. status[s] # "absent"
        BY <1>2, <3>3
      <4>2. current[s] \in Revisions
        BY <4>1, CurrentExists DEF RevisionInv
      <4>3. QED
        BY <4>2, GateAsBlocked DEF Approved, RevisionInv, RevisionsCarryTheirOutcome
    <3>6. \A x \in found : status[x] = "approved" /\ (Blocked(x) => x \in request[u].moved)
      BY <1>2, <3>5
    <3>7. \A x \in request[u].unread : status[x] # "absent"
      BY <1>2
    <3>8. Fine(q)
      <4>1. \A x \in q.unread : status[x] # "absent"
        BY <3>4, <3>7
      <4>2. \A x \in q.admitted : status[x] = "approved" /\ (Blocked(x) => x \in q.moved)
        BY <3>4, <3>6
      <4>3. QED
        BY <4>1, <4>2
    <3> HIDE DEF q, Fine
    <3>9. QED
      BY <3>3, <3>4, <3>8
  <2>3. CASE Publish(u)
    <3>1. NoRequest \in Requests /\ Fine(NoRequest)
      BY DEF NoRequest, Requests
    <3>2. QED
      BY <2>3, <3>1 DEF Publish
  <2>4. QED
    BY <2>1, <2>2, <2>3 DEF PublicationStep
<1>4. PICK q \in Requests : request' = [request EXCEPT ![u] = q] /\ Fine(q)
  BY <1>3
<1>5. \A v \in Users : Fine(request'[v])
  BY <1>2, <1>4 DEF TypeOK
<1>6. \A v \in Users : request'[v] \in Requests
  BY <1>4, RequestFields DEF TypeOK
<1>7. QED
  BY <1>1, <1>5, <1>6 DEF AdmittedWereOpen, Requests

LEMMA AdmittedKept ==
  ASSUME TypeOK, RevisionInv, AdmittedWereOpen, [Next]_vars
  PROVE  AdmittedWereOpen'
<1>1. CASE \E t \in Submissions :
             ProducerStep(t) \/ ReviewStep(t) \/ \E r \in Revisions : ResolutionStep(t, r)
  <2>1. PICK t \in Submissions :
          ProducerStep(t) \/ ReviewStep(t) \/ \E r \in Revisions : ResolutionStep(t, r)
    BY <1>1
  <2> SUFFICES ASSUME NEW u \in Users
               PROVE  /\ \A s \in request'[u].unread : status'[s] # "absent"
                      /\ \A s \in request'[u].admitted :
                           status'[s] = "approved" /\ (Blocked(s)' => s \in request'[u].moved)
    BY DEF AdmittedWereOpen
  <2>2. request[u] \in Requests
    BY RequestFields
  <2>3. ASSUME NEW s \in request[u].unread
        PROVE  status'[s] # "absent"
    <3>1. s \in Submissions /\ status[s] # "absent"
      BY <2>2 DEF AdmittedWereOpen, Requests
    <3>2. QED
      BY <2>1, <3>1, SubmissionStays
  <2>4. ASSUME NEW s \in request[u].admitted
        PROVE  status'[s] = "approved" /\ (Blocked(s)' => s \in request[u].moved)
    <3>1. s \in Submissions /\ status[s] = "approved" /\ (Blocked(s) => s \in request[u].moved)
      BY <2>2 DEF AdmittedWereOpen, Requests
    <3>2. UNCHANGED <<status[s], current[s], rights[s], check[s], termsComplete[s]>>
      BY <2>1, <3>1, ApprovedIsFinal
    <3>3. QED
      BY <3>1, <3>2 DEF Blocked
  <2>5. UNCHANGED request
    BY <2>1
    DEF ProducerStep, CreateUploadDraft, CreateRequestedRevision, SubmitCompletedDraft,
        ReviewStep, BeginRevisionProcessing, FinalizeRevisionForReview, StartReview,
        ApproveReview, RequestReviewChanges, RecommendReviewRejection, ResolutionStep,
        ConfirmReviewRejection, ReturnRejectedReviewForChanges, InsertChangeRequest
  <2>6. QED
    BY <2>3, <2>4, <2>5
<1>2. CASE \E t \in Submissions :
             (\E r \in Revisions : GateStep(t, r)) \/ SetTaxonomyTermState(t)
  <2>1. PICK t \in Submissions : (\E r \in Revisions : GateStep(t, r)) \/ SetTaxonomyTermState(t)
    BY <1>2
  <2>2. UNCHANGED status
    BY <2>1, GateFrame
  <2>3. Moved(t) \/ UNCHANGED request
    BY <2>1 DEF GateStep, RecordCopyrightObservation, ReopenCopyrightCheck, RightsExpire,
                SetTaxonomyTermState
  <2> SUFFICES ASSUME NEW u \in Users
               PROVE  /\ \A s \in request'[u].unread : status'[s] # "absent"
                      /\ \A s \in request'[u].admitted :
                           status'[s] = "approved" /\ (Blocked(s)' => s \in request'[u].moved)
    BY DEF AdmittedWereOpen
  <2>4. /\ request'[u].admitted = request[u].admitted
        /\ request'[u].unread = request[u].unread
        /\ request[u].moved \subseteq request'[u].moved
        /\ Moved(t) /\ t \in request[u].admitted => t \in request'[u].moved
    BY <2>3, MovedGrows
  <2>5. ASSUME NEW s \in request[u].admitted
        PROVE  status[s] = "approved" /\ (Blocked(s)' => s \in request'[u].moved)
    <3>1. s \in Submissions /\ status[s] = "approved" /\ (Blocked(s) => s \in request[u].moved)
      BY RequestFields DEF AdmittedWereOpen, Requests
    <3>2. Blocked(s)' => Blocked(s) \/ (s = t /\ Moved(t))
      BY <2>1, <3>1, GateCloses
    <3>3. QED
      BY <2>4, <3>1, <3>2
  <2>6. QED
    BY <2>2, <2>4, <2>5 DEF AdmittedWereOpen
<1>3. CASE \E u \in Users : PublicationStep(u)
  BY <1>3, AdmittedByRequest
<1>4. CASE (\E t \in Submissions : WithdrawPublishedTrack(t)) \/ UNCHANGED vars
  BY <1>4
  DEF WithdrawPublishedTrack, vars, revisionVars, gateVars, AdmittedWereOpen, Blocked
<1>5. QED
  BY <1>1, <1>2, <1>3, <1>4 DEF Next

-----------------------------------------------------------------------------
(* The invariant holds.                                                     *)

LEMMA InvInit == Init => Inv
<1> SUFFICES ASSUME Init PROVE Inv
  OBVIOUS
<1>1. PublicationRestsOnApproval
  BY DEF Init, PublicationRestsOnApproval
<1>2. AdmittedWereOpen
  BY DEF Init, AdmittedWereOpen, NoRequest
<1>3. QED
  BY <1>1, <1>2, TypeInit, RevisionInit DEF Inv

LEMMA TypeKept ==
  ASSUME TypeOK, RevisionInv, [Next]_vars
  PROVE  TypeOK'
<1>1. \A s \in Submissions : status[s] = "absent" => current[s] = 0
  BY DEF RevisionInv, RevisionsAreNumbered
<1>2. \A s \in Submissions : status[s] = "in_review" => current[s] \in Revisions
  BY CurrentExists DEF RevisionInv
<1>3. CASE \E s \in Submissions : ProducerStep(s)
  BY <1>1, <1>3, TypeProducer
<1>4. CASE \E s \in Submissions : ReviewStep(s)
  BY <1>2, <1>4, TypeReview
<1>5. CASE \E s \in Submissions : \E r \in Revisions : ResolutionStep(s, r)
  BY <1>5, TypeResolution
<1>6. CASE \E s \in Submissions : (\E r \in Revisions : GateStep(s, r)) \/ SetTaxonomyTermState(s)
  BY <1>6, TypeGate
<1>7. CASE \E s \in Submissions : WithdrawPublishedTrack(s)
  BY <1>7, TypeWithdraw
<1>8. CASE \E u \in Users : PublicationStep(u)
  BY <1>8, TypePublication
<1>9. CASE UNCHANGED vars
  BY <1>9
  DEF TypeOK, vars, revisionVars, decisionVars, changeVars, gateVars, trackVars
<1>10. QED
  BY <1>3, <1>4, <1>5, <1>6, <1>7, <1>8, <1>9 DEF Next

LEMMA RevisionStep ==
  ASSUME TypeOK, TypeOK', RevisionInv, [Next]_vars
  PROVE  RevisionInv'
<1>1. CASE \E s \in Submissions : ProducerStep(s)
  BY <1>1, RevisionAdded, RevisionSubmitted DEF ProducerStep
<1>2. CASE \E s \in Submissions : ReviewStep(s)
  BY <1>2, RevisionInProgress, RevisionJudged DEF ReviewStep
<1>3. CASE \E s \in Submissions : \E r \in Revisions : ResolutionStep(s, r)
  BY <1>3, RevisionJudged
<1>4. CASE \E s \in Submissions : (\E r \in Revisions : GateStep(s, r)) \/ SetTaxonomyTermState(s)
  BY <1>4, GateFrame, RevisionKept
<1>5. CASE \E u \in Users : PublicationStep(u)
  BY <1>5, PublicationFrame, RevisionKept
<1>6. CASE (\E s \in Submissions : WithdrawPublishedTrack(s)) \/ UNCHANGED vars
  BY <1>6, RevisionKept DEF WithdrawPublishedTrack, vars
<1>7. QED
  BY <1>1, <1>2, <1>3, <1>4, <1>5, <1>6 DEF Next

LEMMA InvStep == Inv /\ [Next]_vars => Inv'
BY TypeKept, RevisionStep, PublicationKept, AdmittedKept DEF Inv

LEMMA InvHolds == Spec => []Inv
BY InvInit, InvStep, PTL DEF Spec

-----------------------------------------------------------------------------
(* The theorems.                                                            *)

\* The tables hold what their columns may hold: a submission, its Revisions and requests
\* keep their types in every state.
THEOREM LifecycleTypes == Spec => []TypeOK
<1>1. Inv => TypeOK
  BY DEF Inv
<1>2. QED
  BY <1>1, InvHolds, PTL

\* Whatever uploads, decisions and requests interleave, a Track that is or was public
\* shows the current, accepted Revision that was approved.
THEOREM PublicTracksAreApproved == Spec => []PublicationRestsOnApproval
<1>1. Inv => PublicationRestsOnApproval
  BY DEF Inv
<1>2. QED
  BY <1>1, InvHolds, PTL

\* A producer who is asked for changes has one open change request, and no one else has.
THEOREM ChangesAreAskedOnce == Spec => []ChangeRequestsMatchStatus
<1>1. Inv => ChangeRequestsMatchStatus
  BY DEF Inv, RevisionInv
<1>2. QED
  BY <1>1, InvHolds, PTL

\* Of all the Revisions of a submission one stands, for any number of them.
THEOREM StandingRevision == Spec => []OneRevisionStands
<1>1. Inv => OneRevisionStands
  BY DEF Inv, RevisionInv
<1>2. QED
  BY <1>1, InvHolds, PTL

\* The decisions that were recorded and the statuses of the Revisions agree.
THEOREM OutcomesAgree == Spec => []RevisionsCarryTheirOutcome
<1>1. Inv => RevisionsCarryTheirOutcome
  BY DEF Inv, RevisionInv
<1>2. QED
  BY <1>1, InvHolds, PTL

\* A Track of a step that publishes it was in a request that had admitted it.
LEMMA PublishesAdmitted ==
  ASSUME TypeOK, [Next]_vars, NEW s \in Submissions,
         publication[s] # "published", publication'[s] = "published"
  PROVE  \E u \in Users :
           /\ s \in request[u].ids /\ s \in request[u].admitted
           /\ publication[s] = "withdrawn" => u \in Admins /\ request[u].reason
<1>1. \E u \in Users : PublicationStep(u)
  <2>1. publication' # publication
    OBVIOUS
  <2>2. \A t \in Submissions : ~WithdrawPublishedTrack(t)
    BY DEF WithdrawPublishedTrack, TypeOK
  <2>3. \A t \in Submissions : ~(ProducerStep(t) \/ ReviewStep(t) \/ SetTaxonomyTermState(t))
    BY <2>1
    DEF ProducerStep, CreateUploadDraft, CreateRequestedRevision, SubmitCompletedDraft,
        ReviewStep, BeginRevisionProcessing, FinalizeRevisionForReview, StartReview,
        ApproveReview, RequestReviewChanges, RecommendReviewRejection, SetTaxonomyTermState,
        trackVars, InsertChangeRequest
  <2>4. \A t \in Submissions, r \in Revisions : ~(ResolutionStep(t, r) \/ GateStep(t, r))
    BY <2>1
    DEF ResolutionStep, ConfirmReviewRejection, ReturnRejectedReviewForChanges, GateStep,
        RecordCopyrightObservation, ReopenCopyrightCheck, RightsExpire, trackVars, InsertChangeRequest
  <2>5. QED
    BY <2>1, <2>2, <2>3, <2>4 DEF Next, vars, trackVars
<1>2. PICK u \in Users : PublicationStep(u)
  BY <1>1
<1>3. Publish(u)
  BY <1>2 DEF PublicationStep, AskToPublish, LoadPublicationInput, trackVars
<1>4. \A t \in request[u].ids : Publishable(u, t)
  BY <1>3 DEF Publish, trackVars
<1>5. publication'[s] = IF s \in request[u].ids THEN "published" ELSE publication[s]
  BY <1>3, <1>4 DEF Publish
<1>6. s \in request[u].ids /\ Publishable(u, s)
  BY <1>4, <1>5
<1>7. QED
  BY <1>6 DEF Publishable, MayRepublish

\* Nothing becomes public past an open gate: for any team, any number of concurrent
\* single and bulk requests, and any movement of the gate under them.
THEOREM PublicationGoverned == Spec => PublicationIsGoverned
<1> DEFINE Governed ==
      \A s \in Submissions : publication[s] # "published" /\ publication'[s] = "published" =>
        \E u \in Users :
          /\ s \in request[u].ids
          /\ Blocked(s) => s \in request[u].moved
          /\ publication[s] = "withdrawn" => u \in Admins /\ request[u].reason
<1>1. Inv /\ [Next]_vars => [Governed]_vars
  <2> SUFFICES ASSUME Inv, [Next]_vars PROVE Governed
    OBVIOUS
  <2>1. SUFFICES ASSUME NEW s \in Submissions, publication[s] # "published",
                        publication'[s] = "published"
                 PROVE  \E u \in Users :
                          /\ s \in request[u].ids
                          /\ Blocked(s) => s \in request[u].moved
                          /\ publication[s] = "withdrawn" => u \in Admins /\ request[u].reason
    OBVIOUS
  <2>2. PICK u \in Users :
          /\ s \in request[u].ids /\ s \in request[u].admitted
          /\ publication[s] = "withdrawn" => u \in Admins /\ request[u].reason
    BY <2>1, PublishesAdmitted DEF Inv
  <2>3. QED
    BY <2>2 DEF Inv, AdmittedWereOpen
<1>2. QED
  BY <1>1, InvHolds, PTL DEF Spec, PublicationIsGoverned

-----------------------------------------------------------------------------
(* The promise.                                                             *)

LEMMA PromisedInit == Init => Promise!Init
BY DEF Init, Promise!Init

\* One submission moves along the transition map.
LEMMA PromisedTransition ==
  ASSUME TypeOK, NEW s \in Submissions,
         \/ ProducerStep(s) \/ ReviewStep(s) \/ \E r \in Revisions : ResolutionStep(s, r)
  PROVE  Promise!Transition(s) \/ UNCHANGED <<status, publication>>
<1>1. UNCHANGED publication
  BY DEF ProducerStep, CreateUploadDraft, CreateRequestedRevision, SubmitCompletedDraft,
         ReviewStep, BeginRevisionProcessing, FinalizeRevisionForReview, StartReview,
         ApproveReview, RequestReviewChanges, RecommendReviewRejection, ResolutionStep,
         ConfirmReviewRejection, ReturnRejectedReviewForChanges, trackVars, InsertChangeRequest
<1>2. /\ Promise!Transitions["absent"] = {"draft"}
      /\ Promise!Transitions["draft"] = {"submitted"}
      /\ Promise!Transitions["submitted"] = {"processing"}
      /\ Promise!Transitions["processing"] = {"ready_for_review"}
      /\ Promise!Transitions["ready_for_review"] = {"in_review"}
      /\ Promise!Transitions["in_review"] = {"approved", "changes_requested", "rejection_recommended"}
      /\ Promise!Transitions["changes_requested"] = {"submitted"}
      /\ Promise!Transitions["rejection_recommended"] = {"rejected", "changes_requested"}
  BY DEF Promise!Transitions
<1>3. \/ UNCHANGED status
      \/ \E next \in Promise!Transitions[status[s]] : status' = [status EXCEPT ![s] = next]
  <2>1. CASE ProducerStep(s)
    BY <1>2, <2>1
    DEF ProducerStep, CreateUploadDraft, CreateRequestedRevision, SubmitCompletedDraft
  <2>2. CASE ReviewStep(s)
    BY <1>2, <2>2
    DEF ReviewStep, BeginRevisionProcessing, FinalizeRevisionForReview, StartReview,
        ApproveReview, RequestReviewChanges, RecommendReviewRejection, Decidable, InsertChangeRequest
  <2>3. CASE \E r \in Revisions : ResolutionStep(s, r)
    BY <1>2, <2>3
    DEF ResolutionStep, ConfirmReviewRejection, ReturnRejectedReviewForChanges, Resolvable, InsertChangeRequest
  <2>4. QED
    BY <2>1, <2>2, <2>3
<1>4. QED
  BY <1>1, <1>3 DEF Promise!Transition

LEMMA PromisedPublish ==
  ASSUME TypeOK, NEW u \in Users, PublicationStep(u)
  PROVE  Promise!Next \/ UNCHANGED <<status, publication>>
<1>1. UNCHANGED status
  BY PublicationFrame
<1>2. CASE UNCHANGED publication
  BY <1>1, <1>2
<1>3. CASE publication' # publication
  <2>1. Publish(u)
    BY <1>3 DEF PublicationStep, AskToPublish, LoadPublicationInput, trackVars
  <2>2. \A s \in request[u].ids : Publishable(u, s)
    BY <1>3, <2>1 DEF Publish, trackVars
  <2>3. publication' = [s \in Submissions |->
          IF s \in request[u].ids THEN "published" ELSE publication[s]]
    BY <2>1, <2>2 DEF Publish
  <2>4. request[u].ids \in SUBSET Submissions
    BY RequestFields DEF Requests
  <2>5. "published" \in Promise!PublicationMoves["unpublished"]
        /\ "published" \in Promise!PublicationMoves["withdrawn"]
    BY DEF Promise!PublicationMoves
  <2>6. \A s \in request[u].ids :
          status[s] = "approved" /\ "published" \in Promise!PublicationMoves[publication[s]]
    BY <2>2, <2>5 DEF Publishable
  <2>7. Promise!MovePublication(request[u].ids)
    BY <1>1, <2>3, <2>6 DEF Promise!MovePublication
  <2>8. QED
    BY <2>4, <2>7 DEF Promise!Next
<1>4. QED
  BY <1>2, <1>3

LEMMA PromisedWithdrawal ==
  ASSUME TypeOK, PublicationRestsOnApproval, NEW s \in Submissions, WithdrawPublishedTrack(s)
  PROVE  Promise!MovePublication({s})
<1>1. status[s] = "approved" /\ publication[s] = "published"
  BY DEF WithdrawPublishedTrack, Withdrawable, PublicationRestsOnApproval
<1>2. "withdrawn" \in Promise!PublicationMoves["published"]
  BY DEF Promise!PublicationMoves
<1>3. publication' = [t \in Submissions |-> IF t \in {s} THEN "withdrawn" ELSE publication[t]]
  BY DEF WithdrawPublishedTrack, TypeOK
<1>4. UNCHANGED status
  BY DEF WithdrawPublishedTrack
<1>5. QED
  BY <1>1, <1>2, <1>3, <1>4 DEF Promise!MovePublication

\* The statuses that the repositories write, each with its own check, never leave the
\* transition map, and publication is a matter of approved submissions alone.
THEOREM LifecycleKeepsPromise == Spec => ImplementsSubmissionPromise
<1>1. Inv /\ [Next]_vars => [Promise!Next]_<<status, publication>>
  <2> SUFFICES ASSUME Inv, [Next]_vars
               PROVE  Promise!Next \/ UNCHANGED <<status, publication>>
    OBVIOUS
  <2>1. TypeOK /\ PublicationRestsOnApproval
    BY DEF Inv
  <2>2. CASE \E s \in Submissions :
               ProducerStep(s) \/ ReviewStep(s) \/ \E r \in Revisions : ResolutionStep(s, r)
    BY <2>1, <2>2, PromisedTransition DEF Promise!Next
  <2>3. CASE \E s \in Submissions :
               (\E r \in Revisions : GateStep(s, r)) \/ SetTaxonomyTermState(s)
    BY <2>3, GateFrame DEF trackVars
  <2>4. CASE \E u \in Users : PublicationStep(u)
    BY <2>1, <2>4, PromisedPublish
  <2>5. CASE \E s \in Submissions : WithdrawPublishedTrack(s)
    <3>1. PICK s \in Submissions : WithdrawPublishedTrack(s)
      BY <2>5
    <3>2. Promise!MovePublication({s}) /\ {s} \in SUBSET Submissions
      BY <2>1, <3>1, PromisedWithdrawal
    <3>3. QED
      BY <3>2 DEF Promise!Next
  <2>6. CASE UNCHANGED vars
    BY <2>6 DEF vars, trackVars
  <2>7. QED
    BY <2>2, <2>3, <2>4, <2>5, <2>6 DEF Next
<1>2. QED
  BY <1>1, PromisedInit, InvHolds, PTL DEF Spec, ImplementsSubmissionPromise, Promise!Spec

-----------------------------------------------------------------------------
(* What the pages list.                                                     *)

\* What is under review is undecided, what is approved was approved as it is, and nothing
\* that was sent back is later than an open request.
Waits(s) ==
  /\ status[s] = "in_review" => decision[s][current[s]] = "none"
  /\ status[s] = "approved" => decision[s][current[s]] = "approve"
  /\ \A r \in openRequests[s] : \A q \in SentBack(s) : q <= r

\* A submission whose Revisions and decisions a step leaves alone.
LEMMA WaitsKept ==
  ASSUME NEW s \in Submissions, Waits(s), status'[s] = status[s],
         UNCHANGED <<current[s], decision[s], resolution[s], openRequests[s]>>
  PROVE  Waits(s)'
BY DEF Waits, SentBack

\* Of the Revisions that were sent back the current one is the latest.
LEMMA SentBackUpToCurrent ==
  ASSUME TypeOK, RevisionInv, NEW s \in Submissions, NEW q \in SentBack(s)
  PROVE  q <= current[s]
<1>1. decision[s][q] # "none" /\ q \in Revisions
  BY DEF SentBack, RevisionInv, RevisionsCarryTheirOutcome
<1>2. ~(q > current[s]) /\ current[s] \in Nat /\ q \in Nat
  BY <1>1 DEF RevisionInv, RevisionsAreNumbered, TypeOK, Revisions
<1> QED BY <1>2

LEMMA ProducerWaits ==
  ASSUME Inv, NEW s \in Submissions, Waits(s), ProducerStep(s)
  PROVE  Waits(s)'
<1>1. status[s] \in {"absent", "draft", "changes_requested"} /\ TypeOK
  BY DEF ProducerStep, CreateUploadDraft, CreateRequestedRevision, RevisionTarget,
         SubmitCompletedDraft, Inv
<1>2. /\ UNCHANGED <<decision, resolution>> /\ openRequests'[s] \subseteq openRequests[s]
      /\ status'[s] \in {"draft", "submitted", "changes_requested"}
  BY <1>1 DEF ProducerStep, CreateUploadDraft, CreateRequestedRevision, RevisionTarget,
              SubmitCompletedDraft, decisionVars, changeVars, TypeOK
<1> QED BY <1>2 DEF Waits, SentBack

LEMMA ReviewWaits ==
  ASSUME Inv, NEW s \in Submissions, Waits(s), ReviewStep(s)
  PROVE  Waits(s)'
<1>1. TypeOK /\ RevisionInv /\ status[s] # "absent" /\ current[s] \in Revisions
  BY CurrentExists DEF Inv, RevisionInv, ReviewStep, BeginRevisionProcessing, FinalizeRevisionForReview,
         StartReview, ApproveReview, RequestReviewChanges, RecommendReviewRejection, Decidable
<1>2. CASE BeginRevisionProcessing(s) \/ FinalizeRevisionForReview(s) \/ StartReview(s)
  BY <1>1, <1>2 DEF BeginRevisionProcessing, FinalizeRevisionForReview, StartReview, Waits, SentBack,
                    revisionVars, decisionVars, changeVars, TypeOK
<1>3. CASE ApproveReview(s) \/ RecommendReviewRejection(s)
  <2>1. /\ UNCHANGED <<resolution, openRequests, current>> /\ status'[s] # "in_review"
        /\ status'[s] = "approved" => decision'[s][current[s]] = "approve"
        /\ \A q \in Revisions : decision'[s][q] = "request_changes" => decision[s][q] = "request_changes"
    BY <1>1, <1>3 DEF ApproveReview, RecommendReviewRejection, revisionVars, changeVars, TypeOK
  <2> QED BY <2>1 DEF Waits, SentBack
<1>4. CASE RequestReviewChanges(s)
  <2>1. /\ status[s] = "in_review" /\ status'[s] = "changes_requested"
        /\ UNCHANGED <<resolution, current>>
        /\ openRequests'[s] = openRequests[s] \cup {current[s]}
        /\ \A q \in Revisions \ {current[s]} : decision'[s][q] = decision[s][q]
    BY <1>1, <1>4 DEF RequestReviewChanges, Decidable, InsertChangeRequest, revisionVars, TypeOK
  <2>2. openRequests[s] = {}
    BY <1>1, <2>1 DEF RevisionInv, ChangeRequestsMatchStatus
  <2>3. \A q \in SentBack(s)' : q = current[s] \/ q \in SentBack(s)
    BY <2>1 DEF SentBack
  <2>4. \A q \in SentBack(s)' : q <= current[s]
    BY <1>1, <2>3, SentBackUpToCurrent DEF Revisions
  <2> QED BY <2>1, <2>2, <2>4 DEF Waits
<1> QED BY <1>2, <1>3, <1>4 DEF ReviewStep

LEMMA ResolutionWaits ==
  ASSUME Inv, NEW s \in Submissions, NEW r \in Revisions, Waits(s), ResolutionStep(s, r)
  PROVE  Waits(s)'
<1>1. /\ TypeOK /\ RevisionInv /\ status[s] = "rejection_recommended" /\ current[s] = r
      /\ openRequests[s] = {}
  BY DEF Inv, RevisionInv, ChangeRequestsMatchStatus, ResolutionStep, ConfirmReviewRejection,
         ReturnRejectedReviewForChanges, Resolvable
<1>2. CASE ConfirmReviewRejection(s, r)
  <2>1. status'[s] = "rejected" /\ openRequests'[s] = {}
    BY <1>1, <1>2 DEF ConfirmReviewRejection, changeVars, TypeOK
  <2> QED BY <2>1 DEF Waits
<1>3. CASE ReturnRejectedReviewForChanges(s, r)
  <2>1. /\ status'[s] = "changes_requested" /\ openRequests'[s] = {r} /\ UNCHANGED decision
        /\ \A q \in Revisions \ {r} : resolution'[s][q] = resolution[s][q]
    BY <1>1, <1>3 DEF ReturnRejectedReviewForChanges, InsertChangeRequest, TypeOK
  <2>2. \A q \in SentBack(s)' : q = r \/ q \in SentBack(s)
    BY <2>1 DEF SentBack
  <2>3. \A q \in SentBack(s)' : q <= r
    BY <1>1, <2>2, SentBackUpToCurrent DEF Revisions
  <2> QED BY <2>1, <2>3 DEF Waits
<1> QED BY <1>2, <1>3 DEF ResolutionStep

LEMMA WaitsStep ==
  ASSUME Inv, \A s \in Submissions : Waits(s), [Next]_vars
  PROVE  \A s \in Submissions : Waits(s)'
<1> SUFFICES ASSUME NEW s \in Submissions PROVE Waits(s)'
  OBVIOUS
<1>1. CASE \E p \in Submissions : ProducerStep(p) \/ ReviewStep(p)
                                    \/ \E r \in Revisions : ResolutionStep(p, r)
  <2>1. PICK p \in Submissions : ProducerStep(p) \/ ReviewStep(p)
                                   \/ \E r \in Revisions : ResolutionStep(p, r)
    BY <1>1
  <2>2. CASE p = s
    BY <2>1, <2>2, ProducerWaits, ReviewWaits, ResolutionWaits
  <2>3. CASE p # s
    <3>1. UNCHANGED <<status[s], current[s], decision[s], resolution[s], openRequests[s]>>
      <4>1. CASE ProducerStep(p)
        BY <2>3, <4>1 DEF ProducerStep, CreateUploadDraft, CreateRequestedRevision, AddRevision,
                     SubmitCompletedDraft, decisionVars, changeVars, Inv, TypeOK
      <4>2. CASE ReviewStep(p)
        BY <2>3, <4>2 DEF ReviewStep, BeginRevisionProcessing, FinalizeRevisionForReview, StartReview,
                     ApproveReview, RequestReviewChanges, RecommendReviewRejection,
                     InsertChangeRequest, revisionVars, decisionVars, changeVars, Inv, TypeOK
      <4>3. CASE \E r \in Revisions : ResolutionStep(p, r)
        BY <2>3, <4>3 DEF ResolutionStep, ConfirmReviewRejection, ReturnRejectedReviewForChanges,
                     InsertChangeRequest, revisionVars, changeVars, Inv, TypeOK
      <4> QED BY <2>1, <4>1, <4>2, <4>3
    <3> QED BY <3>1, WaitsKept
  <2> QED BY <2>2, <2>3
<1>2. CASE UNCHANGED <<status, current, decision, resolution, openRequests>>
  BY <1>2, WaitsKept
<1>3. ASSUME ~\E p \in Submissions : ProducerStep(p) \/ ReviewStep(p)
                                       \/ \E r \in Revisions : ResolutionStep(p, r)
      PROVE  UNCHANGED <<status, current, decision, resolution, openRequests>>
  <2>1. CASE \E p \in Submissions :
               (\E r \in Revisions : GateStep(p, r)) \/ SetTaxonomyTermState(p)
    BY <2>1, GateFrame DEF revisionVars, decisionVars, changeVars
  <2>2. CASE \E u \in Users : PublicationStep(u)
    BY <2>2, PublicationFrame DEF revisionVars, decisionVars, changeVars
  <2>3. CASE \E p \in Submissions : WithdrawPublishedTrack(p)
    BY <2>3 DEF WithdrawPublishedTrack, revisionVars, decisionVars, changeVars
  <2>4. CASE UNCHANGED vars
    BY <2>4 DEF vars, revisionVars, decisionVars, changeVars
  <2> QED BY <1>3, <2>1, <2>2, <2>3, <2>4 DEF Next
<1> QED BY <1>1, <1>2, <1>3

\* Reviewers are shown what can be decided, publishers what was approved as it is, and a
\* producer the one request that is open, after any number of Revisions and resolutions.
THEOREM ListsAreTrue == Spec => []ListsShowWhatWaits
<1>1. Init => Inv /\ \A s \in Submissions : Waits(s)
  BY InvInit DEF Init, Waits
<1>2. Inv /\ (\A s \in Submissions : Waits(s)) /\ [Next]_vars
        => (Inv /\ \A s \in Submissions : Waits(s))'
  BY InvStep, WaitsStep
<1>3. Inv /\ (\A s \in Submissions : Waits(s)) => ListsShowWhatWaits
  <2> SUFFICES ASSUME Inv, \A s \in Submissions : Waits(s) PROVE ListsShowWhatWaits
    OBVIOUS
  <2>1. ASSUME NEW s \in Submissions, s \in ReviewQueue
        PROVE  /\ revisionStatus[s][current[s]] = "submitted"
               /\ status[s] = "in_review" => decision[s][current[s]] = "none"
    BY <2>1 DEF ReviewQueue, Waits, Inv, RevisionInv, CurrentFitsStatus
  <2>2. ASSUME NEW s \in Submissions, s \in ApprovedForPublication
        PROVE  revisionStatus[s][current[s]] = "accepted" /\ decision[s][current[s]] = "approve"
    <3>1. status[s] = "approved"
      BY <2>2 DEF ApprovedForPublication
    <3>2. current[s] \in Revisions /\ decision[s][current[s]] = "approve"
      BY <3>1, CurrentExists DEF Waits, Inv, RevisionInv
    <3> QED BY <3>2 DEF Inv, RevisionInv, RevisionsCarryTheirOutcome
  <2>3. ASSUME NEW s \in Submissions, status[s] = "changes_requested"
        PROVE  ShownRequests(s) = openRequests[s]
    <3>1. openRequests[s] \subseteq Revisions /\ \E r \in openRequests[s] : TRUE
      BY <2>3 DEF Inv, RevisionInv, ChangeRequestsMatchStatus, TypeOK
    <3>2. PICK r \in openRequests[s] : r \in Revisions
      BY <3>1
    <3>3. openRequests[s] = {r} /\ r \in SentBack(s)
      BY <3>2 DEF Inv, RevisionInv, ChangeRequestsMatchStatus, SentBack
    <3>4. \A q \in SentBack(s) : q <= r /\ q \in Nat /\ r \in Nat
      BY <3>2 DEF Waits, SentBack, Revisions
    <3>5. \A q \in ShownRequests(s) : q = r
      BY <3>3, <3>4 DEF ShownRequests
    <3>6. r \in ShownRequests(s)
      BY <3>3, <3>4 DEF ShownRequests
    <3> QED BY <3>3, <3>5, <3>6
  <2>4. ASSUME NEW s \in Submissions
        PROVE  /\ s \in ReviewQueue =>
                    /\ revisionStatus[s][current[s]] = "submitted"
                    /\ status[s] = "in_review" => decision[s][current[s]] = "none"
               /\ s \in ApprovedForPublication =>
                    revisionStatus[s][current[s]] = "accepted" /\ decision[s][current[s]] = "approve"
               /\ status[s] = "changes_requested" => ShownRequests(s) = openRequests[s]
    BY <2>1, <2>2, <2>3, ZenonT(30)
  <2> QED BY <2>4, ZenonT(30) DEF ListsShowWhatWaits
<1> QED BY <1>1, <1>2, <1>3, PTL DEF Spec

=============================================================================
