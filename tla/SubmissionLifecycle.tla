-------------------------- MODULE SubmissionLifecycle --------------------------
(***************************************************************************)
(* A submission from its first draft to the publication of its Track: the  *)
(* Revisions a producer uploads, the decision on each of them, change      *)
(* requests, the resolution of rejection recommendations, and publication  *)
(* under a gate that other people keep moving: copyright observations,     *)
(* the taxonomy, and the end of the declared rights.                       *)
(*                                                                         *)
(* Grain: a mutation is one transaction that locks the submission.  Only   *)
(* publication has more steps.  loadPublicationInput locks submission,     *)
(* Revision and Track but reads the copyright check, the terms and the     *)
(* approval as they were when its statement began, which may be before a   *)
(* wait for the lock; what it finds in the locked rows is the latest.  So  *)
(* a request first reads the gate of each submission, and what it finds in *)
(* the locked rows is taken when it commits (src/lib/decisions/            *)
(* repository.ts).  A request that is refused changes nothing.             *)
(*                                                                         *)
(* Processing and review are single steps here; ProcessingQueue and        *)
(* ReviewCase take them apart.                                             *)
(***************************************************************************)
EXTENDS Naturals

CONSTANTS
  Submissions,
  Admins, Coordinators,   \* the review team, by role
  CopyrightStageEnabled,  \* COPYRIGHT_STAGE_ENABLED of the deployment
  MaxRevision             \* bound: Revisions of a submission

Users == Admins \cup Coordinators
Revisions == 1 .. MaxRevision

ASSUME RoleAssumption == Admins \cap Coordinators = {}
ASSUME StageAssumption == CopyrightStageEnabled \in BOOLEAN
ASSUME BoundAssumption == MaxRevision \in Nat \ {0}

VARIABLES
  status,             \* workflow.submission.status, "absent" before the upload
  current,            \* the revision_number of current_revision_id, 0 if absent
  revisionStatus,     \* workflow.submission_revision.revision_status
  decision,           \* the primary review_decision on a Revision's review case
  resolution,         \* the decision that resolves a recommendation to reject
  openRequests,       \* Revisions with an open change_request
  resolvedBy,         \* the Revision that resolved the request on a Revision, or 0
  check,              \* outcome of the current copyright_check of a Revision
  rights,             \* rights.rights_declaration of a Revision
  termsComplete,      \* active accepted terms: one Format, a Use Case or more
  publication,        \* catalog.track.publication_status
  publishedRevision,  \* catalog.track.published_revision_id, or 0
  request             \* the publication request each user has under way

revisionVars == <<current, revisionStatus>>
decisionVars == <<decision, resolution>>
changeVars == <<openRequests, resolvedBy>>
gateVars == <<check, rights, termsComplete>>
trackVars == <<publication, publishedRevision>>
vars == <<status, revisionVars, decisionVars, changeVars, gateVars, trackVars, request>>

-----------------------------------------------------------------------------
\* ids: the submissions to publish; unread: those whose gate is still to be read;
\* admitted: those whose approval and gate the request found in order; moved: those of
\* them whose gate has closed since (history, read by no action).
NoRequest ==
  [kind |-> "none", ids |-> {}, reason |-> FALSE, unread |-> {}, admitted |-> {}, moved |-> {}]

Init ==
  /\ status = [s \in Submissions |-> "absent"]
  /\ current = [s \in Submissions |-> 0]
  /\ revisionStatus = [s \in Submissions |-> [r \in Revisions |-> "absent"]]
  /\ decision = [s \in Submissions |-> [r \in Revisions |-> "none"]]
  /\ resolution = [s \in Submissions |-> [r \in Revisions |-> "none"]]
  /\ openRequests = [s \in Submissions |-> {}]
  /\ resolvedBy = [s \in Submissions |-> [r \in Revisions |-> 0]]
  /\ check = [s \in Submissions |-> [r \in Revisions |-> "absent"]]
  /\ rights = [s \in Submissions |-> [r \in Revisions |-> "absent"]]
  /\ termsComplete = [s \in Submissions |-> FALSE]
  /\ publication = [s \in Submissions |-> "unpublished"]
  /\ publishedRevision = [s \in Submissions |-> 0]
  /\ request = [u \in Users |-> NoRequest]

-----------------------------------------------------------------------------
(* Revisions.                                                               *)

\* A new Revision becomes current whatever the current one is: a draft nobody
\* submitted stays behind.
AddRevision(s, basis) ==
  /\ current' = [current EXCEPT ![s] = @ + 1]
  /\ revisionStatus' = [revisionStatus EXCEPT ![s][current[s] + 1] = "draft"]
  /\ rights' = [rights EXCEPT ![s][current[s] + 1] = basis]

Bases == {"known", "unknown"}

CreateUploadDraft(s, basis) ==
  /\ status[s] = "absent"
  /\ AddRevision(s, basis)
  /\ status' = [status EXCEPT ![s] = "draft"]
  /\ UNCHANGED <<decisionVars, changeVars, check, termsComplete, trackVars, request>>

\* Mutant of RevisionTarget: the status of the submission is not checked.
RevisionTargetAnyStatus(s) == status[s] # "absent"

RevisionTarget(s) == status[s] = "changes_requested"

CreateRequestedRevision(s, basis) ==
  /\ RevisionTarget(s)
  /\ current[s] < MaxRevision
  /\ AddRevision(s, basis)
  /\ UNCHANGED <<status, decisionVars, changeVars, check, termsComplete, trackVars, request>>

\* WHERE revision_status = 'draft': what has been submitted before stays as it is.
Submitted(revStatus) == IF revStatus = "draft" THEN "submitted" ELSE revStatus

\* Mutant of Supersede: only the Revision before this one.
SupersedePrevious(s) ==
  [r \in Revisions |->
     IF r = current[s] THEN Submitted(revisionStatus[s][r])
     ELSE IF revisionStatus[s][r] = "submitted" /\ r + 1 = current[s] THEN "superseded"
     ELSE revisionStatus[s][r]]

\* Mutant of Supersede: the status that is meant for their change requests.
SupersedeAsResolved(s) ==
  [r \in Revisions |->
     IF r = current[s] THEN Submitted(revisionStatus[s][r])
     ELSE IF revisionStatus[s][r] = "submitted" THEN "resolved"
     ELSE revisionStatus[s][r]]

\* The current Revision is submitted, every other submitted one is superseded (a first
\* submission, for which the code does not ask, has no other).
Supersede(s) ==
  [r \in Revisions |->
     IF r = current[s] THEN Submitted(revisionStatus[s][r])
     ELSE IF revisionStatus[s][r] = "submitted" THEN "superseded"
     ELSE revisionStatus[s][r]]

\* Mutant of ResolvedRequests: WHERE requested_revision_id, not submission_id.
ResolvedRequestsOfCurrent(s) == openRequests[s] \cap {current[s]}

ResolvedRequests(s) == openRequests[s]

\* submitCompletedDraft.  Whether the files are there and the acknowledgement is
\* given is the producer's affair, so it may happen any time.  Nothing asks for a new
\* Revision: after a change request the old one can be submitted once more.
SubmitCompletedDraft(s) ==
  /\ status[s] \in {"draft", "changes_requested"}
  /\ status' = [status EXCEPT ![s] = "submitted"]
  /\ revisionStatus' = [revisionStatus EXCEPT ![s] = Supersede(s)]
  /\ resolvedBy' = [resolvedBy EXCEPT ![s] =
       [r \in Revisions |-> IF r \in ResolvedRequests(s) THEN current[s] ELSE resolvedBy[s][r]]]
  /\ openRequests' = [openRequests EXCEPT ![s] = @ \ ResolvedRequests(s)]
  /\ check' = [check EXCEPT ![s][current[s]] = IF @ = "absent" THEN "pending" ELSE @]
  /\ UNCHANGED <<current, decisionVars, rights, termsComplete, trackVars, request>>

-----------------------------------------------------------------------------
(* Processing and review.                                                   *)

BeginRevisionProcessing(s) ==
  /\ status[s] = "submitted"
  /\ status' = [status EXCEPT ![s] = "processing"]
  /\ UNCHANGED <<revisionVars, decisionVars, changeVars, gateVars, trackVars, request>>

FinalizeRevisionForReview(s) ==
  /\ status[s] = "processing"
  /\ status' = [status EXCEPT ![s] = "ready_for_review"]
  /\ UNCHANGED <<revisionVars, decisionVars, changeVars, gateVars, trackVars, request>>

\* A Revision has one review case for good: if it has been decided, the case is
\* read-only and the submission stays where it is.
StartReview(s) ==
  /\ status[s] = "ready_for_review"
  /\ decision[s][current[s]] = "none"
  /\ status' = [status EXCEPT ![s] = "in_review"]
  /\ UNCHANGED <<revisionVars, decisionVars, changeVars, gateVars, trackVars, request>>

Decidable(s) ==
  /\ status[s] = "in_review"
  /\ decision[s][current[s]] = "none"
  /\ revisionStatus[s][current[s]] = "submitted"

\* The approval packet has its Format and Use Cases, and they become accepted terms.
ApproveReview(s) ==
  /\ Decidable(s)
  /\ decision' = [decision EXCEPT ![s][current[s]] = "approve"]
  /\ status' = [status EXCEPT ![s] = "approved"]
  /\ revisionStatus' = [revisionStatus EXCEPT ![s][current[s]] = "accepted"]
  /\ termsComplete' = [termsComplete EXCEPT ![s] = TRUE]
  /\ UNCHANGED <<current, resolution, changeVars, check, rights, trackVars, request>>

\* One open change_request more, with its items.
InsertChangeRequest(s, r) == openRequests' = [openRequests EXCEPT ![s] = @ \cup {r}]

RequestReviewChanges(s) ==
  /\ Decidable(s)
  /\ decision' = [decision EXCEPT ![s][current[s]] = "request_changes"]
  /\ status' = [status EXCEPT ![s] = "changes_requested"]
  /\ InsertChangeRequest(s, current[s])
  /\ UNCHANGED <<revisionVars, resolution, resolvedBy, gateVars, trackVars, request>>

RecommendReviewRejection(s) ==
  /\ Decidable(s)
  /\ decision' = [decision EXCEPT ![s][current[s]] = "recommend_reject"]
  /\ status' = [status EXCEPT ![s] = "rejection_recommended"]
  /\ UNCHANGED <<revisionVars, resolution, changeVars, gateVars, trackVars, request>>

\* Mutant of Resolvable: the resolution, looked up before the lock was granted, is
\* trusted to be the only one.
ResolvableIfCurrent(s, r) == current[s] = r

Resolvable(s, r) ==
  /\ resolution[s][r] = "none"
  /\ status[s] = "rejection_recommended"
  /\ current[s] = r

\* An admin resolves a recommendation; review_case and its row_version stay.
ConfirmReviewRejection(s, r) ==
  /\ decision[s][r] = "recommend_reject"
  /\ Resolvable(s, r)
  /\ resolution' = [resolution EXCEPT ![s][r] = "confirm_reject"]
  /\ status' = [status EXCEPT ![s] = "rejected"]
  /\ revisionStatus' = [revisionStatus EXCEPT ![s][r] = "rejected"]
  /\ UNCHANGED <<current, decision, changeVars, gateVars, trackVars, request>>

ReturnRejectedReviewForChanges(s, r) ==
  /\ decision[s][r] = "recommend_reject"
  /\ Resolvable(s, r)
  /\ resolution' = [resolution EXCEPT ![s][r] = "return_for_changes"]
  /\ status' = [status EXCEPT ![s] = "changes_requested"]
  /\ InsertChangeRequest(s, r)
  /\ UNCHANGED <<revisionVars, decision, resolvedBy, gateVars, trackVars, request>>

-----------------------------------------------------------------------------
(* The publication gate, and what moves it.                                 *)

\* Mutant of CopyrightAcceptable: the status of the check is not looked at.
CopyrightNotClaimed(outcome) == outcome # "claimed"

\* "clear" is a completed check with one of ACCEPTABLE_COPYRIGHT_OUTCOMES, "claimed"
\* one with any other outcome.
CopyrightAcceptable(outcome) == CopyrightStageEnabled => outcome = "clear"

\* evaluatePublicationGate; title and vocal state are those of the approval packet.
GateAllowed(s) ==
  /\ termsComplete[s]
  /\ rights[s][current[s]] = "known"
  /\ CopyrightAcceptable(check[s][current[s]])

\* The gate of s has closed under the requests that have read it.
Moved(s) ==
  request' = [u \in Users |->
    IF s \in request[u].admitted
    THEN [request[u] EXCEPT !.moved = request[u].moved \cup {s}]
    ELSE request[u]]

Outcomes == {"clear", "claimed"}

\* recordCopyrightObservation and supersedeCopyrightObservation, on the current round
\* of the Revision's check and whatever has become of the submission.
RecordCopyrightObservation(s, r, outcome) ==
  /\ check[s][r] # "absent"
  /\ check' = [check EXCEPT ![s][r] = outcome]
  /\ IF outcome = "claimed" THEN Moved(s) ELSE UNCHANGED request
  /\ UNCHANGED <<status, revisionVars, decisionVars, changeVars, rights, termsComplete, trackVars>>

\* A new round: the current check is pending again.
ReopenCopyrightCheck(s, r) ==
  /\ check[s][r] # "absent"
  /\ check' = [check EXCEPT ![s][r] = "pending"]
  /\ Moved(s)
  /\ UNCHANGED <<status, revisionVars, decisionVars, changeVars, rights, termsComplete, trackVars>>

\* setAdminTaxonomyTermState on the Format or the only Use Case of an approved Track.
SetTaxonomyTermState(s) ==
  /\ status[s] = "approved"
  /\ termsComplete' = [termsComplete EXCEPT ![s] = ~@]
  /\ IF termsComplete[s] THEN Moved(s) ELSE UNCHANGED request
  /\ UNCHANGED <<status, revisionVars, decisionVars, changeVars, check, rights, trackVars>>

\* valid_until passes.
RightsExpire(s, r) ==
  /\ rights[s][r] = "known"
  /\ rights' = [rights EXCEPT ![s][r] = "expired"]
  /\ Moved(s)
  /\ UNCHANGED <<status, revisionVars, decisionVars, changeVars, check, termsComplete, trackVars>>

-----------------------------------------------------------------------------
(* Publication.                                                             *)

\* One Track, with or without a reason, or several in bulk.
AskToPublish(u, kind, ids, reason) ==
  /\ request[u].kind = "none"
  /\ ids # {} /\ \A s \in ids : status[s] # "absent"
  /\ kind = "publish" => \E s \in ids : ids = {s}
  /\ kind = "bulk" => ~reason
  /\ request' = [request EXCEPT ![u] =
       [NoRequest EXCEPT !.kind = kind, !.ids = ids, !.reason = reason, !.unread = ids]]
  /\ UNCHANGED <<status, revisionVars, decisionVars, changeVars, gateVars, trackVars>>

\* The approval is a row the statement does not lock.
Approved(s) == decision[s][current[s]] = "approve"

\* What the statement of loadPublicationInput sees of the tables it does not lock.
LoadPublicationInput(u, s) ==
  /\ s \in request[u].unread
  /\ request' = [request EXCEPT ![u] =
       [request[u] EXCEPT !.unread = request[u].unread \ {s},
                          !.admitted = IF Approved(s) /\ GateAllowed(s)
                                       THEN request[u].admitted \cup {s}
                                       ELSE request[u].admitted]]
  /\ UNCHANGED <<status, revisionVars, decisionVars, changeVars, gateVars, trackVars>>

\* submission.unpublish and a reason.
MayRepublish(u) == u \in Admins /\ request[u].reason

\* Mutant of Publishable: a bulk request trusts the list it was ticked on.
PublishableAsListed(u, s) ==
  /\ status[s] = "approved" /\ revisionStatus[s][current[s]] = "accepted"
  /\ request[u].kind = "bulk" \/ s \in request[u].admitted
  /\ \/ publication[s] = "unpublished"
     \/ publication[s] = "withdrawn" /\ request[u].kind = "publish" /\ MayRepublish(u)

Publishable(u, s) ==
  /\ status[s] = "approved" /\ revisionStatus[s][current[s]] = "accepted"
  /\ s \in request[u].admitted
  /\ \/ publication[s] = "unpublished"
     \/ publication[s] = "withdrawn" /\ request[u].kind = "publish" /\ MayRepublish(u)

\* publishApprovedTrack and bulkPublishTracks: all of the request or nothing.
Publish(u) ==
  /\ request[u].kind # "none" /\ request[u].unread = {}
  /\ IF \A s \in request[u].ids : Publishable(u, s)
     THEN /\ publication' = [s \in Submissions |->
                IF s \in request[u].ids THEN "published" ELSE publication[s]]
          /\ publishedRevision' = [s \in Submissions |->
                IF s \in request[u].ids THEN current[s] ELSE publishedRevision[s]]
     ELSE UNCHANGED trackVars
  /\ request' = [request EXCEPT ![u] = NoRequest]
  /\ UNCHANGED <<status, revisionVars, decisionVars, changeVars, gateVars>>

\* Mutant of Withdrawable: a Track that is not published can be withdrawn.
WithdrawableAlways(s) == status[s] = "approved"

Withdrawable(s) == publication[s] = "published"

\* withdrawPublishedTrack: the gate is recorded, not asked.
WithdrawPublishedTrack(s) ==
  /\ Withdrawable(s)
  /\ publication' = [publication EXCEPT ![s] = "withdrawn"]
  /\ UNCHANGED <<status, revisionVars, decisionVars, changeVars, gateVars, publishedRevision,
                 request>>

-----------------------------------------------------------------------------
(* What the pages list and offer.                                           *)

\* QUEUE_CTE, by the current Revision.
ReviewQueue == {s \in Submissions : status[s] \in {"ready_for_review", "in_review"}}

\* listApprovedForPublication.
ApprovedForPublication ==
  {s \in Submissions : status[s] = "approved" /\ publication[s] \in {"unpublished", "withdrawn"}}

\* A Revision has one change request at most, those of later Revisions are later.
SentBack(s) ==
  {r \in Revisions : decision[s][r] = "request_changes" \/ resolution[s][r] = "return_for_changes"}

\* loadSubmissionDecisionSummary: of all change requests of the submission the latest.
ShownRequests(s) == {r \in SentBack(s) : \A later \in SentBack(s) : later <= r}

Recommendations(s) == {r \in Revisions : decision[s][r] = "recommend_reject"}

\* The forms of an admin name the first of all recommendations of the submission, and
\* are there until one of them, whichever, has been resolved.
OfferedResolutions(s) ==
  {r \in Recommendations(s) :
     /\ \A earlier \in Recommendations(s) : r <= earlier
     /\ \A any \in Revisions : resolution[s][any] = "none"}

-----------------------------------------------------------------------------
ProducerStep(s) ==
  \/ \E basis \in Bases : CreateUploadDraft(s, basis) \/ CreateRequestedRevision(s, basis)
  \/ SubmitCompletedDraft(s)

ReviewStep(s) ==
  \/ BeginRevisionProcessing(s)
  \/ FinalizeRevisionForReview(s)
  \/ StartReview(s)
  \/ ApproveReview(s)
  \/ RequestReviewChanges(s)
  \/ RecommendReviewRejection(s)

ResolutionStep(s, r) == ConfirmReviewRejection(s, r) \/ ReturnRejectedReviewForChanges(s, r)

GateStep(s, r) ==
  \/ \E outcome \in Outcomes : RecordCopyrightObservation(s, r, outcome)
  \/ ReopenCopyrightCheck(s, r)
  \/ RightsExpire(s, r)

PublicationStep(u) ==
  \/ \E kind \in {"publish", "bulk"}, ids \in SUBSET Submissions, reason \in BOOLEAN :
       AskToPublish(u, kind, ids, reason)
  \/ \E s \in Submissions : LoadPublicationInput(u, s)
  \/ Publish(u)

Next ==
  \/ \E s \in Submissions :
       \/ ProducerStep(s)
       \/ ReviewStep(s)
       \/ \E r \in Revisions : ResolutionStep(s, r) \/ GateStep(s, r)
       \/ SetTaxonomyTermState(s)
       \/ Admins # {} /\ WithdrawPublishedTrack(s)
  \/ \E u \in Users : PublicationStep(u)

Spec == Init /\ [][Next]_vars
-----------------------------------------------------------------------------
(* Properties.                                                              *)

RevisionStatuses == {"absent", "draft", "submitted", "superseded", "accepted", "rejected"}

Promise == INSTANCE SubmissionPromise

\* Every variable has its type.
TypeOK ==
  /\ status \in [Submissions -> Promise!Statuses]
  /\ current \in [Submissions -> 0 .. MaxRevision]
  /\ revisionStatus \in [Submissions -> [Revisions -> RevisionStatuses]]
  /\ decision \in [Submissions ->
       [Revisions -> {"none", "approve", "request_changes", "recommend_reject"}]]
  /\ resolution \in [Submissions -> [Revisions -> {"none", "confirm_reject", "return_for_changes"}]]
  /\ openRequests \in [Submissions -> SUBSET Revisions]
  /\ resolvedBy \in [Submissions -> [Revisions -> 0 .. MaxRevision]]
  /\ check \in [Submissions -> [Revisions -> {"absent", "pending"} \cup Outcomes]]
  /\ rights \in [Submissions -> [Revisions -> {"absent", "expired"} \cup Bases]]
  /\ termsComplete \in [Submissions -> BOOLEAN]
  /\ publication \in [Submissions -> Promise!PublicationStatuses]
  /\ publishedRevision \in [Submissions -> 0 .. MaxRevision]
  /\ request \in [Users ->
       [kind : {"none", "publish", "bulk"}, ids : SUBSET Submissions, reason : BOOLEAN,
        unread : SUBSET Submissions, admitted : SUBSET Submissions, moved : SUBSET Submissions]]

\* What the library shows or has shown is the current Revision of an approved
\* submission, accepted by an approval of that very Revision: no upload, resolution or
\* late request comes between the approval and the publication, or after it.
PublicationRestsOnApproval ==
  \A s \in Submissions : publication[s] # "unpublished" =>
    /\ status[s] = "approved"
    /\ publishedRevision[s] = current[s]
    /\ decision[s][current[s]] = "approve"
    /\ revisionStatus[s][current[s]] = "accepted"

\* The producer is asked for changes exactly while one change request is open, and it
\* is about a Revision that a reviewer or an admin sent back.
ChangeRequestsMatchStatus ==
  \A s \in Submissions :
    /\ status[s] = "changes_requested" => openRequests[s] # {}
    /\ \A r \in openRequests[s] :
         /\ status[s] = "changes_requested"
         /\ openRequests[s] = {r}
         /\ decision[s][r] = "request_changes" \/ resolution[s][r] = "return_for_changes"

\* At most one Revision stands as submitted, accepted or rejected, whatever drafts were
\* left behind, and except while a replacement is being uploaded it is the current one.
OneRevisionStands ==
  \A s \in Submissions : \A r \in Revisions :
    revisionStatus[s][r] \in {"submitted", "accepted", "rejected"} =>
      IF status[s] = "changes_requested"
      THEN \A q \in Revisions : q # r => revisionStatus[s][q] \in {"absent", "draft", "superseded"}
      ELSE r = current[s]

\* The append-only decisions and the Revisions agree: a Revision is accepted if and only
\* if it was approved and rejected if and only if an admin confirmed a recommendation,
\* and the submission ends the same way.
RevisionsCarryTheirOutcome ==
  \A s \in Submissions : \A r \in Revisions :
    /\ revisionStatus[s][r] = "accepted" <=> decision[s][r] = "approve"
    /\ revisionStatus[s][r] = "rejected" <=> resolution[s][r] = "confirm_reject"
    /\ resolution[s][r] # "none" => decision[s][r] = "recommend_reject"
    /\ decision[s][r] = "approve" => status[s] = "approved"
    /\ resolution[s][r] = "confirm_reject" => status[s] = "rejected"

\* What a page lists is still what it takes it for: a submission under review can be
\* decided, one that can be published was approved as it is, and the change request shown
\* to a producer who has been asked for changes is the open one.
ListsShowWhatWaits ==
  \A s \in Submissions :
    /\ s \in ReviewQueue =>
         /\ revisionStatus[s][current[s]] = "submitted"
         /\ status[s] = "in_review" => decision[s][current[s]] = "none"
    /\ s \in ApprovedForPublication =>
         revisionStatus[s][current[s]] = "accepted" /\ decision[s][current[s]] = "approve"
    /\ status[s] = "changes_requested" => ShownRequests(s) = openRequests[s]

\* docs/submission-lifecycle.md: `recommend_reject` -> `rejection_recommended`, which is
\* pending rather than final.  Admin resolves it.
RecommendationsCanBeResolved ==
  \A s \in Submissions :
    status[s] = "rejection_recommended" => OfferedResolutions(s) = {current[s]}

\* docs/publication-governance.md: what blocks the publication of a Track.
Blocked(s) ==
  \/ ~termsComplete[s]
  \/ rights[s][current[s]] # "known"
  \/ CopyrightStageEnabled /\ check[s][current[s]] # "clear"

\* A Track becomes public only by a request of the review team that found nothing in
\* its way: whatever blocks it at that moment came up after the request had read the
\* gate.  A withdrawn Track comes back only by an admin.
PublicationIsGoverned ==
  [][\A s \in Submissions : publication[s] # "published" /\ publication'[s] = "published" =>
       \E u \in Users :
         /\ s \in request[u].ids
         /\ Blocked(s) => s \in request[u].moved
         /\ publication[s] = "withdrawn" => u \in Admins /\ request[u].reason]_vars

\* The statuses the repositories write follow the transition map, which none of them
\* consults, and the publication axis, which nothing in the code states.
ImplementsSubmissionPromise == Promise!Spec
=============================================================================
