--------------------------- MODULE SubmissionPromise ---------------------------
(***************************************************************************)
(* What a submission and its Track promise to everyone who shows them: the *)
(* transition map of src/lib/domain/submissions/lifecycle.ts, which the    *)
(* repositories that change a submission do not consult, and the           *)
(* publication axis of docs/submission-lifecycle.md.  Publication moves    *)
(* only while the submission is approved, and approval is final.           *)
(***************************************************************************)
CONSTANT Submissions

VARIABLES
  status,      \* workflow.submission.status, "absent" before the upload
  publication  \* catalog.track.publication_status

\* SUBMISSION_TRANSITIONS
Transitions ==
  [absent |-> {"draft"},
   draft |-> {"submitted"},
   submitted |-> {"processing"},
   processing |-> {"ready_for_review"},
   ready_for_review |-> {"in_review"},
   in_review |-> {"approved", "changes_requested", "rejection_recommended"},
   changes_requested |-> {"submitted"},
   rejection_recommended |-> {"rejected", "changes_requested"},
   approved |-> {},
   rejected |-> {}]

Statuses == DOMAIN Transitions

\* unpublished -> published -> withdrawn -> published
PublicationMoves ==
  [unpublished |-> {"published"}, published |-> {"withdrawn"}, withdrawn |-> {"published"}]

PublicationStatuses == DOMAIN PublicationMoves

Init ==
  /\ status = [s \in Submissions |-> "absent"]
  /\ publication = [s \in Submissions |-> "unpublished"]

Transition(s) ==
  /\ \E next \in Transitions[status[s]] : status' = [status EXCEPT ![s] = next]
  /\ UNCHANGED publication

\* One or, in bulk, several approved Tracks change together.
MovePublication(S) ==
  /\ \A s \in S : status[s] = "approved"
  /\ \E move \in {"published", "withdrawn"} :
       /\ \A s \in S : move \in PublicationMoves[publication[s]]
       /\ publication' = [s \in Submissions |-> IF s \in S THEN move ELSE publication[s]]
  /\ UNCHANGED status

Next ==
  \/ \E s \in Submissions : Transition(s)
  \/ \E S \in SUBSET Submissions : MovePublication(S)

Spec == Init /\ [][Next]_<<status, publication>>
=============================================================================
