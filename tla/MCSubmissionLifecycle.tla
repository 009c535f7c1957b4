------------------------ MODULE MCSubmissionLifecycle ------------------------
(* SubmissionLifecycle on small instances. *)
EXTENDS SubmissionLifecycle, TLC

\* Bound: two submissions side by side have one Revision each.
OneOrShort ==
  \/ \E s \in Submissions : status[s] = "absent"
  \/ \A s \in Submissions : current[s] <= 1

Symmetry == Permutations(Submissions)
=============================================================================
