\* One submission through its Revisions, decisions, publication and withdrawal; two
\* Tracks published in bulk while their gates move.
SPECIFICATION Spec
CONSTANTS
  Submissions = {song, theme}
  Admins = {ada}
  Coordinators = {}
  CopyrightStageEnabled = TRUE
  MaxRevision = 3
INVARIANTS
  ListsShowWhatWaits
  ChangeRequestsMatchStatus
  OneRevisionStands
  RevisionsCarryTheirOutcome
  PublicationRestsOnApproval
PROPERTIES
  PublicationIsGoverned
  ImplementsSubmissionPromise
CONSTRAINT OneOrShort
SYMMETRY Symmetry
