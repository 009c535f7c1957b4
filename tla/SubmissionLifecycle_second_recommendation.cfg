\* One submission, recommended for rejection twice.
SPECIFICATION Spec
CONSTANTS
  Submissions = {song}
  Admins = {ada}
  Coordinators = {}
  CopyrightStageEnabled = FALSE
  MaxRevision = 2
INVARIANT RecommendationsCanBeResolved
