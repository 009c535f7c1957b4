\* One admin, one coordinator; one required field, term and check; the coordinator accepts suggestions.
SPECIFICATION Spec
CONSTANTS
  Admins = {admin}
  Coordinators = {carl}
  Nobody = Nobody
  Fields = {title}
  RequiredFields = {title}
  Terms = {trailer}
  Checks = {stems}
  Inapplicable = {stems}
  Sources = {"ai", "coordinator"}
  NoField = NoField
  Accepters = {carl}
  MaxVersion = 6
INVARIANTS
  TypeOK
  VersionIdentifiesContent
  ReadyIsComplete
  OutcomeMatchesDecision
  PacketStands
PROPERTIES
  StaleBrowserIsRefused
  CoordinatorValuesStand
