\* A coordinator alone, and a field whose producer value he confirmed.
SPECIFICATION Spec
CONSTANTS
  Admins = {}
  Coordinators = {carl}
  Nobody = Nobody
  Fields = {title}
  RequiredFields = {}
  Terms = {}
  Checks = {}
  Inapplicable = {}
  Sources = {"producer", "ai", "coordinator"}
  NoField = NoField
  Accepters = {carl}
  MaxVersion = 6
PROPERTIES
  DecidedFieldsAreLeftAlone
