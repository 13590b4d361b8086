SPECIFICATION SuiteSpec
CONSTANTS
  FieldKeys = {k1}
  FieldValues = {v1, v2}
  Sources = {s1}
  Writers = {w1}
  Requests = {r1, r2}
  Editors = {e1}
  MaxTime = 2
  NoOp = NoOp
  None = None
  Builds = {b1}
  Owners = {o1}
  Groups <- BrainGroups
  Objective = "objectives"
  Directive = "directive"
  SourceRequired = {"objectives"}
  References <- OneUrl
  HasGenerator = TRUE
  MaxSources = 2
  MaxWrites = 2
INVARIANTS BrandBacked VersionsHonest RequiredFieldsAreSourced
PROPERTIES OwnerFirst ReadsEnd
CHECK_DEADLOCK FALSE
