SPECIFICATION HelperSpec
CONSTANTS
  Helpers = {h1, h2}
  Policies = {p1, p2}
  Foreign = Foreign
  Partial = Partial
  Absent = Absent
  None = None
  MaxFaults = 2
  MaxEdits = 2
INVARIANTS
  PolicySurvivesKill
PROPERTIES
  SuccessInPlace
  FailureRestores
  ResetSparesOthers
  ImplementsPolicyStore
CHECK_DEADLOCK FALSE
