SPECIFICATION FairSpec
CONSTANTS
  Helpers = {h1}
  Policies = {p1, p2}
  Foreign = Foreign
  Absent = Absent
  None = None
  Overrides = {None, p2}
  Off = Off
  Started = Started
  Launching = Launching
PROPERTIES
  ReportIsOfSubmission
  ReadbackSettles
