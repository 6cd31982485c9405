SPECIFICATION Spec
CONSTANTS
  None = None
  Absent = Absent
  Malformed = Malformed
  Origins = {"manual"}
  Fallbacks = {FALSE}
  HistoryLimit = 2
  MaxAttempts = 2
  MaxReloads = 0
  MaxResets = 1
  EarlyRequests = FALSE
  Unreadable = FALSE
PROPERTIES
  SleptOnlyIfDispatched
CHECK_DEADLOCK FALSE
