SPECIFICATION Spec
CONSTANTS
  None = None
  Absent = Absent
  Malformed = Malformed
  Origins = {"manual"}
  Fallbacks = {TRUE, FALSE}
  HistoryLimit = 2
  MaxAttempts = 2
  MaxReloads = 1
  MaxResets = 0
  EarlyRequests = FALSE
  Unreadable = FALSE
INVARIANTS
  RequestAtMostOnce
  HistoriesCloseOnce
PROPERTIES
  RequestOnlyWhileArmed
  EvidenceEndsOwnAttempt
  SleptOnlyIfDispatched
CHECK_DEADLOCK FALSE
