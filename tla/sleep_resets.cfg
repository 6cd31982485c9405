SPECIFICATION FairSpec
CONSTANTS
  None = None
  Absent = Absent
  Malformed = Malformed
  Origins = {"manual"}
  Fallbacks = {FALSE}
  HistoryLimit = 1
  MaxAttempts = 2
  MaxReloads = 1
  MaxResets = 1
  EarlyRequests = FALSE
  Unreadable = FALSE
INVARIANTS
  OpenSlotAccountedFor
PROPERTIES
  DurableOpenIsClosed
  SingleFlightSpec
  EveryAttemptEnds
CHECK_DEADLOCK FALSE
