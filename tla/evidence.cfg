SPECIFICATION FairSpec
CONSTANTS
  None = None
  a1 = a1
  a2 = a2
  suspend = suspend
  staged = staged
  Submissions <- MCSubmissions
  Units <- MCUnits
  UnitOf <- MCUnitOf
  MaxJobs = 2
  MaxSleeps = 2
PROPERTIES
  CompletedIsWitnessed
  ImplementsContract
  EveryHeldAttemptEnds
CHECK_DEADLOCK FALSE
