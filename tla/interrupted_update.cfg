SPECIFICATION LifecycleSpec
CONSTANTS
  None = None
  r1 = r1
  r2 = r2
  Releases = {r1, r2}
  Speaks <- MCSpeaks
  Wants <- MCWants
  Worlds <- MCWorlds
  MaxFaults = 1
  MaxEdits = 0
PROPERTIES
  LeftoverBuildIsHarmless
CHECK_DEADLOCK FALSE
