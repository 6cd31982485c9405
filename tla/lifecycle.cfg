SPECIFICATION LifecycleSpec
CONSTANTS
  None = None
  r1 = r1
  r2 = r2
  Releases = {r1, r2}
  Speaks <- MCSpeaks
  Wants <- MCWants
  Worlds <- MCWorlds
  MaxFaults = 3
  MaxEdits = 2
PROPERTIES
  RestoresActivation
  CheckoutMovesWhileOff
  AcceptedIsWhole
  UninstallIsComplete
  ReadyIffEnabled
  RerunIsAccepted
CHECK_DEADLOCK FALSE
