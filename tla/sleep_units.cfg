SPECIFICATION FairSpec
CONSTANTS
  Overlap = FALSE
INVARIANTS
  TypeOK
  KeptAway
  MaskGoesWithService
PROPERTIES
  DriverAccountedFor
  WifiReturns
