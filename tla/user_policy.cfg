SPECIFICATION FairSpec
CONSTANTS
  Settings = {Default, Other}
  Default = Default
  MaxRevision = 3
  None = None
  Missing = Missing
  Malformed = Malformed
  Garbled = Garbled
INVARIANTS
  TypeOK
  SnapshotIsDurable
PROPERTIES
  SaveBuildsOnSeen
  SettlesOnFile
