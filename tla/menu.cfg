SPECIFICATION MenuSpec
CONSTANTS
  Nothing = Nothing
  theirs = theirs
  Foreign = {theirs}
  Texts <- MCTexts
  Edits <- MCEdits
  MaxTokens = 6
  MaxVersions = 4
INVARIANTS
  RewriteIsExact
PROPERTIES
  OwnerEditsKept
CHECK_DEADLOCK FALSE
