SPECIFICATION Spec
CONSTANTS
  Files <- McFiles
  Texts = {"x", "y"}
  Scopes <- McScopes
  Commands <- McCommands
  MaxCommits = 2
PROPERTIES BaselineKept ImplementsSnapshots
CHECK_DEADLOCK FALSE
