SPECIFICATION Spec
CONSTANTS
  Files <- McFiles
  Texts = {"x", "y"}
  Scopes <- McEmpty
  Commands <- McCommands
  MaxCommits = 2
INVARIANT BaselineRestorable
CHECK_DEADLOCK FALSE
