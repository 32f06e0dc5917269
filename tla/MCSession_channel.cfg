SPECIFICATION FairSpec
CONSTANTS
  Modes = {"local", "manual", "auto"}
  MaxTokens = 11
INVARIANTS InSync OwnFrame NoStrayFiles SnapshotsExist
PROPERTIES ImplementsChannel CallAdvances CallReturns
CHECK_DEADLOCK FALSE
