SPECIFICATION FairSpec
CONSTANTS
  Calls = {c1, c2}
  Ids = {s1, s2}
  None = None
  MaxSessions = 1
  HasTtl = TRUE
PROPERTIES RemovedShellEnds DeadSessionClosed MapLockReleased
