SPECIFICATION MCSpec
CONSTANTS
  Servers = {sv1, sv2}
  RetentionDays = 1
  DaySeconds = 2
  MaxU64 = 15
  MaxRuns = 2
  MaxSessions = 1
  MaxLines = 3
  MaxDay = 2
  Starts = {t1, t2, t3}
  Posters = {p1, p2}
  Bodies <- McBodies
  MaxStateBytes = 3
SYMMETRY McSymmetry
INVARIANTS ViewExact RestartsKeepUrl StateSaved
PROPERTIES NothingRecentSwept
CHECK_DEADLOCK FALSE
