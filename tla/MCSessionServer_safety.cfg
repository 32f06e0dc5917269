SPECIFICATION Spec
CONSTANTS
  Calls = {c1, c2, c3}
  Ids = {s1, s2}
  None = None
  MaxSessions = 1
  HasTtl = TRUE
SYMMETRY Symmetry
INVARIANTS LiveAccounting CapRespected ClosedOnce NoUseAfterDrop
PROPERTIES ReaperAdvances
