SPECIFICATION FairSpec
CONSTANTS
  Kinds = {"ssh", "local", "docker"}
  WriteCap = 4
  ReadCap = 1
  Window = 2
  MaxLines = 6
  MaxChunks = 3
INVARIANTS NothingLost NoStandoff
PROPERTIES CallReturns ThreadEnds
CHECK_DEADLOCK FALSE
