SPECIFICATION MCSpec
CONSTANTS
  Clients = {t1, t2, c1}
  Threads = {t1, t2}
  Requests <- McRequests
  Configs <- McConfigs
  UsableKeys <- McKeys
  Fingerprints = {"k1", "k2"}
  MaxConnects = 3
INVARIANTS TrustOnFirstUse Exclusive LookupExact
CHECK_DEADLOCK FALSE
