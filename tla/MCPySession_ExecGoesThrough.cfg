SPECIFICATION FairSpec
CONSTANTS
  Clients = {t1, t2}
  Threads = {t1, t2}
  Requests <- McRequests
  Configs <- McOneConfig
  UsableKeys <- McKeys
  Fingerprints = {"k1"}
  MaxConnects = 1
PROPERTY ExecGoesThrough
CHECK_DEADLOCK FALSE
