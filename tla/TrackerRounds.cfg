SPECIFICATION Spec
CONSTANTS
  t1 = t1
  t2 = t2
  key = key
  badkey = badkey
  project = project
  loop1 = loop1
  loop2 = loop2
  stop1 = stop1
  stop2 = stop2
  Nobody = Nobody
  Times <- TwoTimes
  Keys <- BothKeys
  BadKeys <- OneBadKey
  Projects <- OneProject
  Loops <- TwoLoops
  Stoppers <- OneStop
  Transport = "local"
  Doubtful = TRUE
  MaxRecorded = 2
  MaxFailures = 1
INVARIANTS TrackerInv EveryUnitAccounted
PROPERTIES StopWaits SyncedAsLedger
CHECK_DEADLOCK FALSE
