SPECIFICATION Spec
CONSTANTS
  t1 = t1
  t2 = t2
  key = key
  badkey = badkey
  project = project
  loop1 = loop1
  loop2 = loop2
  stop1 = stop1
  stop2 = stop2
  Nobody = Nobody
  Times <- OneTime
  Keys <- GoodKey
  BadKeys = {}
  Projects <- OneProject
  Loops <- OneLoop
  Stoppers = {}
  Transport = "rpc"
  Doubtful = FALSE
  MaxRecorded = 1
  MaxFailures = 1
INVARIANT NoUsageLost
