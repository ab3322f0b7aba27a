SPECIFICATION FairSpec
CONSTANTS
  c1 = c1
  c2 = c2
  c3 = c3
  s1 = s1
  Absent = Absent
  Clients = {c1}
  Servers = {s1}
  Limits <- TinyLimit
  Costs = {1}
  Faults <- Everything
  InitialUsage = 0
  Resends = 2
  MaxSpends = 2
INVARIANTS TypeOK MarkExpires
PROPERTIES RequestsReturn MarkClears
