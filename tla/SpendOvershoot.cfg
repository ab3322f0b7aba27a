SPECIFICATION Spec
CONSTANTS
  c1 = c1
  c2 = c2
  c3 = c3
  s1 = s1
  Absent = Absent
  Clients = {c1}
  Servers = {}
  Limits <- TinyLimit
  Costs = {1}
  Faults <- Expiring
  InitialUsage = 0
  Resends = 1
  MaxSpends = 2
INVARIANT HardLimit
