SPECIFICATION Spec
CONSTANTS
  c1 = c1
  c2 = c2
  c3 = c3
  s1 = s1
  Absent = Absent
  Clients <- TwoClients
  Servers = {}
  Limits <- TinyLimit
  Costs = {1}
  Faults <- Safe
  InitialUsage = 0
  Resends = 1
  MaxSpends = 2
PROPERTY RefusalReportsUsage
