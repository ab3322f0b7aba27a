SPECIFICATION Spec
CONSTANTS
  c1 = c1
  c2 = c2
  c3 = c3
  s1 = s1
  Absent = Absent
  Clients <- ThreeClients
  Servers = {}
  Limits <- SmallLimit
  Costs = {1, 2}
  Faults <- Safe
  InitialUsage = 0
  Resends = 1
  MaxSpends = 4
SYMMETRY ClientSymmetry
INVARIANTS NothingWasted EventsOnce BilledIsSold
