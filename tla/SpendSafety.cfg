SPECIFICATION Spec
CONSTANTS
  c1 = c1
  c2 = c2
  c3 = c3
  s1 = s1
  Absent = Absent
  Clients <- TwoClients
  Servers = {s1}
  Limits <- TwoLimits
  Costs = {1, 2}
  Faults <- Failing
  InitialUsage = 2
  Resends = 1
  MaxSpends = 3
SYMMETRY ClientSymmetry
INVARIANTS KeptInv NoUnitSoldTwice HardLimit
PROPERTIES CounterNeverFalls RefusedOnlyWhenFull AcceptedIsCharged SoldAsOneBudget
