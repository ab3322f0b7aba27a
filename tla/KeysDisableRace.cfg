SPECIFICATION SystemSpec
CONSTANTS
  k1 = k1
  k2 = k2
  k3 = k3
  p1 = p1
  p2 = p2
  f1 = f1
  f2 = f2
  c1 = c1
  c2 = c2
  Keys = {k1, k2, k3}
  Projects = {p1, p2}
  ProjectOf <- OneProjectsKeys
  Settings = {"set", "reset"}
  Missing = Missing
  Handlers = {h1, h2}
  Invalid = "invalid"
  Faults = {}
  InitialKeys <- TwoKeys
  MaxCalls = 3
  Fetchers = {f1, f2}
  ClientOf <- TwoClients
  LruClients = {c1}
  Nameless = Nameless
  Plans = {"old", "new"}
  InitialPlans <- OldPlan
  Unread = Unread
  None = None
  Interests <- Asked
  CacheFaults = {"redis", "rpc"}
  RedisTTL = 2
  MemoryTTL = 1
  MaxFetch = 1
  Scenarios <- OperationsAlone
PROPERTY ActiveKeyKept
CHECK_DEADLOCK FALSE
