SPECIFICATION PipelineSpec
CONSTANTS
  p1 = p1
  p2 = p2
  p3 = p3
  k1 = k1
  k2 = k2
  k3 = k3
  bad = bad
  u1 = u1
  r1 = r1
  r2 = r2
  Requests = {r1, r2}
  Projects = {p1, p2, p3}
  Keys = {k1, k2, k3, bad}
  Users = {u1}
  Subjects <- OneUser
  Top = 2
  PermTTL = 2
  MaxCheck = 1
  PermFaults = {"redis", "rpc", "store"}
  ProjectOf <- KeyProjects
  BadKeys = {bad}
  ChainsOf <- Restricted
  LimitOf <- SmallLimits
  RateOf <- Rates
  DefaultUsage = 1
  InitialUsage = 1
  Deployments <- SomeDeployments
  Failures = {"quota", "usage", "resend"}
  Resends = 1
  None = None
SYMMETRY RequestSymmetry
INVARIANTS PipelineTypeOK PermissionFresh ServedIsCharged RefusedNotBilled OwnProject PermissionHonoured
PROPERTY CutOnlyByOthers
CHECK_DEADLOCK FALSE
