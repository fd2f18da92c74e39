CONSTANTS
  c1 = c1
  p1 = p1
  p2 = p2
  p3 = p3
  Null = Null
  Calls = {c1}
  Payloads = {p1, p2, p3}
  Amounts = {1}
  MaxAmount = 1
  DailyLimit = 1
  LastDay = 2
  MaxBooked = 12
  MaxFaults = 0
  Ops = {"build", "release"}
  ByHash = FALSE
  ReleaseTargets = {"expired"}
SPECIFICATION Spec
CHECK_DEADLOCK FALSE
SYMMETRY PayloadSymmetry
PROPERTIES
  DailyLimitHolds
