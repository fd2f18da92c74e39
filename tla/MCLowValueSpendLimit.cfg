CONSTANTS
  c1 = c1
  c2 = c2
  p1 = p1
  p2 = p2
  p3 = p3
  Null = Null
  Calls = {c1, c2}
  Payloads = {p1, p2, p3}
  Amounts = {1}
  MaxAmount = 1
  DailyLimit = 2
  LastDay = 1
  MaxBooked = 12
  MaxFaults = 0
  Ops = {"build"}
  ByHash = FALSE
  ReleaseTargets = {"expired"}
SPECIFICATION Spec
CHECK_DEADLOCK FALSE
PROPERTIES
  DailyLimitHolds
