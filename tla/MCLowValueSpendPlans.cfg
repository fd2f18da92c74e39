CONSTANTS
  c1 = c1
  c2 = c2
  p1 = p1
  p2 = p2
  Null = Null
  Calls = {c1, c2}
  Payloads = {p1, p2}
  Amounts = {1, 2}
  MaxAmount = 2
  DailyLimit = 3
  LastDay = 2
  MaxBooked = 12
  MaxFaults = 2
  MaxSigned = 2
  Ops = {"build", "drain", "retry", "release", "status", "forget", "enable", "disable", "pause"}
  ByHash = TRUE
  ReleaseTargets = {"expired", "failed"}
SPECIFICATION PlanSpec
SYMMETRY PlanSymmetry
CHECK_DEADLOCK FALSE
INVARIANTS
  BooksAddUp
  StatusIsWarranted
PROPERTIES
  LimitHoldsOneByOne
  EntryFollowsChain
