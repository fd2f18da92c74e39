CONSTANTS
  a1 = a1
  a2 = a2
  a3 = a3
  i1 = i1
  i2 = i2
  Admins = {a1, a2, a3}
  Creators = {a1, a2}
  Repairers = {a3}
  Ids = {i1, i2}
  MaxFaults = 3
  NoFile = NoFile
  NoId = NoId
SPECIFICATION FairSpec
INVARIANTS
  TypeOK
  ConfiguredHasItsSeed
  AtMostOneSeed
  OutcomesAreTrue
PROPERTIES
  NothingIsUndone
  ClearsOnlyWithoutSeed
  MarkersAreReconciled
